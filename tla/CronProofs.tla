------------------------------ MODULE CronProofs ------------------------------
(***************************************************************************)
(* The retention of a cron backup, and its last-day schedule, for every    *)
(* number of backups to keep, every calendar and every scenario.           *)
(***************************************************************************)
EXTENDS MCCron, FiniteSetTheorems, TLAPS

-----------------------------------------------------------------------------
(***************************************************************************)
(* Numbers and finite sets.                                                *)
(***************************************************************************)

\* A set of natural numbers that is not empty has a least one.
LEMMA LeastNatural ==
    ASSUME NEW S \in SUBSET Nat, S # {}
    PROVE  \E x \in S : \A y \in S : x <= y
<1> DEFINE R == OpToRel(<, Nat)
<1>1. IsWellFoundedOn(R, Nat)
  BY NatLessThanWellFounded
<1>2. \A x, y \in Nat : y < x => <<y, x>> \in R
  BY DEF OpToRel
<1> HIDE DEF R
<1>3. PICK x \in S : \A y \in S : <<y, x>> \notin R
  BY <1>1, WFMin
<1>4. \A y \in S : ~(y < x)
  BY <1>2, <1>3
<1> QED
  BY <1>4

\* A part of a finite set has no more elements.
LEMMA PartIsSmaller ==
    ASSUME NEW T, IsFiniteSet(T), NEW S \in SUBSET T, NEW k \in Nat, Cardinality(S) >= k
    PROVE  Cardinality(T) >= k
<1>1. IsFiniteSet(S) /\ Cardinality(S) <= Cardinality(T)
  BY FS_Subset
<1>2. Cardinality(S) \in Nat /\ Cardinality(T) \in Nat
  BY <1>1, FS_CardinalityType
<1> QED
  BY <1>1, <1>2

-----------------------------------------------------------------------------
(***************************************************************************)
(* The calendar.                                                           *)
(***************************************************************************)

\* x is a date of month m, or the end of the calendar, which stands for a month
\* after the last one.
InMonth(m, x) ==
    \/ m \in Months /\ \E d \in 1..Days[m] : x = Date(m, d)
    \/ m = Len(Days) + 1 /\ x = NoDate

\* The next run is not behind, and up to the month before the one in which it is
\* due no two months in a row were left out.
CalendarInvariant ==
    /\ month \in Months /\ day \in 1..Days[month]
    /\ Today <= next
    /\ \E m \in month..(Len(Days) + 1) :
         /\ InMonth(m, next)
         /\ \A k \in 2..(m - 2) : RunIn(k) \/ RunIn(k + 1)

LEMMA DaysOfMonth ==
    /\ Len(Days) \in Nat /\ Len(Days) >= 1
    /\ \A m \in Months : Days[m] \in 28..31
    /\ \A m \in Months : m + 1 \in Months => Days[m] = 31 \/ Days[m + 1] = 31
<1>1. Len(Days) \in Nat /\ Len(Days) >= 1
  BY CalendarAssumption
<1>2. \A m \in Months : Days[m] \in 28..31
  BY CalendarAssumption DEF Months
<1>3. ASSUME NEW m \in Months, m + 1 \in Months
      PROVE  Days[m] = 31 \/ Days[m + 1] = 31
  <2>1. m \in 1..(Len(Days) - 1)
    BY <1>1, <1>3 DEF Months
  <2> QED
    BY <2>1, CalendarAssumption
<1> QED
  BY <1>1, <1>2, <1>3

\* The cron library finds the last day of this month again in this month or in one
\* of the next two, unless the calendar ends before.
LEMMA AfterIsNear ==
    ASSUME month \in Months, day \in 1..Days[month]
    PROVE  /\ After(Days[month]) > Today
           /\ \E m \in month..(month + 2) : m <= Len(Days) + 1 /\ InMonth(m, After(Days[month]))
<1> DEFINE d == Days[month]
           Dates == {Date(m, d) : m \in {n \in Months : d <= Days[n]}}
           Later == {x \in Dates : x > Today}
<1>1. /\ month \in 1..Len(Days) /\ Len(Days) \in Nat
      /\ d \in 28..31 /\ day \in 1..31 /\ Today = 32 * month + day
  BY DaysOfMonth DEF Months, Today, Date
<1>2. ASSUME month + 2 \in Months
      PROVE  \E y \in Later : y <= 32 * (month + 2) + d
  <2>1. month + 1 \in Months
    BY <1>1, <1>2 DEF Months
  <2>2. Days[month + 1] = 31 \/ Days[month + 2] = 31
    <3>1. month + 1 + 1 = month + 2
      BY <1>1
    <3> QED
      BY <2>1, <1>2, <3>1, DaysOfMonth
  <2>3. CASE Days[month + 1] = 31
    <3>1. Date(month + 1, d) \in Dates
      BY <2>1, <2>3, <1>1
    <3>2. Date(month + 1, d) > Today /\ Date(month + 1, d) <= 32 * (month + 2) + d
      BY <1>1 DEF Date
    <3> QED
      BY <3>1, <3>2
  <2>4. CASE Days[month + 2] = 31
    <3>1. Date(month + 2, d) \in Dates
      BY <1>2, <2>4, <1>1
    <3>2. Date(month + 2, d) > Today /\ Date(month + 2, d) <= 32 * (month + 2) + d
      BY <1>1 DEF Date
    <3> QED
      BY <3>1, <3>2
  <2> QED
    BY <2>2, <2>3, <2>4
<1>3. CASE Later = {}
  <2>1. After(d) = NoDate
    BY <1>3 DEF After
  <2>2. month + 2 \notin Months
    BY <1>2, <1>3
  <2>3. Len(Days) + 1 \in month..(month + 2)
    BY <2>2, <1>1 DEF Months
  <2>4. NoDate > Today
    BY <1>1 DEF NoDate, Date
  <2> QED
    BY <2>1, <2>3, <2>4, <1>1 DEF InMonth
<1>4. CASE Later # {}
  <2>1. Later \in SUBSET Nat
    <3>1. ASSUME NEW m \in Months PROVE Date(m, d) \in Nat
      BY <1>1 DEF Date, Months
    <3> QED
      BY <3>1
  <2>2. \E x \in Later : \A y \in Later : x <= y
    <3> HIDE DEF Later
    <3> QED
      BY <2>1, <1>4, LeastNatural
  <2>3. After(d) \in Later /\ \A y \in Later : After(d) <= y
    <3>1. After(d) = CHOOSE x \in Later : \A y \in Later : x <= y
      BY <1>4 DEF After
    <3> HIDE DEF Later
    <3> QED
      BY <3>1, <2>2
  <2>4. PICK m \in Months : d <= Days[m] /\ After(d) = Date(m, d)
    BY <2>3
  <2>5. After(d) > Today /\ After(d) = 32 * m + d /\ m \in 1..Len(Days)
    BY <2>3, <2>4 DEF Date, Months
  <2>6. m >= month
    BY <2>5, <1>1
  <2>7. m <= month + 2
    <3>1. SUFFICES ASSUME m > month + 2 PROVE FALSE
      BY <2>5, <1>1
    <3>2. month + 2 \in Months
      BY <3>1, <2>5, <1>1 DEF Months
    <3>3. PICK y \in Later : y <= 32 * (month + 2) + d
      BY <3>2, <1>2
    <3>4. y \in Nat /\ After(d) <= y
      BY <2>1, <2>3
    <3> HIDE DEF Later, Dates, d
    <3> QED
      BY <3>1, <3>3, <3>4, <2>5, <1>1
  <2>8. InMonth(m, After(d))
    <3>1. d \in 1..Days[m]
      BY <2>4, <1>1, DaysOfMonth
    <3> QED
      BY <3>1, <2>4 DEF InMonth
  <2> QED
    BY <2>5, <2>6, <2>7, <2>8, <1>1
<1> QED
  BY <1>3, <1>4

LEMMA CalendarStart == CalendarInit => CalendarInvariant
<1> SUFFICES ASSUME CalendarInit PROVE CalendarInvariant
  OBVIOUS
<1>1. month = 1 /\ month \in Months /\ day \in 1..Days[month] /\ next = After(Days[month])
  BY DaysOfMonth DEF CalendarInit, Months, ParseSchedule
<1>2. PICK m \in month..(month + 2) : m <= Len(Days) + 1 /\ InMonth(m, next)
  BY <1>1, AfterIsNear
<1>3. next > Today
  BY <1>1, AfterIsNear
<1>4. m \in month..(Len(Days) + 1) /\ 2..(m - 2) = {}
  BY <1>1, <1>2, DaysOfMonth
<1>5. Today \in Nat /\ next \in Nat
  BY <1>1, <1>2, DaysOfMonth DEF Today, Date, NoDate, InMonth, Months
<1>6. Today <= next
  BY <1>3, <1>5
<1> QED
  BY <1>1, <1>2, <1>4, <1>6 DEF CalendarInvariant

\* A date lies in its month.
LEMMA DateBounds ==
    ASSUME NEW m \in 1..(Len(Days) + 1), NEW x, InMonth(m, x)
    PROVE  x \in Nat /\ 32 * m + 1 <= x /\ x <= 32 * m + 31
<1>1. CASE m \in Months /\ \E d \in 1..Days[m] : x = Date(m, d)
  <2>1. PICK d \in 1..Days[m] : x = Date(m, d)
    BY <1>1
  <2>2. d \in 1..31 /\ m \in Nat
    BY <1>1, DaysOfMonth DEF Months
  <2> QED
    BY <2>1, <2>2 DEF Date
<1>2. CASE m = Len(Days) + 1 /\ x = NoDate
  BY <1>2, DaysOfMonth DEF NoDate, Date
<1> QED
  BY <1>1, <1>2 DEF InMonth

LEMMA RunKeepsCalendar == CalendarInvariant /\ Run => CalendarInvariant'
<1> SUFFICES ASSUME CalendarInvariant, Run PROVE CalendarInvariant'
  OBVIOUS
<1>1. /\ month \in Months /\ day \in 1..Days[month] /\ month' = month /\ day' = day
      /\ next' = After(Days[month]) /\ runs' = runs \cup {Today} /\ next = Today
  <2>1. month \in Months /\ day \in 1..Days[month] /\ Today <= next /\ next <= Today
    BY DEF CalendarInvariant, Run
  <2>2. PICK m \in month..(Len(Days) + 1) : InMonth(m, next)
    BY DEF CalendarInvariant
  <2>3. m \in 1..(Len(Days) + 1)
    BY <2>1, DaysOfMonth DEF Months
  <2>4. next \in Nat /\ Today \in Nat
    BY <2>1, <2>2, <2>3, DateBounds, DaysOfMonth DEF Today, Date, Months
  <2> QED
    BY <2>1, <2>4 DEF Run, ParseSchedule
<1>2. month \in 1..Len(Days) /\ Len(Days) \in Nat /\ day \in 1..31
  BY <1>1, DaysOfMonth DEF Months
<1>3. PICK m \in month..(Len(Days) + 1) :
        /\ InMonth(m, next)
        /\ \A k \in 2..(m - 2) : RunIn(k) \/ RunIn(k + 1)
  BY DEF CalendarInvariant
<1>4. RunIn(month)'
  BY <1>1 DEF RunIn, Today
<1>5. \A k \in Months : RunIn(k) => RunIn(k)'
  BY <1>1 DEF RunIn
<1>6. PICK n \in month..(month + 2) : n <= Len(Days) + 1 /\ InMonth(n, next')
  BY <1>1, AfterIsNear
<1>7. Today' <= next'
  <2>1. Today' = Today /\ next' > Today
    BY <1>1, AfterIsNear DEF Today
  <2>2. next' \in Nat /\ Today \in Nat
    <3>1. n \in 1..(Len(Days) + 1)
      BY <1>2, <1>6
    <3> QED
      BY <1>2, <1>6, <3>1, DateBounds DEF Today, Date
  <2> QED
    BY <2>1, <2>2
<1>8. ASSUME NEW k \in 2..(n - 2) PROVE RunIn(k)' \/ RunIn(k + 1)'
  <2>1. k <= month
    BY <1>2, <1>6, <1>8
  <2>2. CASE k = month
    BY <1>1, <1>4, <2>2 DEF RunIn
  <2>3. CASE k = month - 1
    <3>1. k + 1 = month
      BY <2>3, <1>2
    <3> QED
      BY <1>1, <1>4, <3>1 DEF RunIn
  <2>4. CASE k <= month - 2
    <3>1. k \in 2..(m - 2) /\ k \in Months /\ k + 1 \in Months
      BY <2>4, <1>2, <1>3, <1>8 DEF Months
    <3> QED
      BY <3>1, <1>3, <1>5
  <2> QED
    BY <2>1, <2>2, <2>3, <2>4, <1>2
<1>9. n \in month'..(Len(Days) + 1) /\ InMonth(n, next)'
  BY <1>1, <1>2, <1>6 DEF InMonth
<1> QED
  BY <1>1, <1>7, <1>8, <1>9 DEF CalendarInvariant

LEMMA NextDayKeepsCalendar == CalendarInvariant /\ NextDay => CalendarInvariant'
<1> SUFFICES ASSUME CalendarInvariant, NextDay PROVE CalendarInvariant'
  OBVIOUS
<1>1. /\ month \in Months /\ day \in 1..Days[month]
      /\ next' = next /\ runs' = runs /\ next > Today
  BY DEF CalendarInvariant, NextDay
<1>2. month \in 1..Len(Days) /\ Len(Days) \in Nat /\ day \in 1..31
  BY <1>1, DaysOfMonth DEF Months
<1>3. PICK m \in month..(Len(Days) + 1) :
        /\ InMonth(m, next)
        /\ \A k \in 2..(m - 2) : RunIn(k) \/ RunIn(k + 1)
  BY DEF CalendarInvariant
<1>4. m \in 1..(Len(Days) + 1)
  BY <1>2
<1>5. next \in Nat /\ 32 * m + 1 <= next /\ next <= 32 * m + 31
  BY <1>3, <1>4, DateBounds
<1>6. InMonth(m, next)' /\ \A k \in 2..(m - 2) : RunIn(k)' \/ RunIn(k + 1)'
  BY <1>1, <1>3 DEF InMonth, RunIn
<1>7. CASE day < Days[month]
  <2>1. month' = month /\ day' = day + 1
    BY <1>7 DEF NextDay
  <2>2. day' \in 1..Days[month']
    BY <2>1, <1>1, <1>7, DaysOfMonth
  <2>3. Today' <= next'
    BY <2>1, <1>1, <1>2, <1>5 DEF Today, Date
  <2> QED
    BY <2>1, <2>2, <2>3, <1>1, <1>6 DEF CalendarInvariant
<1>8. CASE ~(day < Days[month])
  <2>1. month < Len(Days) /\ month' = month + 1 /\ day' = 1
    BY <1>8 DEF NextDay
  <2>2. day = Days[month]
    BY <1>1, <1>8, DaysOfMonth
  <2>3. m # month
    <3>1. SUFFICES ASSUME m = month PROVE FALSE
      OBVIOUS
    <3>2. PICK d \in 1..Days[month] : next = Date(month, d)
      BY <3>1, <1>2, <1>3 DEF InMonth
    <3> QED
      BY <3>2, <2>2, <1>1, <1>2, DaysOfMonth DEF Today, Date
  <2>4. month' \in Months /\ m \in month'..(Len(Days) + 1)
    BY <2>1, <2>3, <1>2 DEF Months
  <2>5. day' \in 1..Days[month']
    BY <2>1, <2>4, DaysOfMonth
  <2>6. Today' <= next'
    BY <2>1, <2>4, <1>1, <1>2, <1>5 DEF Today, Date
  <2> QED
    BY <2>4, <2>5, <2>6, <1>6 DEF CalendarInvariant
<1> QED
  BY <1>7, <1>8

LEMMA CalendarStep == CalendarInvariant /\ [CalendarNext]_calendarVars => CalendarInvariant'
<1>1. CalendarInvariant /\ UNCHANGED calendarVars => CalendarInvariant'
  BY DEF calendarVars, CalendarInvariant, InMonth, RunIn, Today
<1> QED
  BY <1>1, RunKeepsCalendar, NextDayKeepsCalendar DEF CalendarNext

LEMMA CalendarLeavesNoTwoOut == CalendarInvariant => NoTwoMonthsLeftOut
<1> SUFFICES ASSUME CalendarInvariant, NEW k \in 2..(month - 2)
             PROVE  RunIn(k) \/ RunIn(k + 1)
  BY DEF NoTwoMonthsLeftOut
<1>1. PICK m \in month..(Len(Days) + 1) : \A i \in 2..(m - 2) : RunIn(i) \/ RunIn(i + 1)
  BY DEF CalendarInvariant
<1>2. k \in 2..(m - 2)
  BY DaysOfMonth DEF CalendarInvariant, Months
<1> QED
  BY <1>1, <1>2

\* The schedule "on the last day of the month" never leaves out two months in a row
\* after the first, in any calendar in which one of two successive months has 31
\* days (ParseSchedule, s.Next).
THEOREM LastDayScheduleRuns == CalendarSpec => []NoTwoMonthsLeftOut
BY CalendarStart, CalendarStep, CalendarLeavesNoTwoOut, PTL DEF CalendarSpec

-----------------------------------------------------------------------------
(***************************************************************************)
(* Types of the cron backup.  A slot that is served has come, so that the  *)
(* time that a one-shot notes is one that the clock has reached.           *)
(***************************************************************************)
Serving == {"create", "object", "cluster", "failed", "record"}

ServesADueSlot == pc \in Serving => mine.copy.next <= now

Copies == [copy : CronObjects, fresh : BOOLEAN, shared : BOOLEAN]

LEMMA Times ==
    /\ MaxTime \in Nat /\ MaxTime >= 1 /\ Never = MaxTime + 2
    /\ RunAt \in 1..Never /\ Never \in 1..Never
    /\ now \in 0..MaxTime => now + 1 \in 1..Never
BY CronAssumption DEF Never, RunAt

LEMMA NextSlotType == now \in 0..MaxTime => NextSlot \in 1..Never
BY Times DEF NextSlot

LEMMA NewCronType == NewCron \in CronObjects /\ NoCopy \in Copies
<1>1. NewCron \in CronObjects
  BY Times DEF NewCron, CronObjects
<1> QED
  BY <1>1, Zenon DEF NoCopy, Copies

LEMMA CronChange ==
    ASSUME NEW c \in CronObjects
    PROVE  /\ c.next \in 1..Never
           /\ \A n \in 1..Never : [c EXCEPT !.next = n] \in CronObjects
           /\ \A t \in 0..MaxTime : [c EXCEPT !.failed = t] \in CronObjects
           /\ \A t \in 0..MaxTime : [c EXCEPT !.success = t] \in CronObjects
           /\ \A b \in BOOLEAN : [c EXCEPT !.disabled = b] \in CronObjects
           /\ \A b \in BOOLEAN : [c EXCEPT !.alive = b] \in CronObjects
BY DEF CronObjects

LEMMA CopyChange ==
    ASSUME NEW m \in Copies
    PROVE  /\ m.copy \in CronObjects /\ m.fresh \in BOOLEAN /\ m.shared \in BOOLEAN
           /\ \A b \in BOOLEAN : [m EXCEPT !.fresh = b] \in Copies
           /\ \A b \in BOOLEAN : [m EXCEPT !.shared = b] \in Copies
           /\ \A n \in 1..Never : [m EXCEPT !.copy.next = n] \in Copies
<1>1. m.copy \in CronObjects /\ m.fresh \in BOOLEAN /\ m.shared \in BOOLEAN
  BY DEF Copies
<1>2. \A b \in BOOLEAN : [m EXCEPT !.fresh = b] \in Copies
  BY DEF Copies
<1>3. \A b \in BOOLEAN : [m EXCEPT !.shared = b] \in Copies
  BY DEF Copies
<1>4. ASSUME NEW n \in 1..Never PROVE [m EXCEPT !.copy.next = n] \in Copies
  <2> DEFINE c == [m.copy EXCEPT !.next = n]
  <2>1. c \in CronObjects
    BY <1>1, CronChange
  <2>2. [m EXCEPT !.copy = c] \in Copies
    <3> HIDE DEF c
    <3> QED
      BY <2>1 DEF Copies
  <2> QED
    BY <2>2
<1> QED
  BY <1>1, <1>2, <1>3, <1>4

\* What UpdateCron does to the store and to the informer's copy keeps the types.
LEMMA UpdateCronTypes ==
    ASSUME TypeOK, NEW c \in CronObjects, UpdateCron(c)
    PROVE  cron' \in CronObjects /\ cronSeen' \in CronObjects /\ cronSynced' \in BOOLEAN
<1>1. cronSeen' \in CronObjects
  BY DEF TypeOK, UpdateCron
<1>2. CASE mine.fresh /\ c # cron
  <2>1. cron' = c /\ cronSynced' = FALSE
    BY <1>2 DEF UpdateCron, Store
  <2> QED
    BY <1>1, <2>1
<1>3. CASE ~(mine.fresh /\ c # cron)
  <2>1. cron' = cron /\ cronSynced' = cronSynced
    BY <1>3 DEF UpdateCron
  <2> QED
    BY <1>1, <2>1 DEF TypeOK
<1> QED
  BY <1>2, <1>3

Phases == {"Running", "BackingUp", "Updating", "UpdateFailed"}
Steps == {"idle", "dispatch", "create", "object", "cluster", "failed", "record", "retain",
          "delete", "clean"}

\* The types, in the groups that an action changes together.
CronOK == cron \in CronObjects /\ cronSeen \in CronObjects /\ cronSynced \in BOOLEAN
MineOK == now \in 0..MaxTime /\ mine \in Copies /\ pc \in Steps /\ ServesADueSlot
ClusterOK ==
    /\ phase \in Phases /\ phaseSeen \in Phases /\ cluSynced \in BOOLEAN /\ cluHeld \in BOOLEAN
    /\ obstacle \in BOOLEAN
BackupsOK ==
    backups \in Seq(BackupObjects) /\ shown \subseteq DOMAIN backups /\ ready \subseteq shown
VictimsOK == victims \subseteq DOMAIN backups
QueueOK == queued \in BOOLEAN /\ timer \in 0..Never
BoundsOK == writes \in 0..given.writes /\ given \in Scenarios

Types == CronOK /\ MineOK /\ ClusterOK /\ BackupsOK /\ VictimsOK /\ QueueOK /\ BoundsOK

LEMMA TypesAreTypeOK == Types <=> TypeOK /\ ServesADueSlot
BY DEF Types, CronOK, MineOK, ClusterOK, BackupsOK, VictimsOK, QueueOK, BoundsOK, TypeOK,
       Copies, Phases, Steps

\* What an action leaves alone keeps its type.
LEMMA Frames ==
    /\ CronOK /\ UNCHANGED <<cron, cronSeen, cronSynced>> => CronOK'
    /\ MineOK /\ UNCHANGED <<now, mine, pc>> => MineOK'
    /\ ClusterOK /\ UNCHANGED cluVars => ClusterOK'
    /\ BackupsOK /\ UNCHANGED bkVars => BackupsOK'
    /\ VictimsOK /\ UNCHANGED bkVars /\ UNCHANGED victims => VictimsOK'
    /\ QueueOK /\ UNCHANGED queueVars => QueueOK'
    /\ BoundsOK /\ UNCHANGED bounds => BoundsOK'
BY DEF CronOK, MineOK, ServesADueSlot, ClusterOK, BackupsOK, VictimsOK, QueueOK, BoundsOK,
       cluVars, bkVars, queueVars, bounds

\* A pass that ends forgets its copy.
LEMMA ReturnTypes == MineOK /\ Return /\ UNCHANGED now => MineOK'
BY NewCronType DEF MineOK, Return, ServesADueSlot, Serving, Steps

LEMMA ReconcileTypes == Types /\ Reconcile => Types'
<1> SUFFICES ASSUME Types, Reconcile PROVE Types'
  OBVIOUS
<1>1. MineOK'
  <2>1. CASE cronSeen.alive /\ ~cronSeen.disabled
    <3>1. pc' = "dispatch" /\ mine' = [copy |-> cronSeen, fresh |-> cronSynced, shared |-> TRUE]
      BY <2>1 DEF Reconcile
    <3>2. mine' \in Copies
      BY <3>1, Zenon DEF Types, CronOK, Copies
    <3> QED
      BY <3>1, <3>2 DEF Types, MineOK, Reconcile, ServesADueSlot, Serving, Steps
  <2>2. CASE ~(cronSeen.alive /\ ~cronSeen.disabled)
    BY <2>2, ReturnTypes DEF Types, Reconcile
  <2> QED
    BY <2>1, <2>2
<1>2. QueueOK'
  <2>1. queued' = FALSE /\ timer' = timer
    BY DEF Reconcile
  <2> QED
    BY <2>1, Zenon DEF Types, QueueOK
<1> QED
  BY <1>1, <1>2, Frames DEF Types, Reconcile

LEMMA FirstScheduleTypes == Types /\ FirstSchedule => Types'
<1> SUFFICES ASSUME Types, FirstSchedule PROVE Types'
  OBVIOUS
<1>1. CronOK'
  <2>1. NextSlot \in 1..Never /\ mine.copy \in CronObjects
    BY NextSlotType, CopyChange DEF Types, MineOK
  <2>2. [mine.copy EXCEPT !.next = NextSlot] \in CronObjects
    BY <2>1, CronChange
  <2> QED
    BY <2>2, UpdateCronTypes, TypesAreTypeOK DEF FirstSchedule, CronOK
<1>2. MineOK'
  BY ReturnTypes DEF Types, FirstSchedule
<1>3. QueueOK'
  <2>1. queued' = (queued \/ Conflict) /\ timer' = timer
    BY DEF FirstSchedule
  <2>2. queued' \in BOOLEAN
    BY <2>1, Zenon
  <2> QED
    BY <2>1, <2>2 DEF Types, QueueOK
<1> QED
  BY <1>1, <1>2, <1>3, Frames DEF Types, FirstSchedule

LEMMA WaitTypes == Types /\ Wait => Types'
<1> SUFFICES ASSUME Types, Wait PROVE Types'
  OBVIOUS
<1>1. MineOK'
  <2>1. CASE ~Done(mine.copy) /\ Due(mine.copy)
    BY <2>1 DEF Types, MineOK, Wait, Due, ServesADueSlot, Steps
  <2>2. CASE ~(~Done(mine.copy) /\ Due(mine.copy))
    BY <2>2, ReturnTypes DEF Types, Wait
  <2> QED
    BY <2>1, <2>2
<1>2. QueueOK'
  <2>1. mine.copy.next \in 0..Never
    BY CopyChange, CronChange DEF Types, MineOK
  <2> QED
    BY <2>1 DEF Types, QueueOK, Wait
<1> QED
  BY <1>1, <1>2, Frames DEF Types, Wait

LEMMA CreateOperationTypes == Types /\ CreateOperation => Types'
<1> SUFFICES ASSUME Types, CreateOperation PROVE Types'
  OBVIOUS
<1>1. pc = "create" /\ pc' \in {"record", "failed", "object"} /\ UNCHANGED <<now, mine>>
  BY DEF CreateOperation, cronVars
<1>2. MineOK'
  BY <1>1 DEF Types, MineOK, ServesADueSlot, Serving, Steps
<1>3. ClusterOK'
  BY DEF Types, ClusterOK, CreateOperation, Phases
<1> QED
  BY <1>2, <1>3, Frames DEF Types, CreateOperation, cronVars

LEMMA TimesAreNumbers == Types => \A i \in DOMAIN backups : backups[i].at \in Nat
<1> SUFFICES ASSUME Types, NEW i \in DOMAIN backups PROVE backups[i].at \in Nat
  OBVIOUS
<1>1. backups \in Seq(BackupObjects)
  BY DEF Types, BackupsOK
<1>2. backups[i] \in BackupObjects
  BY <1>1
<1> QED
  BY <1>2 DEF BackupObjects

\* A backup is created at a time.
LEMMA SecondsAreTimes == Types => Seconds \subseteq Nat
<1> SUFFICES ASSUME Types PROVE Seconds \subseteq Nat
  OBVIOUS
<1> DEFINE later == {backups[i].at : i \in DOMAIN backups} \ 0..(60 * now - 1)
<1>1. \A i \in DOMAIN backups : backups[i].at \in Nat
  BY TimesAreNumbers
<1>2. later \subseteq Nat
  BY <1>1
<1>3. 60 * now \in Nat
  BY Times DEF Types, MineOK
<1> DEFINE last == {x \in later : \A y \in later : y <= x}
           delays == IF given.haste THEN {0, 1} ELSE {1}
<1>4. Seconds = IF later = {} THEN {60 * now} ELSE {t + d : t \in last, d \in delays}
  BY DEF Seconds
<1>5. last \subseteq Nat /\ delays \subseteq Nat
  BY <1>2
<1> HIDE DEF later, last, delays
<1>6. \A t \in last : \A d \in delays : t + d \in Nat
  BY <1>5
<1> QED
  BY <1>3, <1>4, <1>6

NewBackup(t) == [fate |-> "kept", at |-> t, status |-> "creating"]

\* What CreateBackup does to the backups: nothing, or it adds one.
LEMMA CreateBackupAdds ==
    ASSUME Types, CreateBackup
    PROVE  \/ backups' = backups
           \/ \E t \in Nat : backups' = Append(backups, NewBackup(t)) /\ NewBackup(t) \in BackupObjects
<1>1. backups' = backups \/ \E t \in Seconds : backups' = Append(backups, NewBackup(t))
  BY DEF CreateBackup, NewBackup
<1>2. \A t \in Nat : NewBackup(t) \in BackupObjects
  BY DEF NewBackup, BackupObjects
<1> QED
  BY <1>1, <1>2, SecondsAreTimes

LEMMA CreateBackupTypes == Types /\ CreateBackup => Types'
<1> SUFFICES ASSUME Types, CreateBackup PROVE Types'
  OBVIOUS
<1>1. MineOK'
  BY DEF Types, MineOK, CreateBackup, ServesADueSlot, Serving, Steps, cronVars
<1>2. DOMAIN backups \subseteq DOMAIN backups' /\ backups' \in Seq(BackupObjects)
  <2>1. backups \in Seq(BackupObjects)
    BY DEF Types, BackupsOK
  <2>2. ASSUME NEW t \in Nat, backups' = Append(backups, NewBackup(t)),
               NewBackup(t) \in BackupObjects
        PROVE  DOMAIN backups \subseteq DOMAIN backups' /\ backups' \in Seq(BackupObjects)
    BY <2>1, <2>2
  <2> QED
    BY <2>1, <2>2, CreateBackupAdds
<1>3. BackupsOK' /\ VictimsOK'
  BY <1>2 DEF Types, BackupsOK, VictimsOK, CreateBackup
<1> QED
  BY <1>1, <1>3, Frames DEF Types, CreateBackup, cronVars

LEMMA UpdateClusterTypes == Types /\ UpdateCluster => Types'
<1> SUFFICES ASSUME Types, UpdateCluster PROVE Types'
  OBVIOUS
<1>1. MineOK'
  BY DEF Types, MineOK, UpdateCluster, WriteCluster, ServesADueSlot, Serving, Steps, cronVars
<1>2. ClusterOK'
  BY DEF Types, ClusterOK, UpdateCluster, WriteCluster, Phases
<1> QED
  BY <1>1, <1>2, Frames DEF Types, UpdateCluster, cronVars

LEMMA RecordFailureTypes == Types /\ RecordFailure => Types'
<1> SUFFICES ASSUME Types, RecordFailure PROVE Types'
  OBVIOUS
<1>1. MineOK'
  BY ReturnTypes DEF Types, RecordFailure
<1>2. CronOK'
  <2>1. CASE OneShot
    BY <2>1, Frames DEF Types, RecordFailure
  <2>2. CASE ~OneShot
    <3>1. [mine.copy EXCEPT !.failed = now] \in CronObjects
      BY CronChange, CopyChange DEF Types, MineOK
    <3> QED
      BY <2>2, <3>1, UpdateCronTypes, TypesAreTypeOK DEF RecordFailure, CronOK
  <2> QED
    BY <2>1, <2>2
<1>3. QueueOK'
  <2>1. timer' = timer /\ (queued' = TRUE \/ queued' = (queued \/ Conflict))
    BY DEF RecordFailure
  <2>2. queued' \in BOOLEAN
    BY <2>1, Zenon
  <2> QED
    BY <2>1, <2>2 DEF Types, QueueOK
<1> QED
  BY <1>1, <1>2, <1>3, Frames DEF Types, RecordFailure

LEMMA RecordSuccessTypes == Types /\ RecordSuccess => Types'
<1> SUFFICES ASSUME Types, RecordSuccess PROVE Types'
  OBVIOUS
<1>1. /\ now \in 0..MaxTime /\ mine \in Copies /\ mine.copy \in CronObjects
      /\ NextSlot \in 1..Never /\ mine.copy.next \in 1..Never /\ mine.copy.next <= now
  BY CopyChange, CronChange, NextSlotType
     DEF Types, MineOK, RecordSuccess, ServesADueSlot, Serving
<1>2. CASE OneShot
  <2>1. mine.copy.next \in 0..MaxTime
    BY <1>1, Times
  <2>2. [mine.copy EXCEPT !.success = mine.copy.next] \in CronObjects
    BY <1>1, <2>1, CronChange
  <2>3. CronOK'
    BY <1>2, <2>2, UpdateCronTypes, TypesAreTypeOK DEF RecordSuccess, CronOK
  <2>4. MineOK'
    BY <1>2, ReturnTypes DEF Types, RecordSuccess
  <2> QED
    BY <2>3, <2>4, Frames DEF Types, RecordSuccess
<1>3. CASE ~OneShot
  <2> DEFINE c == [mine.copy EXCEPT !.success = now]
  <2>1. c \in CronObjects
    BY <1>1, CronChange
  <2>2. [c EXCEPT !.next = NextSlot] \in CronObjects
    <3> HIDE DEF c
    <3> QED
      BY <1>1, <2>1, CronChange
  <2>3. CronOK'
    BY <1>3, <2>2, UpdateCronTypes, TypesAreTypeOK DEF RecordSuccess, CronOK
  <2>4. mine' \in Copies /\ pc' = "retain" /\ now' = now
    BY <1>1, <1>3, CopyChange DEF RecordSuccess
  <2>5. MineOK'
    BY <2>4 DEF Types, MineOK, ServesADueSlot, Serving, Steps
  <2> QED
    BY <2>3, <2>5, Frames DEF Types, RecordSuccess
<1> QED
  BY <1>2, <1>3

LEMMA ListBackupsTypes == Types /\ ListBackups => Types'
<1> SUFFICES ASSUME Types, ListBackups PROVE Types'
  OBVIOUS
<1>1. MineOK'
  BY DEF Types, MineOK, ListBackups, ServesADueSlot, Serving, Steps, cronVars
<1>2. VictimsOK'
  BY DEF Types, BackupsOK, VictimsOK, ListBackups, Excess, bkVars
<1> QED
  BY <1>1, <1>2, Frames DEF Types, ListBackups, cronVars

\* The victims are indexes, and the loop takes one of them.
LEMMA OldestIsVictim ==
    ASSUME Types, victims # {}
    PROVE  Oldest \in victims /\ Oldest \in DOMAIN backups
<1>1. victims \subseteq Nat
  BY DEF Types, BackupsOK, VictimsOK
<1>2. \E i \in victims : \A j \in victims : i <= j
  BY <1>1, LeastNatural
<1>3. Oldest \in victims
  BY <1>2 DEF Oldest
<1> QED
  BY <1>3 DEF Types, VictimsOK

LEMMA DeleteBackupTypes == Types /\ DeleteBackup => Types'
<1> SUFFICES ASSUME Types, DeleteBackup PROVE Types'
  OBVIOUS
<1> DEFINE i == Oldest
<1>1. i \in DOMAIN backups
  BY OldestIsVictim DEF DeleteBackup
<1>2. CASE backups[i].fate # "kept"
  <2>1. Return /\ victims' = {} /\ queued' = TRUE /\ UNCHANGED backups
    BY <1>2 DEF DeleteBackup
  <2>2. MineOK'
    BY <2>1, ReturnTypes DEF Types, DeleteBackup
  <2>3. queued' \in BOOLEAN
    BY <2>1, Zenon
  <2>4. VictimsOK' /\ QueueOK'
    BY <2>1, <2>3 DEF Types, VictimsOK, QueueOK, DeleteBackup
  <2> QED
    BY <2>1, <2>2, <2>4, Frames DEF Types, DeleteBackup, bkVars
<1>3. CASE backups[i].fate = "kept"
  <2>1. /\ backups' = [backups EXCEPT ![i].fate = "retired"] /\ pc' = "clean"
        /\ UNCHANGED <<victims, mine, queued>>
    BY <1>3 DEF DeleteBackup
  <2>2. backups \in Seq(BackupObjects) /\ backups[i] \in BackupObjects
    BY <1>1 DEF Types, BackupsOK
  <2> DEFINE b == [backups[i] EXCEPT !.fate = "retired"]
  <2>3. b \in BackupObjects
    BY <2>2 DEF BackupObjects
  <2>4. backups' = [backups EXCEPT ![i] = b]
    BY <2>1
  <2>5. backups' \in Seq(BackupObjects) /\ DOMAIN backups' = DOMAIN backups
    <3> HIDE DEF b, i
    <3> QED
      BY <2>2, <2>3, <2>4, <1>1
  <2>6. BackupsOK' /\ VictimsOK'
    BY <2>1, <2>5 DEF Types, BackupsOK, VictimsOK, DeleteBackup
  <2>7. MineOK'
    BY <2>1 DEF Types, MineOK, DeleteBackup, ServesADueSlot, Serving, Steps
  <2>8. QueueOK'
    BY <2>1, Frames DEF Types, DeleteBackup, queueVars
  <2> QED
    BY <2>6, <2>7, <2>8, Frames DEF Types, DeleteBackup
<1> QED
  BY <1>2, <1>3

LEMMA CreateDeleteOperationTypes == Types /\ CreateDeleteOperation => Types'
<1> SUFFICES ASSUME Types, CreateDeleteOperation PROVE Types'
  OBVIOUS
<1>1. CASE Oldest \in shown
  <2>1. pc' = "delete" /\ victims' = victims \ {Oldest} /\ UNCHANGED <<mine, queued>>
    BY <1>1 DEF CreateDeleteOperation
  <2>2. MineOK'
    BY <2>1 DEF Types, MineOK, CreateDeleteOperation, ServesADueSlot, Serving, Steps
  <2>3. VictimsOK' /\ QueueOK'
    BY <2>1 DEF Types, VictimsOK, QueueOK, CreateDeleteOperation, bkVars
  <2> QED
    BY <2>2, <2>3, Frames DEF Types, CreateDeleteOperation
<1>2. CASE Oldest \notin shown
  <2>1. Return /\ victims' = {} /\ queued' = TRUE
    BY <1>2 DEF CreateDeleteOperation
  <2>2. MineOK'
    BY <2>1, ReturnTypes DEF Types, CreateDeleteOperation
  <2>3. queued' \in BOOLEAN
    BY <2>1, Zenon
  <2>4. VictimsOK' /\ QueueOK'
    BY <2>1, <2>3 DEF Types, VictimsOK, QueueOK, CreateDeleteOperation
  <2> QED
    BY <2>2, <2>4, Frames DEF Types, CreateDeleteOperation
<1> QED
  BY <1>1, <1>2

LEMMA EndPassTypes == Types /\ EndPass => Types'
<1> SUFFICES ASSUME Types, EndPass PROVE Types'
  OBVIOUS
<1>1. MineOK'
  BY ReturnTypes DEF Types, EndPass
<1>2. mine.copy.next \in 0..Never
  BY CopyChange, CronChange DEF Types, MineOK
<1>3. QueueOK'
  BY <1>2 DEF Types, QueueOK, EndPass
<1> QED
  BY <1>1, <1>3, Frames DEF Types, EndPass

\* The informers, the clock and the timer.
LEMMA EventTypes ==
    Types /\ (DeliverCron \/ Resync \/ DeliverCluster \/ DeliverBackups \/ Tick \/ Fire) => Types'
<1> SUFFICES ASSUME Types PROVE  (\/ DeliverCron \/ Resync \/ DeliverCluster
                                  \/ DeliverBackups \/ Tick \/ Fire) => Types'
  OBVIOUS
<1>1. ASSUME DeliverCron PROVE Types'
  <2>1. cronSeen' = cron /\ cron' = cron /\ cronSynced' = TRUE /\ queued' = TRUE
    BY <1>1 DEF DeliverCron
  <2>2. cronSynced' \in BOOLEAN /\ queued' \in BOOLEAN
    BY <2>1, Zenon
  <2>3. CronOK' /\ QueueOK'
    BY <2>1, <2>2, <1>1 DEF Types, CronOK, QueueOK, DeliverCron
  <2>4. mine' \in Copies /\ mine'.copy = mine.copy
    BY <1>1, CopyChange DEF Types, MineOK, DeliverCron, Copies
  <2>5. MineOK'
    BY <2>4, <1>1 DEF Types, MineOK, DeliverCron, ServesADueSlot
  <2> QED
    BY <2>3, <2>5, <1>1, Frames DEF Types, DeliverCron
<1>2. ASSUME Resync PROVE Types'
  <2>1. cronSeen.alive \in BOOLEAN
    BY DEF Types, CronOK, CronObjects
  <2>2. QueueOK'
    BY <2>1, <1>2 DEF Types, QueueOK, Resync
  <2> QED
    BY <2>2, <1>2, Frames DEF Types, Resync, cronVars
<1>3. ASSUME DeliverCluster PROVE Types'
  <2>1. cluSynced' \in BOOLEAN
    BY <1>3, Zenon DEF DeliverCluster
  <2>2. ClusterOK'
    BY <2>1, <1>3 DEF Types, ClusterOK, DeliverCluster
  <2> QED
    BY <2>2, <1>3, Frames DEF Types, DeliverCluster, cronVars
<1>4. ASSUME DeliverBackups PROVE Types'
  <2>1. BackupsOK' /\ VictimsOK'
    BY <1>4 DEF Types, BackupsOK, VictimsOK, DeliverBackups
  <2> QED
    BY <2>1, <1>4, Frames DEF Types, DeliverBackups, cronVars
<1>5. ASSUME Tick PROVE Types'
  <2>1. now \in 0..MaxTime /\ now' \in 0..MaxTime /\ now <= now'
    BY <1>5, Times DEF Types, MineOK, Tick
  <2>2. mine.copy.next \in 1..Never
    BY CopyChange, CronChange DEF Types, MineOK
  <2>3. mine.copy.next <= now => mine.copy.next <= now'
    BY <2>1, <2>2, Times
  <2>4. MineOK'
    BY <2>1, <2>3, <1>5 DEF Types, MineOK, Tick, cronVars, ServesADueSlot
  <2> QED
    BY <2>4, <1>5, Frames DEF Types, Tick, cronVars
<1>6. ASSUME Fire PROVE Types'
  <2>1. queued' \in BOOLEAN
    BY <1>6, Zenon DEF Fire
  <2>2. timer' \in 0..Never
    BY <1>6, Times DEF Fire
  <2> QED
    BY <2>1, <2>2, <1>6, Frames DEF Types, QueueOK, Fire, cronVars
<1> QED
  BY <1>1, <1>2, <1>3, <1>4, <1>5, <1>6

LEMMA WriteClusterTypes ==
    ASSUME ClusterOK, NEW p \in Phases, WriteCluster(p), UNCHANGED <<phaseSeen, obstacle>>
    PROVE  ClusterOK'
<1>1. cluSynced' \in BOOLEAN /\ cluHeld' \in BOOLEAN
  BY Zenon DEF WriteCluster
<1> QED
  BY <1>1 DEF ClusterOK, WriteCluster

\* One field of one backup changes.
LEMMA OneChange ==
    ASSUME Types, NEW i \in DOMAIN backups, NEW b \in BackupObjects,
           backups' = [backups EXCEPT ![i] = b], b.at = backups[i].at
    PROVE  /\ backups' \in Seq(BackupObjects) /\ DOMAIN backups' = DOMAIN backups
           /\ \A j \in DOMAIN backups : backups'[j].at = backups[j].at
           /\ backups'[i] = b /\ \A j \in DOMAIN backups \ {i} : backups'[j] = backups[j]
<1>1. backups \in Seq(BackupObjects)
  BY DEF Types, BackupsOK
<1>2. backups' \in Seq(BackupObjects) /\ DOMAIN backups' = DOMAIN backups
  BY <1>1
<1>3. backups'[i] = b /\ \A j \in DOMAIN backups \ {i} : backups'[j] = backups[j]
  BY <1>1
<1> QED
  BY <1>2, <1>3

\* The end of a backup and a client's deletion change one backup, which does not
\* fall to the retention.
LEMMA OthersChange ==
    ASSUME Types, NEW i \in DOMAIN backups, BackupEnds(i) \/ ClientDeletesBackup(i)
    PROVE  /\ backups' \in Seq(BackupObjects) /\ DOMAIN backups' = DOMAIN backups
           /\ \A j \in DOMAIN backups : /\ backups'[j].at = backups[j].at
                                        /\ Retired(j)' => Retired(j)
<1>1. backups \in Seq(BackupObjects) /\ backups[i] \in BackupObjects
  BY DEF Types, BackupsOK
<1>2. \E b \in BackupObjects :
        /\ backups' = [backups EXCEPT ![i] = b] /\ b.at = backups[i].at
        /\ b.fate = "retired" => backups[i].fate = "retired"
  <2>1. ASSUME BackupEnds(i) PROVE <1>2!:
    <3>1. PICK ok \in BOOLEAN :
            backups' = [backups EXCEPT ![i].status = IF ok THEN "available" ELSE "error"]
      BY <2>1 DEF BackupEnds
    <3> DEFINE b == [backups[i] EXCEPT !.status = IF ok THEN "available" ELSE "error"]
    <3>2. b \in BackupObjects /\ b.fate = backups[i].fate /\ b.at = backups[i].at
      BY <1>1 DEF BackupObjects
    <3>3. backups' = [backups EXCEPT ![i] = b]
      BY <3>1
    <3> HIDE DEF b
    <3> QED
      BY <3>2, <3>3
  <2>2. ASSUME ClientDeletesBackup(i) PROVE <1>2!:
    <3> DEFINE b == [backups[i] EXCEPT !.fate = "deleted"]
    <3>1. b \in BackupObjects /\ b.fate = "deleted" /\ b.at = backups[i].at
      BY <1>1 DEF BackupObjects
    <3>2. backups' = [backups EXCEPT ![i] = b]
      BY <2>2 DEF ClientDeletesBackup
    <3> HIDE DEF b
    <3> QED
      BY <3>1, <3>2
  <2> QED
    BY <2>1, <2>2
<1>3. PICK b \in BackupObjects :
        /\ backups' = [backups EXCEPT ![i] = b] /\ b.at = backups[i].at
        /\ b.fate = "retired" => backups[i].fate = "retired"
  BY <1>2
<1> QED
  BY <1>3, OneChange DEF Retired

LEMMA BackupEndsTypes == ASSUME Types, NEW i \in DOMAIN backups, BackupEnds(i) PROVE Types'
<1>1. BackupsOK' /\ VictimsOK'
  BY OthersChange DEF Types, BackupsOK, VictimsOK, BackupEnds
<1>2. ClusterOK'
  <2>1. PICK ok \in BOOLEAN : WriteCluster(IF ok THEN "Running" ELSE "UpdateFailed")
    BY DEF BackupEnds
  <2>2. (IF ok THEN "Running" ELSE "UpdateFailed") \in Phases
    BY DEF Phases
  <2> QED
    BY <2>1, <2>2, WriteClusterTypes DEF Types, BackupEnds
<1> QED
  BY <1>1, <1>2, Frames DEF Types, BackupEnds, cronVars

LEMMA OneMore == ASSUME Types, NEW kind, Others(kind), UNCHANGED given PROVE BoundsOK'
<1>1. given.writes \in Nat /\ writes \in 0..given.writes
  BY ScenarioAssumption DEF Types, BoundsOK
<1> QED
  BY <1>1 DEF Types, BoundsOK, Others

LEMMA ClientDeletesTypes ==
    ASSUME Types, NEW i \in DOMAIN backups, ClientDeletesBackup(i) PROVE Types'
<1>1. BackupsOK' /\ VictimsOK'
  BY OthersChange DEF Types, BackupsOK, VictimsOK, ClientDeletesBackup
<1>2. BoundsOK'
  BY OneMore DEF ClientDeletesBackup
<1> QED
  BY <1>1, <1>2, Frames DEF Types, ClientDeletesBackup, cronVars

LEMMA ObstructTypes == Types /\ Obstruct => Types'
<1> SUFFICES ASSUME Types, Obstruct PROVE Types'
  OBVIOUS
<1>1. obstacle' \in BOOLEAN
  BY Zenon DEF Obstruct
<1>2. ClusterOK'
  BY <1>1 DEF Types, ClusterOK, Obstruct
<1>3. BoundsOK'
  BY OneMore DEF Obstruct
<1> QED
  BY <1>2, <1>3, Frames DEF Types, Obstruct, cronVars

LEMMA OtherOperationTypes == Types /\ OtherOperation => Types'
<1> SUFFICES ASSUME Types, OtherOperation PROVE Types'
  OBVIOUS
<1>1. ClusterOK'
  <2>1. (IF phase = "Running" THEN "Updating" ELSE "Running") \in Phases
    BY DEF Phases
  <2> QED
    BY <2>1, WriteClusterTypes DEF Types, OtherOperation
<1>2. BoundsOK'
  BY OneMore DEF OtherOperation
<1> QED
  BY <1>1, <1>2, Frames DEF Types, OtherOperation, cronVars

LEMMA ApiWriteTypes == ASSUME Types, NEW c \in CronObjects, ApiWrite(c) PROVE Types'
<1>1. CronOK'
  <2>1. cronSynced' \in BOOLEAN
    BY Zenon DEF ApiWrite, Store
  <2> QED
    BY <2>1 DEF Types, CronOK, ApiWrite, Store
<1>2. mine' \in Copies /\ mine'.copy = mine.copy
  BY CopyChange DEF Types, MineOK, ApiWrite, Copies
<1>3. MineOK'
  BY <1>2 DEF Types, MineOK, ApiWrite, ServesADueSlot
<1>4. BoundsOK'
  BY OneMore DEF ApiWrite
<1> QED
  BY <1>1, <1>3, <1>4, Frames DEF Types, ApiWrite

LEMMA ApiTypes == Types /\ Api => Types'
<1> SUFFICES ASSUME Types, Api PROVE Types'
  OBVIOUS
<1>1. cron \in CronObjects /\ NextSlot \in 1..Never
  BY NextSlotType DEF Types, CronOK, MineOK
<1>2. /\ [cron EXCEPT !.disabled = TRUE] \in CronObjects
      /\ [cron EXCEPT !.disabled = FALSE] \in CronObjects
      /\ [cron EXCEPT !.next = NextSlot] \in CronObjects
      /\ [cron EXCEPT !.alive = FALSE] \in CronObjects
  BY <1>1, CronChange
<1> QED
  BY <1>2, ApiWriteTypes
     DEF Api, DisableCronBackup, EnableCronBackup, UpdateCronBackup, DeleteCronBackup

LEMMA TypesStart == Init => Types
<1> SUFFICES ASSUME Init PROVE Types
  OBVIOUS
<1>1. cronSynced \in BOOLEAN /\ cron = NewCron /\ cronSeen = NewCron
  BY Zenon DEF Init
<1>2. CronOK
  BY <1>1, NewCronType DEF CronOK
<1>3. MineOK
  BY NewCronType, Times DEF Init, MineOK, ServesADueSlot, Serving, Steps
<1>4. ClusterOK /\ BackupsOK /\ VictimsOK /\ QueueOK
  <2>1. cluSynced \in BOOLEAN /\ cluHeld \in BOOLEAN /\ queued \in BOOLEAN
        /\ obstacle \in BOOLEAN
    BY Zenon DEF Init
  <2>2. phase \in Phases /\ phaseSeen \in Phases
    BY DEF Init, Phases
  <2>3. BackupsOK /\ VictimsOK
    BY DEF Init, BackupsOK, VictimsOK
  <2>4. timer \in 0..Never
    BY Times DEF Init
  <2> QED
    BY <2>1, <2>2, <2>3, <2>4 DEF ClusterOK, QueueOK
<1>5. BoundsOK
  BY ScenarioAssumption DEF Init, BoundsOK
<1> QED
  BY <1>2, <1>3, <1>4, <1>5 DEF Types

LEMMA TypesStep == Types /\ [Next]_vars => Types'
<1>1. Types /\ ReconcileStep => Types'
  BY ReconcileTypes, FirstScheduleTypes, WaitTypes, CreateOperationTypes, CreateBackupTypes,
     UpdateClusterTypes, RecordFailureTypes, RecordSuccessTypes, ListBackupsTypes,
     DeleteBackupTypes, CreateDeleteOperationTypes, EndPassTypes DEF ReconcileStep
<1>2. Types /\ UNCHANGED vars => Types'
  BY Frames DEF Types, vars, cronVars
<1> QED
  BY <1>1, <1>2, EventTypes, BackupEndsTypes, ClientDeletesTypes, OtherOperationTypes,
     ObstructTypes, ApiTypes DEF Next

\* Every variable of a cron backup has its type, in every scenario.
THEOREM CronTypes == Spec => []TypeOK
BY TypesStart, TypesStep, TypesAreTypeOK, PTL DEF Spec

-----------------------------------------------------------------------------
(***************************************************************************)
(* The retention.  It decides by a list that may hold backups which it has *)
(* taken before; but such a backup has enough newer ones that it has not.  *)
(***************************************************************************)
HasNewer(i) == Cardinality(Newer(i)) >= MaxBackupNum
Expendable(i) == HasNewer(i) \/ TieFrom(i)

RetiredWereOld == \A i \in DOMAIN backups : Retired(i) => Expendable(i)
VictimsAreOld == \A i \in victims : Expendable(i)
CleansAVictim == pc = "clean" => victims # {}

Retention == Types /\ RetiredWereOld /\ VictimsAreOld /\ CleansAVictim

\* No backup goes from the record, and its time stays.
Grows ==
    /\ DOMAIN backups \subseteq DOMAIN backups'
    /\ \A i \in DOMAIN backups : backups'[i].at = backups[i].at

LEMMA IndexesAreFinite == ASSUME NEW S, NEW q \in Seq(S), NEW T \in SUBSET DOMAIN q
                          PROVE  IsFiniteSet(T)
<1>1. DOMAIN q = 1..Len(q) /\ Len(q) \in Nat
  OBVIOUS
<1>2. IsFiniteSet(DOMAIN q)
  BY <1>1, FS_Interval
<1> QED
  BY <1>2, FS_Subset

LEMMA MaxType == MaxBackupNum \in Nat
BY CronAssumption

\* The times are numbers, and the newer ones are finitely many.
LEMMA RecordFacts ==
    ASSUME Types
    PROVE  /\ \A i \in DOMAIN backups : backups[i].at \in Nat
           /\ \A i : Newer(i) \subseteq DOMAIN backups /\ IsFiniteSet(Newer(i))
<1>1. backups \in Seq(BackupObjects)
  BY DEF Types, BackupsOK
<1>2. \A i \in DOMAIN backups : backups[i].at \in Nat
  BY TimesAreNumbers
<1>3. ASSUME NEW i PROVE Newer(i) \subseteq DOMAIN backups /\ IsFiniteSet(Newer(i))
  <2>1. Newer(i) \in SUBSET DOMAIN backups
    BY DEF Newer
  <2> QED
    BY <1>1, <2>1, IndexesAreFinite
<1> QED
  BY <1>2, <1>3

\* A tie stays one.
LEMMA TiesStay ==
    ASSUME Grows, NEW i \in DOMAIN backups, TieFrom(i) PROVE TieFrom(i)'
BY DEF Grows, TieFrom

\* More of them can only help.
LEMMA MoreNewer ==
    ASSUME Types', NEW i, NEW S, Cardinality(S) >= MaxBackupNum, S \subseteq Newer(i)'
    PROVE  HasNewer(i)'
<1>1. IsFiniteSet(Newer(i)')
  <2>1. Newer(i)' \in SUBSET DOMAIN backups' /\ backups' \in Seq(BackupObjects)
    BY DEF Newer, Types, BackupsOK
  <2> QED
    BY <2>1, IndexesAreFinite
<1> QED
  BY <1>1, MaxType, PartIsSmaller DEF HasNewer

\* Nothing falls to the retention in a step.
Spares == \A i \in DOMAIN backups' : Retired(i)' => i \in DOMAIN backups /\ Retired(i)

\* A step in which nothing falls to the retention, and that adds no victim.
LEMMA NothingRetired ==
    ASSUME Retention, Types', Grows, Spares, victims' \subseteq victims
    PROVE  RetiredWereOld' /\ VictimsAreOld'
<1>1. ASSUME NEW i \in DOMAIN backups, Expendable(i) PROVE Expendable(i)'
  <2>1. Newer(i) \subseteq Newer(i)'
    BY DEF Newer, Grows, Spares, Retired
  <2> QED
    BY <1>1, <2>1, MoreNewer, TiesStay DEF Expendable, HasNewer
<1>2. victims \subseteq DOMAIN backups
  BY DEF Retention, Types, VictimsOK
<1> QED
  BY <1>1, <1>2 DEF Retention, RetiredWereOld, VictimsAreOld, Spares

LEMMA AppendKeepsIndexes ==
    ASSUME NEW S, NEW q \in Seq(S), NEW x \in S, NEW r, r = Append(q, x)
    PROVE  /\ DOMAIN r = DOMAIN q \cup {Len(q) + 1} /\ r[Len(q) + 1] = x
           /\ \A i \in DOMAIN q : r[i] = q[i]
OBVIOUS

\* A new backup is one that the retention has not taken.
LEMMA CreateBackupSpares == Types /\ CreateBackup => Grows /\ Spares
<1> SUFFICES ASSUME Types, CreateBackup PROVE Grows /\ Spares
  OBVIOUS
<1>1. CASE backups' = backups
  BY <1>1 DEF Grows, Spares, Retired
<1>2. ASSUME NEW t \in Nat, backups' = Append(backups, NewBackup(t)),
             NewBackup(t) \in BackupObjects
      PROVE  Grows /\ Spares
  <2>1. /\ DOMAIN backups' = DOMAIN backups \cup {Len(backups) + 1}
        /\ backups'[Len(backups) + 1] = NewBackup(t)
        /\ \A i \in DOMAIN backups : backups'[i] = backups[i]
    BY <1>2, AppendKeepsIndexes DEF Types, BackupsOK
  <2>2. NewBackup(t).fate # "retired"
    BY DEF NewBackup
  <2> QED
    BY <2>1, <2>2 DEF Grows, Spares, Retired
<1> QED
  BY <1>1, <1>2, CreateBackupAdds

LEMMA CreateBackupKeeps == Retention /\ CreateBackup => Retention'
<1> SUFFICES ASSUME Retention, CreateBackup PROVE Retention'
  OBVIOUS
<1>1. Types' /\ Grows /\ Spares
  BY CreateBackupTypes, CreateBackupSpares DEF Retention
<1>2. RetiredWereOld' /\ VictimsAreOld'
  BY <1>1, NothingRetired DEF CreateBackup
<1>3. CleansAVictim'
  BY DEF CreateBackup, CleansAVictim
<1> QED
  BY <1>1, <1>2, <1>3 DEF Retention

\* The list may be old: if the retention has taken none of those that it keeps now,
\* they are enough; if it has taken one of them, those newer than that one are.
LEMMA ExcessIsOld ==
    ASSUME Retention, NEW V \in Excess(shown), NEW v \in V PROVE Expendable(v)
<1> DEFINE N == shown \ V
<1>1. /\ V \subseteq shown /\ Cardinality(N) = MaxBackupNum
      /\ \A j \in N : backups[v].at <= backups[j].at
  BY DEF Excess
<1>2. Types /\ shown \subseteq DOMAIN backups /\ v \in DOMAIN backups
  BY <1>1 DEF Retention, Types, BackupsOK
<1>t. /\ \A i \in DOMAIN backups : backups[i].at \in Nat
      /\ \A i : Newer(i) \subseteq DOMAIN backups /\ IsFiniteSet(Newer(i))
  BY <1>2, RecordFacts
<1> SUFFICES ASSUME ~TieFrom(v) PROVE HasNewer(v)
  BY DEF Expendable
<1>3. ASSUME NEW j \in N PROVE backups[j].at > backups[v].at
  <2>1. j # v /\ j \in DOMAIN backups /\ backups[v].at <= backups[j].at
    BY <1>1, <1>2, <1>3
  <2>2. backups[j].at # backups[v].at
    BY <1>2, <1>t, <2>1 DEF TieFrom
  <2> QED
    BY <1>2, <1>t, <2>1, <2>2
<1>4. CASE \A j \in N : ~Retired(j)
  <2>1. N \in SUBSET Newer(v)
    BY <1>2, <1>3, <1>4 DEF Newer, Retired
  <2> HIDE DEF N
  <2>2. Cardinality(N) >= MaxBackupNum
    BY <1>1, MaxType
  <2> QED
    BY <1>t, <2>1, <2>2, MaxType, PartIsSmaller DEF HasNewer
<1>5. ASSUME NEW g \in N, Retired(g) PROVE HasNewer(v)
  <2>1. g \in DOMAIN backups /\ backups[g].at > backups[v].at /\ Expendable(g)
    BY <1>2, <1>3, <1>5 DEF Retention, RetiredWereOld
  <2>2. ~TieFrom(g)
    BY <1>2, <1>t, <2>1 DEF TieFrom
  <2>3. Newer(g) \in SUBSET Newer(v)
    BY <1>2, <1>t, <2>1 DEF Newer
  <2> QED
    BY <1>t, <2>1, <2>2, <2>3, MaxType, PartIsSmaller DEF HasNewer, Expendable
<1> QED
  BY <1>4, <1>5

LEMMA ListBackupsKeeps == Retention /\ ListBackups => Retention'
<1> SUFFICES ASSUME Retention, ListBackups PROVE Retention'
  OBVIOUS
<1>1. Types'
  BY ListBackupsTypes DEF Retention
<1>2. PICK V \in Excess(shown) : victims' = V \cap ready
  BY DEF ListBackups
<1>3. backups' = backups /\ pc' = "delete"
  BY DEF ListBackups, bkVars
<1>4. \A i : Expendable(i) => Expendable(i)'
  BY <1>3 DEF Expendable, HasNewer, Newer, TieFrom
<1>5. RetiredWereOld'
  BY <1>3, <1>4 DEF Retention, RetiredWereOld, Retired
<1>6. VictimsAreOld'
  BY <1>2, <1>4, ExcessIsOld DEF VictimsAreOld
<1> QED
  BY <1>1, <1>3, <1>5, <1>6 DEF Retention, CleansAVictim

\* If a backup that has enough newer ones is taken away, those that had enough
\* still have: either it was not among them, or its own newer ones are.
LEMMA RemovalLeavesNewer ==
    ASSUME Types, Types', Grows, NEW i \in DOMAIN backups, Expendable(i),
           \A j \in DOMAIN backups : Retired(j)' => j = i \/ Retired(j),
           NEW k \in DOMAIN backups, Expendable(k)
    PROVE  Expendable(k)'
<1>t. \A j \in DOMAIN backups : backups[j].at \in Nat /\ backups'[j].at = backups[j].at
  BY RecordFacts DEF Grows
<1>1. CASE TieFrom(k)
  BY <1>1, TiesStay DEF Expendable
<1>2. CASE HasNewer(k) /\ ~(backups[i].at > backups[k].at)
  <2>1. Newer(k) \subseteq Newer(k)'
    BY <1>2, <1>t DEF Newer, Grows, Retired
  <2> QED
    BY <1>2, <2>1, MoreNewer DEF Expendable, HasNewer
<1>3. CASE backups[i].at > backups[k].at /\ TieFrom(i)
  <2>1. TieFrom(k)
    BY <1>3, <1>t DEF TieFrom
  <2> QED
    BY <2>1, TiesStay DEF Expendable
<1>4. CASE backups[i].at > backups[k].at /\ HasNewer(i)
  <2>1. Newer(i) \subseteq Newer(k)'
    BY <1>4, <1>t DEF Newer, Grows, Retired
  <2> QED
    BY <1>4, <2>1, MoreNewer DEF Expendable, HasNewer
<1> QED
  BY <1>1, <1>2, <1>3, <1>4 DEF Expendable

\* What the deletion does to the backups: nothing, or it takes a victim.
LEMMA DeleteBackupTakes ==
    ASSUME Types, DeleteBackup
    PROVE  \/ backups' = backups /\ victims' \subseteq victims /\ pc' # "clean"
           \/ /\ Oldest \in victims /\ victims' = victims
              /\ Grows /\ DOMAIN backups' = DOMAIN backups
              /\ \A j \in DOMAIN backups : Retired(j)' => j = Oldest \/ Retired(j)
<1> DEFINE i == Oldest
<1>1. i \in victims /\ i \in DOMAIN backups /\ pc = "delete"
  BY OldestIsVictim DEF DeleteBackup
<1>2. CASE backups[i].fate # "kept"
  <2>1. Return /\ victims' = {} /\ queued' = TRUE /\ UNCHANGED backups
    BY <1>2 DEF DeleteBackup
  <2> QED
    BY <2>1 DEF Return
<1>3. CASE backups[i].fate = "kept"
  <2>1. backups' = [backups EXCEPT ![i].fate = "retired"] /\ UNCHANGED <<victims, mine, queued>>
    BY <1>3 DEF DeleteBackup
  <2>2. backups[i] \in BackupObjects
    BY <1>1 DEF Types, BackupsOK
  <2> DEFINE b == [backups[i] EXCEPT !.fate = "retired"]
  <2>3. b \in BackupObjects /\ b.at = backups[i].at
    BY <2>2 DEF BackupObjects
  <2>4. backups' = [backups EXCEPT ![i] = b]
    BY <2>1
  <2>5. /\ DOMAIN backups' = DOMAIN backups
        /\ \A j \in DOMAIN backups : backups'[j].at = backups[j].at
        /\ \A j \in DOMAIN backups \ {i} : backups'[j] = backups[j]
    <3> HIDE DEF b, i
    <3> QED
      BY <2>3, <2>4, <1>1, OneChange
  <2> QED
    BY <1>1, <2>1, <2>5 DEF Grows, Retired
<1> QED
  BY <1>2, <1>3

LEMMA DeleteBackupKeeps == Retention /\ DeleteBackup => Retention'
<1> SUFFICES ASSUME Retention, DeleteBackup PROVE Retention'
  OBVIOUS
<1>1. Types /\ Types' /\ victims \subseteq DOMAIN backups /\ victims # {}
  BY DeleteBackupTypes DEF Retention, Types, VictimsOK, DeleteBackup
<1>2. CASE backups' = backups /\ victims' \subseteq victims /\ pc' # "clean"
  <2>1. Grows /\ Spares
    BY <1>2 DEF Grows, Spares, Retired
  <2> QED
    BY <1>1, <1>2, <2>1, NothingRetired DEF Retention, CleansAVictim
<1>3. CASE /\ Oldest \in victims /\ victims' = victims
           /\ Grows /\ DOMAIN backups' = DOMAIN backups
           /\ \A j \in DOMAIN backups : Retired(j)' => j = Oldest \/ Retired(j)
  <2>1. Oldest \in DOMAIN backups /\ Expendable(Oldest)
    BY <1>1, <1>3 DEF Retention, VictimsAreOld
  <2>2. \A k \in DOMAIN backups : Expendable(k) => Expendable(k)'
    BY <1>1, <1>3, <2>1, RemovalLeavesNewer
  <2>3. RetiredWereOld'
    <3>1. ASSUME NEW k \in DOMAIN backups', Retired(k)' PROVE Expendable(k)
      BY <1>3, <2>1, <3>1 DEF Retention, RetiredWereOld
    <3> QED
      BY <1>3, <2>2, <3>1 DEF RetiredWereOld
  <2>4. VictimsAreOld'
    BY <1>1, <1>3, <2>2 DEF Retention, VictimsAreOld
  <2>5. CleansAVictim'
    BY <1>1, <1>3 DEF CleansAVictim
  <2> QED
    BY <1>1, <2>3, <2>4, <2>5 DEF Retention
<1> QED
  BY <1>1, <1>2, <1>3, DeleteBackupTakes

\* A step that touches neither the backups nor the victims, and does not go on to
\* the operation of a removed backup.
Uninvolved == backups' = backups /\ victims' \subseteq victims /\ pc' # "clean"

LEMMA UninvolvedKeeps == Retention /\ Types' /\ Uninvolved => Retention'
<1> SUFFICES ASSUME Retention, Types', Uninvolved PROVE Retention'
  OBVIOUS
<1>1. Grows /\ Spares
  BY DEF Grows, Spares, Retired, Uninvolved
<1>2. RetiredWereOld' /\ VictimsAreOld'
  BY <1>1, NothingRetired DEF Uninvolved
<1> QED
  BY <1>2 DEF Retention, CleansAVictim, Uninvolved

LEMMA OthersChangeKeeps ==
    ASSUME Retention, NEW i \in DOMAIN backups, BackupEnds(i) \/ ClientDeletesBackup(i)
    PROVE  Retention'
<1>1. Types /\ Types'
  BY BackupEndsTypes, ClientDeletesTypes DEF Retention
<1>2. victims' = victims /\ pc' = pc
  BY DEF BackupEnds, ClientDeletesBackup
<1>3. Grows /\ Spares
  BY <1>1, OthersChange DEF Grows, Spares
<1>4. RetiredWereOld' /\ VictimsAreOld'
  BY <1>1, <1>2, <1>3, NothingRetired
<1> QED
  BY <1>1, <1>2, <1>4 DEF Retention, CleansAVictim

\* The steps of the reconciler other than those on the backups.
LEMMA ReconcilerUninvolved ==
    \/ Reconcile \/ FirstSchedule \/ Wait \/ CreateOperation \/ UpdateCluster
    \/ RecordFailure \/ RecordSuccess \/ CreateDeleteOperation \/ EndPass
    => Uninvolved
<1>1. Reconcile => Uninvolved
  BY DEF Reconcile, Return, Uninvolved, bkVars
<1>2. FirstSchedule => Uninvolved
  BY DEF FirstSchedule, Return, Uninvolved, bkVars
<1>3. Wait => Uninvolved
  BY DEF Wait, Return, Uninvolved, bkVars
<1>4. CreateOperation => Uninvolved
  BY DEF CreateOperation, Uninvolved, bkVars
<1>5. UpdateCluster => Uninvolved
  BY DEF UpdateCluster, Uninvolved, bkVars
<1>6. RecordFailure => Uninvolved
  BY DEF RecordFailure, Return, Uninvolved, bkVars
<1>7. RecordSuccess => Uninvolved
  BY DEF RecordSuccess, Return, Uninvolved, bkVars
<1>8. CreateDeleteOperation => Uninvolved
  BY DEF CreateDeleteOperation, Return, Uninvolved, bkVars
<1>9. EndPass => Uninvolved
  BY DEF EndPass, Return, Uninvolved, bkVars
<1> QED
  BY <1>1, <1>2, <1>3, <1>4, <1>5, <1>6, <1>7, <1>8, <1>9

\* The steps of others, which may fall between the removal of a backup and its
\* operation.
LEMMA OthersKeepPlace ==
    \/ DeliverCron \/ Resync \/ DeliverCluster \/ DeliverBackups \/ Tick \/ Fire
    \/ OtherOperation \/ Obstruct \/ Api \/ UNCHANGED vars
    => UNCHANGED <<backups, victims, pc>>
<1>1. DeliverCron \/ Resync \/ DeliverCluster \/ DeliverBackups \/ Tick \/ Fire
      => UNCHANGED <<backups, victims, pc>>
  BY DEF DeliverCron, Resync, DeliverCluster, DeliverBackups, Tick, Fire, bkVars
<1>2. OtherOperation \/ Obstruct \/ Api => UNCHANGED <<backups, victims, pc>>
  BY DEF OtherOperation, Obstruct, Api, DisableCronBackup, EnableCronBackup, UpdateCronBackup,
         DeleteCronBackup, ApiWrite, bkVars
<1> QED
  BY <1>1, <1>2 DEF vars, bkVars

LEMMA RetentionStart == Init => Retention
<1> SUFFICES ASSUME Init PROVE Retention
  OBVIOUS
<1>1. Types
  BY TypesStart
<1>2. DOMAIN backups = {} /\ victims = {} /\ pc = "idle"
  BY DEF Init
<1> QED
  BY <1>1, <1>2 DEF Retention, RetiredWereOld, VictimsAreOld, CleansAVictim

LEMMA RetentionStep == Retention /\ [Next]_vars => Retention'
<1> SUFFICES ASSUME Retention, [Next]_vars PROVE Retention'
  OBVIOUS
<1>1. Types'
  BY TypesStep DEF Retention
<1>2. CASE UNCHANGED <<backups, victims, pc>>
  <2>1. Grows /\ Spares
    BY <1>2 DEF Grows, Spares, Retired
  <2>2. RetiredWereOld' /\ VictimsAreOld'
    BY <1>1, <1>2, <2>1, NothingRetired
  <2> QED
    BY <1>1, <1>2, <2>2 DEF Retention, CleansAVictim
<1>3. CASE ReconcileStep
  BY <1>1, <1>3, ReconcilerUninvolved, UninvolvedKeeps, CreateBackupKeeps, ListBackupsKeeps,
     DeleteBackupKeeps DEF ReconcileStep
<1> QED
  BY <1>2, <1>3, OthersKeepPlace, OthersChangeKeeps DEF Next

\* Only a victim falls to the retention, and a victim has enough newer ones.
LEMMA RemovesOnlyOld ==
    ASSUME Retention, [Next]_vars
    PROVE  \A i \in DOMAIN backups : ~Retired(i) /\ Retired(i)' => Expendable(i)
<1> SUFFICES ASSUME NEW i \in DOMAIN backups, ~Retired(i), Retired(i)' PROVE Expendable(i)
  OBVIOUS
<1>1. Types
  BY DEF Retention
<1>2. CASE backups' = backups
  BY <1>2 DEF Retired
<1>3. CASE CreateBackup
  <2>1. i \in DOMAIN backups'
    BY <1>1, <1>3, CreateBackupSpares DEF Grows
  <2> QED
    BY <1>1, <1>3, <2>1, CreateBackupSpares DEF Spares
<1>4. CASE ListBackups
  BY <1>2, <1>4 DEF ListBackups, bkVars
<1>5. CASE DeleteBackup
  BY <1>1, <1>2, <1>5, DeleteBackupTakes DEF Retention, VictimsAreOld
<1>6. ASSUME NEW k \in DOMAIN backups, BackupEnds(k) \/ ClientDeletesBackup(k) PROVE FALSE
  BY <1>1, <1>6, OthersChange
<1> QED
  BY <1>2, <1>3, <1>4, <1>5, <1>6, ReconcilerUninvolved, OthersKeepPlace
     DEF Next, ReconcileStep, Uninvolved

\* The retention takes a backup only if MaxBackupNum newer ones have not fallen to it,
\* or two of them are of one second, whatever the informer's list leaves out or still
\* holds and whatever clients delete (the loop after "keep the backup num").
THEOREM RetentionKeepsNewest == Spec => KeepsNewest
<1>1. Retention /\ [Next]_vars =>
        [\A i \in DOMAIN backups : ~Retired(i) /\ Retired(i)' =>
           Cardinality(Newer(i)) >= MaxBackupNum \/ TieFrom(i)]_vars
  BY RemovesOnlyOld DEF Expendable, HasNewer
<1> QED
  BY <1>1, RetentionStart, RetentionStep, PTL DEF Spec, KeepsNewest

\* Both parts of the composed specification keep their invariants: the types of the
\* cron backup, and no two months left out (Reconcile, ParseSchedule).
THEOREM CronIsSafe == MCInit /\ [][MCNext]_<<part, vars, calendarVars>> => []CronInvariant
<1>1. MCInit => Types /\ CalendarInvariant
  BY TypesStart, CalendarStart DEF MCInit
<1>2. Types /\ CalendarInvariant /\ [MCNext]_<<part, vars, calendarVars>>
      => (Types /\ CalendarInvariant)'
  <2>1. [MCNext]_<<part, vars, calendarVars>> => [Next]_vars /\ [CalendarNext]_calendarVars
    BY DEF MCNext
  <2> QED
    BY <2>1, TypesStep, CalendarStep
<1>3. Types /\ CalendarInvariant => CronInvariant
  BY TypesAreTypeOK, CalendarLeavesNoTwoOut DEF CronInvariant
<1> QED
  BY <1>1, <1>2, <1>3, PTL

=============================================================================
