------------------------------- MODULE MCCron -------------------------------
(* A cron backup in five scenarios, and the calendar of its last-day schedule. *)
EXTENDS CronBackups, MonthlySchedule

VARIABLE part

TwoYears == LET Year(feb) == <<31, feb, 31, 30, 31, 30, 31, 31, 30, 31, 30, 31>> IN
            Year(28) \o Year(29)

\* Requests change, disable and delete a schedule.
Requests == [oneShot |-> FALSE, does |-> {"cron"}, writes |-> 2, backups |-> 0,
             haste |-> FALSE, resync |-> FALSE]

\* A client deletes backups.
Deletions == [oneShot |-> FALSE, does |-> {"delete"}, writes |-> 2, backups |-> 0,
              haste |-> TRUE, resync |-> FALSE]

\* Other work on the cluster collides with createBackup.
Conflicts == [oneShot |-> FALSE, does |-> {"work"}, writes |-> 1, backups |-> 1,
              haste |-> TRUE, resync |-> TRUE]

\* createBackup cannot do its work for a while.
Obstacles == [oneShot |-> FALSE, does |-> {"obstruct"}, writes |-> 2, backups |-> 0,
              haste |-> FALSE, resync |-> TRUE]

\* One backup at a given time.
Once == [oneShot |-> TRUE, does |-> {"cron", "obstruct"}, writes |-> 2, backups |-> 2,
         haste |-> FALSE, resync |-> FALSE]

AllScenarios == {Requests, Deletions, Conflicts, Obstacles, Once}

\* The two parts have nothing in common, and one of them moves.
MCInit ==
    /\ part \in {"cron", "calendar"}
    /\ Init /\ CalendarInit
    /\ part = "cron" => day = 1
    /\ part = "calendar" => given = Once

MCNext ==
    \/ part = "cron" /\ Next /\ UNCHANGED <<part, calendarVars>>
    \/ part = "calendar" /\ CalendarNext /\ UNCHANGED <<part, vars>>

\* The calendar is checked for safety only; the fairness is the cron backup's.
MCSpec == MCInit /\ [][MCNext]_<<part, vars, calendarVars>> /\ Fairness

\* Every variable of the cron backup has its type, and two months in a row are
\* never left out by a last-day schedule (ParseSchedule, s.Next).
CronInvariant == TypeOK /\ NoTwoMonthsLeftOut

=============================================================================
