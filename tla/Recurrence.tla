------------------------------ MODULE Recurrence ------------------------------
(***************************************************************************)
(* The generation of recurring work: a daily scan looks up which occurrences*)
(* of the active task templates are due and queues a job for each, and the  *)
(* jobs create the work items (master-plan/queues/recurrence.*.ts).  Handlers*)
(* are the workers of the queue.                                            *)
(*                                                                          *)
(* A day has at most one occurrence of a template.  The row that another    *)
(* service adds for the item (a checklist, an office task, an inspection)   *)
(* and the item's fields are left out; the queue, BullMQ on Redis, is       *)
(* modelled from the options the code gives it.                             *)
(***************************************************************************)
EXTENDS Server, FiniteSetsExt

CONSTANTS
  Templates,  \* task templates of the plan
  LastDay,    \* bound: days that pass
  Due,        \* the days on which the rule of a template has an occurrence
  Batch,      \* occurrences one scan looks at (40)
  Attempts,   \* attempts the queue gives a job (3)
  Staffed     \* whether the nodes have a responsible employee from the start, and
              \* the plan stays open; else each is named once, at any time

Days == 1..LastDay

ASSUME RecurrenceAssumption ==
  /\ LastDay \in Nat /\ Due \in [Templates -> SUBSET Days]
  /\ Batch \in Nat \ {0, 1} /\ Attempts \in Nat \ {0} /\ Staffed \in BOOLEAN

VARIABLES
  today,
  cronDay,    \* runAt in the data of the repeatable job
  scans,      \* runAt of the scan jobs that wait
  job,        \* the generate job of each occurrence: state, and attempts made
  template,   \* last_generated_date (0: none), responsible employee of its node
  plan,       \* status of the master plan
  item,       \* occurrences that have a work item
  blind,      \* history: latest day a scan saw a template with nothing generated
  excused     \* history: occurrences a job found nobody responsible for

recurrenceVars == <<today, cronDay, scans, job, template, plan, item, blind, excused>>
boardVars      == <<today, cronDay, plan>>
recordVars     == <<item, blind, excused>>

Occurrences == {o \in Templates \X Days : o[2] \in Due[o[1]]}
Day(o)      == o[2]
NoJob       == [state |-> "none", made |-> 0]

RecurrenceInit ==
  /\ today = 1 /\ cronDay = 1 /\ scans = {1} /\ plan = "ACTIVE"
  /\ job = [o \in Occurrences |-> NoJob]
  /\ template = [t \in Templates |-> [last |-> 0, staffed |-> Staffed]]
  /\ item = {} /\ blind = [t \in Templates |-> 0] /\ excused = {}

(***************************************************************************)
(* What happens around the workers                                          *)
(***************************************************************************)
\* The repeatable job fires with the data it was registered with.
NewDay ==
  /\ today < LastDay
  /\ today' = today + 1 /\ scans' = scans \cup {cronDay}
  /\ UNCHANGED <<serverVars, cronDay, job, template, plan, recordVars>>

\* registerCron, when the server starts; runAt is the time of that moment
Boot ==
  /\ cronDay' = today
  /\ UNCHANGED <<serverVars, today, scans, job, template, plan, recordVars>>

\* POST /master-plan/admin/trigger-daily-scan; bound: while no scan waits
TriggerScan ==
  /\ scans = {} /\ scans' = scans \cup {today}
  /\ UNCHANGED <<serverVars, boardVars, job, template, recordVars>>

SetResponsible ==
  /\ \E t \in Templates :
       ~template[t].staffed /\ template' = [template EXCEPT ![t].staffed = TRUE]
  /\ UNCHANGED <<serverVars, boardVars, scans, job, recordVars>>

ClosePlan ==
  /\ ~Staffed /\ plan' = "CLOSED"
  /\ UNCHANGED <<serverVars, today, cronDay, scans, job, template, recordVars>>

\* removeOnComplete
Forget ==
  /\ \E o \in Occurrences : job[o].state = "completed" /\ job' = [job EXCEPT ![o] = NoJob]
  /\ UNCHANGED <<serverVars, boardVars, scans, template, recordVars>>

(***************************************************************************)
(* handleDailyScan                                                          *)
(***************************************************************************)
\* Mutant: a scan looks at the occurrences of its own day only.
Matching_TodayOnly(t, runAt) == Due[t] \cap {runAt}

\* the first Batch occurrences from the last generated day on, up to runAt
Matching(t, runAt) ==
  LET start == IF template[t].last = 0 THEN runAt ELSE template[t].last
      next  == {d \in Due[t] : d >= start}
  IN  {d \in next : d <= runAt /\ Cardinality({e \in next : e < d}) < Batch}

Scan(h) ==
  \E runAt \in scans :
    /\ scans' = scans \ {runAt}
    /\ Begin(h, [pc |-> "enqueue", runAt |-> runAt,
                 todo |-> IF plan = "ACTIVE"
                            THEN {o \in Occurrences : Day(o) \in Matching(o[1], runAt)}
                            ELSE {}])
    /\ blind' = [t \in Templates |->
                   IF plan = "ACTIVE" /\ template[t].last = 0
                     THEN Max({blind[t], runAt}) ELSE blind[t]]
    /\ UNCHANGED <<boardVars, job, template, item, excused>>

\* enqueueGenerate, for the occurrences of a template in order; the queue
\* ignores a job whose id it still holds, also that of a failed job
Enqueue(h) ==
  /\ At(h, "enqueue")
  /\ LET c == call[h] IN
       \/ c.todo = {} /\ Return(h) /\ UNCHANGED job
       \/ \E o \in c.todo :
            /\ \A p \in c.todo : p[1] = o[1] => Day(o) <= Day(p)
            /\ job' = IF job[o] = NoJob THEN [job EXCEPT ![o].state = "waiting"] ELSE job
            /\ Become(h, [c EXCEPT !.todo = @ \ {o}])
  /\ UNCHANGED <<boardVars, scans, template, recordVars>>

(***************************************************************************)
(* handleGenerate                                                           *)
(***************************************************************************)
Finish(h, o) == Return(h) /\ job' = [job EXCEPT ![o] = [state |-> "completed", made |-> 0]]

\* a worker takes the job and looks for the work item
Take(h) ==
  /\ \E o \in Occurrences :
       /\ job[o].state = "waiting"
       /\ job' = [job EXCEPT ![o].state = "active", ![o].made = @ + 1]
       /\ Begin(h, [pc |-> IF o \in item THEN "exists" ELSE "load", o |-> o])
  /\ UNCHANGED <<boardVars, scans, template, recordVars>>

AlreadyExists(h) ==
  /\ At(h, "exists") /\ Finish(h, call[h].o)
  /\ UNCHANGED <<boardVars, scans, template, recordVars>>

\* the plan's status is not looked at again
Load(h) ==
  /\ At(h, "load")
  /\ LET o == call[h].o IN
       \/ /\ template[o[1]].staffed
          /\ Goto(h, "create") /\ UNCHANGED <<job, excused>>
       \/ /\ ~template[o[1]].staffed
          /\ Finish(h, o) /\ excused' = excused \cup {o}
  /\ UNCHANGED <<boardVars, scans, template, item, blind>>

\* The transaction; a second work item for the occurrence is refused.
Create(h) ==
  /\ At(h, "create") /\ call[h].o \notin item
  /\ LET o == call[h].o IN
       /\ item' = item \cup {o}
       /\ template' = [template EXCEPT ![o[1]].last = Day(o)]
       /\ Finish(h, o)
  /\ UNCHANGED <<boardVars, scans, blind, excused>>

\* The job throws: no active meter, no checklist template, a database error.
Throw(h) ==
  /\ CrashesAllowed /\ At(h, "create")
  /\ LET o == call[h].o IN
       job' = [job EXCEPT ![o].state = IF job[o].made < Attempts THEN "waiting" ELSE "failed"]
  /\ Return(h)
  /\ UNCHANGED <<boardVars, scans, template, recordVars>>

\* The worker dies: the queue finds its job stalled and starts it again once.
WorkerDies(h) ==
  /\ Crash(h)
  /\ \/ /\ At(h, "enqueue") /\ scans' \in {scans, scans \cup {call[h].runAt}}
        /\ UNCHANGED job
     \/ /\ ~At(h, "enqueue")
        /\ \E s \in {"waiting", "failed"} : job' = [job EXCEPT ![call[h].o].state = s]
        /\ UNCHANGED scans
  /\ UNCHANGED <<boardVars, template, recordVars>>

Work(h) == Enqueue(h) \/ AlreadyExists(h) \/ Load(h) \/ Create(h)

Plain ==
  \/ NewDay \/ SetResponsible \/ ClosePlan \/ Forget
  \/ \E h \in Handlers : Scan(h) \/ Take(h) \/ Work(h) \/ Throw(h) \/ WorkerDies(h)

RecurrenceNext == Plain \/ Boot \/ TriggerScan

recurrenceAll  == <<serverVars, recurrenceVars>>
RecurrenceSpec == ServerInit /\ RecurrenceInit /\ [][RecurrenceNext]_recurrenceAll

\* The server stays up, nobody scans by hand, and a day is long enough for its
\* jobs: the days pass, and a worker takes the jobs that wait and finishes them.
Rested   == scans = {} /\ Quiet /\ \A o \in Occurrences : job[o].state # "waiting"
LongDay  == NewDay /\ Rested
CronSpec ==
  /\ ServerInit /\ RecurrenceInit /\ [][Plain /\ (NewDay => Rested)]_recurrenceAll
  /\ WF_recurrenceAll(LongDay)
  /\ \A h \in Handlers : WF_recurrenceAll(Scan(h) \/ Take(h) \/ Work(h))

(***************************************************************************)
(* Properties                                                               *)
(***************************************************************************)
\* Once something has been generated for a template, moving last_generated_date
\* never skips an occurrence: each one up to it has its work item, or a job that
\* waits, runs or has failed for good, or found nobody responsible; whatever
\* order the workers run the jobs in and wherever they die
\* (recurrence.processor.ts:86-103, :229).
NothingSkipped ==
  \A o \in Occurrences :
    blind[o[1]] < Day(o) /\ Day(o) <= template[o[1]].last =>
      o \in item \cup excused \/ job[o].state \in {"waiting", "active", "failed"}

\* What is due is generated: the daily cron scans the active templates and
\* generates the instances of the day (docs/features/master-plan/BA_SPEC.md:304).
DueIsGenerated == \A o \in Occurrences : <>(o \in item)
=============================================================================
