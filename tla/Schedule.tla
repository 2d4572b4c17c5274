------------------------------- MODULE Schedule -------------------------------
(***************************************************************************)
(* The schedule of a project: tasks, finish-to-start links with a lag, and  *)
(* the critical path computed anew after every change and stored in the     *)
(* tasks (project-schedule.service.ts, domain/cpm.logic.ts).                *)
(*                                                                          *)
(* A change and the recalculation that follows it are separate statements:  *)
(* others run in between, and the recalculation writes whole tasks back.    *)
(* Start and end dates are the early start and finish counted from the      *)
(* start of the project and are left out, and so are the baselines.         *)
(***************************************************************************)
EXTENDS Server, FiniteSetsExt

CONSTANTS
  Tasks,      \* ids of tasks; an id is used once
  Durations,  \* durations a task can have, in days (DTO: at least 1)
  Lags,       \* lags a link can have (an integer; negative is a lead)
  MaxLinks    \* bound: links there are at a time

ASSUME ScheduleAssumption ==
  Durations \subseteq Nat \ {0} /\ Lags \subseteq Int /\ MaxLinks \in Nat

VARIABLES
  task,     \* rows of project_tasks: live ids to rows
  buried,   \* ids of deleted tasks
  link      \* rows of task_links

scheduleVars == <<task, buried, link>>

Links == [pred : Tasks, succ : Tasks, lag : Lags]

\* a row before its first calculation: NULL, here 0, in the computed columns
NewTask(d) == [duration |-> d, es |-> 0, ef |-> 0, ls |-> 0, lf |-> 0, critical |-> FALSE]
Into(ls, t)   == {l \in ls : l.succ = t}
OutOf(ls, t)  == {l \in ls : l.pred = t}

(***************************************************************************)
(* cpm.logic.ts                                                             *)
(***************************************************************************)
\* detectCycle finds a grey node: some tasks each have a successor among them.
HasCycle(ts, ls) ==
  \E c \in (SUBSET ts) \ {{}} : \A t \in c : \E l \in OutOf(ls, t) : l.succ \in c

\* The ids topologicalSort emits: an id when its last incoming link is released.
\* A link leads out of a task only; its successor may be no task any more.
Sorted(ts, ls) ==
  LET ids  == ts \cup {l.succ : l \in ls}
      after[n \in Nat] ==
        IF n = 0 THEN {}
        ELSE {v \in ids : \A l \in Into(ls, v) : l.pred \in after[n - 1] \cap ts}
  IN  after[Cardinality(ids)]

Sortable(ts, ls) == Cardinality(Sorted(ts, ls)) = Cardinality(ts)

\* calculateCPM: forward pass, backward pass, float; row is the tasks as read
\* Mutant: the forward pass forgets the lag.
EarlyStart_NoLag(row, ls) ==
  LET es[t \in DOMAIN row] ==
        Max({0} \cup {es[l.pred] + row[l.pred].duration : l \in Into(ls, t)})
  IN  es

EarlyStart(row, ls) ==
  LET es[t \in DOMAIN row] ==
        Max({0} \cup {es[l.pred] + row[l.pred].duration + l.lag : l \in Into(ls, t)})
  IN  es

LateFinish(row, ls, last) ==
  LET lf[t \in DOMAIN row] ==
        IF OutOf(ls, t) = {} THEN last
        ELSE Min({(IF l.succ \in DOMAIN row THEN lf[l.succ] - row[l.succ].duration
                   ELSE last) - l.lag : l \in OutOf(ls, t)})
  IN  lf

Planned(row, ls) ==
  LET es   == EarlyStart(row, ls)
      ef   == [t \in DOMAIN row |-> es[t] + row[t].duration]
      lf   == LateFinish(row, ls, Max({0} \cup {ef[t] : t \in DOMAIN row}))
  IN  [t \in DOMAIN row |->
        [duration |-> row[t].duration, es |-> es[t], ef |-> ef[t],
         ls |-> lf[t] - row[t].duration, lf |-> lf[t],
         critical |-> lf[t] - row[t].duration = es[t] /\ row[t].duration > 0]]

(***************************************************************************)
(* The service                                                              *)
(***************************************************************************)
ScheduleInit == task = <<>> /\ buried = {} /\ link = {}

CreateTask(h) ==
  \E t \in Tasks \ (DOMAIN task \cup buried), d \in Durations :
    /\ task' = [u \in DOMAIN task \cup {t} |-> IF u = t THEN NewTask(d) ELSE task[u]]
    /\ Begin(h, [pc |-> "read tasks"])
    /\ UNCHANGED <<buried, link>>

\* updateTask: the task is loaded, changed and saved.
UpdateTask(h) ==
  \E t \in DOMAIN task, d \in Durations :
    /\ Begin(h, [pc |-> "save task", id |-> t, e |-> [task[t] EXCEPT !.duration = d]])
    /\ UNCHANGED scheduleVars

\* save(), its SELECT: TypeORM inserts an entity whose row it does not find.
Insertion     == {"insert"}
ToWrite(t, e) == IF t \in DOMAIN task THEN Dirty(e, task[t]) ELSE Insertion

SelectTask(h) ==
  /\ At(h, "save task")
  /\ LET c == call[h] IN
       Become(h, [pc |-> "update task", id |-> c.id, e |-> c.e,
                  dirty |-> ToWrite(c.id, c.e)])
  /\ UNCHANGED scheduleVars

\* what save() leaves of row, where plan holds what its SELECT found to write
Saved(row, e, plan) ==
  LET back == {t \in DOMAIN plan : plan[t] = Insertion}
  IN  [t \in DOMAIN row \cup back |->
        CASE t \in back        -> e[t]
          [] t \in DOMAIN plan -> Merge(row[t], e[t], plan[t])
          [] OTHER             -> row[t]]

WriteTask(h) ==
  /\ At(h, "update task")
  /\ LET c == call[h] IN
       task' = Saved(task, [t \in {c.id} |-> c.e], [t \in {c.id} |-> c.dirty])
  /\ buried' = buried \ DOMAIN task'
  /\ Goto(h, "read tasks")
  /\ UNCHANGED link

\* deleteTask: three statements
DeleteTask(h) ==
  \E t \in DOMAIN task :
    /\ link' = link \ OutOf(link, t)
    /\ Begin(h, [pc |-> "delete incoming", id |-> t])
    /\ UNCHANGED <<task, buried>>

DeleteIncoming(h) ==
  /\ At(h, "delete incoming")
  /\ link' = link \ Into(link, call[h].id)
  /\ Goto(h, "delete row")
  /\ UNCHANGED <<task, buried>>

DeleteRow(h) ==
  /\ At(h, "delete row")
  /\ task' = [t \in DOMAIN task \ {call[h].id} |-> task[t]]
  /\ buried' = buried \cup (DOMAIN task \ DOMAIN task')
  /\ Goto(h, "read tasks")
  /\ UNCHANGED link

CreateLink(h) ==
  \E l \in Links :
    /\ {l.pred, l.succ} \subseteq DOMAIN task /\ l.pred # l.succ
    /\ Cardinality(link) < MaxLinks
    /\ Begin(h, [pc |-> "read links", new |-> l])
    /\ UNCHANGED scheduleVars

ReadLinks(h) ==
  /\ At(h, "read links")
  /\ Become(h, [pc |-> "check cycle", new |-> call[h].new, seen |-> link])
  /\ UNCHANGED scheduleVars

\* Mutant: the cycle is looked for before the new link is added.
CheckCycle_OldLinks(h) ==
  /\ At(h, "check cycle")
  /\ LET c == call[h] IN
       IF HasCycle(DOMAIN task, c.seen) THEN Return(h)
       ELSE Become(h, [pc |-> "insert link", new |-> c.new])
  /\ UNCHANGED scheduleVars

CheckCycle(h) ==
  /\ At(h, "check cycle")
  /\ LET c == call[h] IN
       IF HasCycle(DOMAIN task, c.seen \cup {c.new}) THEN Return(h)
       ELSE Become(h, [pc |-> "insert link", new |-> c.new])
  /\ UNCHANGED scheduleVars

\* the row is refused when the two tasks are linked already (@Unique)
InsertLink(h) ==
  /\ At(h, "insert link")
  /\ LET l == call[h].new IN
       \/ /\ \E k \in link : k.pred = l.pred /\ k.succ = l.succ
          /\ Return(h) /\ UNCHANGED link
       \/ /\ ~\E k \in link : k.pred = l.pred /\ k.succ = l.succ
          /\ link' = link \cup {l}
          /\ Goto(h, "read tasks")
  /\ UNCHANGED <<task, buried>>

DeleteLink(h) ==
  \E l \in link :
    /\ link' = link \ {l}
    /\ Begin(h, [pc |-> "read tasks"])
    /\ UNCHANGED <<task, buried>>

(***************************************************************************)
(* recalculate, called at the end of every change                           *)
(***************************************************************************)
ReadTasks(h) ==
  /\ At(h, "read tasks")
  /\ Become(h, [pc |-> "plan", rows |-> task])
  /\ UNCHANGED scheduleVars

\* topologicalSort throws: the change stands, the schedule stays as it was.
Plan(h) ==
  /\ At(h, "plan")
  /\ LET row == call[h].rows IN
       IF row # <<>> /\ Sortable(DOMAIN row, link)
         THEN Become(h, [pc |-> "select rows", plan |-> Planned(row, link)])
         ELSE Return(h)
  /\ UNCHANGED scheduleVars

SelectRows(h) ==
  /\ At(h, "select rows")
  /\ LET p == call[h].plan IN
       Become(h, [pc |-> "write rows", plan |-> p,
                  dirty |-> [t \in DOMAIN p |-> ToWrite(t, p[t])]])
  /\ UNCHANGED scheduleVars

WriteRows(h) ==
  /\ At(h, "write rows")
  /\ task' = Saved(task, call[h].plan, call[h].dirty)
  /\ buried' = buried \ DOMAIN task'
  /\ Return(h)
  /\ UNCHANGED link

ScheduleStep(h) ==
  \/ CreateTask(h) \/ UpdateTask(h) \/ SelectTask(h) \/ WriteTask(h)
  \/ DeleteTask(h) \/ DeleteIncoming(h) \/ DeleteRow(h)
  \/ CreateLink(h) \/ ReadLinks(h) \/ CheckCycle(h) \/ InsertLink(h) \/ DeleteLink(h)
  \/ ReadTasks(h) \/ Plan(h) \/ SelectRows(h) \/ WriteRows(h)
  \/ Crash(h) /\ UNCHANGED scheduleVars

ScheduleNext == \E h \in Handlers : ScheduleStep(h)
ScheduleSpec == ServerInit /\ ScheduleInit /\ [][ScheduleNext]_<<serverVars, scheduleVars>>

(***************************************************************************)
(* Properties                                                               *)
(***************************************************************************)
\* A link that would close a cycle is refused (project-schedule.service.ts:177).
\* Two links created at once, each checked without the other, can close one.
NoCycleOfLinks == ~HasCycle(DOMAIN task, link)

\* Calls that run alone and to their end never close a cycle of links, and
\* leave no link to a task that is gone.
LinksMakeSense ==
  Calm => /\ NoCycleOfLinks
          /\ Quiet => \A l \in link : {l.pred, l.succ} \subseteq DOMAIN task

ProjectEnd == Max({0} \cup {task[t].ef : t \in DOMAIN task})

\* Between calls that ran alone the stored schedule is the earliest one the links
\* allow and the latest one that its successors allow: a task starts on day 0 or
\* when some predecessor lets it, never before; its late finish is the one that
\* leaves some successor its late start, or the end of the project when it has no
\* successor; and no float is negative.
ScheduleFits ==
  Calm /\ Quiet =>
    \A t \in DOMAIN task :
      LET r       == task[t]
          free(l) == task[l.pred].ef + l.lag
          last(l) == task[l.succ].ls - l.lag
      IN  /\ r.ef = r.es + r.duration /\ r.lf = r.ls + r.duration
          /\ r.es >= 0 /\ \A l \in Into(link, t) : r.es >= free(l)
          /\ r.es = 0 \/ \E l \in Into(link, t) : r.es = free(l)
          /\ r.ls >= r.es
          /\ \A l \in OutOf(link, t) : r.lf <= last(l)
          /\ IF OutOf(link, t) = {} THEN r.lf = ProjectEnd
             ELSE \E l \in OutOf(link, t) : r.lf = last(l)

\* A task that starts as late as its late_start does not delay the project
\* (project-task.entity.ts:71).  With a lead the late finish of a task that has
\* successors can lie beyond the end of the project.
LateStartDelaysNothing ==
  Calm /\ Quiet => \A t \in DOMAIN task : task[t].lf <= ProjectEnd

\* "Float = 0 => Critical Path": a project with tasks has a critical one
\* (cpm.logic.ts:9).  A lead lets a task end the project and have float.
HasCriticalTask ==
  Calm /\ Quiet /\ task # <<>> => \E t \in DOMAIN task : task[t].critical
=============================================================================
