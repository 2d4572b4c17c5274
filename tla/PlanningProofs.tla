--------------------------- MODULE PlanningProofs ----------------------------
(***************************************************************************)
(* What is proved of the planning services: recurring work, construction    *)
(* plans, the master plan and the schedule of a project.                    *)
(*                                                                          *)
(* Recurring work, for any templates, rules, batch size, number of workers  *)
(* and days, in whatever order jobs run and wherever workers die:           *)
(* last_generated_date never skips an occurrence (Recurrence!NothingSkipped).*)
(* last_generated_date moves up and down as jobs finish out of order, so it *)
(* says little by itself.  What is inductive is InOrder: the occurrences    *)
(* that were queued once have no gap above `blind`, because a scan starts   *)
(* where something was generated and queues in order.                       *)
(*                                                                          *)
(* The two kinds of plan, with one call at a time (OneHandler), wherever    *)
(* calls die: the invariants PlansInv and MasterInv say that what a handler *)
(* has read of the rows is still so when it writes, which is what makes the *)
(* sequence of statements as good as a transaction.  For the master plan    *)
(* this takes two facts about data: that the recursive query which collects *)
(* a branch returns all of it (BelowClosed), and that a sum of budgets      *)
(* bounds each partial sum (TotalOfPart in SumFacts).                      *)
(*                                                                          *)
(* The schedule, for any tasks, durations, lags and handlers, as long as    *)
(* calls run alone and to their end: ScheduleInv adds to what a handler     *)
(* knows of the rows (TaskKnows) that a schedule that fits is stored        *)
(* whenever no change waits for its recalculation.  That the two passes     *)
(* compute such a schedule (PlannedFits) is a fact about data: their        *)
(* recursion has a solution because a set of tasks that is not empty has    *)
(* one without a predecessor, and one without a successor, in the set.      *)
(***************************************************************************)
EXTENDS Recurrence, ConstructionPlans, MasterPlan, Schedule, HandlerFacts, SumFacts, TLAPS

-----------------------------------------------------------------------------
(* Recurring work: no occurrence is skipped *)

\* An occurrence that was queued once and is not lost.
Kept(o) == o \in item \cup excused \/ job[o].state \in {"waiting", "active", "failed"}

\* p is an earlier occurrence of the template of o that a scan should have seen.
Earlier(p, o) == p[1] = o[1] /\ blind[o[1]] < Day(p) /\ Day(p) < Day(o)

InOrder == \A o \in Occurrences : \A p \in Occurrences : Kept(o) /\ Earlier(p, o) => Kept(p)

Job == [state : {"none", "waiting", "active", "completed", "failed"}, made : Nat]

JobsOK ==
  /\ job \in [Occurrences -> Job] /\ item \subseteq Occurrences
  /\ \A o \in Occurrences : /\ job[o].state = "none" => job[o] = NoJob
                            /\ job[o].state = "completed" => o \in item \cup excused

TemplatesOK ==
  /\ template \in [Templates -> [last : Nat, staffed : BOOLEAN]]
  /\ \A t \in Templates : template[t].last = 0 \/ <<t, template[t].last>> \in item

DaysOK == today \in Nat /\ cronDay \in Nat /\ scans \subseteq Nat /\ blind \in [Templates -> Nat]

\* A scan queues what it found in order; a worker's occurrence was queued.
CallOK(c) ==
  /\ c.pc \in {"idle", "enqueue", "exists", "load", "create"}
  /\ c.pc = "enqueue" =>
       /\ c = [pc |-> c.pc, runAt |-> c.runAt, todo |-> c.todo]
       /\ c.runAt \in Nat /\ c.todo \subseteq Occurrences
       /\ \A o \in c.todo : \A p \in Occurrences : Earlier(p, o) => Kept(p) \/ p \in c.todo
  /\ c.pc \in {"exists", "load", "create"} =>
       c = [pc |-> c.pc, o |-> c.o] /\ c.o \in Occurrences /\ Kept(c.o)
  /\ c.pc = "exists" => c.o \in item

SkipInv ==
  /\ JobsOK /\ TemplatesOK /\ DaysOK /\ InOrder
  /\ DOMAIN call = Handlers /\ \A h \in Handlers : CallOK(call[h])

\* Steps that lose nothing.
Onward ==
  /\ item \subseteq item'
  /\ \A o \in Occurrences : Kept(o) => Kept(o)'
  /\ \A t \in Templates : blind[t] <= blind'[t]

-----------------------------------------------------------------------------
LEMMA OccurrenceIs ==
  \A o \in Occurrences : /\ o = <<o[1], Day(o)>> /\ o[1] \in Templates
                         /\ Day(o) \in Nat /\ Day(o) > 0 /\ Day(o) \in Due[o[1]]
  BY RecurrenceAssumption DEF Occurrences, Day, Days

LEMMA CallKept ==
  ASSUME SkipInv, DaysOK', Onward, NEW c, CallOK(c)
  PROVE  CallOK(c)'
  <1>1. \A o \in Occurrences : \A p \in Occurrences : Earlier(p, o)' => Earlier(p, o)
    BY OccurrenceIs DEF Earlier, Onward, DaysOK, SkipInv
  <1>2. /\ \A o \in Occurrences : Kept(o) => Kept(o)'
        /\ item \subseteq item'
    BY DEF Onward
  <1>3. c.pc = "enqueue" =>
          \A o \in c.todo : \A p \in Occurrences : Earlier(p, o)' => Kept(p)' \/ p \in c.todo
    BY <1>1, <1>2 DEF CallOK
  <1> QED
    BY <1>2, <1>3 DEF CallOK

\* No step but the queueing of an occurrence adds one that is kept.
LEMMA OrderKept ==
  ASSUME SkipInv, DaysOK', Onward, \A o \in Occurrences : Kept(o)' => Kept(o)
  PROVE  InOrder'
  <1>1. \A o \in Occurrences : \A p \in Occurrences : Earlier(p, o)' => Earlier(p, o)
    BY OccurrenceIs DEF Earlier, Onward, DaysOK, SkipInv
  <1> QED
    BY <1>1 DEF InOrder, Onward, SkipInv

LEMMA HandlerMoves ==
  ASSUME SkipInv, NEW h \in Handlers, NEW c, call' = [call EXCEPT ![h] = c], Onward,
         JobsOK', TemplatesOK', DaysOK', InOrder', CallOK(c)'
  PROVE  SkipInv'
  <1>1. ASSUME NEW g \in Handlers PROVE CallOK(call[g])'
    <2>1. CASE g = h
      BY <2>1 DEF SkipInv
    <2>2. CASE g # h
      <3>1. PICK d : d = call[g] /\ call'[g] = d
        BY <2>2 DEF SkipInv
      <3>2. CallOK(d)'
        BY <3>1, CallKept DEF SkipInv
      <3> QED
        BY <3>1, <3>2
    <2> QED
      BY <2>1, <2>2
  <1> QED
    BY <1>1 DEF SkipInv

\* What happens around the workers.
LEMMA WorkersWait ==
  ASSUME SkipInv, UNCHANGED <<call, item, excused, blind>>, Onward,
         \A o \in Occurrences : Kept(o)' => Kept(o),
         JobsOK', TemplatesOK', DaysOK'
  PROVE  SkipInv'
  <1>1. ASSUME NEW g \in Handlers PROVE CallOK(call[g])'
    <2>1. PICK d : d = call[g] /\ call'[g] = d
      OBVIOUS
    <2>2. CallOK(d)'
      BY <2>1, CallKept DEF SkipInv
    <2> QED
      BY <2>1, <2>2
  <1> QED
    BY <1>1, OrderKept DEF SkipInv

-----------------------------------------------------------------------------
LEMMA InitOK == ServerInit /\ RecurrenceInit => SkipInv
  <1> SUFFICES ASSUME ServerInit, RecurrenceInit PROVE SkipInv
    OBVIOUS
  <1>1. JobsOK
    BY DEF RecurrenceInit, JobsOK, Job, NoJob
  <1>2. TemplatesOK
    BY RecurrenceAssumption DEF RecurrenceInit, TemplatesOK
  <1>3. DaysOK
    BY DEF RecurrenceInit, DaysOK
  <1>4. InOrder
    BY DEF RecurrenceInit, InOrder, Kept, NoJob
  <1>5. DOMAIN call = Handlers /\ \A h \in Handlers : CallOK(call[h])
    BY DEF ServerInit, Idle, CallOK
  <1> QED
    BY <1>1, <1>2, <1>3, <1>4, <1>5 DEF SkipInv

LEMMA IdleOK == CallOK(Idle)'
  BY DEF CallOK, Idle

\* The clock, the people and the plan.
LEMMA AroundKeeps ==
  ASSUME SkipInv, NewDay \/ Boot \/ TriggerScan \/ SetResponsible \/ ClosePlan
  PROVE  SkipInv'
  <1>1. UNCHANGED <<call, job, item, excused, blind>>
    BY DEF NewDay, Boot, TriggerScan, SetResponsible, ClosePlan, serverVars, recordVars
  <1>2. Onward /\ (\A o \in Occurrences : Kept(o)' => Kept(o)) /\ JobsOK'
    BY <1>1 DEF Onward, Kept, SkipInv, JobsOK, DaysOK
  <1>3. TemplatesOK'
    <2>1. CASE SetResponsible
      <3>1. PICK t \in Templates : template' = [template EXCEPT ![t].staffed = TRUE]
        BY <2>1 DEF SetResponsible
      <3>2. template \in [Templates -> [last : Nat, staffed : BOOLEAN]]
        BY DEF SkipInv, TemplatesOK
      <3>3. /\ template' \in [Templates -> [last : Nat, staffed : BOOLEAN]]
            /\ \A u \in Templates : template'[u].last = template[u].last
        BY <3>1, <3>2
      <3> QED
        BY <1>1, <3>3 DEF SkipInv, TemplatesOK
    <2>2. CASE UNCHANGED template
      BY <1>1, <2>2 DEF SkipInv, TemplatesOK
    <2> QED
      BY <2>1, <2>2 DEF NewDay, Boot, TriggerScan, ClosePlan
  <1>4. DaysOK'
    BY <1>1 DEF NewDay, Boot, TriggerScan, SetResponsible, ClosePlan, SkipInv, DaysOK,
                boardVars
  <1> QED
    BY <1>1, <1>2, <1>3, <1>4, WorkersWait

\* One occurrence's job gets a record r; it stays kept, and no other changes.
LEMMA JobChanges ==
  ASSUME SkipInv, NEW o \in Occurrences, NEW r \in Job, job' = [job EXCEPT ![o] = r],
         UNCHANGED <<item, blind>>, excused \subseteq excused',
         excused' \subseteq excused \cup {o}, Kept(o), r.state # "none" \/ r = NoJob,
         Kept(o)', r.state = "completed" => o \in item' \cup excused'
  PROVE  Onward /\ (\A p \in Occurrences : Kept(p)' => Kept(p)) /\ JobsOK'
  <1>1. job'[o] = r /\ \A p \in Occurrences : p # o => job'[p] = job[p]
    BY DEF SkipInv, JobsOK
  <1>2. JobsOK'
    BY <1>1 DEF SkipInv, JobsOK
  <1>3. \A p \in Occurrences : Kept(p)' <=> Kept(p)
    BY <1>1 DEF Kept
  <1> QED
    BY <1>2, <1>3 DEF Onward, SkipInv, DaysOK

LEMMA ForgetKeeps ==
  ASSUME SkipInv, Forget
  PROVE  SkipInv'
  <1>1. PICK o \in Occurrences : job[o].state = "completed" /\ job' = [job EXCEPT ![o] = NoJob]
    BY DEF Forget
  <1>2. UNCHANGED <<call, item, excused, blind>> /\ TemplatesOK' /\ DaysOK'
    BY DEF Forget, serverVars, recordVars, boardVars, SkipInv, TemplatesOK, DaysOK
  <1>3. o \in item \cup excused /\ NoJob \in Job
    BY <1>1 DEF SkipInv, JobsOK, NoJob, Job
  <1>4. Kept(o) /\ Kept(o)'
    BY <1>2, <1>3 DEF Kept
  <1> QED
    BY <1>1, <1>2, <1>3, <1>4, JobChanges, WorkersWait DEF NoJob

-----------------------------------------------------------------------------
(* The jobs that generate items *)

LEMMA JobMoves ==
  ASSUME SkipInv, NEW h \in Handlers, NEW c, call' = [call EXCEPT ![h] = c], CallOK(c)',
         NEW o \in Occurrences, NEW r \in Job, job' = [job EXCEPT ![o] = r],
         UNCHANGED <<item, blind>>, excused \subseteq excused',
         excused' \subseteq excused \cup {o}, Kept(o), r.state # "none",
         Kept(o)', r.state = "completed" => o \in item' \cup excused',
         TemplatesOK', DaysOK'
  PROVE  SkipInv'
  BY JobChanges, OrderKept, HandlerMoves

LEMMA TakeKeeps ==
  ASSUME SkipInv, NEW h \in Handlers, Take(h)
  PROVE  SkipInv'
  <1>1. PICK o \in Occurrences :
          /\ job[o].state = "waiting"
          /\ job' = [job EXCEPT ![o].state = "active", ![o].made = @ + 1]
          /\ Begin(h, [pc |-> IF o \in item THEN "exists" ELSE "load", o |-> o])
    BY DEF Take
  <1>2. PICK c : c = [pc |-> IF o \in item THEN "exists" ELSE "load", o |-> o]
    OBVIOUS
  <1>3. PICK r : r = [state |-> "active", made |-> job[o].made + 1]
    OBVIOUS
  <1>4. job[o] \in Job /\ job \in [Occurrences -> Job]
    BY DEF SkipInv, JobsOK
  <1>5. r \in Job /\ r.state = "active" /\ job' = [job EXCEPT ![o] = r]
    BY <1>1, <1>3, <1>4 DEF Job
  <1>6. UNCHANGED <<item, excused, blind>> /\ TemplatesOK' /\ DaysOK'
    BY DEF Take, recordVars, boardVars, SkipInv, TemplatesOK, DaysOK
  <1>7. Kept(o) /\ Kept(o)'
    BY <1>1, <1>4, <1>5 DEF Kept
  <1>8. call' = [call EXCEPT ![h] = c] /\ CallOK(c)'
    <2>1. c.pc \in {"exists", "load"} /\ c = [pc |-> c.pc, o |-> c.o] /\ c.o = o
          /\ (c.pc = "exists" => o \in item)
      BY <1>2
    <2> QED
      BY <1>1, <1>2, <1>6, <1>7, <2>1 DEF Begin, CallOK
  <1> QED
    BY <1>5, <1>6, <1>7, <1>8, JobMoves

\* The call of a worker that has a job.
LEMMA Holding ==
  ASSUME SkipInv, NEW h \in Handlers, call[h].pc \in {"exists", "load", "create"}
  PROVE  /\ call[h].o \in Occurrences /\ Kept(call[h].o)
         /\ call[h] = [pc |-> call[h].pc, o |-> call[h].o]
         /\ call[h].pc = "exists" => call[h].o \in item
  BY DEF SkipInv, CallOK

LEMMA ExistsKeeps ==
  ASSUME SkipInv, NEW h \in Handlers, AlreadyExists(h)
  PROVE  SkipInv'
  <1>1. PICK o \in Occurrences : o = call[h].o /\ Kept(o) /\ o \in item
    BY Holding DEF AlreadyExists, At
  <1>2. PICK r : r = [state |-> "completed", made |-> 0]
    OBVIOUS
  <1>3. r \in Job /\ job' = [job EXCEPT ![o] = r] /\ r.state = "completed"
    BY <1>1, <1>2 DEF AlreadyExists, Finish, Job
  <1>4. UNCHANGED <<item, excused, blind>> /\ TemplatesOK' /\ DaysOK'
    BY DEF AlreadyExists, recordVars, boardVars, SkipInv, TemplatesOK, DaysOK
  <1>5. call' = [call EXCEPT ![h] = Idle] /\ Kept(o)'
    BY <1>1, <1>4 DEF AlreadyExists, Finish, Return, Become, Kept
  <1> QED
    BY <1>1, <1>3, <1>4, <1>5, IdleOK, JobMoves

LEMMA LoadKeeps ==
  ASSUME SkipInv, NEW h \in Handlers, Load(h)
  PROVE  SkipInv'
  <1>1. PICK o \in Occurrences : /\ o = call[h].o /\ Kept(o)
                                 /\ call[h] = [pc |-> call[h].pc, o |-> o]
    BY Holding DEF Load, At
  <1>2. UNCHANGED <<item, blind>> /\ TemplatesOK' /\ DaysOK'
    BY DEF Load, boardVars, SkipInv, TemplatesOK, DaysOK
  <1>3. CASE Goto(h, "create") /\ UNCHANGED <<job, excused>>
    <2>1. PICK c : c = [call[h] EXCEPT !.pc = "create"]
      OBVIOUS
    <2>2. c = [pc |-> c.pc, o |-> c.o] /\ c.pc = "create" /\ c.o = o
      BY <1>1, <2>1
    <2>3. Onward /\ (\A p \in Occurrences : Kept(p)' => Kept(p)) /\ JobsOK'
      BY <1>2, <1>3 DEF Onward, Kept, SkipInv, JobsOK, DaysOK
    <2>4. CallOK(c)'
      BY <1>1, <2>2, <2>3 DEF CallOK, Onward
    <2> QED
      BY <1>2, <1>3, <2>1, <2>3, <2>4, OrderKept, HandlerMoves DEF Goto, Become
  <1>4. CASE Finish(h, o) /\ excused' = excused \cup {o}
    <2>1. PICK r : r = [state |-> "completed", made |-> 0]
      OBVIOUS
    <2>2. r \in Job /\ job' = [job EXCEPT ![o] = r] /\ r.state = "completed"
      BY <1>4, <2>1 DEF Finish, Job
    <2>3. call' = [call EXCEPT ![h] = Idle] /\ Kept(o)'
      BY <1>4 DEF Finish, Return, Become, Kept
    <2> QED
      BY <1>1, <1>2, <1>4, <2>2, <2>3, IdleOK, JobMoves
  <1> QED
    BY <1>1, <1>3, <1>4 DEF Load

\* A worker throws or dies: its job waits again or has failed for good.
LEMMA JobReturned ==
  ASSUME SkipInv, NEW h \in Handlers, call[h].pc \in {"exists", "load", "create"},
         NEW s \in {"waiting", "failed"}, job' = [job EXCEPT ![call[h].o].state = s],
         call' = [call EXCEPT ![h] = Idle], UNCHANGED <<boardVars, scans, template, recordVars>>
  PROVE  SkipInv'
  <1>1. PICK o \in Occurrences : o = call[h].o /\ Kept(o)
    BY Holding
  <1>2. PICK r : r = [job[o] EXCEPT !.state = s]
    OBVIOUS
  <1>3. job[o] \in Job /\ job \in [Occurrences -> Job]
    BY DEF SkipInv, JobsOK
  <1>4. r \in Job /\ r.state = s /\ job' = [job EXCEPT ![o] = r]
    BY <1>1, <1>2, <1>3 DEF Job
  <1>5. UNCHANGED <<item, excused, blind>> /\ TemplatesOK' /\ DaysOK'
    BY DEF recordVars, boardVars, SkipInv, TemplatesOK, DaysOK
  <1>6. Kept(o)'
    BY <1>3, <1>4 DEF Kept
  <1> QED
    BY <1>1, <1>4, <1>5, <1>6, IdleOK, JobMoves

LEMMA ThrowKeeps ==
  ASSUME SkipInv, NEW h \in Handlers, Throw(h)
  PROVE  SkipInv'
  <1>1. PICK s \in {"waiting", "failed"} : job' = [job EXCEPT ![call[h].o].state = s]
    BY DEF Throw
  <1> QED
    BY <1>1, JobReturned DEF Throw, At, Return, Become

\* The item is kept as its job was, and the date is that of an item.
LEMMA CreateKeeps ==
  ASSUME SkipInv, NEW h \in Handlers, Create(h)
  PROVE  SkipInv'
  <1>1. PICK o \in Occurrences : o = call[h].o /\ Kept(o)
    BY Holding DEF Create, At
  <1>2. /\ item' = item \cup {o} /\ template' = [template EXCEPT ![o[1]].last = Day(o)]
        /\ job' = [job EXCEPT ![o] = [state |-> "completed", made |-> 0]]
        /\ call' = [call EXCEPT ![h] = Idle]
        /\ UNCHANGED <<blind, excused>>
    BY <1>1 DEF Create, Finish, Return, Become
  <1>3. DaysOK'
    BY <1>2 DEF Create, boardVars, SkipInv, DaysOK
  <1>4. JobsOK'
    <2>1. job \in [Occurrences -> Job] /\ item \subseteq Occurrences
      BY DEF SkipInv, JobsOK
    <2>2. job'[o].state = "completed" /\ \A p \in Occurrences : p # o => job'[p] = job[p]
      BY <1>2, <2>1
    <2>3. job' \in [Occurrences -> Job] /\ item' \subseteq Occurrences
      BY <1>2, <2>1 DEF Job
    <2> QED
      BY <1>2, <2>2, <2>3 DEF SkipInv, JobsOK
  <1>5. Onward /\ \A p \in Occurrences : Kept(p)' => Kept(p)
    <2>1. \A p \in Occurrences : p # o => job'[p] = job[p]
      BY <1>2 DEF SkipInv, JobsOK
    <2>2. \A p \in Occurrences : Kept(p)' <=> Kept(p)
      BY <1>1, <1>2, <2>1 DEF Kept
    <2> QED
      BY <1>2, <2>2 DEF Onward, SkipInv, DaysOK
  <1>6. TemplatesOK'
    <2>1. template \in [Templates -> [last : Nat, staffed : BOOLEAN]]
      BY DEF SkipInv, TemplatesOK
    <2>2. o = <<o[1], Day(o)>> /\ o[1] \in Templates /\ Day(o) \in Nat
      BY OccurrenceIs
    <2>3. /\ template' \in [Templates -> [last : Nat, staffed : BOOLEAN]]
          /\ template'[o[1]].last = Day(o)
          /\ \A t \in Templates : t # o[1] => template'[t] = template[t]
      BY <1>2, <2>1, <2>2
    <2> QED
      BY <1>2, <2>2, <2>3 DEF SkipInv, TemplatesOK
  <1> QED
    BY <1>2, <1>3, <1>4, <1>5, <1>6, IdleOK, OrderKept, HandlerMoves

-----------------------------------------------------------------------------
(* The scan *)

LEMMA ScanStops ==
  ASSUME SkipInv, NEW h \in Handlers, Return(h),
         UNCHANGED <<boardVars, job, template, recordVars>>, DaysOK'
  PROVE  SkipInv'
  <1>1. Onward /\ (\A o \in Occurrences : Kept(o)' => Kept(o)) /\ JobsOK' /\ TemplatesOK'
    BY DEF recordVars, Onward, Kept, SkipInv, JobsOK, TemplatesOK, DaysOK
  <1> QED
    BY <1>1, IdleOK, OrderKept, HandlerMoves DEF Return, Become

\* The first occurrence of what is left of a scan joins those that are kept.
LEMMA EnqueueKeeps ==
  ASSUME SkipInv, NEW h \in Handlers, Enqueue(h)
  PROVE  SkipInv'
  <1>1. UNCHANGED <<boardVars, scans, template, recordVars>> /\ TemplatesOK' /\ DaysOK'
    BY DEF Enqueue, SkipInv, TemplatesOK, DaysOK, boardVars, recordVars
  <1>2. CASE Return(h) /\ UNCHANGED job
    BY <1>1, <1>2, ScanStops
  <1>3. ASSUME NEW o \in call[h].todo,
               \A p \in call[h].todo : p[1] = o[1] => Day(o) <= Day(p),
               job' = IF job[o] = NoJob THEN [job EXCEPT ![o].state = "waiting"] ELSE job,
               Become(h, [call[h] EXCEPT !.todo = @ \ {o}])
        PROVE  SkipInv'
    <2>1. PICK c : c = call[h]
      OBVIOUS
    <2>2. /\ c.pc = "enqueue" /\ c = [pc |-> c.pc, runAt |-> c.runAt, todo |-> c.todo]
          /\ c.runAt \in Nat /\ c.todo \subseteq Occurrences /\ o \in c.todo
          /\ \A q \in c.todo : \A p \in Occurrences : Earlier(p, q) => Kept(p) \/ p \in c.todo
      BY <1>3, <2>1 DEF Enqueue, At, SkipInv, CallOK
    <2>3. UNCHANGED <<item, excused, blind>>
      BY <1>1 DEF recordVars
    <2>4. /\ job \in [Occurrences -> Job] /\ o \in Occurrences
          /\ job[o].state = "none" => job[o] = NoJob
          /\ job[o].state = "completed" => o \in item \cup excused
      BY <2>2 DEF SkipInv, JobsOK
    <2>5. JobsOK' /\ Kept(o)' /\ \A p \in Occurrences : p # o => job'[p] = job[p]
      <3>1. CASE job[o] = NoJob
        <4>1. job' = [job EXCEPT ![o].state = "waiting"]
          BY <1>3, <3>1
        <4>2. job'[o].state = "waiting" /\ \A p \in Occurrences : p # o => job'[p] = job[p]
          BY <2>4, <4>1 DEF Job
        <4>3. job' \in [Occurrences -> Job]
          BY <2>4, <4>1 DEF Job
        <4> QED
          BY <2>3, <4>2, <4>3 DEF SkipInv, JobsOK, Kept
      <3>2. CASE job[o] # NoJob
        <4>1. job' = job
          BY <1>3, <3>2
        <4>2. job[o].state \in {"waiting", "active", "failed"} \/ o \in item \cup excused
          BY <2>4, <3>2 DEF Job
        <4> QED
          BY <2>3, <4>1, <4>2 DEF SkipInv, JobsOK, Kept
      <3> QED
        BY <3>1, <3>2
    <2>6. \A p \in Occurrences : Kept(p)' <=> Kept(p) \/ p = o
      BY <2>3, <2>5 DEF Kept
    <2>7. Onward
      BY <2>3, <2>6 DEF Onward, SkipInv, DaysOK
    <2>8. InOrder'
      <3>1. \A q \in Occurrences : \A p \in Occurrences : Earlier(p, q)' <=> Earlier(p, q)
        BY <2>3 DEF Earlier
      <3>2. \A p \in Occurrences : Earlier(p, o) => Kept(p)
        BY <1>3, <2>1, <2>2, OccurrenceIs DEF Earlier
      <3> QED
        BY <2>6, <3>1, <3>2 DEF SkipInv, InOrder
    <2>9. PICK d : d = [c EXCEPT !.todo = @ \ {o}]
      OBVIOUS
    <2>10. /\ d.pc = "enqueue" /\ d = [pc |-> d.pc, runAt |-> d.runAt, todo |-> d.todo]
           /\ d.runAt = c.runAt /\ d.todo = c.todo \ {o}
      BY <2>2, <2>9
    <2>11. \A q \in d.todo : \A p \in Occurrences : Earlier(p, q)' => Kept(p)' \/ p \in d.todo
      BY <2>2, <2>3, <2>6, <2>10 DEF Earlier
    <2>12. CallOK(d)'
      BY <2>2, <2>10, <2>11 DEF CallOK
    <2> QED
      BY <1>1, <1>3, <2>1, <2>5, <2>7, <2>8, <2>9, <2>12, HandlerMoves DEF Become
  <1> QED
    BY <1>2, <1>3 DEF Enqueue

LEMMA LargerOfTwo ==
  ASSUME NEW a \in Nat, NEW b \in Nat
  PROVE  Max({a, b}) \in Nat /\ Max({a, b}) >= a /\ Max({a, b}) >= b
  <1>1. \E x \in {a, b} : \A y \in {a, b} : x >= y
    BY a >= b \/ b >= a
  <1> QED
    BY <1>1 DEF Max

\* A scan that looks at an occurrence looks at all before it, back to the day where
\* the template was generated last.
LEMMA MatchingInOrder ==
  ASSUME SkipInv, NEW t \in Templates, NEW runAt \in Nat, NEW d \in Matching(t, runAt),
         NEW e \in Due[t], e < d, template[t].last # 0, e >= template[t].last
  PROVE  e \in Matching(t, runAt)
  <1> DEFINE start  == IF template[t].last = 0 THEN runAt ELSE template[t].last
             next   == {x \in Due[t] : x >= start}
             upTo(y) == {x \in next : x < y}
  <1>1. Matching(t, runAt) = {x \in next : x <= runAt /\ Cardinality(upTo(x)) < Batch}
    BY DEF Matching
  <1>2. IsFiniteSet(Due[t]) /\ Due[t] \subseteq Nat
    <2>1. Due[t] \subseteq 1 .. LastDay /\ LastDay \in Int
      BY RecurrenceAssumption DEF Days
    <2>2. IsFiniteSet(1 .. LastDay)
      BY <2>1, FS_Interval
    <2> QED
      BY <2>1, <2>2, FS_Subset
  <1>3. d \in next /\ d <= runAt /\ Cardinality(upTo(d)) < Batch /\ e \in next
        /\ d \in Nat /\ e \in Nat
    BY <1>1, <1>2
  <1>4. upTo(e) \subseteq upTo(d) /\ IsFiniteSet(upTo(d)) /\ IsFiniteSet(upTo(e))
    <2>1. upTo(d) \subseteq Due[t] /\ upTo(e) \subseteq Due[t]
      OBVIOUS
    <2>2. upTo(e) \subseteq upTo(d)
      BY <1>2, <1>3
    <2> QED
      BY <1>2, <2>1, <2>2, FS_Subset
  <1> HIDE DEF start, next, upTo
  <1>5. /\ Cardinality(upTo(e)) <= Cardinality(upTo(d))
        /\ Cardinality(upTo(e)) \in Nat /\ Cardinality(upTo(d)) \in Nat
    BY <1>4, FS_Subset, FS_CardinalityType
  <1>6. Cardinality(upTo(e)) < Batch /\ e <= runAt
    <2>1. Batch \in Nat
      BY RecurrenceAssumption
    <2>2. e <= runAt
      BY <1>3
    <2>3. Cardinality(upTo(e)) < Batch
      BY <1>3, <1>5, <2>1
    <2> QED
      BY <2>2, <2>3
  <1> QED
    BY <1>1, <1>3, <1>6

LEMMA ScanKeeps ==
  ASSUME SkipInv, NEW h \in Handlers, Scan(h)
  PROVE  SkipInv'
  <1>1. PICK runAt \in scans :
          /\ scans' = scans \ {runAt}
          /\ Begin(h, [pc |-> "enqueue", runAt |-> runAt,
                       todo |-> IF plan = "ACTIVE"
                                  THEN {o \in Occurrences : Day(o) \in Matching(o[1], runAt)}
                                  ELSE {}])
          /\ blind' = [t \in Templates |->
                         IF plan = "ACTIVE" /\ template[t].last = 0
                           THEN Max({blind[t], runAt}) ELSE blind[t]]
          /\ UNCHANGED <<boardVars, job, template, item, excused>>
    BY DEF Scan
  <1>2. runAt \in Nat /\ \A t \in Templates : blind[t] \in Nat /\ template[t].last \in Nat
    BY <1>1 DEF SkipInv, DaysOK, TemplatesOK
  <1>3. \A t \in Templates : /\ blind'[t] \in Nat /\ blind[t] <= blind'[t]
                             /\ plan = "ACTIVE" /\ template[t].last = 0 => runAt <= blind'[t]
                             /\ template[t].last # 0 => blind'[t] = blind[t]
    <2> TAKE t \in Templates
    <2>1. blind'[t] = IF plan = "ACTIVE" /\ template[t].last = 0
                        THEN Max({blind[t], runAt}) ELSE blind[t]
      BY <1>1
    <2>2. /\ Max({blind[t], runAt}) \in Nat /\ Max({blind[t], runAt}) >= blind[t]
          /\ Max({blind[t], runAt}) >= runAt
      BY <1>2, LargerOfTwo
    <2> QED
      BY <1>2, <2>1, <2>2
  <1>4. DaysOK' /\ JobsOK' /\ TemplatesOK'
    BY <1>1, <1>3 DEF SkipInv, DaysOK, JobsOK, TemplatesOK, boardVars
  <1>5. Onward /\ \A o \in Occurrences : Kept(o)' <=> Kept(o)
    BY <1>1, <1>3 DEF Onward, Kept
  <1>6. PICK c : c = [pc |-> "enqueue", runAt |-> runAt,
                      todo |-> IF plan = "ACTIVE"
                                 THEN {o \in Occurrences : Day(o) \in Matching(o[1], runAt)}
                                 ELSE {}]
    OBVIOUS
  <1>7. /\ c.pc = "enqueue" /\ c = [pc |-> c.pc, runAt |-> c.runAt, todo |-> c.todo]
        /\ c.runAt = runAt
        /\ c.todo \subseteq {o \in Occurrences : Day(o) \in Matching(o[1], runAt)}
        /\ c.todo # {} => /\ plan = "ACTIVE"
                          /\ c.todo = {o \in Occurrences : Day(o) \in Matching(o[1], runAt)}
    BY <1>6
  <1>8. ASSUME NEW o \in c.todo, NEW p \in Occurrences, Earlier(p, o)'
        PROVE  Kept(p) \/ p \in c.todo
    <2>1. PICK t \in Templates : t = o[1] /\ t = p[1]
      BY <1>7, <1>8, OccurrenceIs DEF Earlier
    <2>2. /\ blind'[t] < Day(p) /\ Day(p) < Day(o) /\ Day(o) \in Matching(t, runAt)
          /\ Day(p) \in Due[t] /\ Day(p) \in Nat /\ Day(o) \in Nat /\ plan = "ACTIVE"
      BY <1>7, <1>8, <2>1, OccurrenceIs DEF Earlier
    <2>3. Day(o) <= runAt
      BY <2>2 DEF Matching
    <2>4. CASE template[t].last = 0
      BY <1>2, <1>3, <2>2, <2>3, <2>4
    <2>5. CASE template[t].last # 0 /\ Day(p) >= template[t].last
      BY <1>2, <1>7, <2>1, <2>2, <2>5, MatchingInOrder
    <2>6. CASE template[t].last # 0 /\ Day(p) < template[t].last
      <3>1. PICK q \in Occurrences : q = <<t, template[t].last>> /\ q \in item
        BY <2>6 DEF SkipInv, TemplatesOK, JobsOK
      <3>2. q[1] = t /\ Day(q) = template[t].last
        BY <3>1 DEF Day
      <3>3. Earlier(p, q) /\ Kept(q)
        BY <1>3, <2>1, <2>2, <2>6, <3>1, <3>2 DEF Earlier, Kept
      <3> QED
        BY <3>3 DEF SkipInv, InOrder
    <2> QED
      BY <1>2, <2>2, <2>4, <2>5, <2>6
  <1>9. CallOK(c)'
    BY <1>2, <1>5, <1>7, <1>8 DEF CallOK
  <1> QED
    BY <1>1, <1>4, <1>5, <1>6, <1>9, OrderKept, HandlerMoves DEF Begin

LEMMA DeathKeeps ==
  ASSUME SkipInv, NEW h \in Handlers, WorkerDies(h)
  PROVE  SkipInv'
  <1>1. call' = [call EXCEPT ![h] = Idle] /\ call[h].pc # "idle"
    BY DEF WorkerDies, Crash, At
  <1>2. CallOK(call[h])
    BY DEF SkipInv
  <1>3. CASE At(h, "enqueue")
    <2>1. UNCHANGED <<boardVars, job, template, recordVars>>
      BY <1>3 DEF WorkerDies
    <2>2. DaysOK'
      <3>1. scans' \in {scans, scans \cup {call[h].runAt}} /\ call[h].runAt \in Nat
        BY <1>2, <1>3 DEF WorkerDies, At, CallOK
      <3> QED
        BY <2>1, <3>1 DEF SkipInv, DaysOK, boardVars, recordVars
    <2>3. Onward /\ (\A o \in Occurrences : Kept(o)' => Kept(o)) /\ JobsOK' /\ TemplatesOK'
      BY <2>1 DEF recordVars, Onward, Kept, SkipInv, JobsOK, TemplatesOK, DaysOK
    <2> QED
      BY <1>1, <2>2, <2>3, IdleOK, OrderKept, HandlerMoves
  <1>4. CASE ~At(h, "enqueue")
    <2>1. call[h].pc \in {"exists", "load", "create"}
      BY <1>1, <1>2, <1>4 DEF At, CallOK
    <2>2. PICK s \in {"waiting", "failed"} : job' = [job EXCEPT ![call[h].o].state = s]
      BY <1>4 DEF WorkerDies
    <2> QED
      BY <1>1, <1>4, <2>1, <2>2, JobReturned DEF WorkerDies
  <1> QED
    BY <1>3, <1>4

-----------------------------------------------------------------------------
LEMMA NextKeeps == SkipInv /\ [RecurrenceNext]_recurrenceAll => SkipInv'
  <1> SUFFICES ASSUME SkipInv, [RecurrenceNext]_recurrenceAll PROVE SkipInv'
    OBVIOUS
  <1>1. ASSUME NEW h \in Handlers,
               Scan(h) \/ Take(h) \/ Work(h) \/ Throw(h) \/ WorkerDies(h)
        PROVE  SkipInv'
    BY <1>1, ScanKeeps, TakeKeeps, EnqueueKeeps, ExistsKeeps, LoadKeeps, CreateKeeps,
       ThrowKeeps, DeathKeeps DEF Work
  <1>2. CASE RecurrenceNext
    BY <1>1, <1>2, AroundKeeps, ForgetKeeps DEF RecurrenceNext, Plain
  <1>3. CASE UNCHANGED recurrenceAll
    <2>1. /\ UNCHANGED <<call, item, excused, blind>> /\ Onward
          /\ \A o \in Occurrences : Kept(o)' => Kept(o)
          /\ JobsOK' /\ TemplatesOK' /\ DaysOK'
      BY <1>3 DEF recurrenceAll, serverVars, recurrenceVars, Onward, Kept, SkipInv, JobsOK,
                  TemplatesOK, DaysOK
    <2> QED
      BY <2>1, WorkersWait
  <1> QED
    BY <1>2, <1>3

\* The last date generated is that of an item, and there is no gap below it.
LEMMA NoneSkipped == SkipInv => NothingSkipped
  <1> SUFFICES ASSUME SkipInv, NEW o \in Occurrences,
                      blind[o[1]] < Day(o), Day(o) <= template[o[1]].last
               PROVE  Kept(o)
    BY DEF NothingSkipped, Kept
  <1>1. PICK t \in Templates : t = o[1] /\ o = <<t, Day(o)>> /\ Day(o) \in Nat /\ Day(o) > 0
    BY OccurrenceIs
  <1>2. template[t].last \in Nat /\ template[t].last # 0
    BY <1>1 DEF SkipInv, TemplatesOK
  <1>3. PICK q \in Occurrences : q = <<t, template[t].last>> /\ q \in item
    BY <1>2 DEF SkipInv, TemplatesOK, JobsOK
  <1>4. Kept(q) /\ q[1] = t /\ Day(q) = template[t].last
    BY <1>3 DEF Kept, Day
  <1>5. CASE Day(o) = template[t].last
    BY <1>1, <1>3, <1>4, <1>5
  <1>6. CASE Day(o) < template[t].last
    BY <1>1, <1>4, <1>6 DEF SkipInv, InOrder, Earlier
  <1> QED
    BY <1>1, <1>2, <1>5, <1>6

\* Whatever order the jobs run in, wherever workers die and however often a job is
\* tried: last_generated_date never passes an occurrence that has no work item, no
\* job that waits, runs or has failed for good, and had somebody responsible
\* (recurrence.processor.ts:86-103, :229).
THEOREM NoGaps == RecurrenceSpec => []NothingSkipped
  <1> QED
    BY InitOK, NextKeeps, NoneSkipped, PTL DEF RecurrenceSpec

-----------------------------------------------------------------------------
(* One call at a time *)

\* The server runs one request at a time, as in MCPlanning.
OneHandler == \A g, h \in Handlers : g = h

\* A call that starts, goes on or dies changes its own record only, the only one.
LEMMA OneCall ==
  ASSUME OneHandler, DOMAIN call = Handlers, NEW h \in Handlers, NEW c,
         Begin(h, c) \/ Become(h, c)
  PROVE  DOMAIN call' = Handlers /\ \A g \in Handlers : g = h /\ call'[g] = c
  BY DEF Begin, Become, OneHandler

LEMMA OneCrash ==
  ASSUME OneHandler, DOMAIN call = Handlers, NEW h \in Handlers, Crash(h)
  PROVE  DOMAIN call' = Handlers /\ \A g \in Handlers : call'[g] = Idle
  BY DEF Crash, OneHandler

-----------------------------------------------------------------------------
(* Construction plans: the baseline *)

IsPlan(r) ==
  /\ r = [version |-> r.version, text |-> r.text, status |-> r.status,
          baseline |-> r.baseline, frozen |-> r.frozen]
  /\ r.baseline \in BOOLEAN /\ r.frozen \in BOOLEAN
  /\ r.frozen <=> r.status = "APPROVED"

Baselines == {p \in DOMAIN planRow : planRow[p].baseline}

\* What the handler is about to save, and what it has set aside for it.
PlanCallOK(c) ==
  c.pc \in {"clear baseline", "select plan", "update plan"} =>
    LET r == planRow[c.id]
    IN  /\ c = [pc |-> c.pc, id |-> c.id, e |-> c.e, dirty |-> c.dirty,
                 cleared |-> c.cleared]
        /\ c.id \in DOMAIN planRow /\ IsPlan(c.e)
        /\ c.e.status = "APPROVED" =>
             /\ c.e.baseline /\ r.status = "REVIEWED" /\ c.e.text = r.text
             /\ c.pc # "clear baseline" => c.cleared = Baselines
        /\ c.e.status # "APPROVED" =>
             c.e.baseline = r.baseline /\ c.pc # "clear baseline" /\ c.cleared = {}
        /\ c.pc = "update plan" => c.dirty = Dirty(c.e, r)

PlanRowsOK ==
  /\ DOMAIN planRow \subseteq PlanIds /\ latest \in Seq(PlanIds)
  /\ Baselines = IF latest = <<>> THEN {} ELSE {latest[Len(latest)]}
  /\ \A p \in DOMAIN planRow :
       /\ IsPlan(planRow[p])
       /\ planRow[p].status \in {"REVIEWED", "APPROVED"} =>
            p \in DOMAIN endorsedText /\ endorsedText[p] = planRow[p].text

PlansInv ==
  /\ DOMAIN call = Handlers /\ PlanRowsOK
  /\ \A h \in Handlers : PlanCallOK(call[h])

LEMMA PlansInitOK == ServerInit /\ PlansInit => PlansInv
  <1> SUFFICES ASSUME ServerInit, PlansInit PROVE PlansInv
    OBVIOUS
  <1>1. DOMAIN planRow = {} /\ latest = <<>> /\ latest \in Seq(PlanIds)
    BY DEF PlansInit
  <1>2. \A h \in Handlers : PlanCallOK(call[h])
    BY DEF ServerInit, PlanCallOK, Idle
  <1>3. PlanRowsOK
    BY <1>1 DEF PlanRowsOK, Baselines
  <1> QED
    BY <1>2, <1>3 DEF PlansInv, ServerInit

LEMMA PlanCallMoves ==
  ASSUME OneHandler, PlansInv, NEW h \in Handlers, NEW c, Begin(h, c) \/ Become(h, c),
         UNCHANGED planVars, PlanCallOK(c)
  PROVE  PlansInv'
  <1>1. DOMAIN call' = Handlers /\ \A g \in Handlers : call'[g] = c
    BY OneCall DEF PlansInv
  <1>2. PlanCallOK(c)'
    BY DEF PlanCallOK, Baselines, planVars
  <1>3. PlanRowsOK'
    BY DEF PlansInv, PlanRowsOK, Baselines, planVars
  <1> QED
    BY <1>1, <1>2, <1>3 DEF PlansInv

LEMMA PlanLoaded ==
  ASSUME OneHandler, PlansInv, NEW h \in Handlers,
         EditPlan(h) \/ SubmitPlan(h) \/ ReviewPlan(h) \/ RejectPlan(h) \/ ApprovePlan(h)
  PROVE  PlansInv'
  <1>1. PICK p \in DOMAIN planRow : \E e, pc :
          /\ LoadPlan(h, pc, p, e) /\ ~ planRow[p].frozen
          /\ \/ /\ pc = "select plan" /\ planRow[p].status = "DRAFT"
                /\ \E text \in Texts : e = [planRow[p] EXCEPT !.text = text]
             \/ \E s \in {"SUBMITTED", "REVIEWED", "REJECTED", "APPROVED"} :
                  /\ pc = IF s = "APPROVED" THEN "clear baseline" ELSE "select plan"
                  /\ s = "APPROVED" => planRow[p].status = "REVIEWED"
                  /\ e = [planRow[p] EXCEPT !.status = s, !.baseline = @ \/ s = "APPROVED",
                                            !.frozen = @ \/ s = "APPROVED"]
    BY DEF EditPlan, SubmitPlan, ReviewPlan, RejectPlan, ApprovePlan, Proceed, Proceeds
  <1>2. PICK e, pc :
          /\ LoadPlan(h, pc, p, e) /\ ~ planRow[p].frozen
          /\ \/ /\ pc = "select plan" /\ planRow[p].status = "DRAFT"
                /\ \E text \in Texts : e = [planRow[p] EXCEPT !.text = text]
             \/ \E s \in {"SUBMITTED", "REVIEWED", "REJECTED", "APPROVED"} :
                  /\ pc = IF s = "APPROVED" THEN "clear baseline" ELSE "select plan"
                  /\ s = "APPROVED" => planRow[p].status = "REVIEWED"
                  /\ e = [planRow[p] EXCEPT !.status = s, !.baseline = @ \/ s = "APPROVED",
                                            !.frozen = @ \/ s = "APPROVED"]
    BY <1>1
  <1>3. PICK r : r = planRow[p] /\ IsPlan(r)
    BY DEF PlansInv, PlanRowsOK
  <1>4. /\ IsPlan(e) /\ pc \in {"clear baseline", "select plan"}
        /\ e.status = "APPROVED" => pc = "clear baseline" /\ e.baseline
                                    /\ r.status = "REVIEWED" /\ e.text = r.text
        /\ e.status # "APPROVED" => pc = "select plan" /\ e.baseline = r.baseline
    BY <1>2, <1>3 DEF IsPlan
  <1>5. PICK c : c = [pc |-> pc, id |-> p, e |-> e, dirty |-> {}, cleared |-> {}]
    OBVIOUS
  <1>6. PlanCallOK(c)
    BY <1>1, <1>3, <1>4, <1>5 DEF PlanCallOK
  <1> QED
    BY <1>2, <1>5, <1>6, PlanCallMoves DEF LoadPlan

LEMMA PlanGoesOn ==
  ASSUME OneHandler, PlansInv, NEW h \in Handlers,
         CreatePlan(h) \/ ClearBaseline(h) \/ SelectPlan(h)
  PROVE  PlansInv'
  <1>1. CASE CreatePlan(h)
    <2>1. PICK c : c = [pc |-> "insert plan",
                   version |-> Max({0} \cup {planRow[p].version : p \in DOMAIN planRow}) + 1]
      OBVIOUS
    <2>2. PlanCallOK(c)
      BY <2>1 DEF PlanCallOK
    <2> QED
      BY <1>1, <2>1, <2>2, PlanCallMoves DEF CreatePlan
  <1>2. CASE ClearBaseline(h)
    <2>1. PICK c, d : c = call[h] /\ d = [c EXCEPT !.pc = "select plan", !.cleared = Baselines]
      OBVIOUS
    <2>2. Become(h, d) /\ PlanCallOK(c) /\ c.pc = "clear baseline" /\ UNCHANGED planVars
      BY <1>2, <2>1 DEF ClearBaseline, PlansInv, At, Baselines
    <2>3. d = [pc |-> "select plan", id |-> c.id, e |-> c.e, dirty |-> c.dirty,
               cleared |-> Baselines]
      BY <2>1, <2>2 DEF PlanCallOK
    <2>4. PlanCallOK(d)
      BY <2>2, <2>3 DEF PlanCallOK
    <2> QED
      BY <2>2, <2>4, PlanCallMoves
  <1>3. CASE SelectPlan(h)
    <2>1. PICK c, d : c = call[h] /\ d = [c EXCEPT !.pc = "update plan",
                                                 !.dirty = Dirty(c.e, planRow[c.id])]
      OBVIOUS
    <2>2. Become(h, d) /\ PlanCallOK(c) /\ c.pc = "select plan" /\ UNCHANGED planVars
      BY <1>3, <2>1 DEF SelectPlan, PlansInv, At
    <2>3. d = [pc |-> "update plan", id |-> c.id, e |-> c.e,
               dirty |-> Dirty(c.e, planRow[c.id]), cleared |-> c.cleared]
      BY <2>1, <2>2 DEF PlanCallOK
    <2>4. PlanCallOK(d)
      BY <2>2, <2>3 DEF PlanCallOK
    <2> QED
      BY <2>2, <2>4, PlanCallMoves
  <1> QED
    BY <1>1, <1>2, <1>3

\* A call that ends may leave the rows as they please.
LEMMA PlanCallEnds ==
  ASSUME OneHandler, PlansInv, NEW h \in Handlers, Return(h) \/ Crash(h), PlanRowsOK'
  PROVE  PlansInv'
  <1>1. DOMAIN call' = Handlers /\ \A g \in Handlers : call'[g] = Idle
    BY OneCall, OneCrash DEF PlansInv, Return
  <1>2. PICK c : c = Idle
    OBVIOUS
  <1>3. PlanCallOK(c)'
    BY <1>2 DEF PlanCallOK, Idle
  <1>4. (\A g \in Handlers : PlanCallOK(call[g]))'
    BY <1>1, <1>2, <1>3
  <1> QED
    BY <1>1, <1>4 DEF PlansInv

\* A draft takes nothing from the others.
LEMMA PlanInserted ==
  ASSUME OneHandler, PlansInv, NEW h \in Handlers, InsertPlan(h)
  PROVE  PlansInv'
  <1>1. PICK p \in PlanIds \ DOMAIN planRow, text \in Texts :
          planRow' = WithPlan(p, DraftPlan(call[h].version, text))
    BY DEF InsertPlan
  <1>2. PICK d : d = DraftPlan(call[h].version, text)
    OBVIOUS
  <1>3. IsPlan(d) /\ d.status = "DRAFT" /\ ~ d.baseline
    BY <1>2 DEF IsPlan, DraftPlan
  <1>4. /\ DOMAIN planRow' = DOMAIN planRow \cup {p} /\ planRow'[p] = d
        /\ \A q \in DOMAIN planRow : planRow'[q] = planRow[q]
    BY <1>1, <1>2 DEF WithPlan
  <1>5. UNCHANGED <<endorsedText, latest>> /\ PlanRowsOK
    BY DEF InsertPlan, PlansInv
  <1>6. Baselines' = Baselines
    BY <1>3, <1>4 DEF Baselines
  <1>7. PlanRowsOK'
    BY <1>3, <1>4, <1>5, <1>6 DEF PlanRowsOK
  <1> QED
    BY <1>7, PlanCallEnds DEF InsertPlan

\* The commit of a call that ran alone stores its entity, and clears the old
\* baseline exactly when it sets a new one.
LEMMA PlanUpdated ==
  ASSUME OneHandler, PlansInv, NEW h \in Handlers, UpdatePlan(h)
  PROVE  PlansInv'
  <1>1. PICK c, r : c = call[h] /\ r = planRow[c.id]
    OBVIOUS
  <1>2. PlanCallOK(c) /\ c.pc = "update plan" /\ PlanRowsOK
    BY <1>1 DEF UpdatePlan, PlansInv, At
  <1>3. c.id \in DOMAIN planRow /\ IsPlan(c.e) /\ IsPlan(r) /\ c.dirty = Dirty(c.e, r)
    <2>1. c.id \in DOMAIN planRow /\ IsPlan(c.e) /\ c.dirty = Dirty(c.e, r)
      BY <1>1, <1>2 DEF PlanCallOK
    <2> QED
      BY <1>1, <1>2, <2>1 DEF PlanRowsOK
  <1>4. Merge(r, c.e, c.dirty) = c.e
    BY <1>3, SavedAsIs DEF IsPlan
  <1>5. PICK rows : rows = [p \in DOMAIN planRow |-> LeftBy(c, p)]
    OBVIOUS
  <1>6. /\ DOMAIN rows = DOMAIN planRow /\ rows[c.id] = c.e
        /\ \A p \in DOMAIN planRow \ {c.id} :
             rows[p] = IF p \in c.cleared THEN [planRow[p] EXCEPT !.baseline = FALSE]
                                          ELSE planRow[p]
    BY <1>1, <1>3, <1>4, <1>5 DEF LeftBy
  <1>7. /\ IF c.e.status = "REJECTED"
             THEN \E p \in PlanIds \ DOMAIN planRow :
                    planRow' = [q \in DOMAIN rows \cup {p} |->
                                  IF q = p THEN DraftPlan(c.e.version + 1, c.e.text) ELSE rows[q]]
             ELSE planRow' = rows
        /\ endorsedText' = IF c.e.status = "REVIEWED"
                             THEN [q \in DOMAIN endorsedText \cup {c.id} |->
                                     IF q = c.id THEN c.e.text ELSE endorsedText[q]]
                             ELSE endorsedText
        /\ latest' = IF c.e.status = "APPROVED" THEN Append(latest, c.id) ELSE latest
        /\ Return(h)
    BY <1>1, <1>5 DEF UpdatePlan
  <1>8. PICK new :
          /\ new \subseteq PlanIds /\ new \cap DOMAIN planRow = {}
          /\ DOMAIN planRow' = DOMAIN planRow \cup new
          /\ \A p \in DOMAIN planRow : planRow'[p] = rows[p]
          /\ \A p \in new : IsPlan(planRow'[p]) /\ planRow'[p].status = "DRAFT"
                              /\ ~ planRow'[p].baseline
    <2>1. CASE c.e.status = "REJECTED"
      <3>1. PICK p \in PlanIds \ DOMAIN planRow :
              planRow' = [q \in DOMAIN rows \cup {p} |->
                            IF q = p THEN DraftPlan(c.e.version + 1, c.e.text) ELSE rows[q]]
        BY <1>7, <2>1
      <3>2. PICK d : d = DraftPlan(c.e.version + 1, c.e.text)
        OBVIOUS
      <3>3. IsPlan(d) /\ d.status = "DRAFT" /\ ~ d.baseline
        BY <3>2 DEF IsPlan, DraftPlan
      <3>4. /\ DOMAIN planRow' = DOMAIN planRow \cup {p} /\ planRow'[p] = d
            /\ \A q \in DOMAIN planRow : planRow'[q] = rows[q]
        BY <1>6, <3>1, <3>2
      <3> WITNESS {p}
      <3> QED
        BY <3>3, <3>4
    <2>2. CASE c.e.status # "REJECTED"
      <3> WITNESS {}
      <3> QED
        BY <1>6, <1>7, <2>2
    <2> QED
      BY <2>1, <2>2
  <1>9. \A p \in DOMAIN planRow \ {c.id} :
          /\ IsPlan(rows[p]) /\ rows[p].status = planRow[p].status
          /\ rows[p].text = planRow[p].text
          /\ rows[p].baseline <=> planRow[p].baseline /\ p \notin c.cleared
    BY <1>2, <1>6 DEF PlanRowsOK, IsPlan
  <1>10. /\ DOMAIN planRow' \subseteq PlanIds
         /\ latest' \in Seq(PlanIds)
    <2>1. latest \in Seq(PlanIds) /\ c.id \in PlanIds
      BY <1>2, <1>3 DEF PlanRowsOK
    <2>2. Append(latest, c.id) \in Seq(PlanIds)
      BY <2>1
    <2> QED
      BY <1>2, <1>7, <1>8, <2>1, <2>2 DEF PlanRowsOK
  <1>11. Baselines' = IF latest' = <<>> THEN {} ELSE {latest'[Len(latest')]}
    <2>1. CASE c.e.status = "APPROVED"
      <3>1. c.e.baseline /\ c.cleared = Baselines
        BY <1>2, <2>1 DEF PlanCallOK
      <3>2. Baselines' = {c.id}
        BY <1>3, <1>6, <1>8, <1>9, <3>1 DEF Baselines
      <3>3. latest' = Append(latest, c.id) /\ latest \in Seq(PlanIds)
        BY <1>2, <1>7, <2>1 DEF PlanRowsOK
      <3>4. latest' # <<>> /\ latest'[Len(latest')] = c.id
        BY <3>3
      <3> QED
        BY <3>2, <3>4
    <2>2. CASE c.e.status # "APPROVED"
      <3>1. (c.e.baseline <=> r.baseline) /\ c.cleared = {}
        BY <1>1, <1>2, <2>2 DEF PlanCallOK
      <3>2. Baselines' = Baselines
        BY <1>1, <1>3, <1>6, <1>8, <1>9, <3>1 DEF Baselines
      <3> QED
        BY <1>2, <1>7, <2>2, <3>2 DEF PlanRowsOK
    <2> QED
      BY <2>1, <2>2
  <1>12. ASSUME NEW p \in DOMAIN planRow'
         PROVE  /\ IsPlan(planRow'[p])
                /\ planRow'[p].status \in {"REVIEWED", "APPROVED"} =>
                     p \in DOMAIN endorsedText' /\ endorsedText'[p] = planRow'[p].text
    <2>1. CASE p \in new
      BY <1>8, <2>1
    <2>2. CASE p = c.id
      <3>1. planRow'[p] = c.e
        BY <1>3, <1>6, <1>8, <2>2
      <3>2. CASE c.e.status = "APPROVED"
        <4>1. r.status = "REVIEWED" /\ c.e.text = r.text
          BY <1>1, <1>2, <3>2 DEF PlanCallOK
        <4> QED
          BY <1>1, <1>2, <1>3, <1>7, <2>2, <3>1, <3>2, <4>1 DEF PlanRowsOK
      <3>3. CASE c.e.status # "APPROVED"
        BY <1>3, <1>7, <2>2, <3>1, <3>3
      <3> QED
        BY <3>2, <3>3
    <2>3. CASE p \in DOMAIN planRow \ {c.id}
      <3>1. /\ planRow[p].status \in {"REVIEWED", "APPROVED"} =>
                 p \in DOMAIN endorsedText /\ endorsedText[p] = planRow[p].text
            /\ planRow'[p] = rows[p]
        BY <1>2, <1>8, <2>3 DEF PlanRowsOK
      <3> QED
        BY <1>7, <1>9, <2>3, <3>1
    <2> QED
      BY <1>8, <2>1, <2>2, <2>3
  <1>13. PlanRowsOK'
    BY <1>10, <1>11, <1>12 DEF PlanRowsOK
  <1> QED
    BY <1>7, <1>13, PlanCallEnds

LEMMA PlansNextKeeps ==
  ASSUME OneHandler, PlansInv, [PlansNext]_<<serverVars, planVars>>
  PROVE  PlansInv'
  <1>1. ASSUME NEW h \in Handlers, PlansStep(h) PROVE PlansInv'
    <2>1. CASE Crash(h) /\ UNCHANGED planVars
      <3>1. PlanRowsOK'
        BY <2>1 DEF PlansInv, PlanRowsOK, Baselines, planVars
      <3> QED
        BY <2>1, <3>1, PlanCallEnds
    <2> QED
      BY <1>1, <2>1, PlanLoaded, PlanGoesOn, PlanInserted, PlanUpdated DEF PlansStep
  <1>2. CASE UNCHANGED <<serverVars, planVars>>
    BY <1>2 DEF serverVars, planVars, PlansInv, PlanRowsOK, Baselines, PlanCallOK
  <1> QED
    BY <1>1, <1>2 DEF PlansNext

\* Where calls run one at a time, wherever they die: the baseline is the plan that
\* was approved last and no other, a plan is frozen exactly when it is approved,
\* and a frozen plan says what its reviewer read.
THEOREM OneBaseline ==
  ASSUME OneHandler
  PROVE  PlansSpec => []BaselineIsLatest
  <1>1. PlansInv => BaselineIsLatest
    BY DEF PlansInv, PlanRowsOK, Baselines, BaselineIsLatest, IsPlan
  <1> QED
    BY <1>1, PlansInitOK, PlansNextKeeps, PTL DEF PlansSpec

-----------------------------------------------------------------------------
(* A recursive function of the naturals *)

\* Induction: a property of naturals that fails somewhere fails first somewhere.
LEMMA FirstOf ==
  ASSUME NEW Bad, Bad \subseteq Nat, Bad # {}
  PROVE  \E i \in Bad : \A j \in Nat : j < i => j \notin Bad
  <1>1. PICK i \in Bad : \A j \in Bad : i <= j
    BY LeastExists
  <1> QED
    BY <1>1

Iterate(F, base, i, d) == IF i = 0 THEN base ELSE F[d[i - 1]]
IteratesUpTo(F, base, m, d) ==
  d = [i \in 0 .. m |-> Iterate(F, base, i, d)]

LEMMA IteratesAt ==
  ASSUME NEW F, NEW base, NEW m \in Nat, NEW d, IteratesUpTo(F, base, m, d)
  PROVE  \A i \in Nat : i <= m => d[i] = Iterate(F, base, i, d)
  BY DEF IteratesUpTo

LEMMA IteratesAgree ==
  ASSUME NEW F, NEW base, NEW l \in Nat, NEW m \in Nat, NEW d, IteratesUpTo(F, base, l, d),
         NEW e, IteratesUpTo(F, base, m, e)
  PROVE  \A i \in Nat : i <= l /\ i <= m => d[i] = e[i]
  <1> DEFINE Bad == {i \in Nat : i <= l /\ i <= m /\ d[i] # e[i]}
  <1>1. SUFFICES ASSUME Bad # {} PROVE FALSE
    OBVIOUS
  <1>2. PICK i \in Bad : \A j \in Nat : j < i => j \notin Bad
    <2>1. Bad \subseteq Nat
      OBVIOUS
    <2> HIDE DEF Bad
    <2> QED
      BY <1>1, <2>1, FirstOf
  <1>3. d[i] = Iterate(F, base, i, d) /\ e[i] = Iterate(F, base, i, e)
    <2>1. i \in Nat /\ i <= l /\ i <= m
      OBVIOUS
    <2> QED
      BY <2>1, IteratesAt
  <1>4. CASE i = 0
    BY <1>3, <1>4 DEF Iterate
  <1>5. CASE i # 0
    <2>1. i - 1 \in Nat /\ i - 1 < i /\ i - 1 <= l /\ i - 1 <= m
      BY <1>5
    <2>2. d[i - 1] = e[i - 1]
      BY <1>2, <2>1
    <2> QED
      BY <1>3, <1>5, <2>2 DEF Iterate
  <1> QED
    BY <1>4, <1>5

LEMMA IteratesUpToExist ==
  ASSUME NEW F, NEW base, NEW m \in Nat
  PROVE  \E d : IteratesUpTo(F, base, m, d)
  <1> DEFINE Bad == {i \in Nat : ~ \E d : IteratesUpTo(F, base, i, d)}
  <1>1. SUFFICES ASSUME Bad # {} PROVE FALSE
    OBVIOUS
  <1>2. PICK i \in Bad : \A j \in Nat : j < i => j \notin Bad
    <2>1. Bad \subseteq Nat
      OBVIOUS
    <2> HIDE DEF Bad
    <2> QED
      BY <1>1, <2>1, FirstOf
  <1>3. CASE i = 0
    <2>1. PICK d : d = [j \in 0 .. 0 |-> base]
      OBVIOUS
    <2>2. IteratesUpTo(F, base, 0, d)
      BY <2>1 DEF IteratesUpTo, Iterate
    <2> QED
      BY <1>3, <2>2
  <1>4. CASE i # 0
    <2>1. PICK k \in Nat : k = i - 1
      BY <1>4
    <2>2. PICK d : IteratesUpTo(F, base, k, d)
      BY <1>2, <1>4, <2>1
    <2>3. PICK e : e = [j \in 0 .. i |-> IF j = i THEN F[d[k]] ELSE d[j]]
      OBVIOUS
    <2>4. ASSUME NEW j \in 0 .. i
          PROVE  e[j] = Iterate(F, base, j, e)
      <3>1. CASE j = i
        <4>1. e[k] = d[k]
          BY <2>1, <2>3
        <4> QED
          BY <1>4, <2>1, <2>3, <3>1, <4>1 DEF Iterate
      <3>2. CASE j # i
        <4>1. j \in Nat /\ j <= k /\ j \in 0 .. k
          BY <2>1, <3>2
        <4>2. d[j] = Iterate(F, base, j, d)
          BY <2>2, <4>1, IteratesAt
        <4>3. e[j] = d[j] /\ (j # 0 => e[j - 1] = d[j - 1])
          BY <2>3, <3>2, <4>1
        <4> QED
          BY <4>2, <4>3 DEF Iterate
      <3> QED
        BY <3>1, <3>2
    <2>5. IteratesUpTo(F, base, i, e)
      BY <2>3, <2>4 DEF IteratesUpTo
    <2> QED
      BY <2>5
  <1> QED
    BY <1>3, <1>4

IsOrbit(X, F, base, d) ==
  /\ d \in [Nat -> X] /\ d[0] = base
  /\ \A i \in Nat : d[i + 1] = F[d[i]]

LEMMA OrbitExists ==
  ASSUME NEW X, NEW F, F \in [X -> X], NEW base, base \in X
  PROVE  \E d : IsOrbit(X, F, base, d)
  <1>1. PICK u : u = [m \in Nat |-> CHOOSE d : IteratesUpTo(F, base, m, d)]
    OBVIOUS
  <1>2. \A m \in Nat : IteratesUpTo(F, base, m, u[m])
    <2> SUFFICES ASSUME NEW m \in Nat PROVE IteratesUpTo(F, base, m, u[m])
      OBVIOUS
    <2>1. PICK d : IteratesUpTo(F, base, m, d)
      BY IteratesUpToExist
    <2>2. IteratesUpTo(F, base, m, CHOOSE e : IteratesUpTo(F, base, m, e))
      BY <2>1
    <2> QED
      BY <1>1, <2>2
  <1>3. PICK d : d = [m \in Nat |-> u[m][m]]
    OBVIOUS
  <1>4. d[0] = base
    <2>1. PICK e : e = u[0] /\ IteratesUpTo(F, base, 0, e)
      BY <1>2
    <2>2. e[0] = Iterate(F, base, 0, e)
      BY <2>1, IteratesAt
    <2> QED
      BY <1>3, <2>1, <2>2 DEF Iterate
  <1>5. ASSUME NEW i \in Nat PROVE d[i + 1] = F[d[i]]
    <2>1. PICK j \in Nat : j = i + 1
      OBVIOUS
    <2>2. PICK e, f : /\ e = u[j] /\ IteratesUpTo(F, base, j, e)
                    /\ f = u[i] /\ IteratesUpTo(F, base, i, f)
      BY <1>2
    <2>3. e[j] = F[e[i]]
      <3>1. e[j] = Iterate(F, base, j, e)
        BY <2>2, IteratesAt
      <3>2. j # 0 /\ j - 1 = i
        BY <2>1
      <3> QED
        BY <3>1, <3>2 DEF Iterate
    <2>4. e[i] = f[i]
      BY <2>1, <2>2, IteratesAgree
    <2> QED
      BY <1>3, <2>1, <2>2, <2>3, <2>4
  <1>6. \A i \in Nat : d[i] \in X
    <2> DEFINE Bad == {i \in Nat : d[i] \notin X}
    <2>1. SUFFICES ASSUME Bad # {} PROVE FALSE
      OBVIOUS
    <2>2. PICK i \in Bad : \A j \in Nat : j < i => j \notin Bad
      <3>1. Bad \subseteq Nat
        OBVIOUS
      <3> HIDE DEF Bad
      <3> QED
        BY <2>1, <3>1, FirstOf
    <2>3. i # 0
      BY <1>4, <2>2
    <2>4. PICK j \in Nat : i = j + 1
      <3>1. i - 1 \in Nat /\ i = (i - 1) + 1
        BY <2>3
      <3> QED
        BY <3>1
    <2>5. d[j] \in X /\ d[i] = F[d[j]]
      BY <1>5, <2>2, <2>4
    <2> QED
      BY <2>2, <2>5
  <1>7. IsOrbit(X, F, base, d)
    BY <1>3, <1>4, <1>5, <1>6 DEF IsOrbit
  <1> QED
    BY <1>7

\* Sets that only grow within a finite set stand still at last.
LEMMA IteratesSettle ==
  ASSUME NEW D, IsFiniteSet(D), NEW F, NEW d,
         \A i \in Nat : d[i] \subseteq D /\ d[i] \subseteq d[i + 1] /\ d[i + 1] = F[d[i]]
  PROVE  d[Cardinality(D)] = F[d[Cardinality(D)]]
  <1>1. PICK N : N = Cardinality(D)
    OBVIOUS
  <1>2. N \in Nat
    BY <1>1, FS_CardinalityType
  <1>3. SUFFICES ASSUME d[N] # d[N + 1] PROVE FALSE
    BY <1>1, <1>2
  <1>4. \A i \in Nat : i <= N => d[i] # d[i + 1]
    <2> DEFINE Bad == {j \in Nat : j <= N /\ d[N - j] = d[N - j + 1]}
    <2>1. SUFFICES ASSUME Bad # {} PROVE FALSE
      <3>1. ASSUME NEW i \in Nat, i <= N, d[i] = d[i + 1] PROVE N - i \in Bad
        <4>1. N - i \in Nat /\ N - i <= N /\ N - (N - i) = i
          BY <1>2, <3>1
        <4> QED
          BY <3>1, <4>1
      <3> QED
        BY <3>1
    <2>2. PICK j \in Bad : \A k \in Nat : k < j => k \notin Bad
      <3>1. Bad \subseteq Nat
        OBVIOUS
      <3> HIDE DEF Bad
      <3> QED
        BY <2>1, <3>1, FirstOf
    <2>3. j # 0
      <3>1. N - 0 = N
        BY <1>2
      <3> QED
        BY <1>3, <2>2, <3>1
    <2>4. PICK i \in Nat : i = N - j
      BY <1>2, <2>2
    <2>5. j - 1 \in Nat /\ j - 1 < j /\ j - 1 <= N /\ N - (j - 1) = i + 1 /\ i + 1 \in Nat
      BY <1>2, <2>2, <2>3, <2>4
    <2>6. d[i] = d[i + 1]
      BY <2>2, <2>4
    <2>7. d[i + 1] = F[d[i]] /\ d[i + 1 + 1] = F[d[i + 1]]
      BY <2>5
    <2>8. d[i + 1] = d[i + 1 + 1]
      BY <2>6, <2>7
    <2>9. j - 1 \in Bad
      BY <2>5, <2>8
    <2> QED
      BY <2>2, <2>5, <2>9
  <1>5. \A i \in Nat : IsFiniteSet(d[i]) /\ Cardinality(d[i]) \in Nat
    BY FS_Subset, FS_CardinalityType
  <1>6. ASSUME NEW i \in Nat, i <= N + 1 PROVE Cardinality(d[i]) >= i
    <2> DEFINE Bad == {j \in Nat : j <= N + 1 /\ ~(Cardinality(d[j]) >= j)}
    <2>1. SUFFICES ASSUME Bad # {} PROVE FALSE
      BY <1>6
    <2>2. PICK j \in Bad : \A k \in Nat : k < j => k \notin Bad
      <3>1. Bad \subseteq Nat
        OBVIOUS
      <3> HIDE DEF Bad
      <3> QED
        BY <2>1, <3>1, FirstOf
    <2>3. j # 0
      BY <1>5, <2>2
    <2>4. PICK k \in Nat : k = j - 1 /\ k < j /\ k <= N /\ j = k + 1
      BY <1>2, <2>2, <2>3
    <2>5. Cardinality(d[k]) >= k
      BY <1>2, <2>2, <2>4
    <2>6. PICK S, T : S = d[k] /\ T = d[j]
      OBVIOUS
    <2>7. S \subseteq T /\ S # T
      BY <1>4, <2>4, <2>6
    <2>8. IsFiniteSet(S) /\ IsFiniteSet(T) /\ Cardinality(S) \in Nat /\ Cardinality(T) \in Nat
      BY <1>5, <2>2, <2>6
    <2>9. Cardinality(S) < Cardinality(T)
      <3>1. Cardinality(S) <= Cardinality(T) /\ (Cardinality(S) = Cardinality(T) => S = T)
        BY <2>7, <2>8, FS_Subset
      <3> QED
        BY <2>7, <2>8, <3>1
    <2> QED
      BY <2>2, <2>4, <2>5, <2>6, <2>8, <2>9
  <1>7. Cardinality(d[N + 1]) >= N + 1
    BY <1>2, <1>6
  <1>8. Cardinality(d[N + 1]) <= N
    BY <1>1, <1>2, FS_Subset
  <1> QED
    BY <1>2, <1>5, <1>7, <1>8

-----------------------------------------------------------------------------
(* The master plan: the tree below a node *)

\* S and what is right below it
Deeper(S) == S \cup {k \in DOMAIN node : node[k].parent \in S}
Closed(S) == Deeper(S) = S

Level(n, i, d) == IF i = 0 THEN {n} ELSE Deeper(d[i - 1])
DepthOf(n, d)  == d = [i \in Nat |-> Level(n, i, d)]

LEMMA BelowIsDepth ==
  ASSUME NEW n
  PROVE  Below(n) = (CHOOSE d : DepthOf(n, d))[Cardinality(DOMAIN node)]
  BY DEF Below, DepthOf, Level, Deeper

LEMMA DepthExists ==
  ASSUME NEW n \in DOMAIN node
  PROVE  \E d : DepthOf(n, d)
  <1>1. PICK X, F, base : /\ X = SUBSET DOMAIN node /\ base = {n}
                          /\ F = [S \in SUBSET DOMAIN node |-> Deeper(S)]
    OBVIOUS
  <1>2. F \in [X -> X] /\ base \in X
    BY <1>1 DEF Deeper
  <1>3. PICK d : IsOrbit(X, F, base, d)
    BY <1>2, OrbitExists
  <1>4. ASSUME NEW i \in Nat PROVE d[i] = Level(n, i, d)
    <2>1. CASE i = 0
      BY <1>1, <1>3, <2>1 DEF IsOrbit, Level
    <2>2. CASE i # 0
      <3>1. PICK k \in Nat : k = i - 1 /\ i = k + 1
        <4>1. i - 1 \in Nat /\ i = (i - 1) + 1
          BY <2>2
        <4> QED
          BY <4>1
      <3>2. d[i] = F[d[k]] /\ d[k] \in SUBSET DOMAIN node
        BY <1>1, <1>3, <3>1 DEF IsOrbit
      <3> QED
        BY <1>1, <2>2, <3>1, <3>2 DEF Level
    <2> QED
      BY <2>1, <2>2
  <1>5. DepthOf(n, d)
    BY <1>3, <1>4 DEF DepthOf, IsOrbit
  <1> QED
    BY <1>5

\* As deep as there are nodes, nothing is left below.
LEMMA BelowClosed ==
  ASSUME NEW n \in DOMAIN node, IsFiniteSet(DOMAIN node)
  PROVE  Closed(Below(n))
  <1>1. PICK d : d = CHOOSE x : DepthOf(n, x)
    OBVIOUS
  <1>2. DepthOf(n, d)
    BY <1>1, DepthExists
  <1>3. \A i \in Nat : d[i] = IF i = 0 THEN {n} ELSE Deeper(d[i - 1])
    BY <1>2 DEF DepthOf, Level
  <1>4. \A i \in Nat : d[i] \subseteq DOMAIN node
    <2> DEFINE Bad == {i \in Nat : ~(d[i] \subseteq DOMAIN node)}
    <2>1. SUFFICES ASSUME Bad # {} PROVE FALSE
      OBVIOUS
    <2>2. PICK i \in Bad : \A j \in Nat : j < i => j \notin Bad
      <3>1. Bad \subseteq Nat
        OBVIOUS
      <3> HIDE DEF Bad
      <3> QED
        BY <2>1, <3>1, FirstOf
    <2>3. CASE i = 0
      BY <1>3, <2>2, <2>3
    <2>4. CASE i # 0
      <3>1. i - 1 \in Nat /\ i - 1 < i
        BY <2>4
      <3>2. d[i - 1] \subseteq DOMAIN node
        BY <2>2, <3>1
      <3> QED
        BY <1>3, <2>2, <2>4, <3>2 DEF Deeper
    <2> QED
      BY <2>3, <2>4
  <1>5. PICK D, F : D = DOMAIN node /\ F = [S \in SUBSET DOMAIN node |-> Deeper(S)]
    OBVIOUS
  <1>6. \A i \in Nat : d[i + 1] = Deeper(d[i])
    BY <1>3
  <1>7. \A i \in Nat : d[i] \subseteq D /\ d[i] \subseteq d[i + 1] /\ d[i + 1] = F[d[i]]
    BY <1>4, <1>5, <1>6 DEF Deeper
  <1>8. d[Cardinality(D)] = F[d[Cardinality(D)]]
    <2>1. IsFiniteSet(D)
      BY <1>5
    <2> QED
      BY <1>7, <2>1, IteratesSettle
  <1>9. Cardinality(D) \in Nat
    BY <1>5, FS_CardinalityType
  <1>10. PICK S : S = d[Cardinality(D)] /\ S \in SUBSET DOMAIN node
    BY <1>4, <1>9
  <1>11. Deeper(S) = S
    BY <1>5, <1>8, <1>10
  <1>12. Below(n) = S
    BY <1>1, <1>5, <1>10, BelowIsDepth
  <1> QED
    BY <1>11, <1>12 DEF Closed

-----------------------------------------------------------------------------
(* The master plan: sums over its nodes *)

\* The sum that RollsUp compares is a total of budgets.
BudgetOf(rows) == [n \in DOMAIN rows |-> rows[n].budget]

SpentIter(rows, S, it) ==
  it = [T \in SUBSET S |-> IF T = {} THEN 0 ELSE rows[OneOf(T)].budget + it[Rest(T)]]

LEMMA SpentIsIter ==
  ASSUME NEW rows, NEW S
  PROVE  Spent(rows, S) = (CHOOSE it : SpentIter(rows, S, it))[S]
  BY DEF Spent, MapThenSumSet, MapThenFoldSet, OneOf, Rest, SpentIter

LEMMA SpentIsTotal ==
  ASSUME NEW rows, NEW S, IsFiniteSet(S), S \subseteq DOMAIN rows
  PROVE  Spent(rows, S) = Total(BudgetOf(rows), S)
  <1>1. PICK f : f = BudgetOf(rows)
    OBVIOUS
  <1>2. ASSUME NEW T \in SUBSET S, T # {} PROVE f[OneOf(T)] = rows[OneOf(T)].budget
    BY <1>1, <1>2, RestSmaller DEF BudgetOf
  <1>3. ASSUME NEW it PROVE SpentIter(rows, S, it) <=> IterOf(f, S, it)
    BY <1>2 DEF SpentIter, IterOf
  <1>4. PICK g : g = CHOOSE it : SpentIter(rows, S, it)
    OBVIOUS
  <1>5. PICK h : h = CHOOSE it : IterOf(f, S, it)
    OBVIOUS
  <1>6. IterOf(f, S, g) /\ IterOf(f, S, h)
    <2>1. PICK it : IterOf(f, S, it)
      BY IterExists
    <2>2. SpentIter(rows, S, it)
      BY <1>3, <2>1
    <2>3. SpentIter(rows, S, g)
      BY <1>4, <2>2
    <2> QED
      BY <1>3, <1>5, <2>1, <2>3
  <1>7. g[S] = h[S]
    <2>1. \A T \in SUBSET (S \cap S) : g[T] = h[T]
      BY <1>6, IterUnique
    <2> QED
      BY <2>1
  <1> QED
    BY <1>1, <1>4, <1>5, <1>7, SpentIsIter, TotalIsIter

-----------------------------------------------------------------------------
(* The master plan: its life and its tree *)

IsMaster(m) == m = [status |-> m.status, budget |-> m.budget] /\ m.budget \in Nat

IsNode(r) == /\ r = [parent |-> r.parent, budget |-> r.budget, archived |-> r.archived,
                     templates |-> r.templates]
             /\ r.budget \in Nat

\* n may have children: it is Root or a live node
MayHang(n) == n \in DOMAIN node \cup {Root} /\ (n # Root => ~ node[n].archived)

NodesOK ==
  /\ IsFiniteSet(DOMAIN node)
  /\ \A n \in DOMAIN node : IsNode(node[n])
  /\ \A n \in DOMAIN node : node[n].parent \in DOMAIN node \cup {Root}
  /\ NothingLiveBelowArchived

SavesMaster == {"roll up", "select master", "write master"}
NeedsOpen   == {"roll up", "find parent", "insert node", "load node", "load tree",
                "load leaf", "select node", "write node", "count work", "archive",
                "insert template"}

\* What the handler has read of the plan and of the tree is still so.
MasterCallOK(c) ==
  /\ c.pc \in NeedsOpen => master.status # "CLOSED"
  /\ c.pc \in SavesMaster =>
       /\ IsMaster(c.e)
       /\ master.status = "CLOSED" => c.e = master
       /\ c.e.status = "ACTIVE" /\ master.status # "ACTIVE" =>
            master.status = "DRAFT" /\ (c.pc # "roll up" => RollsUp(node, c.e.budget))
       /\ c.pc = "roll up" => c = [pc |-> c.pc, e |-> c.e]
       /\ c.pc # "roll up" => c = [pc |-> c.pc, e |-> c.e, dirty |-> c.dirty]
       /\ c.pc = "write master" => c.dirty = Dirty(c.e, master)
  /\ c.pc \in {"find parent", "insert node"} =>
       /\ c = [pc |-> c.pc, parent |-> c.parent] /\ c.parent \in DOMAIN node \cup {Root}
       /\ c.pc = "insert node" => MayHang(c.parent)
  /\ c.pc \in {"load node", "load tree", "load leaf", "insert template"} =>
       c = [pc |-> c.pc, id |-> c.id] /\ c.id \in DOMAIN node
  /\ c.pc \in {"select node", "write node"} =>
       /\ c = [pc |-> c.pc, id |-> c.id, e |-> c.e, dirty |-> c.dirty]
       /\ c.id \in DOMAIN node /\ IsNode(c.e)
       /\ c.e.parent = node[c.id].parent /\ c.e.archived = node[c.id].archived
       /\ c.e.templates = node[c.id].templates
       /\ c.pc = "write node" => c.dirty = Dirty(c.e, node[c.id]) \ {"templates"}
  /\ c.pc \in {"count work", "archive"} => c = [pc |-> c.pc, ids |-> c.ids] /\ Closed(c.ids)

MasterInv ==
  /\ DOMAIN call = Handlers /\ IsMaster(master) /\ NodesOK
  /\ \A h \in Handlers : MasterCallOK(call[h])

LEMMA MasterInitOK == ServerInit /\ MasterInit => MasterInv
  <1> SUFFICES ASSUME ServerInit, MasterInit PROVE MasterInv
    OBVIOUS
  <1>1. DOMAIN node = {} /\ IsMaster(master)
    BY MasterPlanAssumption DEF MasterInit, IsMaster
  <1>2. MasterCallOK(Idle)
    BY DEF MasterCallOK, Idle, NeedsOpen, SavesMaster
  <1>3. NodesOK
    BY <1>1, FS_EmptySet DEF NodesOK, NothingLiveBelowArchived, LiveOf
  <1> QED
    BY <1>1, <1>2, <1>3 DEF MasterInv, ServerInit

\* A call that goes on, having read something.
LEMMA MasterCallMoves ==
  ASSUME OneHandler, MasterInv, NEW h \in Handlers, NEW c,
         Begin(h, c) \/ Become(h, c), UNCHANGED <<master, node>>, MasterCallOK(c)
  PROVE  MasterInv'
  <1>1. DOMAIN call' = Handlers /\ \A g \in Handlers : call'[g] = c
    BY OneCall DEF MasterInv
  <1>2. MasterCallOK(c)'
    <2>3. \A x : Closed(x)' <=> Closed(x)
      BY DEF Closed, Deeper
    <2>4. \A x : MayHang(x)' <=> MayHang(x)
      BY DEF MayHang
    <2>5. node' = node /\ master' = master
      OBVIOUS
    <2>6. \A b : RollsUp(node', b) <=> RollsUp(node, b)
      BY <2>5
    <2> QED
      BY <2>3, <2>4, <2>5, <2>6 DEF MasterCallOK
  <1>3. NodesOK'
    BY DEF MasterInv, NodesOK, NothingLiveBelowArchived, LiveOf
  <1> QED
    BY <1>1, <1>2, <1>3 DEF MasterInv

\* A call that ends, whatever it has written.
LEMMA MasterCallEnds ==
  ASSUME OneHandler, MasterInv, NEW h \in Handlers, Return(h) \/ Crash(h),
         NodesOK', IsMaster(master')
  PROVE  MasterInv'
  <1>1. DOMAIN call' = Handlers /\ \A g \in Handlers : call'[g] = Idle
    BY OneCall, OneCrash DEF MasterInv, Return
  <1>2. PICK c : c = Idle
    OBVIOUS
  <1>3. MasterCallOK(c)'
    BY <1>2 DEF MasterCallOK, Idle, NeedsOpen, SavesMaster
  <1>4. (\A g \in Handlers : MasterCallOK(call[g]))'
    BY <1>1, <1>2, <1>3
  <1> QED
    BY <1>1, <1>4 DEF MasterInv

LEMMA MasterReturns ==
  ASSUME OneHandler, MasterInv, NEW h \in Handlers, Return(h) \/ Crash(h),
         UNCHANGED <<master, node>>
  PROVE  MasterInv'
  <1>1. NodesOK' /\ IsMaster(master')
    BY DEF MasterInv, NodesOK, NothingLiveBelowArchived, LiveOf
  <1> QED
    BY <1>1, MasterCallEnds

LEMMA NowOK == ASSUME MasterInv, NEW h \in Handlers PROVE MasterCallOK(call[h])
  BY DEF MasterInv

\* The calls about the plan's own row, up to its update.
LEMMA MasterReads ==
  ASSUME OneHandler, MasterInv, NEW h \in Handlers,
         UpdateMaster(h) \/ CloseMaster(h) \/ ApproveMaster(h) \/ RollUp(h) \/ SelectMaster(h)
  PROVE  MasterInv'
  <1>1. UNCHANGED <<master, node>> /\ IsMaster(master)
    BY DEF UpdateMaster, CloseMaster, ApproveMaster, RollUp, SelectMaster, masterVars, MasterInv
  <1>2. CASE UpdateMaster(h) \/ CloseMaster(h)
    <2>1. PICK e : /\ SaveMaster(h, e)
                   /\ \/ master.status # "CLOSED" /\ \E b \in Budgets : e = [master EXCEPT !.budget = b]
                      \/ e = [master EXCEPT !.status = "CLOSED"]
      BY <1>2 DEF UpdateMaster, CloseMaster
    <2>2. /\ IsMaster(e) /\ (master.status = "CLOSED" => e = master)
          /\ e.status \in {master.status, "CLOSED"}
      BY <1>1, <2>1, MasterPlanAssumption DEF IsMaster
    <2>3. PICK c : c = [pc |-> "select master", e |-> e, dirty |-> {}]
      OBVIOUS
    <2>4. MasterCallOK(c)
      BY <2>2, <2>3 DEF MasterCallOK, NeedsOpen, SavesMaster
    <2> QED
      BY <1>1, <2>1, <2>3, <2>4, MasterCallMoves DEF SaveMaster
  <1>3. CASE ApproveMaster(h)
    <2>1. PICK c : c = [pc |-> "roll up", e |-> [master EXCEPT !.status = "ACTIVE"]]
      OBVIOUS
    <2>2. Begin(h, c) /\ master.status = "DRAFT"
      BY <1>3, <2>1 DEF ApproveMaster
    <2>3. MasterCallOK(c)
      BY <1>1, <2>1, <2>2 DEF MasterCallOK, NeedsOpen, SavesMaster, IsMaster
    <2> QED
      BY <1>1, <2>2, <2>3, MasterCallMoves
  <1>4. CASE RollUp(h)
    <2>1. PICK c, d : c = call[h] /\ d = [pc |-> "select master", e |-> c.e, dirty |-> {}]
      OBVIOUS
    <2>2. /\ c.pc = "roll up" /\ MasterCallOK(c)
          /\ (RollsUp(node, c.e.budget) /\ Become(h, d)) \/ Return(h)
      BY <1>4, <2>1, NowOK DEF RollUp, At
    <2>3. CASE RollsUp(node, c.e.budget) /\ Become(h, d)
      <3>1. MasterCallOK(d)
        BY <2>1, <2>2, <2>3 DEF MasterCallOK, NeedsOpen, SavesMaster
      <3> QED
        BY <1>1, <2>3, <3>1, MasterCallMoves
    <2> QED
      BY <1>1, <2>2, <2>3, MasterReturns
  <1>5. CASE SelectMaster(h)
    <2>1. PICK c, d : c = call[h] /\ d = [c EXCEPT !.pc = "write master",
                                                 !.dirty = Dirty(c.e, master)]
      OBVIOUS
    <2>2. c.pc = "select master" /\ MasterCallOK(c) /\ Become(h, d)
      BY <1>5, <2>1, NowOK DEF SelectMaster, At
    <2>3. d = [pc |-> "write master", e |-> c.e, dirty |-> Dirty(c.e, master)]
      BY <2>1, <2>2 DEF MasterCallOK, SavesMaster
    <2>4. MasterCallOK(d)
      BY <2>2, <2>3 DEF MasterCallOK, NeedsOpen, SavesMaster
    <2> QED
      BY <1>1, <2>2, <2>4, MasterCallMoves
  <1> QED
    BY <1>2, <1>3, <1>4, <1>5

LEMMA MasterWritten ==
  ASSUME OneHandler, MasterInv, NEW h \in Handlers, WriteMaster(h)
  PROVE  MasterInv' /\ master' = call[h].e /\ MasterCallOK(call[h])
                    /\ call[h].pc = "write master"
  <1>1. PICK c : c = call[h]
    OBVIOUS
  <1>2. c.pc = "write master" /\ MasterCallOK(c) /\ master' = Merge(master, c.e, c.dirty)
    BY <1>1, NowOK DEF WriteMaster, At
  <1>3. IsMaster(c.e) /\ IsMaster(master) /\ c.dirty = Dirty(c.e, master)
    BY <1>2 DEF MasterCallOK, SavesMaster, MasterInv
  <1>4. master' = c.e
    <2>1. PICK m, e : m = master /\ e = c.e
      OBVIOUS
    <2>2. DOMAIN e = DOMAIN m /\ e = [x \in DOMAIN e |-> e[x]]
      BY <1>3, <2>1 DEF IsMaster
    <2>3. Merge(m, e, Dirty(e, m)) = e
      BY <2>2, SavedAsIs
    <2> QED
      BY <1>2, <1>3, <2>1, <2>3
  <1>5. NodesOK'
    BY DEF WriteMaster, MasterInv, NodesOK, NothingLiveBelowArchived, LiveOf
  <1> QED
    BY <1>1, <1>2, <1>3, <1>4, <1>5, MasterCallEnds DEF WriteMaster

\* A call about nodes goes on when its next record is one that may stand there.
LEMMA NodeReads ==
  ASSUME OneHandler, MasterInv, NEW h \in Handlers,
         AddNode(h) \/ FindParent(h) \/ TouchNode(h) \/ LoadNode(h) \/ SelectNode(h)
  PROVE  MasterInv'
  <1>1. UNCHANGED <<master, node>> /\ NodesOK
    BY DEF AddNode, FindParent, TouchNode, LoadNode, SelectNode, masterVars, MasterInv
  <1>2. CASE AddNode(h)
    <2>1. PICK p \in DOMAIN node \cup {Root} : Begin(h, [pc |-> "find parent", parent |-> p])
      BY <1>2 DEF AddNode
    <2>2. PICK c : c = [pc |-> "find parent", parent |-> p]
      OBVIOUS
    <2>3. MasterCallOK(c)
      BY <1>2, <2>2 DEF MasterCallOK, NeedsOpen, SavesMaster, AddNode, Mutable
    <2> QED
      BY <1>1, <2>1, <2>2, <2>3, MasterCallMoves
  <1>3. CASE FindParent(h)
    <2>1. PICK c, d : c = call[h] /\ d = [c EXCEPT !.pc = "insert node"]
      OBVIOUS
    <2>2. c.pc = "find parent" /\ MasterCallOK(c)
      BY <1>3, <2>1, NowOK DEF FindParent, At
    <2>3. \/ ~(c.parent # Root /\ node[c.parent].archived) /\ Become(h, d)
          \/ Return(h)
      BY <1>3, <2>1 DEF FindParent, Goto
    <2>4. CASE ~(c.parent # Root /\ node[c.parent].archived) /\ Become(h, d)
      <3>1. c = [pc |-> c.pc, parent |-> c.parent] /\ c.parent \in DOMAIN node \cup {Root}
            /\ master.status # "CLOSED"
        BY <2>2 DEF MasterCallOK, NeedsOpen
      <3>2. d = [pc |-> "insert node", parent |-> c.parent]
        BY <2>1, <3>1
      <3>3. MayHang(d.parent)
        BY <2>4, <3>1, <3>2 DEF MayHang
      <3>4. MasterCallOK(d)
        BY <3>1, <3>2, <3>3 DEF MasterCallOK, NeedsOpen, SavesMaster
      <3> QED
        BY <1>1, <2>4, <3>4, MasterCallMoves
    <2> QED
      BY <1>1, <2>3, <2>4, MasterReturns
  <1>4. CASE TouchNode(h)
    <2>1. PICK n \in DOMAIN node, next \in {"load node", "load tree", "load leaf"} :
            Begin(h, [pc |-> next, id |-> n])
      BY <1>4 DEF TouchNode
    <2>2. PICK c : c = [pc |-> next, id |-> n]
      OBVIOUS
    <2>3. MasterCallOK(c)
      BY <1>4, <2>2 DEF MasterCallOK, NeedsOpen, SavesMaster, TouchNode, Mutable
    <2> QED
      BY <1>1, <2>1, <2>2, <2>3, MasterCallMoves
  <1>5. CASE LoadNode(h)
    <2>1. PICK c, row : c = call[h] /\ row = node[c.id]
      OBVIOUS
    <2>2. c.pc = "load node" /\ MasterCallOK(c)
      BY <1>5, <2>1, NowOK DEF LoadNode, At
    <2>3. c.id \in DOMAIN node /\ master.status # "CLOSED" /\ IsNode(row)
      BY <1>1, <2>1, <2>2 DEF MasterCallOK, NeedsOpen, NodesOK
    <2>4. \/ Return(h)
          \/ \E b \in Budgets :
               Become(h, [pc |-> "select node", id |-> c.id,
                          e |-> [row EXCEPT !.budget = b], dirty |-> {}])
      BY <1>5, <2>1 DEF LoadNode
    <2>5. ASSUME NEW b \in Budgets,
                 Become(h, [pc |-> "select node", id |-> c.id,
                            e |-> [row EXCEPT !.budget = b], dirty |-> {}])
          PROVE  MasterInv'
      <3>1. PICK e, d : /\ e = [row EXCEPT !.budget = b]
                        /\ d = [pc |-> "select node", id |-> c.id, e |-> e, dirty |-> {}]
        OBVIOUS
      <3>2. /\ IsNode(e) /\ e.parent = row.parent /\ e.archived = row.archived
            /\ e.templates = row.templates
        BY <2>3, <3>1, MasterPlanAssumption DEF IsNode
      <3>3. MasterCallOK(d)
        BY <2>1, <2>3, <3>1, <3>2 DEF MasterCallOK, NeedsOpen, SavesMaster
      <3> QED
        BY <1>1, <2>5, <3>1, <3>3, MasterCallMoves
    <2> QED
      BY <1>1, <2>4, <2>5, MasterReturns
  <1>6. CASE SelectNode(h)
    <2>1. PICK c, d : /\ c = call[h]
                      /\ d = [c EXCEPT !.pc = "write node",
                                       !.dirty = Dirty(c.e, node[c.id]) \ {"templates"}]
      OBVIOUS
    <2>2. c.pc = "select node" /\ MasterCallOK(c) /\ Become(h, d)
      BY <1>6, <2>1, NowOK DEF SelectNode, At
    <2>3. d = [pc |-> "write node", id |-> c.id, e |-> c.e,
               dirty |-> Dirty(c.e, node[c.id]) \ {"templates"}]
      BY <2>1, <2>2 DEF MasterCallOK
    <2>4. MasterCallOK(d)
      BY <2>2, <2>3 DEF MasterCallOK, NeedsOpen, SavesMaster
    <2> QED
      BY <1>1, <2>2, <2>4, MasterCallMoves
  <1> QED
    BY <1>2, <1>3, <1>4, <1>5, <1>6

\* The same for a branch to archive and for a leaf that gets a template.
LEMMA TreeReads ==
  ASSUME OneHandler, MasterInv, NEW h \in Handlers,
         LoadTree(h) \/ CountWork(h) \/ LoadLeaf(h)
  PROVE  MasterInv'
  <1>1. UNCHANGED <<master, node>> /\ IsFiniteSet(DOMAIN node)
    BY DEF LoadTree, CountWork, LoadLeaf, masterVars, MasterInv, NodesOK
  <1>2. CASE LoadTree(h)
    <2>1. PICK c, n : c = call[h] /\ n = c.id
      OBVIOUS
    <2>2. c.pc = "load tree" /\ MasterCallOK(c)
      BY <1>2, <2>1, NowOK DEF LoadTree, At
    <2>3. n \in DOMAIN node /\ master.status # "CLOSED"
      BY <2>1, <2>2 DEF MasterCallOK, NeedsOpen
    <2>4. PICK ids : ids = Below(n)
      OBVIOUS
    <2>5. Closed(ids)
      BY <1>1, <2>3, <2>4, BelowClosed
    <2>6. PICK d : d = [pc |-> "count work", ids |-> ids]
      OBVIOUS
    <2>7. Become(h, d) \/ Return(h)
      BY <1>2, <2>1, <2>4, <2>6 DEF LoadTree
    <2>8. MasterCallOK(d)
      BY <2>3, <2>5, <2>6 DEF MasterCallOK, NeedsOpen, SavesMaster
    <2> QED
      BY <1>1, <2>7, <2>8, MasterCallMoves, MasterReturns
  <1>3. CASE CountWork(h)
    <2>1. PICK c, d : c = call[h] /\ d = [c EXCEPT !.pc = "archive"]
      OBVIOUS
    <2>2. c.pc = "count work" /\ MasterCallOK(c) /\ (Become(h, d) \/ Return(h))
      BY <1>3, <2>1, NowOK DEF CountWork, At, Goto
    <2>3. d = [pc |-> "archive", ids |-> c.ids]
      BY <2>1, <2>2 DEF MasterCallOK
    <2>4. MasterCallOK(d)
      BY <2>2, <2>3 DEF MasterCallOK, NeedsOpen, SavesMaster
    <2> QED
      BY <1>1, <2>2, <2>4, MasterCallMoves, MasterReturns
  <1>4. CASE LoadLeaf(h)
    <2>1. PICK c, d : c = call[h] /\ d = [c EXCEPT !.pc = "insert template"]
      OBVIOUS
    <2>2. c.pc = "load leaf" /\ MasterCallOK(c) /\ (Become(h, d) \/ Return(h))
      BY <1>4, <2>1, NowOK DEF LoadLeaf, At, Goto
    <2>3. d = [pc |-> "insert template", id |-> c.id]
      BY <2>1, <2>2 DEF MasterCallOK
    <2>4. MasterCallOK(d)
      BY <2>2, <2>3 DEF MasterCallOK, NeedsOpen, SavesMaster
    <2> QED
      BY <1>1, <2>2, <2>4, MasterCallMoves, MasterReturns
  <1> QED
    BY <1>2, <1>3, <1>4

\* Rows that change in nothing but budget and templates are as well hung as before.
LEMMA RowsStayHung ==
  ASSUME NodesOK, DOMAIN node' = DOMAIN node,
         \A n \in DOMAIN node : /\ IsNode(node'[n]) /\ node'[n].parent = node[n].parent
                                /\ node'[n].archived = node[n].archived
  PROVE  NodesOK'
  <1>1. \A n \in DOMAIN node' : IsNode(node'[n])
    OBVIOUS
  <1>2. NothingLiveBelowArchived'
    BY DEF NodesOK, NothingLiveBelowArchived, LiveOf
  <1> QED
    BY <1>1, <1>2 DEF NodesOK

LEMMA NodeInserted ==
  ASSUME OneHandler, MasterInv, NEW h \in Handlers, InsertNode(h)
  PROVE  MasterInv' /\ master' = master /\ MasterCallOK(call[h]) /\ call[h].pc = "insert node"
  <1>1. PICK c, rows : c = call[h] /\ rows = node
    OBVIOUS
  <1>2. c.pc = "insert node" /\ MasterCallOK(c)
    BY <1>1, NowOK DEF InsertNode, At
  <1>3. PICK n \in NodeIds \ DOMAIN node, b \in Budgets :
          node' = [k \in DOMAIN node \cup {n} |->
                     IF k = n THEN [parent |-> c.parent, budget |-> b, archived |-> FALSE,
                                    templates |-> FALSE]
                     ELSE node[k]]
    BY <1>1 DEF InsertNode
  <1>4. MayHang(c.parent)
    BY <1>2 DEF MasterCallOK
  <1>5. /\ DOMAIN node' = DOMAIN rows \cup {n} /\ n \notin DOMAIN rows
        /\ \A k \in DOMAIN rows : node'[k] = rows[k]
        /\ node'[n] = [parent |-> c.parent, budget |-> b, archived |-> FALSE,
                       templates |-> FALSE]
    BY <1>1, <1>3
  <1>6. IsFiniteSet(DOMAIN node')
    BY <1>1, <1>5, FS_AddElement DEF MasterInv, NodesOK
  <1>7. \A k \in DOMAIN node' : IsNode(node'[k])
    BY <1>1, <1>5, MasterPlanAssumption DEF MasterInv, NodesOK, IsNode
  <1>8. \A k \in DOMAIN node' : node'[k].parent \in DOMAIN node' \cup {Root}
    BY <1>1, <1>4, <1>5 DEF MasterInv, NodesOK, MayHang
  <1>9. ASSUME NEW k \in DOMAIN node', node'[k].parent # Root, ~ node'[k].archived
        PROVE  ~ node'[node'[k].parent].archived
    <2>1. CASE k = n
      <3>1. c.parent # Root /\ c.parent \in DOMAIN rows /\ ~ rows[c.parent].archived
        BY <1>1, <1>4, <1>5, <1>9, <2>1 DEF MayHang
      <3> QED
        BY <1>5, <2>1, <3>1
    <2>2. CASE k # n
      <3>1. k \in DOMAIN rows /\ rows[k].parent \in DOMAIN rows
        BY <1>1, <1>5, <1>9, <2>2 DEF MasterInv, NodesOK
      <3>2. ~ rows[rows[k].parent].archived
        BY <1>1, <1>5, <1>9, <3>1
           DEF MasterInv, NodesOK, NothingLiveBelowArchived, LiveOf
      <3> QED
        BY <1>5, <3>1, <3>2
    <2> QED
      BY <2>1, <2>2
  <1>10. NothingLiveBelowArchived'
    BY <1>9 DEF NothingLiveBelowArchived, LiveOf
  <1>11. NodesOK'
    BY <1>6, <1>7, <1>8, <1>10 DEF NodesOK
  <1>12. master' = master /\ Return(h) /\ IsMaster(master')
    BY DEF InsertNode, MasterInv
  <1> QED
    BY <1>1, <1>2, <1>11, <1>12, MasterCallEnds

LEMMA NodeWritten ==
  ASSUME OneHandler, MasterInv, NEW h \in Handlers, WriteNode(h) \/ InsertTemplate(h)
  PROVE  /\ MasterInv' /\ master' = master /\ MasterCallOK(call[h])
         /\ call[h].pc \in {"write node", "insert template"}
  <1>1. PICK c, rows, n : c = call[h] /\ rows = node /\ n = c.id
    OBVIOUS
  <1>2. c.pc \in {"write node", "insert template"} /\ MasterCallOK(c)
    BY <1>1, NowOK DEF WriteNode, InsertTemplate, At
  <1>3. n \in DOMAIN rows
    BY <1>1, <1>2 DEF MasterCallOK
  <1>4. IsNode(rows[n])
    BY <1>1, <1>3 DEF MasterInv, NodesOK
  <1>5. PICK r : /\ node' = [rows EXCEPT ![n] = r]
                 /\ IsNode(r) /\ r.parent = rows[n].parent /\ r.archived = rows[n].archived
    <2>1. CASE WriteNode(h)
      <3>1. PICK r : r = Merge(rows[n], c.e, c.dirty)
        OBVIOUS
      <3>2. node' = [rows EXCEPT ![n] = r] /\ c.pc = "write node"
        BY <1>1, <2>1, <3>1 DEF WriteNode, At
      <3>3. IsNode(c.e) /\ c.e.parent = rows[n].parent /\ c.e.archived = rows[n].archived
        BY <1>1, <1>2, <3>2 DEF MasterCallOK
      <3>4. DOMAIN rows[n] = {"parent", "budget", "archived", "templates"}
        BY <1>4 DEF IsNode
      <3>5. r = [x \in {"parent", "budget", "archived", "templates"} |->
                   IF x \in c.dirty THEN c.e[x] ELSE rows[n][x]]
        BY <3>1, <3>4 DEF Merge
      <3>6. r.budget \in Nat /\ r.parent = rows[n].parent /\ r.archived = rows[n].archived
        BY <1>4, <3>3, <3>5 DEF IsNode
      <3>7. r = [parent |-> r.parent, budget |-> r.budget, archived |-> r.archived,
                 templates |-> r.templates]
        BY <3>5
      <3> QED
        BY <3>2, <3>6, <3>7 DEF IsNode
    <2>2. CASE InsertTemplate(h)
      <3>1. PICK r : r = [rows[n] EXCEPT !.templates = TRUE]
        OBVIOUS
      <3>2. node' = [rows EXCEPT ![n] = r]
        BY <1>1, <2>2, <3>1 DEF InsertTemplate
      <3>3. IsNode(r) /\ r.parent = rows[n].parent /\ r.archived = rows[n].archived
        BY <1>4, <3>1 DEF IsNode
      <3> QED
        BY <3>2, <3>3
    <2> QED
      BY <2>1, <2>2
  <1>6. NodesOK'
    <2>1. DOMAIN node' = DOMAIN node
      BY <1>1, <1>5
    <2>2. ASSUME NEW k \in DOMAIN node
          PROVE  /\ IsNode(node'[k]) /\ node'[k].parent = node[k].parent
                 /\ node'[k].archived = node[k].archived
      BY <1>1, <1>3, <1>5 DEF MasterInv, NodesOK
    <2>3. NodesOK
      BY DEF MasterInv
    <2> QED
      BY <2>1, <2>2, <2>3, RowsStayHung
  <1>7. master' = master /\ Return(h) /\ IsMaster(master')
    BY DEF WriteNode, InsertTemplate, MasterInv
  <1> QED
    BY <1>1, <1>2, <1>6, <1>7, MasterCallEnds

LEMMA BranchArchived ==
  ASSUME OneHandler, MasterInv, NEW h \in Handlers, ArchiveNodes(h)
  PROVE  MasterInv' /\ master' = master /\ MasterCallOK(call[h]) /\ call[h].pc = "archive"
  <1>1. PICK c, rows, ids : c = call[h] /\ rows = node /\ ids = c.ids
    OBVIOUS
  <1>2. c.pc = "archive" /\ MasterCallOK(c) /\ Closed(ids)
    BY <1>1, NowOK DEF ArchiveNodes, At, MasterCallOK
  <1>3. node' = [n \in DOMAIN rows |->
                   IF n \in ids THEN [rows[n] EXCEPT !.archived = TRUE] ELSE rows[n]]
    BY <1>1 DEF ArchiveNodes
  <1>4. NodesOK
    BY DEF MasterInv
  <1>5. DOMAIN node' = DOMAIN rows
    BY <1>3
  <1>6. ASSUME NEW n \in DOMAIN rows
        PROVE  /\ IsNode(node'[n]) /\ node'[n].parent = rows[n].parent
               /\ n \in ids => node'[n].archived
               /\ n \notin ids => node'[n].archived = rows[n].archived
    <2>1. PICK r, s : r = rows[n] /\ s = node'[n]
      OBVIOUS
    <2>2. IsNode(r)
      BY <1>1, <1>4, <2>1 DEF NodesOK
    <2>3. CASE n \in ids
      <3>1. s = [r EXCEPT !.archived = TRUE]
        BY <1>3, <2>1, <2>3
      <3>2. IsNode(s) /\ s.parent = r.parent /\ s.archived
        BY <2>2, <3>1 DEF IsNode
      <3> QED
        BY <2>1, <2>3, <3>2
    <2>4. CASE n \notin ids
      BY <1>3, <2>1, <2>2, <2>4
    <2> QED
      BY <2>3, <2>4
  <1>7. ASSUME NEW n \in DOMAIN rows, ~ node'[n].archived, rows[n].parent # Root
        PROVE  ~ node'[rows[n].parent].archived
    <2>1. n \notin ids /\ ~ rows[n].archived /\ rows[n].parent \in DOMAIN rows
      BY <1>1, <1>4, <1>6, <1>7 DEF NodesOK
    <2>2. rows[n].parent \notin ids
      BY <1>1, <1>2, <2>1 DEF Closed, Deeper
    <2>3. ~ rows[rows[n].parent].archived
      BY <1>1, <1>4, <1>7, <2>1 DEF NodesOK, NothingLiveBelowArchived, LiveOf
    <2> QED
      BY <1>6, <2>1, <2>2, <2>3
  <1>8. NothingLiveBelowArchived'
    BY <1>5, <1>6, <1>7 DEF NothingLiveBelowArchived, LiveOf
  <1>9. NodesOK'
    BY <1>1, <1>4, <1>5, <1>6, <1>8 DEF NodesOK
  <1>10. master' = master /\ Return(h) /\ IsMaster(master')
    BY DEF ArchiveNodes, MasterInv
  <1> QED
    BY <1>1, <1>2, <1>9, <1>10, MasterCallEnds

LEMMA MasterNextKeeps ==
  ASSUME OneHandler, MasterInv, [MasterNext]_<<serverVars, masterVars>>
  PROVE  MasterInv'
  <1>1. CASE UNCHANGED <<call, master, node>>
    <2>1. NodesOK'
      BY <1>1 DEF MasterInv, NodesOK, NothingLiveBelowArchived, LiveOf
    <2>2. ASSUME NEW h \in Handlers PROVE MasterCallOK(call[h])'
      <3>1. PICK c : c = call[h]
        OBVIOUS
      <3>2. MasterCallOK(c)
        BY <3>1, NowOK
      <3>3. \A x : Closed(x)' <=> Closed(x)
        BY <1>1 DEF Closed, Deeper
      <3>4. \A x : MayHang(x)' <=> MayHang(x)
        BY <1>1 DEF MayHang
      <3>5. MasterCallOK(c)'
        BY <1>1, <3>2, <3>3, <3>4 DEF MasterCallOK
      <3>6. call[h]' = c
        BY <1>1, <3>1
      <3> QED
        BY <3>5, <3>6
    <2> QED
      BY <1>1, <2>1, <2>2 DEF MasterInv
  <1>2. CASE WorkComesAndGoes
    BY <1>1, <1>2 DEF WorkComesAndGoes, serverVars
  <1>3. ASSUME NEW h \in Handlers, MasterStep(h) PROVE MasterInv'
    <2>1. CASE Crash(h) /\ UNCHANGED masterVars
      BY <2>1, MasterReturns DEF masterVars
    <2> QED
      BY <1>3, <2>1, MasterReads, MasterWritten, NodeReads, TreeReads, NodeInserted,
         NodeWritten, BranchArchived DEF MasterStep
  <1>4. CASE UNCHANGED <<serverVars, masterVars>>
    BY <1>1, <1>4 DEF serverVars, masterVars
  <1> QED
    BY <1>2, <1>3, <1>4 DEF MasterNext

\* The tree of a master plan, where a branch is archived in two reads and an
\* update of what hangs below it then: with one call at a time, wherever calls
\* die, no live node is left below an archived one
\* (master-plan.service.ts:138, :221).
THEOREM NothingLiveBelow ==
  ASSUME OneHandler
  PROVE  MasterSpec => []NothingLiveBelowArchived
  <1>1. ServerInit /\ MasterInit => MasterInv
    BY MasterInitOK
  <1>2. MasterInv /\ [MasterNext]_<<serverVars, masterVars>> => MasterInv'
    BY MasterNextKeeps
  <1>3. MasterInv => NothingLiveBelowArchived
    BY DEF MasterInv, NodesOK
  <1> QED
    BY <1>1, <1>2, <1>3, PTL DEF MasterSpec

\* Some children's budgets are within what all of a node's were checked against.
LEMMA KidsWithin ==
  ASSUME NodesOK, NEW budget \in Nat, NEW p \in LiveOf(node) \cup {Root}, RollsUp(node, budget),
         NEW kids \in SUBSET {k \in LiveOf(node) : node[k].parent = p}
  PROVE  Spent(node, kids) <= (IF p = Root THEN budget ELSE node[p].budget)
  <1>1. PICK all : all = Children(node, p)
    OBVIOUS
  <1>2. all \subseteq DOMAIN node /\ kids \subseteq all
    BY <1>1 DEF Children, LiveOf
  <1>3. IsFiniteSet(all) /\ IsFiniteSet(kids)
    BY <1>2, FS_Subset DEF NodesOK
  <1>4. \A n \in all : BudgetOf(node)[n] \in Nat
    BY <1>2 DEF NodesOK, IsNode, BudgetOf
  <1>5. PICK f : f = BudgetOf(node)
    OBVIOUS
  <1>6. Total(f, kids) <= Total(f, all) /\ Total(f, kids) \in Nat /\ Total(f, all) \in Nat
    BY <1>2, <1>3, <1>4, <1>5, TotalOfPart, TotalNat
  <1>7. Spent(node, kids) = Total(f, kids) /\ Spent(node, all) = Total(f, all)
    BY <1>2, <1>3, <1>5, SpentIsTotal
  <1>8. CASE p = Root
    BY <1>1, <1>6, <1>7, <1>8 DEF RollsUp
  <1>9. CASE p # Root
    <2>1. p \in LiveOf(node) /\ node[p].budget \in Nat
      BY <1>9 DEF LiveOf, NodesOK, IsNode
    <2>2. Spent(node, all) <= node[p].budget
      BY <1>1, <2>1 DEF RollsUp
    <2> QED
      BY <1>6, <1>7, <1>9, <2>1, <2>2
  <1> QED
    BY <1>8, <1>9

\* Only the update of the row changes the plan, and only with a budget that adds
\* up when it makes it ACTIVE; none of the updates happens to a CLOSED plan.
PlanLifeStep ==
  /\ master.status # "ACTIVE" /\ master'.status = "ACTIVE" =>
       /\ master.status = "DRAFT"
       /\ \A p \in LiveOf(node) \cup {Root} :
            LET above == IF p = Root THEN master'.budget ELSE node[p].budget
            IN  \A kids \in SUBSET {k \in LiveOf(node) : node[k].parent = p} :
                  Spent(node, kids) <= above
  /\ master.status = "CLOSED" => UNCHANGED <<master, node>>

LEMMA LivesOn ==
  ASSUME OneHandler, MasterInv, [MasterNext]_<<serverVars, masterVars>>
  PROVE  PlanLifeStep
  <1>1. CASE UNCHANGED <<master, node>>
    BY <1>1 DEF PlanLifeStep
  <1>2. ASSUME NEW h \in Handlers, WriteMaster(h) PROVE PlanLifeStep
    <2>1. PICK c : c = call[h]
      OBVIOUS
    <2>2. master' = c.e /\ MasterCallOK(c) /\ c.pc = "write master" /\ node' = node
      BY <1>2, <2>1, MasterWritten DEF WriteMaster
    <2>3. /\ IsMaster(c.e) /\ (master.status = "CLOSED" => c.e = master)
          /\ c.e.status = "ACTIVE" /\ master.status # "ACTIVE" =>
               master.status = "DRAFT" /\ RollsUp(node, c.e.budget)
      BY <2>2 DEF MasterCallOK, SavesMaster
    <2>4. ASSUME master.status # "ACTIVE", master'.status = "ACTIVE",
                 NEW p \in LiveOf(node) \cup {Root},
                 NEW kids \in SUBSET {k \in LiveOf(node) : node[k].parent = p}
          PROVE  Spent(node, kids) <= (IF p = Root THEN master'.budget ELSE node[p].budget)
      <3>1. NodesOK /\ c.e.budget \in Nat /\ RollsUp(node, c.e.budget)
        BY <2>2, <2>3, <2>4 DEF MasterInv, IsMaster
      <3>2. Spent(node, kids) <= (IF p = Root THEN c.e.budget ELSE node[p].budget)
        BY <3>1, KidsWithin
      <3> QED
        BY <2>2, <3>2
    <2> QED
      BY <2>2, <2>3, <2>4 DEF PlanLifeStep
  <1>3. ASSUME NEW h \in Handlers,
               InsertNode(h) \/ WriteNode(h) \/ InsertTemplate(h) \/ ArchiveNodes(h)
        PROVE  PlanLifeStep
    <2>1. PICK c : c = call[h]
      OBVIOUS
    <2>2. master' = master /\ MasterCallOK(c) /\ c.pc \in NeedsOpen
      BY <1>3, <2>1, NodeInserted, NodeWritten, BranchArchived DEF NeedsOpen
    <2>3. master.status # "CLOSED"
      BY <2>2 DEF MasterCallOK
    <2> QED
      BY <2>2, <2>3 DEF PlanLifeStep
  <1>4. ASSUME NEW h \in Handlers, MasterStep(h), ~ UNCHANGED <<master, node>>
        PROVE  WriteMaster(h) \/ InsertNode(h) \/ WriteNode(h) \/ InsertTemplate(h)
               \/ ArchiveNodes(h)
    BY <1>4 DEF MasterStep, masterVars, UpdateMaster, CloseMaster, ApproveMaster, RollUp,
       SelectMaster, AddNode, FindParent, TouchNode, LoadNode, SelectNode, LoadTree,
       CountWork, LoadLeaf
  <1> QED
    BY <1>1, <1>2, <1>3, <1>4 DEF MasterNext, WorkComesAndGoes, serverVars, masterVars

\* The life of a master plan: with one call at a time it becomes ACTIVE only from
\* a DRAFT whose budgets add up at every level, and neither it nor its nodes
\* change once it is CLOSED (master-plan.service.ts: approve, ensurePlanMutable).
THEOREM PlanLived ==
  ASSUME OneHandler
  PROVE  MasterSpec => PlanLife
  <1>1. ServerInit /\ MasterInit => MasterInv
    BY MasterInitOK
  <1>2. MasterInv /\ [MasterNext]_<<serverVars, masterVars>> => MasterInv'
    BY MasterNextKeeps
  <1>3. MasterInv /\ [MasterNext]_<<serverVars, masterVars>> => [PlanLifeStep]_masterVars
    BY LivesOn
  <1> QED
    BY <1>1, <1>2, <1>3, PTL DEF MasterSpec, PlanLife, PlanLifeStep

-----------------------------------------------------------------------------
(* The schedule: links without a cycle *)

LEMMA ImageFinite ==
  ASSUME NEW S, IsFiniteSet(S), NEW f, NEW T, T = {f[x] : x \in S}
  PROVE  IsFiniteSet(T)
  <1>1. PICK g : g = [x \in S |-> f[x]]
    OBVIOUS
  <1>2. g \in Surjection(S, T)
    BY <1>1 DEF Surjection
  <1> QED
    BY <1>1, <1>2, FS_Surjection

\* The largest and the smallest of some integers.
LEMMA LargestOf ==
  ASSUME NEW S, IsFiniteSet(S), S \subseteq Int, S # {}
  PROVE  Max(S) \in S /\ \A y \in S : y <= Max(S)
  <1> DEFINE Bad == {T \in SUBSET S : T # {} /\ ~ \E x \in T : \A y \in T : y <= x}
  <1>1. ASSUME Bad # {} PROVE FALSE
    <2>1. PICK T \in Bad : \A U \in Bad : ~(U \subseteq T /\ U # T)
      <3>1. PICK N : N = S
        OBVIOUS
      <3>2. IsFiniteSet(N) /\ Bad \in SUBSET SUBSET N
        BY <3>1
      <3> HIDE DEF Bad
      <3> QED
        BY <1>1, <3>2, SmallestBad
    <2>2. PICK p \in T : TRUE
      OBVIOUS
    <2>3. T \ {p} \notin Bad /\ T \ {p} \in SUBSET S
      BY <2>1, <2>2
    <2>4. CASE T \ {p} = {}
      BY <2>1, <2>2, <2>4
    <2>5. CASE T \ {p} # {}
      <3>1. PICK x \in T \ {p} : \A y \in T \ {p} : y <= x
        BY <2>3, <2>5
      <3>2. x \in Int /\ p \in Int /\ T \subseteq Int
        BY <2>1, <2>2, <3>1
      <3>3. CASE p <= x
        BY <2>1, <3>1, <3>2, <3>3
      <3>4. CASE x <= p
        BY <2>1, <2>2, <3>1, <3>2, <3>4
      <3> QED
        BY <3>2, <3>3, <3>4
    <2> QED
      BY <2>4, <2>5
  <1>2. PICK x \in S : \A y \in S : y <= x
    BY <1>1
  <1>3. \A y \in S : x >= y
    BY <1>2
  <1>4. Max(S) \in S /\ \A y \in S : Max(S) >= y
    BY <1>2, <1>3 DEF Max
  <1> QED
    BY <1>4

LEMMA SmallestOf ==
  ASSUME NEW S, IsFiniteSet(S), S \subseteq Int, S # {}
  PROVE  Min(S) \in S /\ \A y \in S : Min(S) <= y
  <1> DEFINE M == {0 - x : x \in S}
  <1>1. IsFiniteSet(M)
    <2>1. PICK f : f = [x \in S |-> 0 - x]
      OBVIOUS
    <2>2. M = {f[x] : x \in S}
      BY <2>1
    <2> HIDE DEF M
    <2> QED
      BY <2>2, ImageFinite
  <1>2. M \subseteq Int /\ M # {}
    <2>1. M \subseteq Int
      OBVIOUS
    <2>2. M # {}
      OBVIOUS
    <2> QED
      BY <2>1, <2>2
  <1>3. PICK m \in M : \A y \in M : y <= m
    <2> HIDE DEF M
    <2> QED
      BY <1>1, <1>2, LargestOf
  <1>4. PICK x \in S : m = 0 - x
    OBVIOUS
  <1>5. \A y \in S : x <= y
    BY <1>3, <1>4
  <1>6. Min(S) \in S /\ \A y \in S : Min(S) <= y
    BY <1>5 DEF Min
  <1> QED
    BY <1>6

\* Among any of the tasks there is one without a successor among them ...
LEMMA SinkExists ==
  ASSUME NEW ts, NEW ls, ~HasCycle(ts, ls), NEW D \in SUBSET ts, D # {}
  PROVE  \E t \in D : \A l \in OutOf(ls, t) : l.succ \notin D
  BY DEF HasCycle

\* ... and one without a predecessor among them.
LEMMA SourceExists ==
  ASSUME NEW ts, NEW ls, ~HasCycle(ts, ls), IsFiniteSet(ts), NEW D \in SUBSET ts, D # {}
  PROVE  \E t \in D : \A l \in Into(ls, t) : l.pred \notin D
  <1> DEFINE Bad == {C \in SUBSET ts : C # {} /\ \A t \in C : \E l \in Into(ls, t) : l.pred \in C}
  <1>1. ASSUME Bad # {} PROVE FALSE
    <2>1. PICK C \in Bad : \A U \in Bad : ~(U \subseteq C /\ U # C)
      <3>1. PICK N : N = ts
        OBVIOUS
      <3>2. IsFiniteSet(N) /\ Bad \in SUBSET SUBSET N
        BY <3>1
      <3> HIDE DEF Bad
      <3> QED
        BY <1>1, <3>2, SmallestBad
    <2>2. PICK s \in C : \A l \in OutOf(ls, s) : l.succ \notin C
      BY <2>1, SinkExists
    <2>3. ASSUME NEW t \in C PROVE \E l \in Into(ls, t) : l.pred \in C \ {s}
      <3>1. PICK l \in Into(ls, t) : l.pred \in C
        BY <2>1
      <3>2. l.pred # s
        BY <2>2, <2>3, <3>1 DEF Into, OutOf
      <3> QED
        BY <3>1, <3>2
    <2>4. C \ {s} # {}
      BY <2>2, <2>3
    <2>5. C \ {s} \in Bad
      BY <2>1, <2>3, <2>4
    <2> QED
      BY <2>1, <2>2, <2>5
  <1> QED
    BY <1>1

\* Links lead from tasks to tasks.
Joined(ts, ls) == \A l \in ls : l.pred \in ts /\ l.succ \in ts

\* The step of topologicalSort, and what it has emitted after n of them.
Released(ids, ts, ls, S) == {v \in ids : \A l \in Into(ls, v) : l.pred \in S \cap ts}
Emits(ids, ts, ls, a) ==
  a = [n \in Nat |-> IF n = 0 THEN {} ELSE Released(ids, ts, ls, a[n - 1])]

LEMMA SortedIs ==
  ASSUME NEW ts, NEW ls, Joined(ts, ls)
  PROVE  Sorted(ts, ls) = (CHOOSE a : Emits(ts, ts, ls, a))[Cardinality(ts)]
  <1>1. ts \cup {l.succ : l \in ls} = ts
    BY DEF Joined
  <1>2. Sorted(ts, ls) =
          (CHOOSE a : Emits(ts \cup {l.succ : l \in ls}, ts, ls, a))
            [Cardinality(ts \cup {l.succ : l \in ls})]
    BY DEF Sorted, Emits, Released
  <1> QED
    BY <1>1, <1>2

LEMMA EmitsExists ==
  ASSUME NEW ts, NEW ls
  PROVE  \E a : Emits(ts, ts, ls, a)
  <1>1. PICK F : F = [S \in SUBSET ts |-> Released(ts, ts, ls, S)]
    OBVIOUS
  <1>2. F \in [SUBSET ts -> SUBSET ts]
    BY <1>1 DEF Released
  <1>3. PICK X : X = SUBSET ts
    OBVIOUS
  <1>4. PICK a : a \in [Nat -> X] /\ a[0] = {} /\ \A i \in Nat : a[i + 1] = F[a[i]]
    <2>1. PICK base : base = {}
      OBVIOUS
    <2>2. F \in [X -> X] /\ base \in X
      BY <1>2, <1>3, <2>1
    <2>3. PICK a : IsOrbit(X, F, base, a)
      BY <2>2, OrbitExists
    <2> QED
      BY <2>1, <2>3 DEF IsOrbit
  <1>5. ASSUME NEW n \in Nat
        PROVE  a[n] = IF n = 0 THEN {} ELSE Released(ts, ts, ls, a[n - 1])
    <2>1. CASE n = 0
      BY <1>4, <2>1
    <2>2. CASE n # 0
      <3>1. PICK k \in Nat : k = n - 1 /\ n = k + 1
        <4>1. n - 1 \in Nat /\ n = (n - 1) + 1
          BY <2>2
        <4> QED
          BY <4>1
      <3>2. a[n] = F[a[k]] /\ a[k] \in SUBSET ts
        BY <1>3, <1>4, <3>1
      <3> QED
        BY <1>1, <2>2, <3>1, <3>2
    <2> QED
      BY <2>1, <2>2
  <1>6. Emits(ts, ts, ls, a)
    BY <1>4, <1>5 DEF Emits
  <1> QED
    BY <1>6

\* Without a cycle every task is emitted.
LEMMA SortsAll ==
  ASSUME NEW ts, NEW ls, IsFiniteSet(ts), Joined(ts, ls), ~HasCycle(ts, ls)
  PROVE  Sortable(ts, ls)
  <1>1. PICK a : a = CHOOSE x : Emits(ts, ts, ls, x)
    OBVIOUS
  <1>2. Emits(ts, ts, ls, a)
    BY <1>1, EmitsExists
  <1>3. \A n \in Nat : a[n] = IF n = 0 THEN {} ELSE Released(ts, ts, ls, a[n - 1])
    BY <1>2 DEF Emits
  <1>4. PICK F : F = [S \in SUBSET ts |-> Released(ts, ts, ls, S)]
    OBVIOUS
  <1>5. \A n \in Nat : a[n] \subseteq ts
    BY <1>3 DEF Released
  <1>6. \A n \in Nat : a[n + 1] = Released(ts, ts, ls, a[n])
    <2> SUFFICES ASSUME NEW n \in Nat PROVE a[n + 1] = Released(ts, ts, ls, a[n])
      OBVIOUS
    <2>1. PICK k \in Nat : k = n + 1 /\ k # 0 /\ k - 1 = n
      OBVIOUS
    <2> QED
      BY <1>3, <2>1
  <1>7. \A n \in Nat : a[n] \subseteq a[n + 1]
    <2> DEFINE Bad == {n \in Nat : ~(a[n] \subseteq a[n + 1])}
    <2>1. SUFFICES ASSUME Bad # {} PROVE FALSE
      OBVIOUS
    <2>2. PICK n \in Bad : \A j \in Nat : j < n => j \notin Bad
      <3>1. Bad \subseteq Nat
        OBVIOUS
      <3> HIDE DEF Bad
      <3> QED
        BY <2>1, <3>1, FirstOf
    <2>3. n # 0
      BY <1>3, <2>2
    <2>4. PICK k \in Nat : n = k + 1 /\ k < n
      <3>1. n - 1 \in Nat /\ n = (n - 1) + 1 /\ n - 1 < n
        BY <2>3
      <3> QED
        BY <3>1
    <2>5. a[k] \subseteq a[n]
      BY <2>2, <2>4
    <2>6. a[n] = Released(ts, ts, ls, a[k]) /\ a[n + 1] = Released(ts, ts, ls, a[n])
      BY <1>6, <2>2, <2>4
    <2> QED
      BY <2>2, <2>5, <2>6 DEF Released
  <1>8. PICK A : A = a[Cardinality(ts)]
    OBVIOUS
  <1>9. Cardinality(ts) \in Nat
    BY FS_CardinalityType
  <1>10. A \subseteq ts /\ A = F[A]
    <2>1. \A n \in Nat : a[n + 1] = F[a[n]]
      BY <1>4, <1>5, <1>6
    <2> QED
      BY <1>5, <1>7, <1>8, <1>9, <2>1, IteratesSettle
  <1>11. A = Released(ts, ts, ls, A)
    BY <1>4, <1>10
  <1>12. ASSUME ts \ A # {} PROVE FALSE
    <2>1. PICK v \in ts \ A : \A l \in Into(ls, v) : l.pred \notin ts \ A
      BY <1>12, SourceExists
    <2>2. \A l \in Into(ls, v) : l.pred \in A \cap ts
      BY <2>1 DEF Joined, Into
    <2>3. v \in A
      BY <1>11, <2>1, <2>2 DEF Released
    <2> QED
      BY <2>1, <2>3
  <1>13. Sorted(ts, ls) = ts
    BY <1>1, <1>8, <1>10, <1>12, SortedIs
  <1> QED
    BY <1>13 DEF Sortable

\* What calculateCPM is given: finitely many tasks, links between them, no cycle.
Sane(row, ls) ==
  /\ IsFiniteSet(DOMAIN row) /\ IsFiniteSet(ls)
  /\ \A t \in DOMAIN row : row[t].duration \in Nat
  /\ \A l \in ls : l.lag \in Int
  /\ Joined(DOMAIN row, ls) /\ ~HasCycle(DOMAIN row, ls)

\* The forward pass: when the predecessors of t let it start.
Frees(row, ls, es, t)  == {0} \cup {es[l.pred] + row[l.pred].duration + l.lag : l \in Into(ls, t)}
Early(row, ls, S, es)  == es = [t \in S |-> Max(Frees(row, ls, es, t))]

LEMMA EarlyStartIs ==
  ASSUME NEW row, NEW ls
  PROVE  EarlyStart(row, ls) = CHOOSE es : Early(row, ls, DOMAIN row, es)
  BY DEF EarlyStart, Early, Frees

LEMMA EarlyExists ==
  ASSUME NEW row, NEW ls, Sane(row, ls)
  PROVE  \E es : Early(row, ls, DOMAIN row, es)
  <1> DEFINE ts  == DOMAIN row
             Bad == {S \in SUBSET ts : /\ \A t \in S : \A l \in Into(ls, t) : l.pred \in S
                                       /\ ~ \E es : Early(row, ls, S, es)}
  <1>1. ASSUME Bad # {} PROVE FALSE
    <2>1. PICK S \in Bad : \A U \in Bad : ~(U \subseteq S /\ U # S)
      <3>1. PICK N : N = ts
        OBVIOUS
      <3>2. IsFiniteSet(N) /\ Bad \in SUBSET SUBSET N
        BY <3>1 DEF Sane
      <3> HIDE DEF Bad
      <3> QED
        BY <1>1, <3>2, SmallestBad
    <2>2. S # {}
      <3>1. ASSUME S = {} PROVE FALSE
        <4>1. PICK es : es = [t \in S |-> 0]
          OBVIOUS
        <4>2. Early(row, ls, S, es)
          BY <3>1, <4>1 DEF Early
        <4> QED
          BY <2>1, <4>2
      <3> QED
        BY <3>1
    <2>3. PICK s \in S : \A l \in OutOf(ls, s) : l.succ \notin S
      BY <2>1, <2>2, SinkExists DEF Sane
    <2>4. ASSUME NEW t \in S, NEW l \in Into(ls, t) PROVE l.pred \in S \ {s}
      <3>1. l.pred \in S
        BY <2>1, <2>4
      <3>2. l.pred # s
        BY <2>3, <2>4 DEF Into, OutOf
      <3> QED
        BY <3>1, <3>2
    <2>5. PICK R : R = S \ {s}
      OBVIOUS
    <2>6. PICK f : Early(row, ls, R, f)
      <3>1. R \in SUBSET ts /\ R \subseteq S /\ R # S
        BY <2>1, <2>3, <2>5
      <3> QED
        BY <2>1, <2>4, <2>5, <3>1
    <2>7. PICK es : es = [t \in S |-> Max(Frees(row, ls, f, t))]
      OBVIOUS
    <2>8. \A t \in R : es[t] = f[t]
      BY <2>5, <2>6, <2>7 DEF Early
    <2>9. ASSUME NEW t \in S PROVE Frees(row, ls, es, t) = Frees(row, ls, f, t)
      <3>1. \A l \in Into(ls, t) : es[l.pred] = f[l.pred]
        BY <2>4, <2>5, <2>8
      <3> QED
        BY <3>1 DEF Frees
    <2>10. Early(row, ls, S, es)
      BY <2>7, <2>9 DEF Early
    <2> QED
      BY <2>1, <2>10
  <1>2. \A t \in ts : \A l \in Into(ls, t) : l.pred \in ts
    BY DEF Sane, Joined, Into
  <1> QED
    BY <1>1, <1>2

LEMMA FreesTyped ==
  ASSUME NEW row, NEW ls, Sane(row, ls), NEW es, NEW t, \A l \in Into(ls, t) : es[l.pred] \in Int
  PROVE  /\ IsFiniteSet(Frees(row, ls, es, t)) /\ Frees(row, ls, es, t) \subseteq Int
         /\ 0 \in Frees(row, ls, es, t)
  <1>1. IsFiniteSet(Into(ls, t))
    BY FS_Subset DEF Sane, Into
  <1>2. PICK f : f = [l \in Into(ls, t) |-> es[l.pred] + row[l.pred].duration + l.lag]
    OBVIOUS
  <1>3. PICK T : T = {f[l] : l \in Into(ls, t)}
    OBVIOUS
  <1>4. IsFiniteSet(Frees(row, ls, es, t))
    <2>1. IsFiniteSet(T)
      BY <1>1, <1>3, ImageFinite
    <2>2. IsFiniteSet(T \cup {0})
      BY <2>1, FS_AddElement
    <2>3. Frees(row, ls, es, t) = T \cup {0}
      BY <1>2, <1>3 DEF Frees
    <2> QED
      BY <2>2, <2>3
  <1>5. \A l \in Into(ls, t) : es[l.pred] + row[l.pred].duration + l.lag \in Int
    BY DEF Sane, Joined, Into
  <1> QED
    BY <1>4, <1>5 DEF Frees

\* A task starts on day 0 or when some predecessor lets it, never before.
LEMMA StartsEarly ==
  ASSUME NEW row, NEW ls, Sane(row, ls), NEW es, es = EarlyStart(row, ls)
  PROVE  \A t \in DOMAIN row :
           /\ es[t] \in Nat
           /\ \A l \in Into(ls, t) : es[l.pred] + row[l.pred].duration + l.lag <= es[t]
           /\ \/ es[t] = 0
              \/ \E l \in Into(ls, t) : es[t] = es[l.pred] + row[l.pred].duration + l.lag
  <1>1. Early(row, ls, DOMAIN row, es)
    BY EarlyStartIs, EarlyExists
  <1>2. ASSUME NEW t \in DOMAIN row, \A l \in Into(ls, t) : es[l.pred] \in Int
        PROVE  /\ es[t] \in Frees(row, ls, es, t) /\ es[t] \in Int
               /\ \A y \in Frees(row, ls, es, t) : y <= es[t]
    <2>1. PICK S : S = Frees(row, ls, es, t)
      OBVIOUS
    <2>2. es[t] = Max(S)
      BY <1>1, <2>1 DEF Early
    <2>3. IsFiniteSet(S) /\ S \subseteq Int /\ S # {}
      BY <1>2, <2>1, FreesTyped
    <2>4. Max(S) \in S /\ \A y \in S : y <= Max(S)
      BY <2>3, LargestOf
    <2> QED
      BY <2>1, <2>2, <2>3, <2>4
  <1>3. \A t \in DOMAIN row : es[t] \in Int
    <2> DEFINE Bad == {t \in DOMAIN row : es[t] \notin Int}
    <2>1. SUFFICES ASSUME Bad # {} PROVE FALSE
      OBVIOUS
    <2>2. PICK t \in Bad : \A l \in Into(ls, t) : l.pred \notin Bad
      <3>1. Bad \in SUBSET DOMAIN row
        OBVIOUS
      <3> HIDE DEF Bad
      <3> QED
        BY <2>1, <3>1, SourceExists DEF Sane
    <2>3. \A l \in Into(ls, t) : es[l.pred] \in Int
      BY <2>2 DEF Sane, Joined, Into
    <2> QED
      BY <1>2, <2>2, <2>3
  <1>4. ASSUME NEW t \in DOMAIN row
        PROVE  /\ es[t] \in Frees(row, ls, es, t) /\ es[t] \in Int
               /\ \A y \in Frees(row, ls, es, t) : y <= es[t]
    <2>1. \A l \in Into(ls, t) : es[l.pred] \in Int
      BY <1>3 DEF Sane, Joined, Into
    <2> QED
      BY <1>2, <2>1
  <1>5. ASSUME NEW t \in DOMAIN row
        PROVE  /\ es[t] \in Nat
               /\ \A l \in Into(ls, t) : es[l.pred] + row[l.pred].duration + l.lag <= es[t]
               /\ \/ es[t] = 0
                  \/ \E l \in Into(ls, t) : es[t] = es[l.pred] + row[l.pred].duration + l.lag
    <2>1. 0 <= es[t]
      BY <1>4 DEF Frees
    <2>2. \A l \in Into(ls, t) : es[l.pred] + row[l.pred].duration + l.lag <= es[t]
      BY <1>4 DEF Frees
    <2>3. \/ es[t] = 0
          \/ \E l \in Into(ls, t) : es[t] = es[l.pred] + row[l.pred].duration + l.lag
      BY <1>4 DEF Frees
    <2> QED
      BY <1>4, <2>1, <2>2, <2>3
  <1> QED
    BY <1>5

\* The backward pass: when t has to end so that its successors can.
Bounds(row, ls, last, lf, t) ==
  {(IF l.succ \in DOMAIN row THEN lf[l.succ] - row[l.succ].duration ELSE last) - l.lag :
     l \in OutOf(ls, t)}
Late(row, ls, last, S, lf) ==
  lf = [t \in S |-> IF OutOf(ls, t) = {} THEN last ELSE Min(Bounds(row, ls, last, lf, t))]

LEMMA LateFinishIs ==
  ASSUME NEW row, NEW ls, NEW last
  PROVE  LateFinish(row, ls, last) = CHOOSE lf : Late(row, ls, last, DOMAIN row, lf)
  BY DEF LateFinish, Late, Bounds

LEMMA LateExists ==
  ASSUME NEW row, NEW ls, NEW last, Sane(row, ls)
  PROVE  \E lf : Late(row, ls, last, DOMAIN row, lf)
  <1> DEFINE ts  == DOMAIN row
             Bad == {S \in SUBSET ts : /\ \A t \in S : \A l \in OutOf(ls, t) : l.succ \in S
                                       /\ ~ \E lf : Late(row, ls, last, S, lf)}
  <1>1. ASSUME Bad # {} PROVE FALSE
    <2>1. PICK S \in Bad : \A U \in Bad : ~(U \subseteq S /\ U # S)
      <3>1. PICK N : N = ts
        OBVIOUS
      <3>2. IsFiniteSet(N) /\ Bad \in SUBSET SUBSET N
        BY <3>1 DEF Sane
      <3> HIDE DEF Bad
      <3> QED
        BY <1>1, <3>2, SmallestBad
    <2>2. S # {}
      <3>1. ASSUME S = {} PROVE FALSE
        <4>1. PICK lf : lf = [t \in S |-> 0]
          OBVIOUS
        <4>2. Late(row, ls, last, S, lf)
          BY <3>1, <4>1 DEF Late
        <4> QED
          BY <2>1, <4>2
      <3> QED
        BY <3>1
    <2>3. PICK s \in S : \A l \in Into(ls, s) : l.pred \notin S
      BY <2>1, <2>2, SourceExists DEF Sane
    <2>4. ASSUME NEW t \in S, NEW l \in OutOf(ls, t) PROVE l.succ \in S \ {s}
      <3>1. l.succ \in S
        BY <2>1, <2>4
      <3>2. l.succ # s
        BY <2>3, <2>4 DEF Into, OutOf
      <3> QED
        BY <3>1, <3>2
    <2>5. PICK R : R = S \ {s}
      OBVIOUS
    <2>6. PICK f : Late(row, ls, last, R, f)
      <3>1. R \in SUBSET ts /\ R \subseteq S /\ R # S
        BY <2>1, <2>3, <2>5
      <3> QED
        BY <2>1, <2>4, <2>5, <3>1
    <2>7. PICK lf : lf = [t \in S |-> IF OutOf(ls, t) = {} THEN last
                                      ELSE Min(Bounds(row, ls, last, f, t))]
      OBVIOUS
    <2>8. \A t \in R : lf[t] = f[t]
      BY <2>5, <2>6, <2>7 DEF Late
    <2>9. ASSUME NEW t \in S
          PROVE  Bounds(row, ls, last, lf, t) = Bounds(row, ls, last, f, t)
      <3>1. \A l \in OutOf(ls, t) : lf[l.succ] = f[l.succ]
        BY <2>4, <2>5, <2>8
      <3> QED
        BY <3>1 DEF Bounds
    <2>10. Late(row, ls, last, S, lf)
      BY <2>7, <2>9 DEF Late
    <2> QED
      BY <2>1, <2>10
  <1>2. \A t \in ts : \A l \in OutOf(ls, t) : l.succ \in ts
    BY DEF Sane, Joined, OutOf
  <1> QED
    BY <1>1, <1>2

LEMMA BoundsTyped ==
  ASSUME NEW row, NEW ls, Sane(row, ls), NEW last, NEW lf, NEW t,
         \A l \in OutOf(ls, t) : lf[l.succ] \in Int
  PROVE  /\ IsFiniteSet(Bounds(row, ls, last, lf, t)) /\ Bounds(row, ls, last, lf, t) \subseteq Int
         /\ OutOf(ls, t) # {} => Bounds(row, ls, last, lf, t) # {}
         /\ Bounds(row, ls, last, lf, t) =
              {lf[l.succ] - row[l.succ].duration - l.lag : l \in OutOf(ls, t)}
  <1>1. IsFiniteSet(OutOf(ls, t))
    BY FS_Subset DEF Sane, OutOf
  <1>2. \A l \in OutOf(ls, t) : l.succ \in DOMAIN row
    BY DEF Sane, Joined, OutOf
  <1>3. Bounds(row, ls, last, lf, t) =
          {lf[l.succ] - row[l.succ].duration - l.lag : l \in OutOf(ls, t)}
    BY <1>2 DEF Bounds
  <1>4. PICK f : f = [l \in OutOf(ls, t) |-> lf[l.succ] - row[l.succ].duration - l.lag]
    OBVIOUS
  <1>5. Bounds(row, ls, last, lf, t) = {f[l] : l \in OutOf(ls, t)}
    BY <1>3, <1>4
  <1>6. IsFiniteSet(Bounds(row, ls, last, lf, t))
    BY <1>1, <1>5, ImageFinite
  <1>7. \A l \in OutOf(ls, t) : lf[l.succ] - row[l.succ].duration - l.lag \in Int
    BY <1>2 DEF Sane, OutOf
  <1> QED
    BY <1>3, <1>6, <1>7

\* A task ends as late as its successors allow, or the end of the project when it
\* has none.
LEMMA EndsLate ==
  ASSUME NEW row, NEW ls, Sane(row, ls), NEW last \in Int,
         NEW lf, lf = LateFinish(row, ls, last)
  PROVE  \A t \in DOMAIN row :
           /\ lf[t] \in Int
           /\ \A l \in OutOf(ls, t) : lf[t] <= lf[l.succ] - row[l.succ].duration - l.lag
           /\ IF OutOf(ls, t) = {} THEN lf[t] = last
              ELSE \E l \in OutOf(ls, t) : lf[t] = lf[l.succ] - row[l.succ].duration - l.lag
  <1>1. Late(row, ls, last, DOMAIN row, lf)
    BY LateFinishIs, LateExists
  <1>2. ASSUME NEW t \in DOMAIN row, \A l \in OutOf(ls, t) : lf[l.succ] \in Int
        PROVE  /\ lf[t] \in Int
               /\ \A l \in OutOf(ls, t) : lf[t] <= lf[l.succ] - row[l.succ].duration - l.lag
               /\ IF OutOf(ls, t) = {} THEN lf[t] = last
                  ELSE \E l \in OutOf(ls, t) : lf[t] = lf[l.succ] - row[l.succ].duration - l.lag
    <2>1. CASE OutOf(ls, t) = {}
      BY <1>1, <2>1 DEF Late
    <2>2. CASE OutOf(ls, t) # {}
      <3>1. PICK S : S = Bounds(row, ls, last, lf, t)
        OBVIOUS
      <3>2. lf[t] = Min(S)
        BY <1>1, <2>2, <3>1 DEF Late
      <3>3. IsFiniteSet(S) /\ S \subseteq Int /\ S # {}
            /\ S = {lf[l.succ] - row[l.succ].duration - l.lag : l \in OutOf(ls, t)}
        BY <1>2, <2>2, <3>1, BoundsTyped
      <3>4. Min(S) \in S /\ \A y \in S : Min(S) <= y
        BY <3>3, SmallestOf
      <3>5. lf[t] \in S /\ lf[t] \in Int /\ \A y \in S : lf[t] <= y
        BY <3>2, <3>3, <3>4
      <3>6. \A l \in OutOf(ls, t) : lf[t] <= lf[l.succ] - row[l.succ].duration - l.lag
        BY <3>3, <3>5
      <3>7. \E l \in OutOf(ls, t) : lf[t] = lf[l.succ] - row[l.succ].duration - l.lag
        BY <3>3, <3>5
      <3> QED
        BY <3>5, <3>6, <3>7
    <2> QED
      BY <2>1, <2>2
  <1>3. \A t \in DOMAIN row : lf[t] \in Int
    <2> DEFINE Bad == {t \in DOMAIN row : lf[t] \notin Int}
    <2>1. SUFFICES ASSUME Bad # {} PROVE FALSE
      OBVIOUS
    <2>2. PICK t \in Bad : \A l \in OutOf(ls, t) : l.succ \notin Bad
      <3>1. Bad \in SUBSET DOMAIN row
        OBVIOUS
      <3> HIDE DEF Bad
      <3> QED
        BY <2>1, <3>1, SinkExists DEF Sane
    <2>3. \A l \in OutOf(ls, t) : lf[l.succ] \in Int
      BY <2>2 DEF Sane, Joined, OutOf
    <2>4. lf[t] \in Int
      BY <1>2, <2>2, <2>3
    <2> QED
      BY <2>2, <2>4
  <1>4. \A t \in DOMAIN row : \A l \in OutOf(ls, t) : lf[l.succ] \in Int
    BY <1>3 DEF Sane, Joined, OutOf
  <1> QED
    BY <1>2, <1>4

\* What ScheduleFits says of the rows.
End(row) == Max({0} \cup {row[t].ef : t \in DOMAIN row})

Fits(row, ls) ==
  \A t \in DOMAIN row :
    LET r       == row[t]
        free(l) == row[l.pred].ef + l.lag
        last(l) == row[l.succ].ls - l.lag
    IN  /\ r.ef = r.es + r.duration /\ r.lf = r.ls + r.duration
        /\ r.es >= 0 /\ \A l \in Into(ls, t) : r.es >= free(l)
        /\ r.es = 0 \/ \E l \in Into(ls, t) : r.es = free(l)
        /\ r.ls >= r.es
        /\ \A l \in OutOf(ls, t) : r.lf <= last(l)
        /\ IF OutOf(ls, t) = {} THEN r.lf = End(row)
           ELSE \E l \in OutOf(ls, t) : r.lf = last(l)

LEMMA PlannedFits ==
  ASSUME NEW row, NEW ls, Sane(row, ls)
  PROVE  /\ Fits(Planned(row, ls), ls)
         /\ DOMAIN Planned(row, ls) = DOMAIN row
         /\ \A t \in DOMAIN row : /\ Planned(row, ls)[t].duration = row[t].duration
                                  /\ DOMAIN Planned(row, ls)[t] =
                                       {"duration", "es", "ef", "ls", "lf", "critical"}
  <1>1. PICK ts : ts = DOMAIN row
    OBVIOUS
  <1>2. PICK es : es = EarlyStart(row, ls)
    OBVIOUS
  <1>3. PICK ef : ef = [t \in ts |-> es[t] + row[t].duration]
    OBVIOUS
  <1>4. PICK last : last = Max({0} \cup {ef[t] : t \in ts})
    OBVIOUS
  <1>5. PICK lf : lf = LateFinish(row, ls, last)
    OBVIOUS
  <1>6. PICK p : p = Planned(row, ls)
    OBVIOUS
  <1>7. p = [t \in ts |->
              [duration |-> row[t].duration, es |-> es[t], ef |-> ef[t],
               ls |-> lf[t] - row[t].duration, lf |-> lf[t],
               critical |-> lf[t] - row[t].duration = es[t] /\ row[t].duration > 0]]
    BY <1>1, <1>2, <1>3, <1>4, <1>5, <1>6 DEF Planned
  <1>8. \A t \in ts :
          /\ es[t] \in Nat /\ row[t].duration \in Nat /\ ef[t] = es[t] + row[t].duration
          /\ \A l \in Into(ls, t) : es[l.pred] + row[l.pred].duration + l.lag <= es[t]
          /\ \/ es[t] = 0
             \/ \E l \in Into(ls, t) : es[t] = es[l.pred] + row[l.pred].duration + l.lag
    BY <1>1, <1>2, <1>3, StartsEarly DEF Sane
  <1>9. last \in Int /\ \A t \in ts : ef[t] <= last
    <2>1. PICK T : T = {ef[t] : t \in ts}
      OBVIOUS
    <2>2. IsFiniteSet(T)
      BY <1>1, <2>1, ImageFinite DEF Sane
    <2>3. PICK S : S = T \cup {0}
      OBVIOUS
    <2>4. IsFiniteSet(S)
      BY <2>2, <2>3, FS_AddElement
    <2>5. S \subseteq Int /\ S # {}
      BY <1>8, <2>1, <2>3
    <2>6. Max(S) \in S /\ \A y \in S : y <= Max(S)
      BY <2>4, <2>5, LargestOf
    <2>7. last = Max(S)
      <3>1. {0} \cup {ef[t] : t \in ts} = S
        BY <2>1, <2>3
      <3> QED
        BY <1>4, <3>1
    <2> QED
      BY <2>1, <2>3, <2>5, <2>6, <2>7
  <1>10. \A t \in ts :
           /\ lf[t] \in Int
           /\ \A l \in OutOf(ls, t) : lf[t] <= lf[l.succ] - row[l.succ].duration - l.lag
           /\ IF OutOf(ls, t) = {} THEN lf[t] = last
              ELSE \E l \in OutOf(ls, t) : lf[t] = lf[l.succ] - row[l.succ].duration - l.lag
    BY <1>1, <1>5, <1>9, EndsLate
  <1>11. \A l \in ls : l.lag \in Int /\ l.pred \in ts /\ l.succ \in ts
    BY <1>1 DEF Sane, Joined
  <1>12. \A t \in ts : lf[t] - row[t].duration >= es[t]
    <2> DEFINE Bad == {t \in ts : ~(lf[t] - row[t].duration >= es[t])}
    <2>1. SUFFICES ASSUME Bad # {} PROVE FALSE
      OBVIOUS
    <2>2. PICK t \in Bad : \A l \in OutOf(ls, t) : l.succ \notin Bad
      <3>1. Bad \in SUBSET DOMAIN row
        BY <1>1
      <3> HIDE DEF Bad
      <3> QED
        BY <2>1, <3>1, SinkExists DEF Sane
    <2>3. OutOf(ls, t) # {}
      BY <1>8, <1>9, <1>10, <2>2
    <2>4. PICK l \in OutOf(ls, t) : lf[t] = lf[l.succ] - row[l.succ].duration - l.lag
      BY <1>10, <2>2, <2>3
    <2>5. l \in ls /\ l.pred = t /\ l.succ \in ts /\ l.lag \in Int /\ l \in Into(ls, l.succ)
      BY <1>11, <2>4 DEF OutOf, Into
    <2>6. lf[l.succ] - row[l.succ].duration >= es[l.succ]
      BY <2>2, <2>4, <2>5
    <2>7. es[t] + row[t].duration + l.lag <= es[l.succ]
      BY <1>8, <2>5
    <2> QED
      BY <1>8, <1>10, <2>2, <2>4, <2>5, <2>6, <2>7
  <1>13. ASSUME NEW t \in ts
         PROVE  LET r       == p[t]
                    free(l) == p[l.pred].ef + l.lag
                    late(l) == p[l.succ].ls - l.lag
                IN  /\ r.ef = r.es + r.duration /\ r.lf = r.ls + r.duration
                    /\ r.es >= 0 /\ \A l \in Into(ls, t) : r.es >= free(l)
                    /\ r.es = 0 \/ \E l \in Into(ls, t) : r.es = free(l)
                    /\ r.ls >= r.es
                    /\ \A l \in OutOf(ls, t) : r.lf <= late(l)
                    /\ IF OutOf(ls, t) = {} THEN r.lf = End(p)
                       ELSE \E l \in OutOf(ls, t) : r.lf = late(l)
    <2>1. /\ p[t].ef = p[t].es + p[t].duration /\ p[t].lf = p[t].ls + p[t].duration
          /\ p[t].es >= 0 /\ p[t].ls >= p[t].es
      BY <1>7, <1>8, <1>10, <1>12
    <2>2. \A l \in Into(ls, t) : p[l.pred].ef + l.lag = es[l.pred] + row[l.pred].duration + l.lag
      BY <1>7, <1>8, <1>11 DEF Into
    <2>3. p[t].es = es[t] /\ p[t].lf = lf[t]
      BY <1>7
    <2>4. \A l \in Into(ls, t) : p[t].es >= p[l.pred].ef + l.lag
      <3> SUFFICES ASSUME NEW l \in Into(ls, t) PROVE p[t].es >= p[l.pred].ef + l.lag
        OBVIOUS
      <3>1. /\ es[l.pred] \in Nat /\ row[l.pred].duration \in Nat /\ l.lag \in Int /\ es[t] \in Nat
            /\ es[l.pred] + row[l.pred].duration + l.lag <= es[t]
        BY <1>8, <1>11 DEF Into
      <3> QED
        BY <2>2, <2>3, <3>1
    <2>5. p[t].es = 0 \/ \E l \in Into(ls, t) : p[t].es = p[l.pred].ef + l.lag
      BY <1>8, <2>2, <2>3
    <2>6. \A l \in OutOf(ls, t) : p[l.succ].ls - l.lag = lf[l.succ] - row[l.succ].duration - l.lag
      BY <1>7, <1>8, <1>10, <1>11 DEF OutOf
    <2>7. \A l \in OutOf(ls, t) : p[t].lf <= p[l.succ].ls - l.lag
      BY <1>10, <2>3, <2>6
    <2>8. OutOf(ls, t) # {} => \E l \in OutOf(ls, t) : p[t].lf = p[l.succ].ls - l.lag
      BY <1>10, <2>3, <2>6
    <2>9. OutOf(ls, t) = {} => p[t].lf = End(p)
      <3>1. {p[u].ef : u \in DOMAIN p} = {ef[u] : u \in ts}
        BY <1>7
      <3> QED
        BY <1>4, <1>10, <2>3, <3>1 DEF End
    <2> QED
      BY <2>1, <2>4, <2>5, <2>7, <2>8, <2>9
  <1>14. DOMAIN p = ts
    BY <1>7
  <1>15. Fits(p, ls)
    BY <1>13, <1>14 DEF Fits
  <1>16. \A t \in ts : /\ p[t].duration = row[t].duration
                       /\ DOMAIN p[t] = {"duration", "es", "ef", "ls", "lf", "critical"}
    BY <1>7
  <1> QED
    BY <1>1, <1>6, <1>14, <1>15, <1>16

-----------------------------------------------------------------------------
(* The schedule: calls that run alone *)

TaskColumns == {"duration", "es", "ef", "ls", "lf", "critical"}
IsTask(r)   == r = [c \in TaskColumns |-> r[c]] /\ r.duration \in Nat

TaskRowsOK(row, ls) ==
  /\ row = [t \in DOMAIN row |-> row[t]]
  /\ \A t \in DOMAIN row : IsTask(row[t])
  /\ Sane(row, ls)

\* What a handler that was never disturbed knows at each of its awaits.
TaskKnows(c, row, ls) ==
  /\ "pc" \in DOMAIN c
  /\ c.pc \in {"save task", "update task"} => c.id \in DOMAIN row /\ IsTask(c.e)
  /\ c.pc = "update task" => c.dirty = Dirty(c.e, row[c.id])
  /\ c.pc \in {"delete incoming", "delete row"} =>
       "id" \in DOMAIN c /\ c.id \in DOMAIN row /\ OutOf(ls, c.id) = {}
  /\ c.pc = "delete row" => Into(ls, c.id) = {}
  /\ c.pc \in {"read links", "check cycle", "insert link"} =>
       c.new.pred \in DOMAIN row /\ c.new.succ \in DOMAIN row /\ c.new.lag \in Int
  /\ c.pc = "check cycle" => c.seen = ls
  /\ c.pc = "insert link" => ~HasCycle(DOMAIN row, ls \cup {c.new})
  /\ c.pc = "plan" => c.rows = row
  /\ c.pc \in {"select rows", "write rows"} => c.plan = Planned(row, ls)
  /\ c.pc = "write rows" => c.dirty = [t \in DOMAIN row |-> Dirty(c.plan[t], row[t])]

\* The awaits at which the stored schedule is still, or again, that of the links.
Settled == {"idle", "read links", "check cycle", "insert link"}

ScheduleUndisturbed ==
  /\ TaskRowsOK(task, link)
  /\ \A h \in Handlers : TaskKnows(call[h], task, link)
  /\ (\A h \in Handlers : call[h].pc \in Settled) => Fits(task, link)

ScheduleInv == HandlersOK /\ (Calm => ScheduleUndisturbed)

LEMMA IdleKnows == \A row, ls : TaskKnows(Idle, row, ls)
  BY DEF TaskKnows, Idle

\* A handler that goes on: what it has to show.
LEMMA ScheduleMoves ==
  ASSUME ScheduleInv, NEW h \in Handlers, NEW c, Moves(h, c),
         Calm' /\ ScheduleUndisturbed =>
           /\ TaskRowsOK(task', link') /\ TaskKnows(c, task', link')
           /\ c.pc \in Settled => Fits(task', link')
  PROVE  ScheduleInv'
  <1>1. /\ HandlersOK'
        /\ call'[h] = c /\ \A g \in Handlers \ {h} : call'[g] = call[g]
        /\ Calm' => Calm /\ \A g \in Handlers \ {h} : call[g].pc = "idle"
    BY Moved DEF ScheduleInv
  <1>2. ASSUME Calm' PROVE ScheduleUndisturbed'
    <2>1. ScheduleUndisturbed /\ \A g \in Handlers \ {h} : call'[g].pc = "idle"
      BY <1>1, <1>2 DEF ScheduleInv
    <2>2. TaskRowsOK(task', link') /\ TaskKnows(c, task', link')
          /\ (c.pc \in Settled => Fits(task', link'))
      BY <1>2, <2>1
    <2>3. \A g \in Handlers : TaskKnows(call'[g], task', link')
      BY <1>1, <2>1, <2>2 DEF TaskKnows, ScheduleUndisturbed
    <2> QED
      BY <1>1, <2>1, <2>2, <2>3 DEF ScheduleUndisturbed
  <1> QED
    BY <1>1, <1>2 DEF ScheduleInv

\* A call that begins undisturbed finds a schedule that fits; one that was settled
\* still has it.
LEMMA BeginsFit ==
  ASSUME ScheduleUndisturbed, NEW h \in Handlers, NEW c, Begin(h, c), ScheduleInv, Calm'
  PROVE  Fits(task, link)
  <1>1. Quiet
    BY DEF Begin, Disturb, Calm, ScheduleInv, HandlersOK
  <1> QED
    BY <1>1 DEF Quiet, At, Settled, ScheduleUndisturbed

LEMMA SettledFits ==
  ASSUME ScheduleUndisturbed, ScheduleInv, NEW h \in Handlers, call[h].pc \in Settled,
         NEW c, Moves(h, c), Calm'
  PROVE  Fits(task, link)
  <1>1. \A g \in Handlers \ {h} : call[g].pc = "idle"
    BY Moved DEF ScheduleInv
  <1> QED
    BY <1>1 DEF Settled, ScheduleUndisturbed

LEMMA CrashDisturbs ==
  ASSUME ScheduleInv, NEW h \in Handlers, Crash(h)
  PROVE  ~Calm'
  BY DEF Crash, Disturb, Quiet, Calm, ScheduleInv, HandlersOK

\* Fewer links, or fewer tasks, close no cycle.
LEMMA FewerCycles ==
  ASSUME NEW ts, NEW ls, ~HasCycle(ts, ls), NEW us, us \subseteq ts, NEW ms, ms \subseteq ls
  PROVE  ~HasCycle(us, ms)
  BY DEF HasCycle, OutOf

LEMMA FewerLinks ==
  ASSUME NEW row, NEW ls, TaskRowsOK(row, ls), NEW ms, ms \subseteq ls
  PROVE  TaskRowsOK(row, ms)
  <1>1. IsFiniteSet(ms)
    BY FS_Subset DEF TaskRowsOK, Sane
  <1>2. ~HasCycle(DOMAIN row, ms)
    BY FewerCycles DEF TaskRowsOK, Sane
  <1> QED
    BY <1>1, <1>2 DEF TaskRowsOK, Sane, Joined

LEMMA DirtyNoInsertion ==
  ASSUME NEW e, NEW r, IsTask(r)
  PROVE  Dirty(e, r) # Insertion
  BY DEF Dirty, Insertion, IsTask, TaskColumns

\* What save() leaves when every row it saves is there.
LEMMA SavedRows ==
  ASSUME NEW row, NEW ls, TaskRowsOK(row, ls), NEW D \in SUBSET DOMAIN row,
         NEW e, DOMAIN e = D, \A t \in D : IsTask(e[t]),
         NEW found, DOMAIN found = D, \A t \in D : found[t] = Dirty(e[t], row[t])
  PROVE  /\ Saved(row, e, found) = [t \in DOMAIN row |-> IF t \in D THEN e[t] ELSE row[t]]
         /\ TaskRowsOK(Saved(row, e, found), ls)
  <1>1. {t \in DOMAIN found : found[t] = Insertion} = {}
    BY DirtyNoInsertion DEF TaskRowsOK
  <1>2. ASSUME NEW t \in D PROVE Merge(row[t], e[t], found[t]) = e[t]
    <2>1. IsTask(row[t]) /\ IsTask(e[t])
      BY DEF TaskRowsOK
    <2>2. DOMAIN e[t] = DOMAIN row[t] /\ e[t] = [c \in DOMAIN e[t] |-> e[t][c]]
      BY <2>1 DEF IsTask
    <2> QED
      BY <2>2, SavedAsIs
  <1>3. PICK s : s = Saved(row, e, found)
    OBVIOUS
  <1>4. s = [t \in DOMAIN row |-> IF t \in D THEN e[t] ELSE row[t]]
    <2>1. \A t \in D : (IF t \in DOMAIN found THEN Merge(row[t], e[t], found[t]) ELSE row[t]) = e[t]
      BY <1>2
    <2> QED
      BY <1>1, <1>3, <2>1 DEF Saved
  <1>5. DOMAIN s = DOMAIN row /\ s = [t \in DOMAIN s |-> s[t]] /\ \A t \in DOMAIN s : IsTask(s[t])
    BY <1>4 DEF TaskRowsOK
  <1>6. Sane(s, ls)
    BY <1>5 DEF TaskRowsOK, Sane, IsTask
  <1> QED
    BY <1>3, <1>4, <1>5, <1>6 DEF TaskRowsOK

-----------------------------------------------------------------------------
(* The schedule: the steps *)

LEMMA ScheduleInitOK == ServerInit /\ ScheduleInit => ScheduleInv
  <1> SUFFICES ASSUME ServerInit, ScheduleInit PROVE ScheduleInv
    OBVIOUS
  <1>1. HandlersOK
    BY DEF ServerInit, HandlersOK, Idle, Alone, Running, At
  <1>2. task = <<>> /\ link = {} /\ DOMAIN task = {}
    BY DEF ScheduleInit
  <1>3. IsFiniteSet(DOMAIN task) /\ IsFiniteSet(link)
    BY <1>2, FS_EmptySet
  <1>4. TaskRowsOK(task, link)
    <2>1. ~HasCycle(DOMAIN task, link)
      BY <1>2 DEF HasCycle
    <2>2. task = [t \in DOMAIN task |-> task[t]]
      BY <1>2
    <2> QED
      BY <1>2, <1>3, <2>1, <2>2 DEF TaskRowsOK, Sane, Joined
  <1>5. \A h \in Handlers : TaskKnows(call[h], task, link)
    BY IdleKnows DEF ServerInit
  <1>6. Fits(task, link)
    BY <1>2 DEF Fits
  <1> QED
    BY <1>1, <1>4, <1>5, <1>6 DEF ScheduleInv, ScheduleUndisturbed

LEMMA TaskCreated ==
  ASSUME ScheduleInv, NEW h \in Handlers, CreateTask(h)
  PROVE  ScheduleInv'
  <1>1. PICK t \in Tasks \ (DOMAIN task \cup buried), d \in Durations :
          /\ task' = [u \in DOMAIN task \cup {t} |-> IF u = t THEN NewTask(d) ELSE task[u]]
          /\ Begin(h, [pc |-> "read tasks"]) /\ UNCHANGED <<buried, link>>
    BY DEF CreateTask
  <1>2. PICK c : c = [pc |-> "read tasks"]
    OBVIOUS
  <1>3. Moves(h, c)
    BY <1>1, <1>2, BeginMoves
  <1>4. ASSUME ScheduleUndisturbed PROVE TaskRowsOK(task', link')
    <2>1. TaskRowsOK(task, link) /\ link' = link /\ t \notin DOMAIN task
      BY <1>1, <1>4 DEF ScheduleUndisturbed
    <2>2. DOMAIN task' = DOMAIN task \cup {t} /\ IsFiniteSet(DOMAIN task')
      <3>1. DOMAIN task' = DOMAIN task \cup {t}
        BY <1>1
      <3>2. IsFiniteSet(DOMAIN task \cup {t})
        BY <2>1, FS_AddElement DEF TaskRowsOK, Sane
      <3> QED
        BY <3>1, <3>2
    <2>3. IsTask(NewTask(d))
      BY ScheduleAssumption DEF IsTask, NewTask, TaskColumns
    <2>4. \A u \in DOMAIN task' : IsTask(task'[u])
      BY <1>1, <2>1, <2>2, <2>3 DEF TaskRowsOK
    <2>5. ~HasCycle(DOMAIN task', link')
      <3> SUFFICES ASSUME NEW C \in SUBSET DOMAIN task', C # {},
                          \A u \in C : \E l \in OutOf(link, u) : l.succ \in C
                   PROVE  FALSE
        BY <2>1 DEF HasCycle
      <3>1. OutOf(link, t) = {}
        BY <2>1 DEF TaskRowsOK, Sane, Joined, OutOf
      <3>2. C \in SUBSET DOMAIN task
        BY <2>2, <3>1
      <3> QED
        BY <2>1, <3>2 DEF TaskRowsOK, Sane, HasCycle
    <2>6. Sane(task', link')
      BY <2>1, <2>2, <2>4, <2>5 DEF TaskRowsOK, Sane, Joined, IsTask
    <2>7. task' = [u \in DOMAIN task' |-> task'[u]]
      BY <1>1
    <2> QED
      BY <2>4, <2>6, <2>7 DEF TaskRowsOK
  <1>5. TaskKnows(c, task', link') /\ c.pc \notin Settled
    BY <1>2 DEF TaskKnows, Settled
  <1> QED
    BY <1>3, <1>4, <1>5, ScheduleMoves

LEMMA TaskUpdated ==
  ASSUME ScheduleInv, NEW h \in Handlers, UpdateTask(h)
  PROVE  ScheduleInv'
  <1>1. PICK t \in DOMAIN task, d \in Durations :
          /\ Begin(h, [pc |-> "save task", id |-> t, e |-> [task[t] EXCEPT !.duration = d]])
          /\ UNCHANGED scheduleVars
    BY DEF UpdateTask
  <1>2. PICK c : c = [pc |-> "save task", id |-> t, e |-> [task[t] EXCEPT !.duration = d]]
    OBVIOUS
  <1>3. Moves(h, c)
    BY <1>1, <1>2, BeginMoves
  <1>4. ASSUME ScheduleUndisturbed PROVE TaskRowsOK(task', link') /\ TaskKnows(c, task', link')
    <2>1. TaskRowsOK(task, link) /\ link' = link /\ task' = task
      BY <1>1, <1>4 DEF ScheduleUndisturbed, scheduleVars
    <2>2. IsTask(task[t])
      BY <2>1 DEF TaskRowsOK
    <2>3. IsTask([task[t] EXCEPT !.duration = d])
      BY <2>2, ScheduleAssumption DEF IsTask, TaskColumns
    <2> QED
      BY <1>2, <2>1, <2>3 DEF TaskKnows
  <1>5. c.pc \notin Settled
    BY <1>2 DEF Settled
  <1> QED
    BY <1>3, <1>4, <1>5, ScheduleMoves

LEMMA TaskSelected ==
  ASSUME ScheduleInv, NEW h \in Handlers, SelectTask(h)
  PROVE  ScheduleInv'
  <1>1. PICK c : c = [pc |-> "update task", id |-> call[h].id, e |-> call[h].e,
                      dirty |-> ToWrite(call[h].id, call[h].e)]
    OBVIOUS
  <1>2. Moves(h, c)
    BY <1>1, BecomeMoves DEF SelectTask, Running, At
  <1>3. ASSUME ScheduleUndisturbed PROVE TaskRowsOK(task', link') /\ TaskKnows(c, task', link')
    <2>1. TaskRowsOK(task, link) /\ TaskKnows(call[h], task, link) /\ link' = link /\ task' = task
      BY <1>3 DEF ScheduleUndisturbed, SelectTask, scheduleVars
    <2> QED
      BY <1>1, <2>1 DEF TaskKnows, SelectTask, At, ToWrite
  <1>4. c.pc \notin Settled
    BY <1>1 DEF Settled
  <1> QED
    BY <1>2, <1>3, <1>4, ScheduleMoves

LEMMA TaskWritten ==
  ASSUME ScheduleInv, NEW h \in Handlers, WriteTask(h)
  PROVE  ScheduleInv'
  <1>1. PICK c : c = [call[h] EXCEPT !.pc = "read tasks"]
    OBVIOUS
  <1>2. Moves(h, c)
    BY <1>1, BecomeMoves DEF WriteTask, Goto, Running, At
  <1>3. ASSUME ScheduleUndisturbed
        PROVE  TaskRowsOK(task', link') /\ TaskKnows(c, task', link') /\ c.pc \notin Settled
    <2>1. TaskRowsOK(task, link) /\ TaskKnows(call[h], task, link) /\ link' = link
      BY <1>3 DEF ScheduleUndisturbed, WriteTask
    <2>2. PICK t, e, dirty : t = call[h].id /\ e = call[h].e /\ dirty = call[h].dirty
      OBVIOUS
    <2>3. t \in DOMAIN task /\ IsTask(e) /\ dirty = Dirty(e, task[t])
      BY <2>1, <2>2 DEF WriteTask, At, TaskKnows
    <2>4. task' = Saved(task, [u \in {t} |-> e], [u \in {t} |-> dirty])
      BY <2>2 DEF WriteTask
    <2>5. PICK D, es, found : D = {t} /\ es = [u \in {t} |-> e] /\ found = [u \in {t} |-> dirty]
      OBVIOUS
    <2>6. TaskRowsOK(Saved(task, es, found), link)
      <3>1. /\ D \in SUBSET DOMAIN task /\ DOMAIN es = D /\ DOMAIN found = D
            /\ \A u \in D : IsTask(es[u]) /\ found[u] = Dirty(es[u], task[u])
        BY <2>3, <2>5
      <3> QED
        BY <2>1, <3>1, SavedRows
    <2>7. TaskKnows(c, task', link') /\ c.pc = "read tasks"
      BY <1>1, <2>1 DEF TaskKnows
    <2> QED
      BY <2>1, <2>4, <2>5, <2>6, <2>7 DEF Settled
  <1> QED
    BY <1>2, <1>3, ScheduleMoves

LEMMA DeletionBegun ==
  ASSUME ScheduleInv, NEW h \in Handlers, DeleteTask(h)
  PROVE  ScheduleInv'
  <1>1. PICK t \in DOMAIN task :
          /\ link' = link \ OutOf(link, t)
          /\ Begin(h, [pc |-> "delete incoming", id |-> t])
          /\ UNCHANGED <<task, buried>>
    BY DEF DeleteTask
  <1>2. PICK c : c = [pc |-> "delete incoming", id |-> t]
    OBVIOUS
  <1>3. Moves(h, c)
    BY <1>1, <1>2, BeginMoves
  <1>4. ASSUME ScheduleUndisturbed PROVE TaskRowsOK(task', link')
    <2>1. TaskRowsOK(task, link) /\ task' = task
      BY <1>1, <1>4 DEF ScheduleUndisturbed
    <2> QED
      BY <1>1, <2>1, FewerLinks
  <1>5. TaskKnows(c, task', link') /\ c.pc \notin Settled
    BY <1>1, <1>2 DEF TaskKnows, Settled, OutOf
  <1> QED
    BY <1>3, <1>4, <1>5, ScheduleMoves

LEMMA IncomingDeleted ==
  ASSUME ScheduleInv, NEW h \in Handlers, DeleteIncoming(h)
  PROVE  ScheduleInv'
  <1>1. PICK c : c = [call[h] EXCEPT !.pc = "delete row"]
    OBVIOUS
  <1>2. Moves(h, c)
    BY <1>1, BecomeMoves DEF DeleteIncoming, Goto, Running, At
  <1>3. ASSUME ScheduleUndisturbed
        PROVE  TaskRowsOK(task', link') /\ TaskKnows(c, task', link') /\ c.pc \notin Settled
    <2>1. TaskRowsOK(task, link) /\ TaskKnows(call[h], task, link) /\ task' = task
          /\ link' = link \ Into(link, call[h].id)
      BY <1>3 DEF ScheduleUndisturbed, DeleteIncoming
    <2>2. TaskRowsOK(task', link')
      BY <2>1, FewerLinks
    <2>3. "id" \in DOMAIN call[h] /\ "pc" \in DOMAIN call[h]
          /\ call[h].id \in DOMAIN task /\ OutOf(link, call[h].id) = {}
      BY <2>1 DEF TaskKnows, DeleteIncoming, At
    <2>4. c.pc = "delete row" /\ c.id = call[h].id /\ "id" \in DOMAIN c /\ "pc" \in DOMAIN c
      BY <1>1, <2>3
    <2>5. Into(link', c.id) = {} /\ OutOf(link', c.id) = {}
      BY <2>1, <2>3, <2>4 DEF Into, OutOf
    <2> QED
      BY <2>1, <2>2, <2>3, <2>4, <2>5 DEF TaskKnows, Settled
  <1> QED
    BY <1>2, <1>3, ScheduleMoves

LEMMA RowDeleted ==
  ASSUME ScheduleInv, NEW h \in Handlers, DeleteRow(h)
  PROVE  ScheduleInv'
  <1>1. PICK c : c = [call[h] EXCEPT !.pc = "read tasks"]
    OBVIOUS
  <1>2. Moves(h, c)
    BY <1>1, BecomeMoves DEF DeleteRow, Goto, Running, At
  <1>3. ASSUME ScheduleUndisturbed
        PROVE  TaskRowsOK(task', link') /\ TaskKnows(c, task', link') /\ c.pc \notin Settled
    <2>1. PICK t : t = call[h].id
      OBVIOUS
    <2>2. /\ TaskRowsOK(task, link) /\ TaskKnows(call[h], task, link)
          /\ task' = [u \in DOMAIN task \ {t} |-> task[u]] /\ link' = link
      BY <1>3, <2>1 DEF ScheduleUndisturbed, DeleteRow
    <2>3. OutOf(link, t) = {} /\ Into(link, t) = {}
      BY <2>1, <2>2 DEF TaskKnows, DeleteRow, At
    <2>4. Joined(DOMAIN task', link')
      BY <2>2, <2>3 DEF TaskRowsOK, Sane, Joined, Into, OutOf
    <2>5. ~HasCycle(DOMAIN task', link')
      <3>1. PICK us : us = DOMAIN task'
        OBVIOUS
      <3>2. us \subseteq DOMAIN task
        BY <2>2, <3>1
      <3> QED
        BY <2>2, <3>1, <3>2, FewerCycles DEF TaskRowsOK, Sane
    <2>6. IsFiniteSet(DOMAIN task')
      <3>1. DOMAIN task' \subseteq DOMAIN task
        BY <2>2
      <3> QED
        BY <2>2, <3>1, FS_Subset DEF TaskRowsOK, Sane
    <2>7. TaskRowsOK(task', link')
      BY <2>2, <2>4, <2>5, <2>6 DEF TaskRowsOK, Sane
    <2>8. TaskKnows(c, task', link') /\ c.pc = "read tasks"
      BY <1>1, <2>2 DEF TaskKnows
    <2> QED
      BY <2>7, <2>8 DEF Settled
  <1> QED
    BY <1>2, <1>3, ScheduleMoves

LEMMA LinkAsked ==
  ASSUME ScheduleInv, NEW h \in Handlers, CreateLink(h)
  PROVE  ScheduleInv'
  <1>1. PICK l \in Links :
          /\ {l.pred, l.succ} \subseteq DOMAIN task
          /\ Begin(h, [pc |-> "read links", new |-> l])
          /\ UNCHANGED scheduleVars
    BY DEF CreateLink
  <1>2. PICK c : c = [pc |-> "read links", new |-> l]
    OBVIOUS
  <1>3. Moves(h, c)
    BY <1>1, <1>2, BeginMoves
  <1>4. ASSUME Calm', ScheduleUndisturbed
        PROVE  TaskRowsOK(task', link') /\ TaskKnows(c, task', link') /\ Fits(task', link')
    <2>1. Fits(task, link)
      BY <1>1, <1>2, <1>4, BeginsFit
    <2>2. l.lag \in Int
      BY ScheduleAssumption DEF Links
    <2> QED
      BY <1>1, <1>2, <1>4, <2>1, <2>2 DEF ScheduleUndisturbed, scheduleVars, TaskKnows
  <1> QED
    BY <1>3, <1>4, ScheduleMoves

LEMMA LinksRead ==
  ASSUME ScheduleInv, NEW h \in Handlers, ReadLinks(h)
  PROVE  ScheduleInv'
  <1>1. PICK c : c = [pc |-> "check cycle", new |-> call[h].new, seen |-> link]
    OBVIOUS
  <1>2. Moves(h, c)
    BY <1>1, BecomeMoves DEF ReadLinks, Running, At
  <1>3. ASSUME Calm', ScheduleUndisturbed
        PROVE  TaskRowsOK(task', link') /\ TaskKnows(c, task', link') /\ Fits(task', link')
    <2>1. Fits(task, link)
      BY <1>2, <1>3, SettledFits DEF ReadLinks, At, Settled
    <2>2. TaskKnows(call[h], task, link)
      BY <1>3 DEF ScheduleUndisturbed
    <2> QED
      BY <1>1, <1>3, <2>1, <2>2 DEF ScheduleUndisturbed, ReadLinks, At, scheduleVars, TaskKnows
  <1> QED
    BY <1>2, <1>3, ScheduleMoves

LEMMA CycleChecked ==
  ASSUME ScheduleInv, NEW h \in Handlers, CheckCycle(h)
  PROVE  ScheduleInv'
  <1>1. PICK c : c = IF HasCycle(DOMAIN task, call[h].seen \cup {call[h].new}) THEN Idle
                     ELSE [pc |-> "insert link", new |-> call[h].new]
    OBVIOUS
  <1>2. Moves(h, c)
    BY <1>1, BecomeMoves DEF CheckCycle, Return, Running, At
  <1>3. ASSUME Calm', ScheduleUndisturbed
        PROVE  TaskRowsOK(task', link') /\ TaskKnows(c, task', link') /\ Fits(task', link')
    <2>1. Fits(task, link)
      BY <1>2, <1>3, SettledFits DEF CheckCycle, At, Settled
    <2>2. TaskKnows(call[h], task, link) /\ TaskRowsOK(task, link) /\ task' = task /\ link' = link
      BY <1>3 DEF ScheduleUndisturbed, CheckCycle, scheduleVars
    <2>3. CASE HasCycle(DOMAIN task, call[h].seen \cup {call[h].new})
      BY <1>1, <2>1, <2>2, <2>3, IdleKnows
    <2>4. CASE ~HasCycle(DOMAIN task, call[h].seen \cup {call[h].new})
      BY <1>1, <2>1, <2>2, <2>4 DEF CheckCycle, At, TaskKnows
    <2> QED
      BY <2>3, <2>4
  <1> QED
    BY <1>2, <1>3, ScheduleMoves

LEMMA LinkInserted ==
  ASSUME ScheduleInv, NEW h \in Handlers, InsertLink(h)
  PROVE  ScheduleInv'
  <1>1. PICK l : l = call[h].new
    OBVIOUS
  <1>2. CASE link' = link /\ Return(h)
    <2>1. PICK c : c = Idle
      OBVIOUS
    <2>2. Moves(h, c)
      BY <1>2, <2>1, BecomeMoves DEF InsertLink, Return, Running, At
    <2>3. ASSUME Calm', ScheduleUndisturbed
          PROVE  TaskRowsOK(task', link') /\ TaskKnows(c, task', link') /\ Fits(task', link')
      <3>1. Fits(task, link)
        BY <2>2, <2>3, SettledFits DEF InsertLink, At, Settled
      <3> QED
        BY <1>2, <2>1, <2>3, <3>1, IdleKnows DEF ScheduleUndisturbed, InsertLink
    <2> QED
      BY <2>2, <2>3, ScheduleMoves
  <1>3. CASE link' = link \cup {l} /\ Goto(h, "read tasks")
    <2>1. PICK c : c = [call[h] EXCEPT !.pc = "read tasks"]
      OBVIOUS
    <2>2. Moves(h, c)
      BY <1>3, <2>1, BecomeMoves DEF InsertLink, Goto, Running, At
    <2>3. ASSUME ScheduleUndisturbed
          PROVE  TaskRowsOK(task', link') /\ TaskKnows(c, task', link') /\ c.pc \notin Settled
      <3>1. TaskKnows(call[h], task, link) /\ TaskRowsOK(task, link) /\ task' = task
        BY <2>3 DEF ScheduleUndisturbed, InsertLink
      <3>2. /\ l.pred \in DOMAIN task /\ l.succ \in DOMAIN task /\ l.lag \in Int
            /\ ~HasCycle(DOMAIN task, link \cup {l})
        BY <1>1, <3>1 DEF TaskKnows, InsertLink, At
      <3>3. IsFiniteSet(link \cup {l})
        BY <3>1, FS_AddElement DEF TaskRowsOK, Sane
      <3>4. TaskRowsOK(task', link')
        BY <1>3, <3>1, <3>2, <3>3 DEF TaskRowsOK, Sane, Joined
      <3>5. TaskKnows(c, task', link') /\ c.pc = "read tasks"
        BY <2>1, <3>1 DEF TaskKnows
      <3> QED
        BY <3>4, <3>5 DEF Settled
    <2> QED
      BY <2>2, <2>3, ScheduleMoves
  <1> QED
    BY <1>1, <1>2, <1>3 DEF InsertLink

LEMMA LinkDeleted ==
  ASSUME ScheduleInv, NEW h \in Handlers, DeleteLink(h)
  PROVE  ScheduleInv'
  <1>1. PICK l \in link : /\ link' = link \ {l} /\ Begin(h, [pc |-> "read tasks"])
                          /\ UNCHANGED <<task, buried>>
    BY DEF DeleteLink
  <1>2. PICK c : c = [pc |-> "read tasks"]
    OBVIOUS
  <1>3. Moves(h, c)
    BY <1>1, <1>2, BeginMoves
  <1>4. ASSUME ScheduleUndisturbed PROVE TaskRowsOK(task', link')
    <2>1. TaskRowsOK(task, link) /\ task' = task
      BY <1>1, <1>4 DEF ScheduleUndisturbed
    <2> QED
      BY <1>1, <2>1, FewerLinks
  <1>5. TaskKnows(c, task', link') /\ c.pc \notin Settled
    BY <1>2 DEF TaskKnows, Settled
  <1> QED
    BY <1>3, <1>4, <1>5, ScheduleMoves

LEMMA TasksRead ==
  ASSUME ScheduleInv, NEW h \in Handlers, ReadTasks(h)
  PROVE  ScheduleInv'
  <1>1. PICK c : c = [pc |-> "plan", rows |-> task]
    OBVIOUS
  <1>2. Moves(h, c)
    BY <1>1, BecomeMoves DEF ReadTasks, Running, At
  <1>3. ASSUME ScheduleUndisturbed PROVE TaskRowsOK(task', link') /\ TaskKnows(c, task', link')
    BY <1>1, <1>3 DEF ScheduleUndisturbed, ReadTasks, scheduleVars, TaskKnows
  <1>4. c.pc \notin Settled
    BY <1>1 DEF Settled
  <1> QED
    BY <1>2, <1>3, <1>4, ScheduleMoves

\* Undisturbed, the sort emits every task, so that only a project without tasks is
\* left as it is.
LEMMA SchedulePlanned ==
  ASSUME ScheduleInv, NEW h \in Handlers, Plan(h)
  PROVE  ScheduleInv'
  <1>1. PICK row : row = call[h].rows
    OBVIOUS
  <1>2. PICK c : c = IF row # <<>> /\ Sortable(DOMAIN row, link)
                       THEN [pc |-> "select rows", plan |-> Planned(row, link)] ELSE Idle
    OBVIOUS
  <1>3. Moves(h, c)
    BY <1>1, <1>2, BecomeMoves DEF Plan, Return, Running, At
  <1>4. ASSUME ScheduleUndisturbed
        PROVE  /\ TaskRowsOK(task', link') /\ TaskKnows(c, task', link')
               /\ c.pc \in Settled => Fits(task', link')
    <2>1. /\ TaskKnows(call[h], task, link) /\ TaskRowsOK(task, link)
          /\ task' = task /\ link' = link
      BY <1>4 DEF ScheduleUndisturbed, Plan, scheduleVars
    <2>2. row = task
      BY <1>1, <2>1 DEF TaskKnows, Plan, At
    <2>3. Sortable(DOMAIN row, link)
      BY <2>1, <2>2, SortsAll DEF TaskRowsOK, Sane
    <2>4. CASE row = <<>>
      <3>1. c = Idle
        BY <1>2, <2>4
      <3>2. Fits(task', link')
        BY <2>1, <2>2, <2>4 DEF Fits
      <3> QED
        BY <2>1, <3>1, <3>2, IdleKnows
    <2>5. CASE row # <<>>
      <3>1. c = [pc |-> "select rows", plan |-> Planned(task, link)]
        BY <1>2, <2>2, <2>3, <2>5
      <3> QED
        BY <2>1, <3>1 DEF TaskKnows, Settled
    <2> QED
      BY <2>4, <2>5
  <1> QED
    BY <1>3, <1>4, ScheduleMoves

LEMMA RowsSelected ==
  ASSUME ScheduleInv, NEW h \in Handlers, SelectRows(h)
  PROVE  ScheduleInv'
  <1>1. PICK p : p = call[h].plan
    OBVIOUS
  <1>2. PICK c : c = [pc |-> "write rows", plan |-> p,
                      dirty |-> [t \in DOMAIN p |-> ToWrite(t, p[t])]]
    OBVIOUS
  <1>3. Moves(h, c)
    BY <1>1, <1>2, BecomeMoves DEF SelectRows, Running, At
  <1>4. ASSUME ScheduleUndisturbed PROVE TaskRowsOK(task', link') /\ TaskKnows(c, task', link')
    <2>1. /\ TaskKnows(call[h], task, link) /\ TaskRowsOK(task, link)
          /\ task' = task /\ link' = link
      BY <1>4 DEF ScheduleUndisturbed, SelectRows, scheduleVars
    <2>2. p = Planned(task, link)
      BY <1>1, <2>1 DEF TaskKnows, SelectRows, At
    <2>3. DOMAIN p = DOMAIN task
      BY <2>1, <2>2, PlannedFits DEF TaskRowsOK
    <2>4. c.dirty = [t \in DOMAIN task |-> Dirty(c.plan[t], task[t])]
      BY <1>2, <2>3 DEF ToWrite
    <2> QED
      BY <1>2, <2>1, <2>2, <2>4 DEF TaskKnows
  <1>5. c.pc \notin Settled
    BY <1>2 DEF Settled
  <1> QED
    BY <1>3, <1>4, <1>5, ScheduleMoves

LEMMA PlannedTasks ==
  ASSUME NEW row, NEW ls, TaskRowsOK(row, ls)
  PROVE  /\ Planned(row, ls) = [t \in DOMAIN row |-> Planned(row, ls)[t]]
         /\ \A t \in DOMAIN row : IsTask(Planned(row, ls)[t])
  <1>1. \A t \in DOMAIN row : row[t].duration \in Nat
    BY DEF TaskRowsOK, Sane
  <1>2. PICK es, ef, lf :
          Planned(row, ls) = [t \in DOMAIN row |->
            [duration |-> row[t].duration, es |-> es[t], ef |-> ef[t],
             ls |-> lf[t] - row[t].duration, lf |-> lf[t],
             critical |-> lf[t] - row[t].duration = es[t] /\ row[t].duration > 0]]
    BY DEF Planned
  <1>3. PICK p : p = Planned(row, ls)
    OBVIOUS
  <1>4. ASSUME NEW t \in DOMAIN row PROVE IsTask(p[t])
    BY <1>1, <1>2, <1>3 DEF IsTask, TaskColumns
  <1> QED
    BY <1>2, <1>3, <1>4

LEMMA RowsWritten ==
  ASSUME ScheduleInv, NEW h \in Handlers, WriteRows(h)
  PROVE  ScheduleInv'
  <1>1. PICK c : c = Idle
    OBVIOUS
  <1>2. Moves(h, c)
    BY <1>1, BecomeMoves DEF WriteRows, Return, Running, At
  <1>3. ASSUME ScheduleUndisturbed
        PROVE  TaskRowsOK(task', link') /\ TaskKnows(c, task', link') /\ Fits(task', link')
    <2>1. PICK p, dirty : p = call[h].plan /\ dirty = call[h].dirty
      OBVIOUS
    <2>2. /\ TaskKnows(call[h], task, link) /\ TaskRowsOK(task, link)
          /\ task' = Saved(task, p, dirty) /\ link' = link
      BY <1>3, <2>1 DEF ScheduleUndisturbed, WriteRows
    <2>3. p = Planned(task, link) /\ dirty = [t \in DOMAIN task |-> Dirty(p[t], task[t])]
      BY <2>1, <2>2 DEF TaskKnows, WriteRows, At
    <2>4. p = [t \in DOMAIN task |-> p[t]] /\ \A t \in DOMAIN task : IsTask(p[t])
      BY <2>2, <2>3, PlannedTasks
    <2>5. PICK D : D = DOMAIN task
      OBVIOUS
    <2>6. /\ task' = [t \in DOMAIN task |-> IF t \in D THEN p[t] ELSE task[t]]
          /\ TaskRowsOK(task', link)
      <3>1. /\ D \in SUBSET DOMAIN task /\ DOMAIN p = D /\ DOMAIN dirty = D
            /\ \A t \in D : IsTask(p[t]) /\ dirty[t] = Dirty(p[t], task[t])
        BY <2>3, <2>4, <2>5
      <3> QED
        BY <2>2, <3>1, SavedRows
    <2>7. task' = p
      BY <2>4, <2>5, <2>6
    <2>8. Fits(p, link)
      BY <2>2, <2>3, PlannedFits DEF TaskRowsOK
    <2> QED
      BY <1>1, <2>2, <2>6, <2>7, <2>8, IdleKnows
  <1> QED
    BY <1>2, <1>3, ScheduleMoves

LEMMA ScheduleNextKeeps ==
  ScheduleInv /\ [ScheduleNext]_<<serverVars, scheduleVars>> => ScheduleInv'
  <1> SUFFICES ASSUME ScheduleInv, [ScheduleNext]_<<serverVars, scheduleVars>>
               PROVE  ScheduleInv'
    OBVIOUS
  <1>1. ASSUME NEW h \in Handlers, ScheduleStep(h) PROVE ScheduleInv'
    <2>1. CASE Crash(h) /\ UNCHANGED scheduleVars
      <3>1. PICK c : c = Idle
        OBVIOUS
      <3>2. Moves(h, c) /\ ~Calm'
        BY <2>1, <3>1, CrashMoves, CrashDisturbs
      <3> QED
        BY <3>2, ScheduleMoves
    <2> QED
      BY <1>1, <2>1, TaskCreated, TaskUpdated, TaskSelected, TaskWritten, DeletionBegun,
         IncomingDeleted, RowDeleted, LinkAsked, LinksRead, CycleChecked, LinkInserted,
         LinkDeleted, TasksRead, SchedulePlanned, RowsSelected, RowsWritten
      DEF ScheduleStep
  <1>2. CASE UNCHANGED <<serverVars, scheduleVars>>
    BY <1>2 DEF serverVars, scheduleVars, ScheduleInv, HandlersOK, Alone, Running, At, Calm,
       ScheduleUndisturbed
  <1> QED
    BY <1>1, <1>2 DEF ScheduleNext

LEMMA ScheduleInvImplies == ScheduleInv => LinksMakeSense /\ ScheduleFits
  <1>1. ASSUME ScheduleInv, Calm PROVE LinksMakeSense
    <2>1. TaskRowsOK(task, link)
      BY <1>1 DEF ScheduleInv, ScheduleUndisturbed
    <2> QED
      BY <2>1 DEF LinksMakeSense, NoCycleOfLinks, TaskRowsOK, Sane, Joined
  <1>2. ASSUME ScheduleInv, Calm, Quiet PROVE ScheduleFits
    <2>1. Fits(task, link)
      BY <1>2 DEF ScheduleInv, ScheduleUndisturbed, Quiet, At, Settled
    <2> QED
      BY <2>1 DEF ScheduleFits, Fits, ProjectEnd, End
  <1> QED
    BY <1>1, <1>2 DEF LinksMakeSense, ScheduleFits

\* createLink, deleteTask (project-schedule.service.ts): while calls run alone and to
\* their end, no order of them closes a cycle of links, and between two of them no
\* link leads to a task that is gone.
THEOREM NoCycles == ScheduleSpec => []LinksMakeSense
  BY ScheduleInitOK, ScheduleNextKeeps, ScheduleInvImplies, PTL DEF ScheduleSpec

\* recalculate (project-schedule.service.ts) and calculateCPM (cpm.logic.ts): between
\* calls that ran alone the stored schedule is the earliest one the links allow and the
\* latest one the successors, or else the end of the project, allow, and no task has a
\* negative float.
THEOREM EarliestSchedule == ScheduleSpec => []ScheduleFits
  BY ScheduleInitOK, ScheduleNextKeeps, ScheduleInvImplies, PTL DEF ScheduleSpec
=============================================================================
