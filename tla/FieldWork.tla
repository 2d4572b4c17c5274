------------------------------- MODULE FieldWork -------------------------------
(***************************************************************************)
(* A piece of field work: an item of the common feed (work_items) and the   *)
(* row of the service that knows what it is about, its subject: a checklist *)
(* to answer, an inspection of energy meters, an office task with things to *)
(* tick, or an incident (checklists, energy-inspection, office-tasks,       *)
(* incidents .service.ts).  `kind` says which, and never changes.           *)
(*                                                                          *)
(* Every change of a subject ends with WorkItemsService.syncProgress, which *)
(* writes the work item on a connection of its own: before the transaction  *)
(* of the subject commits, or after a save that had none.  Values, photos,  *)
(* comments, due dates, notifications and who the feed gives the item to    *)
(* (reassign) are left out.                                                 *)
(***************************************************************************)
EXTENDS Server

CONSTANTS
  Parts,     \* items of a template or a task, meters of a project
  Requests,  \* ids of requests about an incident
  People     \* users an incident can be given to

ASSUME PartsAssumption == IsFiniteSet(Parts)

VARIABLES
  kind,      \* work_items.work_item_type
  work,      \* the row of work_items
  subject,   \* the row of the subject
  listed,    \* parts there are
  ticked,    \* parts with a result, a reading, or is_done
  request,   \* rows of the reopen and assignee change requests
  writer,    \* the handler whose transaction has locked the subject's rows
  expected   \* history: the parts listed when the subject was created

fieldVars == <<kind, work, subject, listed, ticked, request, writer, expected>>

None     == "none"
Counted  == {"CHECKLIST", "ENERGY_INSPECTION"}

FieldInit ==
  /\ kind \in {"CHECKLIST", "ENERGY_INSPECTION", "OFFICE_TASK", "INCIDENT"}
  /\ work = [status |-> "NEW", pct |-> 0]
  /\ subject = [status |-> "NEW", assigned_to |-> None]
  /\ listed \in IF kind = "INCIDENT" THEN {{}}
                ELSE {p \in SUBSET Parts : kind = "ENERGY_INSPECTION" => p # {}}
  /\ ticked = {} /\ request = <<>> /\ writer = None /\ expected = listed

(***************************************************************************)
(* The domain logic                                                         *)
(***************************************************************************)
Percent(done, total) == (200 * done + total) \div (2 * total)  \* Math.round

\* computeTransition of checklists and of office tasks, and what recordReading
\* does; it is asked about a part, so there is one
Outcome(done, total) ==
  IF done >= total
    THEN [status |-> "COMPLETED", pct |-> 100, completed |-> TRUE]
    ELSE [status |-> IF done > 0 THEN "IN_PROGRESS" ELSE "NEW",
          pct |-> Percent(done, total), completed |-> FALSE]

Synced_Started(o) ==   \* mutant: what is not done has been started
  [pct |-> o.pct, status |-> IF o.completed THEN "COMPLETED" ELSE "IN_PROGRESS"]

\* syncProgress: what the work item becomes
Synced(o) ==
  [pct |-> o.pct,
   status |-> IF o.completed THEN "COMPLETED" ELSE IF o.pct > 0 THEN "IN_PROGRESS" ELSE "NEW"]

\* state-transition.logic.ts
Allowed(status, action) ==
  \/ action = "ASSIGN"  /\ status = "NEW"
  \/ action = "RESOLVE" /\ status = "IN_PROGRESS"
  \/ action = "CLOSE"   /\ status = "RESOLVED"
  \/ action = "REOPEN"  /\ status = "COMPLETED"

(***************************************************************************)
(* What all changes of a subject share: e is the row to save; ticks, the    *)
(* parts as loaded, with the change, and seen, the parts there were; shown, *)
(* what the feed is to show, if anything; tx, whether in a transaction;     *)
(* verdict, the request it decides, if any, and how.                        *)
(***************************************************************************)
SaveOf(e, ticks, seen, shown, tx, verdict) ==
  [pc |-> "select", e |-> e, ticks |-> ticks, seen |-> seen, shown |-> shown, tx |-> tx,
   verdict |-> verdict, dirty |-> {}, add |-> {}, drop |-> {}]

\* save(), its SELECT.  An office task is saved with its items: an item it was
\* not loaded with would lose its task, which the column refuses.
SelectSubject(h) ==
  /\ At(h, "select")
  /\ LET c == call[h] IN
       IF kind = "OFFICE_TASK" /\ ~listed \subseteq c.seen THEN Return(h)
       ELSE Become(h, [c EXCEPT !.pc = "update", !.dirty = Dirty(c.e, subject),
                         !.add = c.ticks \ ticked,
                         !.drop = IF kind = "OFFICE_TASK" THEN ticked \ c.ticks ELSE {}])
  /\ UNCHANGED fieldVars

Written(c) ==
  /\ subject' = Merge(subject, c.e, c.dirty)
  /\ ticked' = (ticked \ c.drop) \cup c.add

\* save(), its UPDATE: alone it commits; in a transaction it locks the rows.
UpdateSubject(h) ==
  /\ At(h, "update")
  /\ LET c     == call[h]
         locks == c.dirty # {} \/ (kind = "OFFICE_TASK" /\ c.add \cup c.drop # {})
     IN  /\ locks => writer = None
         /\ IF c.tx THEN /\ writer' = IF locks THEN h ELSE writer
                         /\ UNCHANGED <<subject, ticked>>
                    ELSE Written(c) /\ UNCHANGED writer
         /\ Goto(h, IF c.shown # <<>> THEN "sync" ELSE "commit")
  /\ UNCHANGED <<kind, work, listed, request, expected>>

SyncProgress(h) ==
  /\ At(h, "sync")
  /\ work' = Synced(call[h].shown[1])
  /\ IF call[h].tx THEN Goto(h, "commit") ELSE Return(h)
  /\ UNCHANGED <<kind, subject, listed, ticked, request, writer, expected>>

Commit(h) ==
  /\ At(h, "commit")
  /\ LET c == call[h] IN
       /\ Written(c)
       /\ request' = IF c.verdict = <<>> THEN request
                     ELSE [request EXCEPT ![c.verdict[1]].status = c.verdict[2]]
  /\ writer' = IF writer = h THEN None ELSE writer
  /\ Return(h)
  /\ UNCHANGED <<kind, work, listed, expected>>

(***************************************************************************)
(* Checklists and inspections: submitItemResult, recordReading              *)
(***************************************************************************)
AddTemplateItem(h) ==
  /\ kind = "CHECKLIST" /\ At(h, "idle") /\ Disturb
  /\ \E p \in Parts \ listed : listed' = listed \cup {p}
  /\ UNCHANGED <<call, kind, work, subject, ticked, request, writer, expected>>

Answer(h) ==
  \E p \in listed :
    /\ kind \in Counted /\ subject.status # "COMPLETED"
    /\ Begin(h, [pc |-> "find", part |-> p, e |-> subject, seen |-> listed])
    /\ UNCHANGED fieldVars

\* the result there is already
FindResult(h) ==
  /\ At(h, "find")
  /\ LET c == call[h] IN
       Become(h, [pc |-> "record", part |-> c.part, e |-> c.e, seen |-> c.seen,
                  found |-> c.part \in ticked])
  /\ UNCHANGED fieldVars

\* a handler whose transaction has inserted p and not committed
Inserting(p) ==
  \E g \in Handlers : call[g].pc \notin {"idle", "find", "record"} /\ p \in call[g].ticks

\* A second row for the part is refused; if none, results are counted.
RecordResult(h) ==
  /\ At(h, "record")
  /\ LET c == call[h] IN
       /\ ~c.found => ~Inserting(c.part)
       /\ IF ~c.found /\ c.part \in ticked THEN Return(h)
          ELSE Become(h, [pc |-> "count", ticks |-> {c.part}, e |-> c.e, seen |-> c.seen])
  /\ UNCHANGED fieldVars

CountResults_Again(h) ==   \* mutant: an answer given again counts twice
  /\ At(h, "count")
  /\ LET c == call[h]
         o == Outcome(Cardinality(ticked) + 1, Cardinality(c.seen))
     IN  Become(h, SaveOf([c.e EXCEPT !.status = o.status], c.ticks, c.seen, <<o>>, TRUE, <<>>))
  /\ UNCHANGED fieldVars

CountResults(h) ==
  /\ At(h, "count")
  /\ LET c == call[h]
         o == Outcome(Cardinality(ticked \cup c.ticks), Cardinality(c.seen))
     IN  Become(h, SaveOf([c.e EXCEPT !.status = o.status], c.ticks, c.seen, <<o>>, TRUE, <<>>))
  /\ UNCHANGED fieldVars

(***************************************************************************)
(* Office tasks                                                             *)
(***************************************************************************)
Unfinished == kind = "OFFICE_TASK" /\ subject.status # "COMPLETED"

\* addItem: the task is found unfinished, then the item is inserted
AddItem(h) ==
  /\ Unfinished
  /\ Begin(h, [pc |-> "insert item"])
  /\ UNCHANGED fieldVars

InsertItem(h) ==
  /\ At(h, "insert item")
  /\ \E p \in Parts \ listed : listed' = listed \cup {p}
  /\ Return(h)
  /\ UNCHANGED <<kind, work, subject, ticked, request, writer, expected>>

ToggleItem(h) ==
  \E p \in listed, is_done \in BOOLEAN :
    /\ Unfinished
    /\ LET ticks == IF is_done THEN ticked \cup {p} ELSE ticked \ {p}
           o     == Outcome(Cardinality(ticks), Cardinality(listed))
       IN  Begin(h, SaveOf([subject EXCEPT !.status = o.status], ticks, listed, <<o>>,
                           TRUE, <<>>))
    /\ UNCHANGED fieldVars

Complete(h) ==
  /\ Unfinished /\ listed \subseteq ticked
  /\ Begin(h, SaveOf([subject EXCEPT !.status = "COMPLETED"], ticked, listed,
                     <<[pct |-> 100, completed |-> TRUE]>>, FALSE, <<>>))
  /\ UNCHANGED fieldVars

(***************************************************************************)
(* Incidents                                                                *)
(***************************************************************************)
Incident(h, action, e, pct, tx) ==
  /\ kind = "INCIDENT" /\ Allowed(subject.status, action)
  /\ Begin(h, SaveOf(e, {}, {}, <<[pct |-> pct, completed |-> pct = 100]>>, tx, <<>>))
  /\ UNCHANGED fieldVars

Assign(h)  == \E u \in People :
                Incident(h, "ASSIGN", [status |-> "IN_PROGRESS", assigned_to |-> u], 25, FALSE)
Resolve(h) == Incident(h, "RESOLVE", [subject EXCEPT !.status = "RESOLVED"], 75, TRUE)
\* resolve left at least one AFTER_FIX photo, so close finds one
Close(h)   == Incident(h, "CLOSE", [subject EXCEPT !.status = "COMPLETED"], 100, FALSE)

\* requestReopen, requestAssigneeChange; the incident is looked at, not locked
Ask(h) ==
  /\ kind = "INCIDENT" /\ At(h, "idle") /\ Disturb
  /\ \E r \in Requests \ DOMAIN request, who \in People \cup {None} :
       /\ (who = None) <=> subject.status = "COMPLETED"
       /\ request' = [q \in DOMAIN request \cup {r} |->
                        IF q = r THEN [who |-> who, status |-> "PENDING"] ELSE request[q]]
  /\ UNCHANGED <<call, kind, work, subject, listed, ticked, writer, expected>>

Decide(h) ==
  \E r \in DOMAIN request, verdict \in {"APPROVED", "REJECTED"} :
    /\ request[r].status = "PENDING"
    /\ Begin(h, [pc |-> "decide", id |-> r, verdict |-> verdict])
    /\ UNCHANGED fieldVars

\* A transaction decides this request and has not committed.
Deciding(r) ==
  \E g \in Handlers : call[g].pc \in {"select", "update", "sync", "commit"}
                      /\ call[g].verdict # <<>> /\ call[g].verdict[1] = r

\* decideReopen, decideAssigneeChange with the request saved: the request and the
\* incident it changes are committed together.
DecideRequest(h) ==
  /\ At(h, "decide") /\ ~Deciding(call[h].id)
  /\ LET c       == call[h]
         who     == request[c.id].who
         row     == IF who = None THEN [subject EXCEPT !.status = "NEW"]
                    ELSE [subject EXCEPT !.assigned_to = who]
         shown   == IF who = None THEN <<[pct |-> 0, completed |-> FALSE]>> ELSE <<>>
     IN  \/ /\ c.verdict = "REJECTED"
            /\ request' = [request EXCEPT ![c.id].status = "REJECTED"]
            /\ Return(h)
         \/ /\ c.verdict = "APPROVED"
            /\ IF who = None /\ ~Allowed(subject.status, "REOPEN") THEN Return(h)
               ELSE Become(h, SaveOf(row, {}, {}, shown, TRUE, <<c.id, "APPROVED">>))
            /\ UNCHANGED request
  /\ UNCHANGED <<kind, work, subject, listed, ticked, writer, expected>>

CrashField(h) ==
  /\ Crash(h)
  /\ writer' = IF writer = h THEN None ELSE writer
  /\ UNCHANGED <<kind, work, subject, listed, ticked, request, expected>>

FieldStep(h) ==
  \/ SelectSubject(h) \/ UpdateSubject(h) \/ SyncProgress(h) \/ Commit(h)
  \/ AddTemplateItem(h) \/ Answer(h) \/ FindResult(h) \/ RecordResult(h) \/ CountResults(h)
  \/ AddItem(h) \/ InsertItem(h) \/ ToggleItem(h) \/ Complete(h)
  \/ Assign(h) \/ Resolve(h) \/ Close(h) \/ Ask(h) \/ Decide(h) \/ DecideRequest(h)
  \/ CrashField(h)

FieldNext == \E h \in Handlers : FieldStep(h)
FieldSpec == ServerInit /\ FieldInit /\ [][FieldNext]_<<serverVars, fieldVars>>

(***************************************************************************)
(* Properties                                                               *)
(***************************************************************************)
\* Between calls that ran alone the feed shows what became of the subject: the
\* item is done exactly when the checklist, inspection, task or incident is, and
\* new again when everything in it was undone (work-items.service.ts:51).
WorkItemFollows ==
  Calm /\ Quiet =>
    work.status = IF subject.status = "RESOLVED" THEN "IN_PROGRESS" ELSE subject.status

\* A completed checklist or inspection has a result for every part it had when
\* it was made, even if one call or crash comes in the way of another; a
\* completed office task has every item ticked, if none does (BR-CHK-03, BR-OT-01).
DoneMeansAllDone ==
  subject.status = "COMPLETED" =>
    /\ kind \in Counted /\ overlaps <= 1 => expected \subseteq ticked
    /\ kind = "OFFICE_TASK" /\ Calm    => listed \subseteq ticked
=============================================================================
