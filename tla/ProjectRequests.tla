---------------------------- MODULE ProjectRequests ----------------------------
(***************************************************************************)
(* Proposals of new projects: drafted, submitted, approved by the head of    *)
(* the department and by the executive board, whose approval creates the     *)
(* project (project-requests.service.ts, ProjectsService.create), whose code  *)
(* may be changed later (ProjectsService.update).                            *)
(*                                                                           *)
(* A request's content is the project code it proposes.  Each handler loads  *)
(* the request, checks it, and saves it; the final approval does so in a     *)
(* transaction, inside which the project is created on another connection.   *)
(* Request numbers, the workflow log and attachments are left out.           *)
(***************************************************************************)
EXTENDS Server

CONSTANTS
  Proposals,  \* ids of requests
  Codes       \* project codes

VARIABLES
  proposal,   \* rows of project_requests: status, the code, the status to which
              \* information was asked, the project deployed (0: null)
  project,    \* rows of projects, in the order they were inserted: the code, the
              \* request they come from, and (history) the code they were given
  locker,     \* the handler whose transaction holds the row of a request
  endorsed    \* history: codes a department head has approved for a request

requestVars == <<proposal, project, locker, endorsed>>

Nobody == "nobody"
Direct == "direct"    \* a project created without a request
Status == {"DRAFT", "SUBMITTED", "DEPT_APPROVED", "EXEC_APPROVED", "PENDING_INFO",
           "REJECTED", "DEPLOYED", "CANCELED"}

\* REQUEST_STATUS_TRANSITIONS
Transitions(s) ==
  CASE s = "DRAFT"         -> {"SUBMITTED", "CANCELED"}
    [] s = "SUBMITTED"     -> {"DEPT_APPROVED", "PENDING_INFO", "REJECTED"}
    [] s = "DEPT_APPROVED" -> {"EXEC_APPROVED", "PENDING_INFO", "REJECTED"}
    [] s = "EXEC_APPROVED" -> {"DEPLOYED"}
    [] s = "PENDING_INFO"  -> {"SUBMITTED"}
    [] s = "REJECTED"      -> {"DRAFT"}
    [] OTHER               -> {}

\* project_code is unique, archived rows included
Taken        == {project[i].code : i \in DOMAIN project}
NewRow(c, q) == [code |-> c, from |-> q, born |-> c]

RequestsInit ==
  /\ proposal = <<>> /\ project = <<>>
  /\ locker = [q \in Proposals |-> Nobody]
  /\ endorsed = [q \in Proposals |-> {}]

CreateProposal(h) ==
  \E q \in Proposals \ DOMAIN proposal, c \in Codes :
    /\ At(h, "idle") /\ Disturb
    /\ proposal' = [r \in DOMAIN proposal \cup {q} |->
                      IF r = q THEN [status |-> "DRAFT", code |-> c, back |-> Nobody,
                                     deployed |-> 0]
                      ELSE proposal[r]]
    /\ UNCHANGED <<call, project, locker, endorsed>>

(***************************************************************************)
(* Handlers that load a request, change it and save it                      *)
(***************************************************************************)
Change(h, op, q, e) ==
  Begin(h, [pc |-> "select", op |-> op, id |-> q, e |-> e]) /\ UNCHANGED requestVars

\* validateTransition, for the handlers that set nothing but the status
MoveTo(h, op, s) ==
  \E q \in DOMAIN proposal :
    /\ s \in Transitions(proposal[q].status)
    /\ Change(h, op, q, [proposal[q] EXCEPT !.status = s])

Submit(h)      == MoveTo(h, "submit", "SUBMITTED")
ApproveDept(h) == MoveTo(h, "endorse", "DEPT_APPROVED")
Reject(h)      == MoveTo(h, "reject", "REJECTED")

\* update: a draft is changed
Edit(h) ==
  \E q \in DOMAIN proposal, c \in Codes :
    /\ proposal[q].status = "DRAFT"
    /\ Change(h, "edit", q, [proposal[q] EXCEPT !.code = c])

\* remove: a draft is cancelled
Remove(h) ==
  \E q \in DOMAIN proposal :
    /\ proposal[q].status = "DRAFT"
    /\ Change(h, "remove", q, [proposal[q] EXCEPT !.status = "CANCELED"])

CancelProposal(h) ==
  \E q \in DOMAIN proposal :
    /\ proposal[q].status # "DEPLOYED"
    /\ Change(h, "cancel", q, [proposal[q] EXCEPT !.status = "CANCELED"])

RequestInfo(h) ==
  \E q \in DOMAIN proposal :
    /\ "PENDING_INFO" \in Transitions(proposal[q].status)
    /\ Change(h, "request info", q,
              [proposal[q] EXCEPT !.status = "PENDING_INFO", !.back = proposal[q].status])

\* Mutant: the request returns to the step that asked.
Resubmit_Back(h) ==
  \E q \in DOMAIN proposal, c \in Codes :
    /\ proposal[q].status = "PENDING_INFO"
    /\ Change(h, "resubmit", q,
              [proposal[q] EXCEPT !.code = c, !.status = proposal[q].back, !.back = Nobody])

\* resubmit: changed and submitted again, whoever asked for information
Resubmit(h) ==
  \E q \in DOMAIN proposal, c \in Codes :
    /\ proposal[q].status = "PENDING_INFO"
    /\ Change(h, "resubmit", q,
              [proposal[q] EXCEPT !.code = c, !.status = "SUBMITTED", !.back = Nobody])

SelectProposal(h) ==
  /\ At(h, "select")
  /\ LET c == call[h] IN
       Become(h, [pc |-> "update", op |-> c.op, id |-> c.id, e |-> c.e,
                  dirty |-> Dirty(c.e, proposal[c.id])])
  /\ UNCHANGED requestVars

\* the handlers above end here; the final approval goes on with the row locked
UpdateProposal(h) ==
  /\ At(h, "update") /\ locker[call[h].id] = Nobody
  /\ LET c == call[h] IN
       IF c.op = "approve"
         THEN /\ locker' = [locker EXCEPT ![c.id] = h]
              /\ Goto(h, "find project")
              /\ UNCHANGED <<proposal, endorsed>>
         ELSE /\ proposal' = [proposal EXCEPT ![c.id] = Merge(@, c.e, c.dirty)]
              /\ endorsed' = IF c.op = "endorse"
                               THEN [endorsed EXCEPT ![c.id] = @ \cup {c.e.code}]
                               ELSE endorsed
              /\ Return(h) /\ UNCHANGED locker
  /\ UNCHANGED project

(***************************************************************************)
(* approveExec                                                              *)
(***************************************************************************)
ApproveExec(h) ==
  \E q \in DOMAIN proposal :
    /\ "EXEC_APPROVED" \in Transitions(proposal[q].status)
    /\ Change(h, "approve", q, [proposal[q] EXCEPT !.status = "EXEC_APPROVED"])

\* ProjectsService.create: the code is looked up, then the row inserted; the
\* code is unique.  Either refusal is caught and the approval stands without it.
FindProject(h) ==
  /\ At(h, "find project")
  /\ Goto(h, IF call[h].e.code \in Taken THEN "approve only" ELSE "insert project")
  /\ UNCHANGED requestVars

InsertProject(h) ==
  /\ At(h, "insert project")
  /\ LET c == call[h] IN
       IF c.e.code \in Taken
         THEN Goto(h, "approve only") /\ UNCHANGED project
         ELSE /\ project' = Append(project, NewRow(c.e.code, c.id))
              /\ Become(h, [pc |-> "folders", op |-> c.op, id |-> c.id, e |-> c.e,
                            dirty |-> c.dirty, made |-> Len(project) + 1])
  /\ UNCHANGED <<proposal, locker, endorsed>>

\* createDefaultFolders; its failure is caught like a duplicate code
MakeFolders(h) ==
  /\ At(h, "folders")
  /\ \/ Goto(h, "deploy")
     \/ /\ CrashesAllowed /\ overlaps < MaxOverlaps /\ overlaps' = overlaps + 1
        /\ call' = [call EXCEPT ![h].pc = "approve only"]
  /\ UNCHANGED requestVars

Release(h, row) ==
  LET q == call[h].id
  IN  /\ proposal' = [proposal EXCEPT ![q] = row]
      /\ locker' = [locker EXCEPT ![q] = Nobody]
      /\ Return(h)
      /\ UNCHANGED <<project, endorsed>>

CommitApproval(h) ==
  /\ \/ At(h, "approve only")
     \/ At(h, "deploy")
  /\ LET c   == call[h]
         row == Merge(proposal[c.id], c.e, c.dirty)
     IN  Release(h, IF At(h, "deploy") THEN [row EXCEPT !.status = "DEPLOYED",
                                                         !.deployed = c.made]
                    ELSE row)

(***************************************************************************)
(* ProjectsService                                                          *)
(***************************************************************************)
\* create called directly; an archived row keeps its code
CreateDirectly ==
  \E c \in Codes \ Taken :
    /\ project' = Append(project, NewRow(c, Direct))
    /\ Disturb
    /\ UNCHANGED <<call, proposal, locker, endorsed>>

\* update: the project is loaded, its status examined (left out), the columns of
\* the DTO assigned, project_code among them, and the entity saved: with the code
\* of the DTO, or with the one that was loaded.  The request is not looked at.
LoadProject(h) ==
  \E i \in DOMAIN project, c \in Codes :
    /\ Begin(h, [pc |-> "save project", row |-> i, code |-> c])
    /\ UNCHANGED requestVars

\* A code that another project has is refused.  The SELECT of save() and its
\* UPDATE are one step: there is one column to write.
SaveProject(h) ==
  /\ At(h, "save project")
  /\ LET c == call[h] IN
       project' = IF c.code \in Taken THEN project
                  ELSE [project EXCEPT ![c.row].code = c.code]
  /\ Return(h)
  /\ UNCHANGED <<proposal, locker, endorsed>>

CrashProposal(h) ==
  /\ Crash(h)
  /\ locker' = [q \in Proposals |-> IF locker[q] = h THEN Nobody ELSE locker[q]]
  /\ UNCHANGED <<proposal, project, endorsed>>

RequestStep(h) ==
  \/ CreateProposal(h) \/ Submit(h) \/ ApproveDept(h) \/ Reject(h) \/ Edit(h) \/ Remove(h)
  \/ CancelProposal(h) \/ RequestInfo(h) \/ Resubmit(h) \/ ApproveExec(h)
  \/ SelectProposal(h) \/ UpdateProposal(h) \/ FindProject(h) \/ InsertProject(h)
  \/ MakeFolders(h) \/ CommitApproval(h) \/ LoadProject(h) \/ SaveProject(h)
  \/ CrashProposal(h)

RequestsNext == CreateDirectly \/ \E h \in Handlers : RequestStep(h)
RequestsSpec == ServerInit /\ RequestsInit /\ [][RequestsNext]_<<serverVars, requestVars>>

(***************************************************************************)
(* Properties                                                               *)
(***************************************************************************)
\* A project made from a request was given a code the department head approved
\* for it, and a request called DEPLOYED has its project, if no more than one
\* call or crash comes in the way of another.  Calls that run alone and to their
\* end also deploy a request once, as the project it still proposes, and it can
\* no longer be cancelled away from it, whatever becomes of the project's code.
ProjectsEndorsed ==
  /\ overlaps <= 1 =>
       /\ \A i \in DOMAIN project :
            project[i].from # Direct => project[i].born \in endorsed[project[i].from]
       /\ \A q \in DOMAIN proposal :
            proposal[q].status = "DEPLOYED" =>
              LET i == proposal[q].deployed IN i \in DOMAIN project /\ project[i].from = q
  /\ Calm /\ Quiet =>
       \A i \in DOMAIN project : project[i].from # Direct =>
         LET r == proposal[project[i].from]
         IN  r.status = "DEPLOYED" /\ r.deployed = i /\ r.code = project[i].born
=============================================================================
