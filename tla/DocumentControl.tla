--------------------------- MODULE DocumentControl ---------------------------
(***************************************************************************)
(* Document control (src/wms-backend/src/documents): one document, its      *)
(* versions, the approval requests of its versions and its expiry notices,  *)
(* under HTTP handlers that run at the same time.                           *)
(*                                                                          *)
(* Every repository call is a step; the transaction that stores a version   *)
(* is two, the read of the latest version (which locks that row) and the    *)
(* rest, for nothing it writes is seen before it commits.  A version never  *)
(* changes its file and disappears only with the document, so reads of the  *)
(* document and of one version that follow each other are one step.  The    *)
(* approval engine is its promise (ApprovalPromise!Moves): its configuration*)
(* asks one approver at each order.                                         *)
(***************************************************************************)
EXTENDS Server

CONSTANTS
  Files,        \* contents that can be uploaded (their checksums)
  Expiries,     \* expiry dates, as days
  Week, Month,  \* the 7 and 30 days before an expiry
  LastDay,      \* bound: the clock stops on this day
  MaxVersions,  \* bound: versions ever stored
  MaxRequests   \* bound: approval requests ever opened

ASSUME DayAssumption ==
  /\ Week \in Nat /\ Month \in Nat /\ 0 < Week /\ Week < Month
  /\ Expiries \subseteq Nat \ {0} /\ LastDay \in Nat
ASSUME BoundAssumption == {MaxVersions, MaxRequests} \subseteq Nat
ASSUME FilesAssumption == Files # {}

VARIABLES
  doc,        \* the row of project_documents
  versions,   \* rows of document_versions, by id; ids are minted in order
  minted,     \* the last id minted
  requests,   \* approval_requests of these versions, oldest first
  notified,   \* document_notifications: rows of each type
  day,        \* today
  signedOff   \* history: versions a request was ever APPROVED for

docTables == <<doc, versions, minted, requests, notified, signedOff>>
docVars == <<docTables, day, serverVars>>

Engine == INSTANCE ApprovalPromise WITH
  Asked   <- 1 .. MaxRequests,
  outcome <- [q \in 1 .. MaxRequests |->
                IF q \in DOMAIN requests THEN requests[q].status ELSE "NONE"]

DocumentStatus == {"VALID", "EXPIRING_SOON", "EXPIRED", "DRAFT",
                   "PENDING_APPROVAL", "APPROVED", "REJECTED"}
NoticeTypes == {"EXPIRING_30_DAYS", "EXPIRING_7_DAYS", "EXPIRED"}

\* null is 0; kept: the row exists
DocumentRow == [kept : BOOLEAN, status : DocumentStatus, current : Nat,
                approved : Nat, expiry : Nat]
NoDocument  == [kept |-> FALSE, status |-> "VALID", current |-> 0,
                approved |-> 0, expiry |-> 0]
VersionRow  == [seq : Nat \ {0}, file : Files, archived : BOOLEAN]
RequestRow  == [version : Nat,
                status : {"PENDING", "IN_PROGRESS", "APPROVED", "REJECTED", "DELETED"}]

\* The local variables of the handlers.
DocCall == [pc : {"duplicate", "latest", "commit", "current", "archive", "active",
                  "create", "mark", "request", "compare", "show", "select",
                  "flush", "notify"},
            from : Nat, file : Files, entity : DocumentRow,
            status : DocumentStatus, seq : Nat, notices : SUBSET NoticeTypes,
            told : SUBSET NoticeTypes, dirty : SUBSET DOMAIN NoDocument]
Blank == [pc |-> "duplicate", from |-> 0, file |-> CHOOSE f \in Files : TRUE,
          entity |-> NoDocument, status |-> "VALID", seq |-> 0,
          notices |-> {}, told |-> {}, dirty |-> {}]

-----------------------------------------------------------------------------
(* Helpers *)

\* the status an expiry date gives; 0 is no date
ComputeStatus(expiry) ==
  CASE expiry = 0           -> "VALID"
    [] expiry <= day         -> "EXPIRED"
    [] expiry > day + Month  -> "VALID"
    [] OTHER                 -> "EXPIRING_SOON"

\* the notices generateNotifications adds to those in `had`
Due(expiry, had) ==
  (CASE expiry <= day         -> {"EXPIRED"}
     [] expiry <= day + Week  -> {"EXPIRING_7_DAYS"}
     [] expiry <= day + Month -> {"EXPIRING_30_DAYS"}
     [] OTHER                 -> {}) \ had

\* The row after an UPDATE or INSERT to `row`: nothing happens when there is
\* no such row, or when a foreign key refuses it.
Stored(row) ==
  IF row.kept /\ {row.current, row.approved} \subseteq {0} \cup DOMAIN versions
  THEN row ELSE doc

HasNotices == {t \in NoticeTypes : notified[t] > 0}

Seqs == {versions[v].seq : v \in DOMAIN versions}
NextSeq(seqs) == IF seqs = {} THEN 1
                 ELSE 1 + CHOOSE n \in seqs : \A m \in seqs : m <= n

RequestsOf(v) == {q \in DOMAIN requests :
                    requests[q].version = v /\ requests[q].status # "DELETED"}
\* Mutant: a request that is IN_PROGRESS is not seen as open.
ActiveRequests_Pending(v) == {q \in RequestsOf(v) : requests[q].status = "PENDING"}
ActiveRequests(v) == {q \in RequestsOf(v) : requests[q].status \in Engine!Open}
LatestRequest(v) == CHOOSE q \in RequestsOf(v) : \A r \in RequestsOf(v) : r <= q

-----------------------------------------------------------------------------
(* createDocument, removeDocument *)

CreateDocument ==
  /\ doc = NoDocument /\ minted = 0 /\ requests = <<>>
  /\ \A t \in NoticeTypes : notified[t] = 0
  /\ Quiet
  /\ \E e \in Expiries \cup {0} :
       doc' = [NoDocument EXCEPT !.kept = TRUE, !.expiry = e,
                                 !.status = ComputeStatus(e)]
  /\ UNCHANGED <<versions, minted, requests, notified, day, serverVars, signedOff>>

\* Versions and notices go with the document, requests stay.  The rows a
\* transaction has locked must be waited for.
RemoveDocument ==
  /\ doc.kept
  /\ \A h \in Handlers : ~(At(h, "commit") /\ call[h].seq > 1)
  /\ doc' = NoDocument /\ versions' = <<>>
  /\ notified' = [t \in NoticeTypes |-> 0]
  /\ Disturb
  /\ UNCHANGED <<minted, requests, day, call, signedOff>>

-----------------------------------------------------------------------------
(* uploadNewVersion, rollbackToVersion, archiveVersion *)

Upload(h) ==
  /\ doc.kept /\ doc.status # "PENDING_APPROVAL"
  /\ \E f \in Files :
       Begin(h, [Blank EXCEPT !.pc = "duplicate", !.file = f,
                   !.status = IF doc.status = "APPROVED" THEN "DRAFT" ELSE doc.status])
  /\ UNCHANGED <<docTables, day>>

CheckDuplicate(h) ==
  /\ At(h, "duplicate")
  /\ IF \E v \in DOMAIN versions : versions[v].file = call[h].file
     THEN Return(h) ELSE Goto(h, "latest")
  /\ UNCHANGED <<docTables, day>>

RollbackToVersion(h) ==
  /\ doc.kept /\ doc.status # "PENDING_APPROVAL"
  /\ \E v \in DOMAIN versions :
       Begin(h, [Blank EXCEPT !.pc = "latest", !.from = v,
                   !.file = versions[v].file, !.status = "DRAFT"])
  /\ UNCHANGED <<docTables, day>>

ReadLatest(h) ==
  /\ At(h, "latest")
  /\ Become(h, [call[h] EXCEPT !.pc = "commit", !.seq = NextSeq(Seqs)])
  /\ UNCHANGED <<docTables, day>>

\* The insert needs the document (foreign key) and a new number (unique
\* index), else the transaction rolls back.
\* Mutant: the index UQ_DOCVER_SEQ is missing.
Addable_NoIndex(h) == doc.kept /\ minted < MaxVersions
Addable(h) == doc.kept /\ call[h].seq \notin Seqs /\ minted < MaxVersions

\* Mutant: an approved document stays APPROVED when a version is added.
ShowNew_KeepsStatus(h) == doc' = [doc EXCEPT !.current = minted + 1]
ShowNew(h) == doc' = [doc EXCEPT !.current = minted + 1, !.status = call[h].status]

CommitVersion(h) ==
  /\ At(h, "commit")
  /\ IF Addable(h)
     THEN /\ minted' = minted + 1
          /\ versions' = [v \in DOMAIN versions \cup {minted + 1} |->
               IF v = minted + 1
               THEN [seq |-> call[h].seq, file |-> call[h].file, archived |-> FALSE]
               ELSE versions[v]]
          /\ ShowNew(h)
     ELSE UNCHANGED <<doc, versions, minted>>
  /\ Return(h)
  /\ UNCHANGED <<requests, notified, day, signedOff>>

ArchiveVersion(h) ==
  /\ \E v \in DOMAIN versions : Begin(h, [Blank EXCEPT !.pc = "current", !.from = v])
  /\ UNCHANGED <<docTables, day>>

\* document?.current_version_id: a missing document does not refuse
\* Mutant: the version the document shows can be archived.
CheckCurrent_Dropped(h) ==
  At(h, "current") /\ Goto(h, "archive") /\ UNCHANGED <<docTables, day>>
CheckCurrent(h) ==
  /\ At(h, "current")
  /\ IF doc.kept /\ doc.current = call[h].from THEN Return(h) ELSE Goto(h, "archive")
  /\ UNCHANGED <<docTables, day>>

SaveArchived(h) ==
  /\ At(h, "archive")
  /\ versions' = [v \in DOMAIN versions |->
                    IF v = call[h].from THEN [versions[v] EXCEPT !.archived = TRUE]
                                        ELSE versions[v]]
  /\ Return(h)
  /\ UNCHANGED <<doc, minted, requests, notified, day, signedOff>>

-----------------------------------------------------------------------------
(* submitForApproval; the engine decides; getApprovalStatus shows it *)

SubmitForApproval(h) ==
  /\ doc.kept
  /\ \E v \in DOMAIN versions : Begin(h, [Blank EXCEPT !.pc = "active", !.from = v])
  /\ UNCHANGED <<docTables, day>>

CheckActive(h) ==
  /\ At(h, "active")
  /\ IF ActiveRequests(call[h].from) # {} THEN Return(h) ELSE Goto(h, "create")
  /\ UNCHANGED <<docTables, day>>

\* The engine opens a request, or has no configuration for documents.
CreateRequest(h) ==
  /\ At(h, "create")
  /\ \/ /\ Len(requests) < MaxRequests
        /\ requests' = Append(requests, [version |-> call[h].from, status |-> "PENDING"])
        /\ Goto(h, "mark")
     \/ Return(h) /\ UNCHANGED requests
  /\ UNCHANGED <<doc, versions, minted, notified, day, signedOff>>

MarkPending(h) ==
  /\ At(h, "mark")
  /\ doc' = Stored([doc EXCEPT !.status = "PENDING_APPROVAL"])
  /\ Return(h)
  /\ UNCHANGED <<versions, minted, requests, notified, day, signedOff>>

\* A step of the engine; a removed configuration takes its requests with it
\* one by one here.
EngineMoves ==
  /\ \E q \in DOMAIN requests : \E s \in Engine!Moves(requests[q].status) :
       /\ requests[q].status # s
       /\ requests' = [requests EXCEPT ![q].status = s]
       /\ signedOff' = IF s = "APPROVED" THEN signedOff \cup {requests[q].version}
                                         ELSE signedOff
  /\ UNCHANGED <<doc, versions, minted, notified, day, serverVars>>

GetApprovalStatus(h) ==
  /\ doc.kept /\ doc.current # 0
  /\ Begin(h, [Blank EXCEPT !.pc = "request", !.from = doc.current])
  /\ UNCHANGED <<docTables, day>>

\* Mutant: the decision of any version's request is taken.
ReadRequest_AnyVersion(h) ==
  /\ At(h, "request")
  /\ LET decided == {q \in DOMAIN requests : requests[q].status \in Engine!Settled}
     IN  IF decided = {} THEN Return(h)
         ELSE \E q \in decided :
                Become(h, [call[h] EXCEPT !.pc = "compare", !.status = requests[q].status])
  /\ UNCHANGED <<docTables, day>>

ReadRequest(h) ==
  /\ At(h, "request")
  /\ LET v == call[h].from IN
     IF RequestsOf(v) # {} /\ requests[LatestRequest(v)].status \in Engine!Settled
     THEN Become(h, [call[h] EXCEPT !.pc = "compare",
                                    !.status = requests[LatestRequest(v)].status])
     ELSE Return(h)
  /\ UNCHANGED <<docTables, day>>

\* Mutant: only a document that waits for the decision takes it.
CompareStatus_OnlyPending(h) ==
  /\ At(h, "compare")
  /\ IF doc.kept /\ doc.status = "PENDING_APPROVAL" THEN Goto(h, "show") ELSE Return(h)
  /\ UNCHANGED <<docTables, day>>

CompareStatus(h) ==
  /\ At(h, "compare")
  /\ IF doc.kept /\ doc.status # call[h].status THEN Goto(h, "show") ELSE Return(h)
  /\ UNCHANGED <<docTables, day>>

ShowDecision(h) ==
  /\ At(h, "show")
  /\ doc' = IF call[h].status = "APPROVED"
            THEN Stored([doc EXCEPT !.status = "APPROVED", !.approved = call[h].from])
            ELSE Stored([doc EXCEPT !.status = "REJECTED"])
  /\ Return(h)
  /\ UNCHANGED <<versions, minted, requests, notified, day, signedOff>>

-----------------------------------------------------------------------------
(* updateDocument, generateNotifications: save(doc) *)

\* An update may leave the expiry date alone; then it saves what it loaded.
UpdateDocument(h) ==
  /\ doc.kept
  /\ \/ Begin(h, [Blank EXCEPT !.pc = "select", !.entity = doc])
     \/ \E e \in Expiries :
          Begin(h, [Blank EXCEPT !.pc = "select",
                      !.entity = [doc EXCEPT !.expiry = e, !.status = ComputeStatus(e)]])
  /\ UNCHANGED <<docTables, day>>

\* notices: the relation loaded with the document; told: those to be added
GenerateNotifications(h) ==
  /\ doc.kept /\ doc.expiry # 0
  /\ Begin(h, [Blank EXCEPT !.pc = "select", !.from = 1,
                 !.entity = [doc EXCEPT !.status = ComputeStatus(doc.expiry)],
                 !.notices = HasNotices, !.told = Due(doc.expiry, HasNotices)])
  /\ UNCHANGED <<docTables, day>>

\* A notice added since the load would be cut from the document, which its
\* NOT NULL column refuses.
SelectDocument(h) ==
  /\ At(h, "select")
  /\ IF call[h].from = 1 /\ ~(HasNotices \subseteq call[h].notices)
     THEN Return(h)
     ELSE Become(h, [call[h] EXCEPT !.pc = "flush",
                                    !.dirty = Dirty(call[h].entity, doc)])
  /\ UNCHANGED <<docTables, day>>

\* The row was missing at the SELECT: it is inserted again, unless it is back.
\* It was there and is gone: the UPDATE finds nothing.
FlushDocument(h) ==
  /\ At(h, "flush")
  /\ LET row    == Merge(doc, call[h].entity, call[h].dirty)
         failed == \/ "kept" \in call[h].dirty /\ doc.kept
                   \/ row.kept /\ Stored(row) # row
     IN  IF failed THEN UNCHANGED doc /\ Return(h)
         ELSE /\ doc' = Stored(row)
              /\ IF call[h].told = {} THEN Return(h) ELSE Goto(h, "notify")
  /\ UNCHANGED <<versions, minted, requests, notified, day, signedOff>>

InsertNotices(h) ==
  /\ At(h, "notify")
  /\ notified' = [t \in NoticeTypes |->
                    notified[t] + (IF doc.kept /\ t \in call[h].told THEN 1 ELSE 0)]
  /\ Return(h)
  /\ UNCHANGED <<doc, versions, minted, requests, day, signedOff>>

-----------------------------------------------------------------------------
Tick ==
  /\ day < LastDay
  /\ day' = day + 1
  /\ UNCHANGED <<docTables, serverVars>>

DocCrash(h) == Crash(h) /\ UNCHANGED <<docTables, day>>

DocInit ==
  /\ doc = NoDocument /\ versions = <<>> /\ minted = 0 /\ requests = <<>>
  /\ notified = [t \in NoticeTypes |-> 0] /\ day = 0
  /\ signedOff = {} /\ ServerInit

DocArrive(h) == \/ Upload(h) \/ RollbackToVersion(h) \/ ArchiveVersion(h)
             \/ SubmitForApproval(h) \/ GetApprovalStatus(h)
             \/ UpdateDocument(h) \/ GenerateNotifications(h)
DocContinue(h) == \/ CheckDuplicate(h) \/ ReadLatest(h) \/ CommitVersion(h)
               \/ CheckCurrent(h) \/ SaveArchived(h)
               \/ CheckActive(h) \/ CreateRequest(h) \/ MarkPending(h)
               \/ ReadRequest(h) \/ CompareStatus(h) \/ ShowDecision(h)
               \/ SelectDocument(h) \/ FlushDocument(h) \/ InsertNotices(h)

DocNext == \/ CreateDocument \/ RemoveDocument \/ EngineMoves \/ Tick
           \/ \E h \in Handlers : DocArrive(h) \/ DocContinue(h) \/ DocCrash(h)

DocSpec == DocInit /\ [][DocNext]_docVars

(* A handler that got its answer goes on, unless it dies, at most MaxOverlaps
   times; users keep opening the document.                                  *)
DocFairness == \A h \in Handlers : /\ WF_docVars(DocContinue(h))
                                   /\ SF_docVars(GetApprovalStatus(h))
DocFairSpec == DocSpec /\ DocFairness

-----------------------------------------------------------------------------
(* Properties *)

\* Type invariant.
DocTypeOK ==
  /\ doc \in DocumentRow
  /\ minted \in Nat
  /\ DOMAIN versions \subseteq 1 .. minted
  /\ \A v \in DOMAIN versions : versions[v] \in VersionRow
  /\ requests \in Seq(RequestRow)
  /\ notified \in [NoticeTypes -> Nat] /\ day \in Nat
  /\ call \in [Handlers -> {Idle} \cup DocCall] /\ overlaps \in Nat /\ signedOff \subseteq Nat

\* The versions of a document are V1.0, V1.1, ... with no gap and no number
\* twice, whatever uploads and rollbacks overlap, a crash or a removal included.
VersionsDense ==
  /\ \A v \in DOMAIN versions : 1 .. versions[v].seq \subseteq Seqs
  /\ \A v, w \in DOMAIN versions : versions[v].seq = versions[w].seq => v = w

\* approved_version_id is a version the engine approved, also when a save
\* brings back what it loaded before.
ApprovedWasSigned == doc.approved \in {0} \cup signedOff

\* When each call runs alone and to its end: the version shown is the newest one, whether it
\* was uploaded or rolled back to, and is not archived.
CurrentIsLatest ==
  Calm => \A v \in DOMAIN versions :
            /\ doc.current \in DOMAIN versions
            /\ versions[v].seq <= versions[doc.current].seq
            /\ ~versions[doc.current].archived

\* When each call runs alone and to its end: a document shown APPROVED shows the version that
\* was approved, not one added since.
ApprovedIsShown ==
  Calm /\ doc.status = "APPROVED" => doc.approved = doc.current

\* archiveVersion refuses the version shown (document-versions.service.ts:299).
\* An edit that loaded the document before an upload shows the version of then
\* again, which is archived meanwhile.
ShownIsNotArchived ==
  doc.current \in DOMAIN versions => ~versions[doc.current].archived

\* BR-DOC-07: a version has one open request at a time.  Two submissions that
\* both look before either inserts break it.
OneRequestAtATime ==
  \A v \in DOMAIN versions : \A q, r \in RequestsOf(v) :
    {requests[q].status, requests[r].status} \subseteq Engine!Open => q = r

\* It holds when each call runs alone and to its end.
OneOpenRequest == Calm => OneRequestAtATime

\* BR-DOC-08: no version is added while the version shown awaits its decision.
\* generateNotifications overwrites PENDING_APPROVAL, so the code breaks it.
NoUploadWhilePending ==
  [][minted' # minted => ActiveRequests(doc.current) = {}]_docVars

\* The decision on the version shown is shown, as long as it is the decision.
DecisionShown ==
  \A s \in {"APPROVED", "REJECTED"} :
    LET decided == /\ doc.kept /\ doc.current # 0 /\ RequestsOf(doc.current) # {}
                   /\ requests[LatestRequest(doc.current)].status = s
    IN  decided ~> (doc.status = s \/ ~decided)
=============================================================================
