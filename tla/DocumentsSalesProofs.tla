------------------------- MODULE DocumentsSalesProofs -------------------------
(***************************************************************************)
(* Document control and sales, for any number of handlers, overlaps and    *)
(* crashes, any uploads, decisions, amounts, limits and quotes.  The two   *)
(* share no table; they are proved side by side as MCDocumentsSales checks *)
(* them side by side.                                                      *)
(*                                                                         *)
(* Documents.  The versions of a document are numbered without a gap or a  *)
(* number twice (VersionsDense), and the version a document names as       *)
(* approved was approved by the engine (ApprovedWasSigned).  Handlers      *)
(* write back documents they loaded long ago, and insert numbers they      *)
(* computed from versions that may be gone.  DocInv says why neither does  *)
(* harm: what a handler holds was signed (Vouched) and its number follows  *)
(* numbers that are there (Numbered).                                      *)
(*   DocSerial: as long as no call was disturbed, what a handler knows of  *)
(* the tables at each await (DocKnows), from which follows that the        *)
(* document shows its newest version, shows APPROVED for the approved one  *)
(* only, and that a version has one open request.                          *)
(*                                                                         *)
(* Sales.  DebtInv: the debt of a customer stays within a credit limit the *)
(* customer was given, unless an order was let through on purpose.  A      *)
(* handler writes back a debt it computed from an old customer; whatever   *)
(* is written was checked against a limit the customer once had (Claims),  *)
(* and topLimit only grows.                                                *)
(*   OwnedInv: no two orders name the same outbound, because no two        *)
(* handlers hold the same one while its order is not stored.  PlacedInv:   *)
(* an outbound has its order, or a handler about to store it, or lost it   *)
(* to a crash that was counted.                                            *)
(*   SerialInv: as long as no call was disturbed, what a handler knows of  *)
(* the tables at each await (SalesKnows), from which follow the exact debt *)
(* and the single conversion of a quote.                                   *)
(***************************************************************************)
EXTENDS DocumentControl, SalesOrders, HandlerFacts, SumFacts, SequenceTheorems,
        WellFoundedInduction

-----------------------------------------------------------------------------
(* Document control *)

\* What a handler may store as approved is in signed.
Vouched(c, signed) ==
  c # Idle => /\ c.entity.approved \in {0} \cup signed
              /\ c.pc \in {"compare", "show"} /\ c.status = "APPROVED" => c.from \in signed

\* The numbers below the one a handler is about to insert are in seqs.
Numbered(c, seqs) == c.pc = "commit" => c.seq > 0 /\ 1 .. (c.seq - 1) \subseteq seqs

RequestsSigned ==
  \A q \in DOMAIN requests :
    requests[q].status = "APPROVED" => requests[q].version \in signedOff

DocInv ==
  /\ DocTypeOK /\ VersionsDense /\ ApprovedWasSigned /\ RequestsSigned
  /\ \A h \in Handlers : Vouched(call[h], signedOff) /\ Numbered(call[h], Seqs)

-----------------------------------------------------------------------------
(* Numbers of versions *)

\* A finite set of numbers without gaps has a successor, and everything below
\* it is in the set (getLatestVersionForUpdate and the number after it).
LEMMA NextFollows ==
  ASSUME NEW S \in SUBSET (Nat \ {0}), IsFiniteSet(S), \A n \in S : 1 .. n \subseteq S
  PROVE  NextSeq(S) \in Nat \ {0} /\ 1 .. (NextSeq(S) - 1) \subseteq S
  <1>1. CASE S = {}
    BY <1>1 DEF NextSeq
  <1>2. CASE S # {}
    <2> DEFINE k == Cardinality(S)
    <2>1. k \in Nat /\ k # 0
      BY <1>2, FS_CardinalityType, FS_EmptySet
    <2>2. ASSUME NEW n \in S PROVE n <= k
      <3>1. IsFiniteSet(1 .. n) /\ Cardinality(1 .. n) = n
        BY FS_Interval
      <3>2. Cardinality(1 .. n) <= k
        BY FS_Subset
      <3> QED
        BY <3>1, <3>2
    <2> HIDE DEF k
    <2>3. S \subseteq 1 .. k
      BY <2>1, <2>2
    <2>4. IsFiniteSet(1 .. k) /\ Cardinality(1 .. k) = k
      BY <2>1, FS_Interval
    <2>5. S = 1 .. k
      BY <2>3, <2>4, FS_Subset DEF k
    <2>6. k \in S /\ \A m \in S : m <= k
      BY <2>1, <2>5
    <2> DEFINE top == CHOOSE n \in S : \A m \in S : m <= n
    <2>7. top \in S /\ \A m \in S : m <= top
      BY <2>6
    <2>8. NextSeq(S) = 1 + top
      BY <1>2 DEF NextSeq
    <2> HIDE DEF top
    <2> QED
      BY <2>7, <2>8
  <1> QED
    BY <1>1, <1>2

\* The numbers in use are finitely many.
LEMMA SeqsFinite ==
  ASSUME DocTypeOK
  PROVE  Seqs \in SUBSET (Nat \ {0}) /\ IsFiniteSet(Seqs)
  <1> DEFINE f == [v \in DOMAIN versions |-> versions[v].seq]
  <1>1. \A v \in DOMAIN versions : versions[v].seq \in Nat \ {0}
    BY DEF DocTypeOK, VersionRow
  <1>2. f \in Surjection(DOMAIN versions, Seqs)
    BY DEF Surjection, Seqs
  <1>3. IsFiniteSet(DOMAIN versions)
    <2>1. DOMAIN versions \subseteq 1 .. minted /\ minted \in Nat
      BY DEF DocTypeOK
    <2>2. IsFiniteSet(1 .. minted)
      BY <2>1, FS_Interval
    <2> QED
      BY <2>1, <2>2, FS_Subset
  <1>4. IsFiniteSet(Seqs)
    BY <1>2, <1>3, FS_Surjection
  <1> QED
    BY <1>1, <1>4 DEF Seqs

\* Among requests there is a last one.
LEMMA LastExists ==
  ASSUME NEW n \in Nat, NEW S \in SUBSET (1 .. n), S # {}
  PROVE  \E x \in S : \A y \in S : y <= x
  <1> DEFINE T == {n - y : y \in S}
             R == {p \in Nat \X Nat : p[1] < p[2]}
  <1>1. R = OpToRel(<, Nat)
    BY DEF OpToRel
  <1>2. IsWellFoundedOn(R, Nat)
    BY <1>1, NatLessThanWellFounded
  <1>3. T \subseteq Nat /\ T # {}
    <2>1. ASSUME NEW y \in S PROVE n - y \in Nat
      <3>1. y \in Nat /\ y <= n
        OBVIOUS
      <3> QED
        BY <3>1
    <2> QED
      BY <2>1, Zenon
  <1>4. PICK t \in T : \A u \in T : <<u, t>> \notin R
    BY <1>2, <1>3, WFMin
  <1>5. PICK x \in S : t = n - x
    OBVIOUS
  <1>6. ASSUME NEW y \in S PROVE y <= x
    <2>1. <<n - y, t>> \notin R /\ n - y \in Nat /\ t \in Nat
      BY <1>3, <1>4
    <2>2. ~(n - y < t)
      BY <2>1
    <2> QED
      BY <1>5, <2>1, <2>2
  <1> QED
    BY <1>6

-----------------------------------------------------------------------------
(* Facts about the helpers *)

LEMMA BlankTyped ==
  Blank \in DocCall /\ NoDocument \in DocumentRow /\ NoDocument.approved = 0
  <1>1. NoDocument \in DocumentRow /\ NoDocument.approved = 0
    BY DEF NoDocument, DocumentRow, DocumentStatus
  <1>2. (CHOOSE f \in Files : TRUE) \in Files
    BY FilesAssumption
  <1> QED
    BY <1>1, <1>2 DEF Blank, DocCall, DocumentStatus

LEMMA InDocumentCall ==
  ASSUME DocTypeOK, NEW h \in Handlers, call[h].pc # "idle"
  PROVE  call[h] \in DocCall /\ call[h] # Idle
  BY DEF DocTypeOK, Idle

LEMMA NotIdle == \A c \in DocCall : c # Idle
  BY DEF DocCall, Idle

LEMMA DocDisturbed ==
  ASSUME DocTypeOK, Disturb
  PROVE  overlaps' \in Nat
  BY DEF DocTypeOK, Disturb

LEMMA DocumentMerged ==
  ASSUME NEW row \in DocumentRow, NEW e \in DocumentRow, NEW columns
  PROVE  /\ Merge(row, e, columns) \in DocumentRow
         /\ Merge(row, e, columns).approved \in {row.approved, e.approved}
  BY DEF Merge, DocumentRow

LEMMA DocumentDirty ==
  ASSUME DocTypeOK
  PROVE  \A e : Dirty(e, doc) \subseteq DOMAIN NoDocument
  BY DEF Dirty, DocTypeOK, DocumentRow, NoDocument

LEMMA StatusTyped == \A e : ComputeStatus(e) \in DocumentStatus
  BY DEF ComputeStatus, DocumentStatus

-----------------------------------------------------------------------------
(* The handler h becomes c *)

\* What a step has to show of its handler and of the tables.
LEMMA DocStepOK ==
  ASSUME DocInv, DocTypeOK', VersionsDense', NEW h \in Handlers, NEW c \in {Idle} \cup DocCall,
         call' = [call EXCEPT ![h] = c], signedOff \subseteq signedOff', Seqs \subseteq Seqs',
         Vouched(c, signedOff'), Numbered(c, Seqs'),
         doc'.approved \in {0} \cup signedOff', RequestsSigned'
  PROVE  DocInv'
  <1>1. \A g \in Handlers : call'[g] = IF g = h THEN c ELSE call[g]
    BY DEF DocInv, DocTypeOK
  <1>2. ASSUME NEW g \in Handlers
        PROVE  Vouched(call'[g], signedOff') /\ Numbered(call'[g], Seqs')
    <2>1. Vouched(call[g], signedOff) /\ Numbered(call[g], Seqs)
      BY DEF DocInv
    <2>2. Vouched(call[g], signedOff') /\ Numbered(call[g], Seqs')
      BY <2>1 DEF Vouched, Numbered
    <2> QED
      BY <1>1, <2>2
  <1>3. ApprovedWasSigned'
    BY DEF ApprovedWasSigned
  <1> QED
    BY <1>2, <1>3 DEF DocInv

LEMMA SeqsSame == versions' = versions => Seqs' = Seqs
  BY DEF Seqs

\* The tables stay as they are.
LEMMA DocQuietOK ==
  ASSUME DocInv, NEW h \in Handlers, NEW c \in {Idle} \cup DocCall,
         call' = [call EXCEPT ![h] = c], overlaps' \in Nat, UNCHANGED <<docTables, day>>,
         Vouched(c, signedOff), Numbered(c, Seqs)
  PROVE  DocInv'
  <1>1. UNCHANGED <<doc, versions, minted, requests, notified, signedOff, day>>
    BY DEF docTables
  <1>2. call' \in [Handlers -> {Idle} \cup DocCall]
    BY DEF DocInv, DocTypeOK
  <1>3. DocTypeOK'
    BY <1>1, <1>2 DEF DocInv, DocTypeOK
  <1>4. VersionsDense' /\ RequestsSigned' /\ Seqs' = Seqs
    BY <1>1 DEF DocInv, VersionsDense, RequestsSigned, Seqs
  <1>5. doc'.approved \in {0} \cup signedOff'
    BY <1>1 DEF DocInv, ApprovedWasSigned
  <1> QED
    BY <1>1, <1>3, <1>4, <1>5, DocStepOK

LEMMA DocIdleOK == \A s : Vouched(Idle, s) /\ Numbered(Idle, s)
  BY DEF Vouched, Numbered, Idle

LEMMA DocReturnOK ==
  ASSUME DocInv, NEW h \in Handlers, Return(h), UNCHANGED <<docTables, day>>
  PROVE  DocInv'
  <1>1. overlaps' \in Nat
    BY DEF Return, Become, DocInv, DocTypeOK
  <1> QED
    BY <1>1, DocIdleOK, DocQuietOK DEF Return, Become

\* A call begins, not at the stages that need to be vouched for.
LEMMA DocBeginOK ==
  ASSUME DocInv, NEW h \in Handlers, NEW c \in DocCall, Begin(h, c),
         UNCHANGED <<docTables, day>>, c.entity.approved \in {0} \cup signedOff,
         c.pc \notin {"commit", "compare", "show"}
  PROVE  DocInv'
  <1>1. overlaps' \in Nat
    BY DocDisturbed DEF Begin, DocInv
  <1> QED
    BY <1>1, DocQuietOK DEF Begin, Vouched, Numbered

\* A handler goes on with what it holds.
LEMMA DocGoesOn ==
  ASSUME DocInv, NEW h \in Handlers, call[h].pc # "idle", NEW c \in DocCall,
         Become(h, c), UNCHANGED <<docTables, day>>, c.entity = call[h].entity,
         c.pc \in {"compare", "show"} /\ c.status = "APPROVED" => c.from \in signedOff,
         Numbered(c, Seqs)
  PROVE  DocInv'
  <1>1. overlaps' \in Nat
    BY DEF Become, DocInv, DocTypeOK
  <1>2. call[h].entity.approved \in {0} \cup signedOff
    BY InDocumentCall DEF DocInv, Vouched
  <1> QED
    BY <1>1, <1>2, DocQuietOK DEF Become, Vouched

-----------------------------------------------------------------------------
(* Calls that begin *)

LEMMA DocArriveKeeps ==
  ASSUME DocInv, NEW h \in Handlers, DocArrive(h)
  PROVE  DocInv'
  <1>0. /\ doc \in DocumentRow /\ doc.current \in Nat
        /\ DOMAIN versions \subseteq Nat /\ \A v \in DOMAIN versions : versions[v] \in VersionRow
    BY DEF DocInv, DocTypeOK, DocumentRow
  <1>a. doc.approved \in {0} \cup signedOff
    BY DEF DocInv, ApprovedWasSigned
  <1>1. CASE Upload(h)
    <2> DEFINE s == IF doc.status = "APPROVED" THEN "DRAFT" ELSE doc.status
    <2>1. PICK f \in Files :
            Begin(h, [Blank EXCEPT !.pc = "duplicate", !.file = f, !.status = s])
      BY <1>1 DEF Upload
    <2>2. s \in DocumentStatus
      BY <1>0 DEF DocumentRow, DocumentStatus
    <2> HIDE DEF s
    <2> DEFINE c == [Blank EXCEPT !.pc = "duplicate", !.file = f, !.status = s]
    <2>3. c \in DocCall /\ c.pc = "duplicate" /\ c.entity = NoDocument
      BY <2>2, BlankTyped DEF DocCall, Blank
    <2>4. Begin(h, c) /\ UNCHANGED <<docTables, day>>
      BY <1>1, <2>1 DEF Upload
    <2> HIDE DEF c
    <2> QED
      BY <2>3, <2>4, BlankTyped, DocBeginOK
  <1>2. CASE RollbackToVersion(h)
    <2>1. PICK v \in DOMAIN versions :
            Begin(h, [Blank EXCEPT !.pc = "latest", !.from = v,
                        !.file = versions[v].file, !.status = "DRAFT"])
      BY <1>2 DEF RollbackToVersion
    <2>2. v \in Nat /\ versions[v].file \in Files
      BY <1>0 DEF VersionRow
    <2> DEFINE c == [Blank EXCEPT !.pc = "latest", !.from = v,
                       !.file = versions[v].file, !.status = "DRAFT"]
    <2>3. c \in DocCall /\ c.pc = "latest" /\ c.entity = NoDocument
      BY <2>2, BlankTyped DEF DocCall, Blank, DocumentStatus
    <2>4. Begin(h, c) /\ UNCHANGED <<docTables, day>>
      BY <1>2, <2>1 DEF RollbackToVersion
    <2> HIDE DEF c
    <2> QED
      BY <2>3, <2>4, BlankTyped, DocBeginOK
  <1>3. CASE ArchiveVersion(h) \/ SubmitForApproval(h) \/ GetApprovalStatus(h)
    <2>1. PICK pc \in {"current", "active", "request"}, v \in Nat :
            Begin(h, [Blank EXCEPT !.pc = pc, !.from = v])
      BY <1>0, <1>3 DEF ArchiveVersion, SubmitForApproval, GetApprovalStatus
    <2> DEFINE c == [Blank EXCEPT !.pc = pc, !.from = v]
    <2>2. c \in DocCall /\ c.pc = pc /\ c.entity = NoDocument
      BY BlankTyped DEF DocCall, Blank
    <2>3. Begin(h, c) /\ UNCHANGED <<docTables, day>>
      BY <1>3, <2>1 DEF ArchiveVersion, SubmitForApproval, GetApprovalStatus
    <2> HIDE DEF c
    <2> QED
      BY <2>2, <2>3, BlankTyped, DocBeginOK
  <1>4. CASE UpdateDocument(h)
    <2>1. PICK e \in DocumentRow : /\ e.approved = doc.approved
                                   /\ Begin(h, [Blank EXCEPT !.pc = "select", !.entity = e])
      <3>1. CASE Begin(h, [Blank EXCEPT !.pc = "select", !.entity = doc])
        BY <1>0, <3>1
      <3>2. CASE \E e \in Expiries :
                   Begin(h, [Blank EXCEPT !.pc = "select",
                               !.entity = [doc EXCEPT !.expiry = e, !.status = ComputeStatus(e)]])
        <4>1. PICK e \in Expiries :
                Begin(h, [Blank EXCEPT !.pc = "select",
                            !.entity = [doc EXCEPT !.expiry = e, !.status = ComputeStatus(e)]])
          BY <3>2
        <4> DEFINE d == [doc EXCEPT !.expiry = e, !.status = ComputeStatus(e)]
        <4>2. e \in Nat /\ ComputeStatus(e) \in DocumentStatus
          BY DayAssumption, StatusTyped
        <4>3. d \in DocumentRow /\ d.approved = doc.approved
          BY <1>0, <4>2 DEF DocumentRow
        <4> HIDE DEF d
        <4>4. Begin(h, [Blank EXCEPT !.pc = "select", !.entity = d])
          BY <4>1 DEF d
        <4> QED
          BY <4>3, <4>4
      <3> QED
        BY <1>4, <3>1, <3>2 DEF UpdateDocument
    <2> DEFINE c == [Blank EXCEPT !.pc = "select", !.entity = e]
    <2>2. c \in DocCall /\ c.pc = "select" /\ c.entity = e
      BY BlankTyped DEF DocCall, Blank
    <2>3. Begin(h, c) /\ UNCHANGED <<docTables, day>>
      BY <1>4, <2>1 DEF UpdateDocument
    <2> HIDE DEF c
    <2> QED
      BY <1>a, <2>1, <2>2, <2>3, DocBeginOK
  <1>5. CASE GenerateNotifications(h)
    <2> DEFINE e == [doc EXCEPT !.status = ComputeStatus(doc.expiry)]
               had == HasNotices
               due == Due(doc.expiry, had)
               c == [Blank EXCEPT !.pc = "select", !.from = 1, !.entity = e,
                                  !.notices = had, !.told = due]
    <2>1. e \in DocumentRow /\ e.approved = doc.approved
      BY <1>0, StatusTyped DEF DocumentRow
    <2>2. had \subseteq NoticeTypes
      BY DEF HasNotices
    <2>3. due \subseteq NoticeTypes
      BY DEF Due, NoticeTypes
    <2>4. Begin(h, c) /\ UNCHANGED <<docTables, day>>
      BY <1>5 DEF GenerateNotifications
    <2> HIDE DEF e, had, due
    <2>5. c \in DocCall /\ c.pc = "select" /\ c.entity = e
      BY <2>1, <2>2, <2>3, BlankTyped DEF DocCall, Blank
    <2> HIDE DEF c
    <2> QED
      BY <1>a, <2>1, <2>4, <2>5, DocBeginOK
  <1> QED
    BY <1>1, <1>2, <1>3, <1>4, <1>5 DEF DocArrive

-----------------------------------------------------------------------------
(* Steps that only go on, or read *)

LEMMA DocReadingKeeps ==
  ASSUME DocInv, NEW h \in Handlers,
         \/ CheckDuplicate(h) \/ CheckCurrent(h) \/ CheckActive(h)
         \/ CompareStatus(h) \/ SelectDocument(h)
  PROVE  DocInv'
  <1> DEFINE c == call[h]
  <1>0. DocTypeOK
    BY DEF DocInv
  <1>c. c.pc # "idle" => c \in DocCall
    BY <1>0, InDocumentCall
  <1>r. CASE Return(h) /\ UNCHANGED <<docTables, day>>
    BY <1>r, DocReturnOK
  <1>1. ASSUME NEW pc \in {"latest", "archive", "create"}, c.pc # "idle",
               Goto(h, pc), UNCHANGED <<docTables, day>>
        PROVE  DocInv'
    <2> DEFINE d == [c EXCEPT !.pc = pc]
    <2>1. d \in DocCall /\ d.pc = pc /\ d.entity = c.entity
      BY <1>c, <1>1 DEF DocCall
    <2>2. Become(h, d)
      BY <1>1 DEF Goto
    <2> HIDE DEF d
    <2> QED
      BY <1>1, <2>1, <2>2, DocGoesOn DEF Numbered
  <1>2. CASE CompareStatus(h) /\ Goto(h, "show")
    <2> DEFINE d == [c EXCEPT !.pc = "show"]
    <2>1. c.pc = "compare" /\ Become(h, d) /\ UNCHANGED <<docTables, day>>
      BY <1>2 DEF CompareStatus, Goto, At
    <2>2. /\ d \in DocCall /\ d.pc = "show" /\ d.entity = c.entity
          /\ d.status = c.status /\ d.from = c.from
      BY <1>c, <2>1 DEF DocCall
    <2>3. c.status = "APPROVED" => c.from \in signedOff
      BY <1>c, <2>1, NotIdle DEF DocInv, Vouched
    <2> HIDE DEF d
    <2> QED
      BY <2>1, <2>2, <2>3, DocGoesOn DEF Numbered
  <1>3. CASE SelectDocument(h) /\ ~Return(h)
    <2> DEFINE columns == Dirty(c.entity, doc)
               d == [c EXCEPT !.pc = "flush", !.dirty = columns]
    <2>1. c.pc = "select" /\ Become(h, d) /\ UNCHANGED <<docTables, day>>
      BY <1>3 DEF SelectDocument, At
    <2>2. columns \subseteq DOMAIN NoDocument
      BY <1>0, DocumentDirty
    <2> HIDE DEF columns
    <2>3. d \in DocCall /\ d.pc = "flush" /\ d.entity = c.entity
      BY <1>c, <2>1, <2>2 DEF DocCall
    <2> HIDE DEF d
    <2> QED
      BY <2>1, <2>3, DocGoesOn DEF Numbered
  <1> QED
    BY <1>r, <1>1, <1>2, <1>3
    DEF CheckDuplicate, CheckCurrent, CheckActive, CompareStatus, SelectDocument, At

\* The number after the last one.
LEMMA ReadLatestKeeps ==
  ASSUME DocInv, NEW h \in Handlers, ReadLatest(h)
  PROVE  DocInv'
  <1> DEFINE c == call[h]
             n == NextSeq(Seqs)
             d == [c EXCEPT !.pc = "commit", !.seq = n]
  <1>1. c.pc = "latest" /\ Become(h, d) /\ UNCHANGED <<docTables, day>>
    BY DEF ReadLatest, At
  <1>2. c \in DocCall
    BY <1>1, InDocumentCall DEF DocInv
  <1>3. n \in Nat \ {0} /\ 1 .. (n - 1) \subseteq Seqs
    <2>1. Seqs \in SUBSET (Nat \ {0}) /\ IsFiniteSet(Seqs)
      BY SeqsFinite DEF DocInv
    <2>2. \A k \in Seqs : 1 .. k \subseteq Seqs
      BY DEF DocInv, VersionsDense, Seqs
    <2> QED
      BY <2>1, <2>2, NextFollows
  <1> HIDE DEF n
  <1>4. d \in DocCall /\ d.pc = "commit" /\ d.entity = c.entity /\ d.seq = n
    BY <1>2, <1>3 DEF DocCall
  <1>5. Numbered(d, Seqs)
    BY <1>3, <1>4 DEF Numbered
  <1> HIDE DEF d
  <1> QED
    BY <1>1, <1>4, <1>5, DocGoesOn

\* An APPROVED request signed its version.
LEMMA ReadRequestKeeps ==
  ASSUME DocInv, NEW h \in Handlers, ReadRequest(h)
  PROVE  DocInv'
  <1> DEFINE c == call[h]
             q == LatestRequest(c.from)
             d == [c EXCEPT !.pc = "compare", !.status = requests[q].status]
  <1>1. c.pc = "request" /\ UNCHANGED <<docTables, day>>
    BY DEF ReadRequest, At
  <1>2. c \in DocCall
    BY <1>1, InDocumentCall DEF DocInv
  <1>3. CASE Return(h)
    BY <1>1, <1>3, DocReturnOK
  <1>4. CASE Become(h, d) /\ requests[q].status \in Engine!Settled /\ RequestsOf(c.from) # {}
    <2>1. requests[q].status \in DocumentStatus
      BY <1>4 DEF Engine!Settled, DocumentStatus
    <2>2. d \in DocCall /\ d.pc = "compare" /\ d.entity = c.entity /\ d.from = c.from
          /\ d.status = requests[q].status
      BY <1>2, <2>1 DEF DocCall
    <2>3. requests[q].status = "APPROVED" => c.from \in signedOff
      <3>1. RequestsOf(c.from) \in SUBSET (1 .. Len(requests)) /\ Len(requests) \in Nat
        <4>1. requests \in Seq(RequestRow)
          BY DEF DocInv, DocTypeOK
        <4> QED
          BY <4>1 DEF RequestsOf
      <3>2. q \in RequestsOf(c.from)
        BY <1>4, <3>1, LastExists DEF LatestRequest
      <3> QED
        BY <3>2 DEF RequestsOf, DocInv, RequestsSigned
    <2> HIDE DEF d
    <2> QED
      BY <1>1, <1>4, <2>2, <2>3, DocGoesOn DEF Numbered
  <1> QED
    BY <1>3, <1>4 DEF ReadRequest

-----------------------------------------------------------------------------
(* Steps that write a table *)

\* The versions stay as they are.
LEMMA DocWriteOK ==
  ASSUME DocInv, NEW h \in Handlers, NEW c \in {Idle} \cup DocCall,
         call' = [call EXCEPT ![h] = c], overlaps' \in Nat, UNCHANGED <<versions, minted, day>>,
         doc' \in DocumentRow, requests' \in Seq(RequestRow), notified' \in [NoticeTypes -> Nat],
         UNCHANGED signedOff, Vouched(c, signedOff), Numbered(c, Seqs),
         doc'.approved \in {0} \cup signedOff, RequestsSigned'
  PROVE  DocInv'
  <1>1. call' \in [Handlers -> {Idle} \cup DocCall]
    BY DEF DocInv, DocTypeOK
  <1>2. DocTypeOK'
    BY <1>1 DEF DocInv, DocTypeOK
  <1>3. VersionsDense' /\ Seqs' = Seqs
    BY DEF DocInv, VersionsDense, Seqs
  <1> QED
    BY <1>2, <1>3, DocStepOK

\* The same, when the call ends, for the tables of most handlers.
LEMMA StoreOK ==
  ASSUME DocInv, NEW h \in Handlers, Return(h), doc' \in DocumentRow,
         doc'.approved \in {0} \cup signedOff, notified' \in [NoticeTypes -> Nat],
         UNCHANGED <<versions, minted, requests, day, signedOff>>
  PROVE  DocInv'
  <1>1. overlaps' \in Nat /\ call' = [call EXCEPT ![h] = Idle]
    BY DEF Return, Become, DocInv, DocTypeOK
  <1>2. requests' \in Seq(RequestRow) /\ RequestsSigned'
    BY DEF DocInv, DocTypeOK, RequestsSigned
  <1> QED
    BY <1>1, <1>2, DocIdleOK, DocWriteOK

\* An update keeps the row or stores the new one.
LEMMA StoredTyped ==
  ASSUME DocTypeOK, NEW row \in DocumentRow
  PROVE  Stored(row) \in {row, doc} /\ Stored(row) \in DocumentRow
  BY DEF Stored, DocTypeOK

LEMMA CommitVersionKeeps ==
  ASSUME DocInv, NEW h \in Handlers, CommitVersion(h)
  PROVE  DocInv'
  <1> DEFINE c == call[h]
             n == minted + 1
             row == [seq |-> c.seq, file |-> c.file, archived |-> FALSE]
  <1>0. /\ DocTypeOK /\ minted \in Nat /\ doc \in DocumentRow
        /\ DOMAIN versions \subseteq 1 .. minted
        /\ \A v \in DOMAIN versions : versions[v] \in VersionRow
    BY DEF DocInv, DocTypeOK
  <1>1. c.pc = "commit" /\ c \in DocCall
    BY <1>0, InDocumentCall DEF CommitVersion, At
  <1>2. c.seq \in Nat \ {0} /\ 1 .. (c.seq - 1) \subseteq Seqs
    BY <1>1 DEF DocInv, Numbered, DocCall
  <1>3. Return(h) /\ UNCHANGED <<requests, notified, day, signedOff>>
    BY DEF CommitVersion
  <1>4. CASE UNCHANGED <<doc, versions, minted>>
    BY <1>3, <1>4, DocReturnOK DEF docTables
  <1>5. CASE Addable(h)
    <2>1. /\ minted' = n
          /\ versions' = [v \in DOMAIN versions \cup {n} |-> IF v = n THEN row ELSE versions[v]]
          /\ doc' = [doc EXCEPT !.current = n, !.status = c.status]
          /\ c.seq \notin Seqs
      BY <1>5 DEF CommitVersion, Addable, ShowNew
    <2>2. n \in Nat /\ n \notin DOMAIN versions
      BY <1>0
    <2>3. row \in VersionRow /\ row.seq = c.seq
      BY <1>1, <1>2 DEF DocCall, VersionRow
    <2>4. doc' \in DocumentRow /\ doc'.approved = doc.approved
      BY <1>0, <1>1, <2>1, <2>2 DEF DocCall, DocumentRow
    <2> HIDE DEF row
    <2>5. /\ DOMAIN versions' = DOMAIN versions \cup {n} /\ versions'[n] = row
          /\ \A v \in DOMAIN versions : versions'[v] = versions[v]
      BY <2>1, <2>2
    <2>6. DOMAIN versions' \subseteq 1 .. minted'
      BY <1>0, <2>1, <2>5
    <2>7. \A v \in DOMAIN versions' : versions'[v] \in VersionRow
      BY <1>0, <2>3, <2>5
    <2>8. Seqs' = Seqs \cup {c.seq}
      BY <2>3, <2>5 DEF Seqs
    <2>9. call' = [call EXCEPT ![h] = Idle] /\ overlaps' \in Nat
          /\ call' \in [Handlers -> {Idle} \cup DocCall]
      BY <1>0, <1>3 DEF Return, Become, DocTypeOK
    <2>10. DocTypeOK'
      BY <1>0, <1>3, <2>1, <2>2, <2>4, <2>6, <2>7, <2>9 DEF DocTypeOK
    <2>11. ASSUME NEW v \in DOMAIN versions' PROVE 1 .. versions'[v].seq \subseteq Seqs'
      <3>1. CASE v = n
        BY <1>2, <2>3, <2>5, <2>8, <3>1
      <3>2. CASE v \in DOMAIN versions
        BY <2>5, <2>8, <3>2 DEF DocInv, VersionsDense
      <3> QED
        BY <2>5, <3>1, <3>2
    <2>12. ASSUME NEW v \in DOMAIN versions', NEW w \in DOMAIN versions',
                  versions'[v].seq = versions'[w].seq
           PROVE  v = w
      <3>1. \A u \in DOMAIN versions : versions[u].seq # c.seq
        BY <2>1 DEF Seqs
      <3> QED
        BY <2>3, <2>5, <2>12, <3>1 DEF DocInv, VersionsDense
    <2>13. VersionsDense'
      BY <2>11, <2>12 DEF VersionsDense
    <2>14. doc'.approved \in {0} \cup signedOff' /\ RequestsSigned'
      BY <1>3, <2>4 DEF DocInv, ApprovedWasSigned, RequestsSigned
    <2> QED
      BY <1>3, <2>8, <2>9, <2>10, <2>13, <2>14, DocIdleOK, DocStepOK
  <1> QED
    BY <1>4, <1>5 DEF CommitVersion

LEMMA SaveArchivedKeeps ==
  ASSUME DocInv, NEW h \in Handlers, SaveArchived(h)
  PROVE  DocInv'
  <1>1. /\ DOMAIN versions' = DOMAIN versions
        /\ \A v \in DOMAIN versions :
             versions'[v] \in {versions[v], [versions[v] EXCEPT !.archived = TRUE]}
    BY DEF SaveArchived
  <1>2. \A v \in DOMAIN versions : versions[v] \in VersionRow
    BY DEF DocInv, DocTypeOK
  <1>3. \A v \in DOMAIN versions :
          versions'[v] \in VersionRow /\ versions'[v].seq = versions[v].seq
    BY <1>1, <1>2 DEF VersionRow
  <1>4. Seqs' = Seqs /\ VersionsDense'
    BY <1>1, <1>3 DEF Seqs, DocInv, VersionsDense
  <1>5. call' = [call EXCEPT ![h] = Idle] /\ overlaps' \in Nat
        /\ call' \in [Handlers -> {Idle} \cup DocCall]
    BY DEF SaveArchived, Return, Become, DocInv, DocTypeOK
  <1>6. UNCHANGED <<doc, minted, requests, notified, day, signedOff>>
    BY DEF SaveArchived
  <1>7. DocTypeOK'
    BY <1>1, <1>3, <1>5, <1>6 DEF DocInv, DocTypeOK
  <1>8. doc'.approved \in {0} \cup signedOff' /\ RequestsSigned'
    BY <1>6 DEF DocInv, ApprovedWasSigned, RequestsSigned
  <1> QED
    BY <1>4, <1>5, <1>6, <1>7, <1>8, DocIdleOK, DocStepOK

LEMMA CreateRequestKeeps ==
  ASSUME DocInv, NEW h \in Handlers, CreateRequest(h)
  PROVE  DocInv'
  <1> DEFINE c == call[h]
             r == [version |-> c.from, status |-> "PENDING"]
             d == [c EXCEPT !.pc = "mark"]
  <1>0. DocTypeOK /\ requests \in Seq(RequestRow) /\ doc \in DocumentRow
        /\ notified \in [NoticeTypes -> Nat]
    BY DEF DocInv, DocTypeOK
  <1>1. UNCHANGED <<doc, versions, minted, notified, day, signedOff>>
    BY DEF CreateRequest
  <1>2. CASE Return(h) /\ UNCHANGED requests
    BY <1>1, <1>2, DocReturnOK DEF docTables
  <1>3. CASE requests' = Append(requests, r) /\ Goto(h, "mark")
    <2>1. c.pc = "create" /\ c \in DocCall
      BY <1>0, InDocumentCall DEF CreateRequest, At
    <2>2. d \in DocCall /\ d.pc = "mark" /\ d.entity = c.entity
      BY <2>1 DEF DocCall
    <2>3. call' = [call EXCEPT ![h] = d] /\ overlaps' \in Nat
      BY <1>0, <1>3 DEF Goto, Become, DocTypeOK
    <2> HIDE DEF d
    <2>4. Vouched(d, signedOff) /\ Numbered(d, Seqs)
      BY <2>1, <2>2, NotIdle DEF DocInv, Vouched, Numbered
    <2>5. requests' \in Seq(RequestRow) /\ RequestsSigned'
      <3>1. r \in RequestRow /\ r.status = "PENDING"
        BY <2>1, <1>0 DEF RequestRow, DocCall
      <3> QED
        BY <1>0, <1>1, <1>3, <3>1 DEF RequestsSigned, DocInv
    <2>6. doc' \in DocumentRow /\ notified' \in [NoticeTypes -> Nat]
          /\ doc'.approved \in {0} \cup signedOff
      BY <1>0, <1>1 DEF DocInv, ApprovedWasSigned
    <2> QED
      BY <1>1, <2>2, <2>3, <2>4, <2>5, <2>6, DocWriteOK
  <1> QED
    BY <1>2, <1>3 DEF CreateRequest

LEMMA MarkPendingKeeps ==
  ASSUME DocInv, NEW h \in Handlers, MarkPending(h)
  PROVE  DocInv'
  <1> DEFINE row == [doc EXCEPT !.status = "PENDING_APPROVAL"]
  <1>0. DocTypeOK /\ doc \in DocumentRow /\ notified \in [NoticeTypes -> Nat]
    BY DEF DocInv, DocTypeOK
  <1>1. row \in DocumentRow /\ row.approved = doc.approved
    BY <1>0 DEF DocumentRow, DocumentStatus
  <1>2. doc' = Stored(row) /\ Return(h)
        /\ UNCHANGED <<versions, minted, requests, notified, day, signedOff>>
    BY DEF MarkPending
  <1> HIDE DEF row
  <1>3. doc' \in DocumentRow /\ doc'.approved = doc.approved
    BY <1>0, <1>1, <1>2, StoredTyped
  <1> QED
    BY <1>0, <1>2, <1>3, StoreOK DEF DocInv, ApprovedWasSigned

\* The decision shown is one of a version that was signed.
LEMMA ShowDecisionKeeps ==
  ASSUME DocInv, NEW h \in Handlers, ShowDecision(h)
  PROVE  DocInv'
  <1> DEFINE c == call[h]
             yes == [doc EXCEPT !.status = "APPROVED", !.approved = c.from]
             no  == [doc EXCEPT !.status = "REJECTED"]
  <1>0. DocTypeOK /\ doc \in DocumentRow /\ notified \in [NoticeTypes -> Nat]
    BY DEF DocInv, DocTypeOK
  <1>1. c.pc = "show" /\ c \in DocCall /\ c # Idle
    BY <1>0, InDocumentCall DEF ShowDecision, At
  <1>2. /\ yes \in DocumentRow /\ yes.approved = c.from
        /\ no \in DocumentRow /\ no.approved = doc.approved
    BY <1>0, <1>1 DEF DocumentRow, DocumentStatus, DocCall
  <1>3. /\ doc' = IF c.status = "APPROVED" THEN Stored(yes) ELSE Stored(no)
        /\ Return(h) /\ UNCHANGED <<versions, minted, requests, notified, day, signedOff>>
    BY DEF ShowDecision
  <1>4. c.status = "APPROVED" => c.from \in signedOff
    BY <1>1 DEF DocInv, Vouched
  <1> HIDE DEF yes, no
  <1>5. doc.approved \in {0} \cup signedOff
    BY DEF DocInv, ApprovedWasSigned
  <1>6. doc' \in DocumentRow /\ doc'.approved \in {0} \cup signedOff
    BY <1>0, <1>2, <1>3, <1>4, <1>5, StoredTyped
  <1> QED
    BY <1>0, <1>3, <1>6, StoreOK

\* A save may bring back an old document, but one that was true.
LEMMA FlushDocumentKeeps ==
  ASSUME DocInv, NEW h \in Handlers, FlushDocument(h)
  PROVE  DocInv'
  <1> DEFINE c == call[h]
             row == Merge(doc, c.entity, c.dirty)
             d == [c EXCEPT !.pc = "notify"]
  <1>0. /\ DocTypeOK /\ doc \in DocumentRow /\ notified \in [NoticeTypes -> Nat]
        /\ requests \in Seq(RequestRow)
    BY DEF DocInv, DocTypeOK
  <1>1. c.pc = "flush" /\ c \in DocCall /\ c # Idle
    BY <1>0, InDocumentCall DEF FlushDocument, At
  <1>2. c.entity \in DocumentRow /\ c.entity.approved \in {0} \cup signedOff
    BY <1>1 DEF DocCall, DocInv, Vouched
  <1>3. row \in DocumentRow /\ row.approved \in {doc.approved, c.entity.approved}
    BY <1>0, <1>2, DocumentMerged
  <1>4. doc' \in {doc, Stored(row)} /\ (Return(h) \/ Goto(h, "notify"))
        /\ UNCHANGED <<versions, minted, requests, notified, day, signedOff>>
    BY DEF FlushDocument
  <1> HIDE DEF row
  <1>5. doc' \in DocumentRow /\ doc'.approved \in {0} \cup signedOff
    BY <1>0, <1>2, <1>3, <1>4, StoredTyped DEF DocInv, ApprovedWasSigned
  <1>6. CASE Return(h)
    BY <1>0, <1>4, <1>5, <1>6, StoreOK
  <1>7. CASE Goto(h, "notify")
    <2>1. d \in DocCall /\ d.pc = "notify" /\ d.entity = c.entity
      BY <1>1 DEF DocCall
    <2>2. call' = [call EXCEPT ![h] = d] /\ overlaps' \in Nat
      BY <1>0, <1>7 DEF Goto, Become, DocTypeOK
    <2> HIDE DEF d
    <2>3. Vouched(d, signedOff) /\ Numbered(d, Seqs)
      BY <1>2, <2>1 DEF Vouched, Numbered
    <2>4. requests' \in Seq(RequestRow) /\ RequestsSigned' /\ notified' \in [NoticeTypes -> Nat]
      BY <1>0, <1>4 DEF DocInv, RequestsSigned
    <2> QED
      BY <1>4, <1>5, <2>1, <2>2, <2>3, <2>4, DocWriteOK
  <1> QED
    BY <1>4, <1>6, <1>7

LEMMA InsertNoticesKeeps ==
  ASSUME DocInv, NEW h \in Handlers, InsertNotices(h)
  PROVE  DocInv'
  <1>1. doc \in DocumentRow /\ notified \in [NoticeTypes -> Nat]
    BY DEF DocInv, DocTypeOK
  <1>2. Return(h) /\ UNCHANGED <<doc, versions, minted, requests, day, signedOff>>
    BY DEF InsertNotices
  <1>3. notified' \in [NoticeTypes -> Nat]
    BY <1>1 DEF InsertNotices
  <1> QED
    BY <1>1, <1>2, <1>3, StoreOK DEF DocInv, ApprovedWasSigned

-----------------------------------------------------------------------------
(* Steps of no handler *)

\* No handler moves; the numbers that handlers hold still follow what there is.
LEMMA OutsideOK ==
  ASSUME DocInv, UNCHANGED call, DocTypeOK', VersionsDense', RequestsSigned',
         signedOff \subseteq signedOff', doc'.approved \in {0} \cup signedOff',
         \A h \in Handlers : Numbered(call[h], Seqs')
  PROVE  DocInv'
  <1>1. ASSUME NEW h \in Handlers PROVE Vouched(call[h], signedOff')
    BY DEF DocInv, Vouched
  <1> QED
    BY <1>1 DEF DocInv, ApprovedWasSigned

LEMMA CreateDocumentKeeps ==
  ASSUME DocInv, CreateDocument
  PROVE  DocInv'
  <1>0. DocTypeOK
    BY DEF DocInv
  <1>1. UNCHANGED <<versions, minted, requests, notified, day, signedOff, call, overlaps>>
    BY DEF CreateDocument, serverVars
  <1>2. doc' \in DocumentRow /\ doc'.approved = 0
    <2>1. PICK e \in Expiries \cup {0} :
            doc' = [NoDocument EXCEPT !.kept = TRUE, !.expiry = e, !.status = ComputeStatus(e)]
      BY DEF CreateDocument
    <2>2. e \in Nat /\ ComputeStatus(e) \in DocumentStatus
      BY DayAssumption, StatusTyped
    <2> QED
      BY <2>1, <2>2, BlankTyped DEF DocumentRow
  <1>3. DocTypeOK'
    BY <1>0, <1>1, <1>2 DEF DocTypeOK
  <1>4. VersionsDense' /\ RequestsSigned' /\ Seqs' = Seqs
    BY <1>1 DEF DocInv, VersionsDense, RequestsSigned, Seqs
  <1>5. \A h \in Handlers : Numbered(call[h], Seqs')
    BY <1>4 DEF DocInv
  <1> QED
    BY <1>1, <1>2, <1>3, <1>4, <1>5, OutsideOK

\* A transaction that numbered a version after another one has locked that one.
LEMMA RemoveDocumentKeeps ==
  ASSUME DocInv, RemoveDocument
  PROVE  DocInv'
  <1>0. DocTypeOK
    BY DEF DocInv
  <1>1. /\ doc' = NoDocument /\ versions' = <<>> /\ notified' = [t \in NoticeTypes |-> 0]
        /\ UNCHANGED <<minted, requests, day, call, signedOff>>
        /\ \A h \in Handlers : ~(call[h].pc = "commit" /\ call[h].seq > 1)
    BY DEF RemoveDocument, At
  <1>2. DOMAIN versions' = {}
    BY <1>1
  <1>3. overlaps' \in Nat
    BY <1>0, DocDisturbed DEF RemoveDocument
  <1>4. notified' \in [NoticeTypes -> Nat]
    BY <1>1
  <1>5. DocTypeOK'
    BY <1>0, <1>1, <1>2, <1>3, <1>4, BlankTyped DEF DocTypeOK
  <1>6. VersionsDense' /\ RequestsSigned'
    BY <1>1, <1>2 DEF VersionsDense, DocInv, RequestsSigned
  <1>7. ASSUME NEW h \in Handlers PROVE Numbered(call[h], Seqs')
    <2>1. CASE call[h].pc # "commit"
      BY <2>1 DEF Numbered
    <2>2. CASE call[h].pc = "commit"
      <3>1. call[h] \in DocCall
        BY <1>0, <2>2, InDocumentCall
      <3>2. call[h].seq \in Nat /\ call[h].seq > 0 /\ ~(call[h].seq > 1)
        BY <1>1, <2>2, <3>1 DEF DocCall, DocInv, Numbered
      <3>3. call[h].seq = 1
        BY <3>2
      <3> QED
        BY <3>3 DEF Numbered
    <2> QED
      BY <2>1, <2>2
  <1>8. doc'.approved \in {0} \cup signedOff'
    BY <1>1, BlankTyped
  <1> QED
    BY <1>1, <1>5, <1>6, <1>7, <1>8, OutsideOK

\* The engine decides: an approval signs the version.
LEMMA EngineMovesKeeps ==
  ASSUME DocInv, EngineMoves
  PROVE  DocInv'
  <1>0. DocTypeOK /\ requests \in Seq(RequestRow) /\ signedOff \subseteq Nat
    BY DEF DocInv, DocTypeOK
  <1>1. UNCHANGED <<doc, versions, minted, notified, day, call, overlaps>>
    BY DEF EngineMoves, serverVars
  <1>2. PICK q \in DOMAIN requests : \E s \in Engine!Moves(requests[q].status) :
          /\ requests' = [requests EXCEPT ![q].status = s]
          /\ signedOff' = IF s = "APPROVED" THEN signedOff \cup {requests[q].version}
                                            ELSE signedOff
    BY DEF EngineMoves
  <1>3. PICK s \in Engine!Moves(requests[q].status) :
          /\ requests' = [requests EXCEPT ![q].status = s]
          /\ signedOff' = IF s = "APPROVED" THEN signedOff \cup {requests[q].version}
                                            ELSE signedOff
    BY <1>2
  <1>4. requests[q] \in RequestRow /\ Len(requests) \in Nat /\ q \in 1 .. Len(requests)
    BY <1>0
  <1>5. s \in {"PENDING", "IN_PROGRESS", "APPROVED", "REJECTED", "DELETED"}
    BY <1>4 DEF Engine!Moves, Engine!Open, Engine!Settled, RequestRow
  <1> DEFINE r == [requests[q] EXCEPT !.status = s]
  <1>6. r \in RequestRow /\ r.status = s /\ r.version = requests[q].version
    BY <1>4, <1>5 DEF RequestRow
  <1>7. requests' = [requests EXCEPT ![q] = r]
    BY <1>3
  <1> HIDE DEF r
  <1>8. /\ requests' \in Seq(RequestRow) /\ DOMAIN requests' = DOMAIN requests
        /\ \A i \in DOMAIN requests : requests'[i] = IF i = q THEN r ELSE requests[i]
    BY <1>0, <1>4, <1>6, <1>7, ExceptSeq
  <1>9. signedOff \subseteq signedOff' /\ signedOff' \subseteq Nat
    BY <1>0, <1>3, <1>4 DEF RequestRow
  <1>10. RequestsSigned'
    BY <1>3, <1>6, <1>8, <1>9 DEF RequestsSigned, DocInv
  <1>11. DocTypeOK'
    BY <1>0, <1>1, <1>8, <1>9 DEF DocTypeOK
  <1>12. VersionsDense' /\ Seqs' = Seqs
    BY <1>1 DEF DocInv, VersionsDense, Seqs
  <1>13. doc'.approved \in {0} \cup signedOff'
    BY <1>1, <1>9 DEF DocInv, ApprovedWasSigned
  <1>14. \A h \in Handlers : Numbered(call[h], Seqs')
    BY <1>12 DEF DocInv
  <1> QED
    BY <1>1, <1>9, <1>10, <1>11, <1>12, <1>13, <1>14, OutsideOK

LEMMA TickKeeps ==
  ASSUME DocInv, Tick
  PROVE  DocInv'
  <1>1. UNCHANGED <<doc, versions, minted, requests, notified, signedOff, call, overlaps>>
    BY DEF Tick, docTables, serverVars
  <1>2. day' \in Nat
    BY DEF Tick, DocInv, DocTypeOK
  <1>3. DocTypeOK'
    BY <1>1, <1>2 DEF DocInv, DocTypeOK
  <1> QED
    BY <1>1, <1>3 DEF DocInv, VersionsDense, ApprovedWasSigned, RequestsSigned, Seqs

-----------------------------------------------------------------------------
LEMMA DocInitOK == DocInit => DocInv
  <1> SUFFICES ASSUME DocInit PROVE DocInv
    OBVIOUS
  <1>1. /\ doc = NoDocument /\ DOMAIN versions = {} /\ minted = 0 /\ requests = <<>>
        /\ day = 0 /\ signedOff = {} /\ overlaps = 0
        /\ \A h \in Handlers : call[h] = Idle
    BY DEF DocInit, ServerInit
  <1>2. notified \in [NoticeTypes -> Nat] /\ call \in [Handlers -> {Idle} \cup DocCall]
    BY DEF DocInit, ServerInit
  <1>3. requests \in Seq(RequestRow) /\ DOMAIN requests = {}
    BY <1>1
  <1>4. DocTypeOK
    BY <1>1, <1>2, <1>3, BlankTyped DEF DocTypeOK
  <1> QED
    BY <1>1, <1>3, <1>4, DocIdleOK, BlankTyped
    DEF DocInv, VersionsDense, ApprovedWasSigned, RequestsSigned

LEMMA DocNextKeeps == DocInv /\ [DocNext]_docVars => DocInv'
  <1> SUFFICES ASSUME DocInv, [DocNext]_docVars PROVE DocInv'
    OBVIOUS
  <1>1. CASE UNCHANGED docVars
    BY <1>1 DEF docVars, docTables, serverVars, DocInv, DocTypeOK, VersionsDense,
                ApprovedWasSigned, RequestsSigned, Seqs
  <1>2. ASSUME NEW h \in Handlers, DocContinue(h) PROVE DocInv'
    BY <1>2, DocReadingKeeps, ReadLatestKeeps, ReadRequestKeeps, CommitVersionKeeps,
       SaveArchivedKeeps, CreateRequestKeeps, MarkPendingKeeps, ShowDecisionKeeps,
       FlushDocumentKeeps, InsertNoticesKeeps
    DEF DocContinue
  <1>3. ASSUME NEW h \in Handlers, DocCrash(h) PROVE DocInv'
    <2>1. /\ call' = [call EXCEPT ![h] = Idle] /\ overlaps' \in Nat
          /\ UNCHANGED <<docTables, day>>
      BY <1>3, DocDisturbed DEF DocCrash, Crash, DocInv
    <2> QED
      BY <2>1, DocIdleOK, DocQuietOK
  <1> QED
    BY <1>1, <1>2, <1>3, DocArriveKeeps, CreateDocumentKeeps, RemoveDocumentKeeps,
       EngineMovesKeeps, TickKeeps
    DEF DocNext

LEMMA DocAlways == DocSpec => []DocInv
  BY DocInitOK, DocNextKeeps, PTL DEF DocSpec

\* The versions of a document are numbered 1, 2, 3, ... without a gap and without a
\* number twice, whatever uploads, rollbacks, removals and crashes overlap
\* (document-versions.service.ts, which locks the latest version and relies on the
\* unique index UQ_DOCVER_SEQ).
THEOREM VersionsNumbered == DocSpec => []VersionsDense
  BY DocAlways, PTL DEF DocInv

\* The version a document names as approved was approved by the engine, also after
\* saves that brought back an old document (document-approval.service.ts,
\* documents.service.ts).
THEOREM ApprovedSigned == DocSpec => []ApprovedWasSigned
  BY DocAlways, PTL DEF DocInv

-----------------------------------------------------------------------------
(* Calls that run alone *)

\* The document shows its newest version; an approved one shows what was
\* approved; a version has at most one request that is open.
DocRowsAgree ==
  /\ \A v \in DOMAIN versions :
       /\ doc.kept /\ doc.current \in DOMAIN versions
       /\ versions[v].seq <= versions[doc.current].seq
       /\ ~versions[doc.current].archived
  /\ doc.status = "APPROVED" => doc.approved = doc.current
  /\ \A v : \A q, r \in ActiveRequests(v) : q = r

Numbering == {"duplicate", "latest", "commit"}
Asking    == {"request", "compare", "show"}
Saving    == {"select", "flush"}

\* What a handler that was never disturbed knows of the tables at each await.
DocKnows(c) ==
  /\ c.pc \in Numbering => c.status # "APPROVED"
  /\ c.pc = "commit" => c.seq = NextSeq(Seqs)
  /\ c.pc = "archive" /\ c.from \in DOMAIN versions => c.from # doc.current
  /\ c.pc = "create" => ActiveRequests(c.from) = {}
  /\ c.pc \in Asking => c.from = doc.current
  /\ c.pc \in Saving =>
       /\ doc.kept /\ c.entity.kept
       /\ c.entity.current = doc.current /\ c.entity.approved = doc.approved
       /\ c.entity.status = "APPROVED" => c.entity.approved = c.entity.current
  /\ c.pc = "flush" => c.dirty = Dirty(c.entity, doc)

DocUndisturbed == DocRowsAgree /\ \A h \in Handlers : DocKnows(call[h])

DocSerial == DocTypeOK /\ HandlersOK /\ (Calm => DocUndisturbed)

\* The same, seen by the one handler that runs.
DocNow(c) == DocRowsAgree /\ DocKnows(c)

LEMMA DocIdle == DocKnows(Idle) /\ DocKnows(Idle)'
  BY DEF Idle, DocKnows, Numbering, Asking, Saving

LEMMA DocSerialStep ==
  ASSUME DocSerial, DocTypeOK', NEW h \in Handlers, NEW c, Moves(h, c),
         Calm /\ DocNow(call[h]) => DocNow(c)'
  PROVE  DocSerial'
  <1>1. /\ HandlersOK' /\ call'[h] = c /\ \A g \in Handlers \ {h} : call'[g] = call[g]
        /\ Calm' => Calm /\ \A g \in Handlers \ {h} : call[g].pc = "idle"
    BY Moved DEF DocSerial
  <1>2. SUFFICES ASSUME Calm' PROVE DocUndisturbed'
    BY <1>1 DEF DocSerial
  <1>3. DocNow(c)'
    BY <1>1, <1>2 DEF DocSerial, DocUndisturbed, DocNow
  <1>4. ASSUME NEW g \in Handlers PROVE DocKnows(call[g])'
    <2>1. CASE g = h
      BY <1>1, <1>3, <2>1 DEF DocNow
    <2>2. CASE g # h
      <3>1. call'[g].pc = "idle"
        BY <1>1, <1>2, <2>2
      <3> QED
        BY <3>1 DEF DocKnows, Numbering, Asking, Saving
    <2> QED
      BY <2>1, <2>2
  <1> QED
    BY <1>3, <1>4 DEF DocUndisturbed, DocNow

LEMMA RowsAsTheyAre ==
  ASSUME UNCHANGED <<doc, versions, requests>>
  PROVE  /\ DocRowsAgree => DocRowsAgree'
         /\ \A c : DocKnows(c) => DocKnows(c)'
  <1>1. Seqs' = Seqs
    BY DEF Seqs
  <1>2. ASSUME NEW v PROVE ActiveRequests(v)' = ActiveRequests(v)
    BY DEF ActiveRequests, RequestsOf
  <1>3. DocRowsAgree => DocRowsAgree'
    BY <1>2 DEF DocRowsAgree
  <1>4. ASSUME NEW c, DocKnows(c) PROVE DocKnows(c)'
    BY <1>1, <1>2, <1>4 DEF DocKnows
  <1> QED
    BY <1>3, <1>4

\* A step that writes no table: what it knows is judged by the rows as they are.
LEMMA DocSerialReads ==
  ASSUME DocSerial, DocTypeOK', NEW h \in Handlers, NEW c, Moves(h, c),
         UNCHANGED <<doc, versions, requests>>,
         Calm /\ DocNow(call[h]) => DocKnows(c)
  PROVE  DocSerial'
  BY RowsAsTheyAre, DocSerialStep DEF DocNow

LEMMA DocSerialEnds ==
  ASSUME DocSerial, DocTypeOK', NEW h \in Handlers, UNCHANGED <<doc, versions, requests>>,
         DocCrash(h) \/ (Return(h) /\ Running(h))
  PROVE  DocSerial'
  <1>1. Moves(h, Idle)
    BY BecomeMoves, CrashMoves DEF Return, DocCrash
  <1> QED
    BY <1>1, DocIdle, DocSerialReads

\* The handler of a step that is not its first.
LEMMA DocRuns ==
  ASSUME DocSerial, NEW h \in Handlers, call[h].pc # "idle"
  PROVE  call[h] \in DocCall /\ Running(h)
  BY InDocumentCall DEF DocSerial, Running, At

LEMMA ExpiryStatus == \A e : ComputeStatus(e) # "APPROVED"
  BY DEF ComputeStatus

-----------------------------------------------------------------------------
(* One step per action, for calls that run alone *)

LEMMA DocSerialArrives ==
  ASSUME DocSerial, DocTypeOK', NEW h \in Handlers, DocArrive(h)
  PROVE  DocSerial'
  <1>1. UNCHANGED <<doc, versions, requests>>
    BY DEF DocArrive, Upload, RollbackToVersion, ArchiveVersion, SubmitForApproval,
       GetApprovalStatus, UpdateDocument, GenerateNotifications, docTables
  <1>2. ASSUME NEW c, Begin(h, c), DocRowsAgree => DocKnows(c) PROVE DocSerial'
    BY <1>1, <1>2, BeginMoves, DocSerialReads DEF DocNow
  <1>3. doc \in DocumentRow
    BY DEF DocSerial, DocTypeOK
  <1> USE DEF DocKnows, Numbering, Asking, Saving
  <1>4. CASE Upload(h)
    <2>1. PICK f, s : /\ Begin(h, [Blank EXCEPT !.pc = "duplicate", !.file = f, !.status = s])
                      /\ s # "APPROVED"
      <3>1. PICK s : s = IF doc.status = "APPROVED" THEN "DRAFT" ELSE doc.status
        OBVIOUS
      <3>2. PICK f \in Files : Begin(h, [Blank EXCEPT !.pc = "duplicate", !.file = f, !.status = s])
        BY <1>4, <3>1 DEF Upload
      <3>3. s # "APPROVED"
        BY <3>1
      <3> QED
        BY <3>2, <3>3, Zenon
    <2>2. PICK c : c = [Blank EXCEPT !.pc = "duplicate", !.file = f, !.status = s]
      OBVIOUS
    <2>3. c.pc = "duplicate" /\ c.status = s
      BY <2>2 DEF Blank
    <2> QED
      BY <1>2, <2>1, <2>2, <2>3
  <1>5. CASE RollbackToVersion(h)
    <2>1. PICK v, f : Begin(h, [Blank EXCEPT !.pc = "latest", !.from = v,
                                             !.file = f, !.status = "DRAFT"])
      BY <1>5 DEF RollbackToVersion
    <2>2. PICK c : c = [Blank EXCEPT !.pc = "latest", !.from = v,
                                     !.file = f, !.status = "DRAFT"]
      OBVIOUS
    <2>3. c.pc = "latest" /\ c.status = "DRAFT"
      BY <2>2 DEF Blank
    <2> QED
      BY <1>2, <2>1, <2>2, <2>3
  <1>6. CASE ArchiveVersion(h) \/ SubmitForApproval(h) \/ GetApprovalStatus(h)
    <2>1. PICK pc \in {"current", "active", "request"}, v \in {doc.current} \cup DOMAIN versions :
            /\ Begin(h, [Blank EXCEPT !.pc = pc, !.from = v])
            /\ pc = "request" => v = doc.current
      BY <1>6 DEF ArchiveVersion, SubmitForApproval, GetApprovalStatus
    <2>2. PICK c : c = [Blank EXCEPT !.pc = pc, !.from = v]
      OBVIOUS
    <2>3. c.pc = pc /\ c.from = v
      BY <2>2 DEF Blank
    <2> QED
      BY <1>2, <2>1, <2>2, <2>3
  <1>7. CASE UpdateDocument(h) \/ GenerateNotifications(h)
    <2>1. PICK c, e : /\ Begin(h, c) /\ c.pc = "select" /\ c.entity = e /\ doc.kept
                      /\ e.kept = doc.kept /\ e.current = doc.current
                      /\ e.approved = doc.approved
                      /\ e.status = "APPROVED" => doc.status = "APPROVED"
      <3>1. CASE UpdateDocument(h)
        <4>1. PICK e : /\ Begin(h, [Blank EXCEPT !.pc = "select", !.entity = e])
                       /\ \/ e = doc
                          \/ \E x : e = [doc EXCEPT !.expiry = x, !.status = ComputeStatus(x)]
          BY <3>1 DEF UpdateDocument
        <4>2. PICK c : c = [Blank EXCEPT !.pc = "select", !.entity = e]
          OBVIOUS
        <4>3. c.pc = "select" /\ c.entity = e
          BY <4>2 DEF Blank
        <4>4. /\ e.kept = doc.kept /\ e.current = doc.current /\ e.approved = doc.approved
              /\ e.status = "APPROVED" => doc.status = "APPROVED"
          <5>1. CASE e = doc
            BY <5>1
          <5>2. ASSUME NEW x, e = [doc EXCEPT !.expiry = x, !.status = ComputeStatus(x)]
                PROVE  /\ e.kept = doc.kept /\ e.current = doc.current
                       /\ e.approved = doc.approved /\ e.status = ComputeStatus(x)
            BY <1>3, <5>2 DEF DocumentRow
          <5> QED
            BY <4>1, <5>1, <5>2, ExpiryStatus
        <4> QED
          BY <3>1, <4>1, <4>2, <4>3, <4>4 DEF UpdateDocument
      <3>2. CASE GenerateNotifications(h)
        <4>1. PICK e, n, t : /\ Begin(h, [Blank EXCEPT !.pc = "select", !.from = 1, !.entity = e,
                                                       !.notices = n, !.told = t])
                             /\ e = [doc EXCEPT !.status = ComputeStatus(doc.expiry)]
          BY <3>2 DEF GenerateNotifications
        <4>2. PICK c : c = [Blank EXCEPT !.pc = "select", !.from = 1, !.entity = e,
                                         !.notices = n, !.told = t]
          OBVIOUS
        <4>3. c.pc = "select" /\ c.entity = e
          BY <4>2 DEF Blank
        <4>4. /\ e.kept = doc.kept /\ e.current = doc.current /\ e.approved = doc.approved
              /\ e.status = "APPROVED" => doc.status = "APPROVED"
          BY <1>3, <4>1, ExpiryStatus DEF DocumentRow
        <4> QED
          BY <3>2, <4>1, <4>2, <4>3, <4>4 DEF GenerateNotifications
      <3> QED
        BY <1>7, <3>1, <3>2
    <2>2. DocRowsAgree => DocKnows(c)
      BY <2>1 DEF DocRowsAgree
    <2> QED
      BY <1>2, <2>1, <2>2
  <1> QED
    BY <1>4, <1>5, <1>6, <1>7 DEF DocArrive

LEMMA DocReadingSteps ==
  ASSUME DocSerial, DocTypeOK', NEW h \in Handlers,
         \/ CheckDuplicate(h) \/ ReadLatest(h) \/ CheckCurrent(h) \/ CheckActive(h)
         \/ ReadRequest(h) \/ CompareStatus(h) \/ SelectDocument(h)
  PROVE  DocSerial'
  <1>1. PICK c : c = call[h]
    OBVIOUS
  <1>2. /\ UNCHANGED <<doc, versions, requests>>
        /\ c.pc \in {"duplicate", "latest", "current", "active", "request", "compare", "select"}
    BY <1>1 DEF CheckDuplicate, ReadLatest, CheckCurrent, CheckActive, ReadRequest,
       CompareStatus, SelectDocument, At, docTables
  <1>3. c \in DocCall /\ Running(h)
    BY <1>1, <1>2, DocRuns
  <1>4. CASE Return(h)
    BY <1>2, <1>3, <1>4, DocSerialEnds
  <1>5. ASSUME NEW d, Become(h, d), DocNow(c) => DocKnows(d) PROVE DocSerial'
    BY <1>1, <1>2, <1>3, <1>5, BecomeMoves, DocSerialReads
  <1>6. ASSUME NEW pc, Goto(h, pc)
        PROVE  \E d : /\ Become(h, d) /\ d.pc = pc
                      /\ d.from = c.from /\ d.status = c.status /\ d.entity = c.entity
    <2>1. PICK d : d = [c EXCEPT !.pc = pc]
      OBVIOUS
    <2> QED
      BY <1>1, <1>3, <1>6, <2>1 DEF Goto, DocCall
  <1> USE DEF DocNow, DocKnows, Numbering, Asking, Saving
  <1>7. CASE CheckDuplicate(h)
    <2>1. c.pc = "duplicate" /\ (Return(h) \/ Goto(h, "latest"))
      BY <1>1, <1>7 DEF CheckDuplicate, At
    <2> QED
      BY <1>4, <1>5, <1>6, <2>1
  <1>8. CASE ReadLatest(h)
    <2>1. PICK d : d = [c EXCEPT !.pc = "commit", !.seq = NextSeq(Seqs)]
      OBVIOUS
    <2>2. c.pc = "latest" /\ Become(h, d)
      BY <1>1, <1>8, <2>1 DEF ReadLatest, At
    <2>3. d.pc = "commit" /\ d.seq = NextSeq(Seqs) /\ d.status = c.status
      BY <1>3, <2>1 DEF DocCall
    <2> QED
      BY <1>5, <2>2, <2>3
  <1>9. CASE CheckCurrent(h)
    <2>1. \/ Return(h)
          \/ Goto(h, "archive") /\ ~(doc.kept /\ doc.current = c.from)
      BY <1>1, <1>9 DEF CheckCurrent
    <2>2. CASE Return(h)
      BY <1>4, <2>2
    <2>3. CASE Goto(h, "archive") /\ ~(doc.kept /\ doc.current = c.from)
      <3>1. PICK d : Become(h, d) /\ d.pc = "archive" /\ d.from = c.from
        BY <1>6, <2>3
      <3>2. DocRowsAgree => (c.from \in DOMAIN versions => c.from # doc.current)
        BY <2>3 DEF DocRowsAgree
      <3> QED
        BY <1>5, <3>1, <3>2
    <2> QED
      BY <2>1, <2>2, <2>3
  <1>10. CASE CheckActive(h)
    <2>1. Return(h) \/ (Goto(h, "create") /\ ActiveRequests(c.from) = {})
      BY <1>1, <1>10 DEF CheckActive
    <2>2. CASE Goto(h, "create") /\ ActiveRequests(c.from) = {}
      <3>1. PICK d : Become(h, d) /\ d.pc = "create" /\ d.from = c.from
        BY <1>6, <2>2
      <3> QED
        BY <1>5, <2>2, <3>1
    <2> QED
      BY <1>4, <2>1, <2>2
  <1>11. CASE ReadRequest(h)
    <2>1. c.pc = "request" /\ (Return(h) \/ \E s : Become(h, [c EXCEPT !.pc = "compare", !.status = s]))
      BY <1>1, <1>11 DEF ReadRequest, At
    <2>2. CASE \E s : Become(h, [c EXCEPT !.pc = "compare", !.status = s])
      <3>1. PICK s : Become(h, [c EXCEPT !.pc = "compare", !.status = s])
        BY <2>2
      <3>2. PICK d : d = [c EXCEPT !.pc = "compare", !.status = s]
        OBVIOUS
      <3>3. d.pc = "compare" /\ d.from = c.from
        BY <1>3, <3>2 DEF DocCall
      <3> QED
        BY <1>5, <2>1, <3>1, <3>2, <3>3
    <2> QED
      BY <1>4, <2>1, <2>2
  <1>12. CASE CompareStatus(h)
    <2>1. c.pc = "compare" /\ (Return(h) \/ Goto(h, "show"))
      BY <1>1, <1>12 DEF CompareStatus, At
    <2> QED
      BY <1>4, <1>5, <1>6, <2>1
  <1>13. CASE SelectDocument(h)
    <2>1. PICK changed : changed = Dirty(c.entity, doc)
      OBVIOUS
    <2>2. PICK d : d = [c EXCEPT !.pc = "flush", !.dirty = changed]
      OBVIOUS
    <2>3. c.pc = "select" /\ (Return(h) \/ Become(h, d))
      BY <1>1, <1>13, <2>1, <2>2 DEF SelectDocument, At
    <2>4. d.pc = "flush" /\ d.entity = c.entity /\ d.dirty = changed
      BY <1>3, <2>2 DEF DocCall
    <2> QED
      BY <1>4, <1>5, <2>1, <2>3, <2>4
  <1> QED
    BY <1>7, <1>8, <1>9, <1>10, <1>11, <1>12, <1>13

\* The number of a new version is greater than those in use.
LEMMA NextIsGreatest ==
  ASSUME DocTypeOK
  PROVE  \A n \in Seqs : n <= NextSeq(Seqs)
  <1>1. PICK S : S = Seqs
    OBVIOUS
  <1>2. S \subseteq Nat /\ IsFiniteSet(S)
    BY <1>1, SeqsFinite
  <1>3. CASE S # {}
    <2>1. \E x \in S : \A y \in S : y <= x
      BY <1>2, <1>3, GreatestOfAny
    <2>2. PICK top : top = CHOOSE n \in S : \A m \in S : m <= n
      OBVIOUS
    <2>3. top \in S /\ \A y \in S : y <= top
      BY <2>1, <2>2
    <2>4. NextSeq(S) = 1 + top
      BY <1>3, <2>2 DEF NextSeq
    <2>5. \A n \in S : n <= NextSeq(S)
      BY <1>2, <2>3, <2>4
    <2> QED
      BY <1>1, <2>5
  <1> QED
    BY <1>1, <1>3

LEMMA DocCommitStep ==
  ASSUME DocSerial, DocTypeOK', NEW h \in Handlers, CommitVersion(h)
  PROVE  DocSerial'
  <1>1. PICK c : c = call[h]
    OBVIOUS
  <1>2. c.pc = "commit" /\ Return(h) /\ UNCHANGED requests
    BY <1>1 DEF CommitVersion, At
  <1>3. c \in DocCall /\ Running(h)
    BY <1>1, <1>2, DocRuns
  <1>4. CASE UNCHANGED <<doc, versions>>
    BY <1>2, <1>3, <1>4, DocSerialEnds
  <1>5. CASE ~UNCHANGED <<doc, versions>>
    <2>1. PICK new : new = minted + 1
      OBVIOUS
    <2>2. PICK row : row = [seq |-> c.seq, file |-> c.file, archived |-> FALSE]
      OBVIOUS
    <2>3. /\ doc.kept /\ doc' = [doc EXCEPT !.current = new, !.status = c.status]
          /\ versions' = [v \in DOMAIN versions \cup {new} |->
                            IF v = new THEN row ELSE versions[v]]
      BY <1>1, <1>5, <2>1, <2>2 DEF CommitVersion, Addable, ShowNew
    <2>4. new \notin DOMAIN versions
      <3>1. DOMAIN versions \subseteq 1 .. minted /\ minted \in Nat
        BY DEF DocSerial, DocTypeOK
      <3> QED
        BY <2>1, <3>1
    <2>5. doc'.kept /\ doc'.current = new /\ doc'.status = c.status
      BY <2>3 DEF DocSerial, DocTypeOK, DocumentRow
    <2>6. ASSUME DocNow(c) PROVE DocRowsAgree'
      <3>1. c.status # "APPROVED" /\ c.seq = NextSeq(Seqs)
        BY <1>2, <2>6 DEF DocNow, DocKnows, Numbering
      <3>2. versions'[new].seq = NextSeq(Seqs) /\ ~versions'[new].archived
        BY <2>2, <2>3, <3>1
      <3>3. ASSUME NEW v \in DOMAIN versions'
            PROVE  versions'[v].seq <= versions'[new].seq
        <4>1. CASE v = new
          BY <3>2, <4>1, SeqsFinite, NextFollows DEF DocSerial, DocTypeOK, VersionRow
        <4>2. CASE v # new
          <5>1. versions'[v] = versions[v] /\ v \in DOMAIN versions
            BY <2>3, <3>3, <4>2
          <5>2. versions[v].seq \in Seqs
            BY <5>1 DEF Seqs
          <5> QED
            BY <3>2, <5>1, <5>2, NextIsGreatest DEF DocSerial
        <4> QED
          BY <4>1, <4>2
      <3>4. ASSUME NEW v PROVE ActiveRequests(v)' = ActiveRequests(v)
        BY <1>2 DEF ActiveRequests, RequestsOf
      <3>5. new \in DOMAIN versions'
        BY <2>3
      <3> QED
        BY <2>5, <2>6, <3>1, <3>2, <3>3, <3>4, <3>5 DEF DocNow, DocRowsAgree
    <2>7. Moves(h, Idle)
      BY <1>2, <1>3, BecomeMoves DEF Return
    <2> QED
      BY <1>1, <2>6, <2>7, DocIdle, DocSerialStep DEF DocNow
  <1> QED
    BY <1>4, <1>5

LEMMA DocArchiveStep ==
  ASSUME DocSerial, DocTypeOK', NEW h \in Handlers, SaveArchived(h)
  PROVE  DocSerial'
  <1>1. PICK c : c = call[h]
    OBVIOUS
  <1>2. /\ c.pc = "archive" /\ Return(h) /\ UNCHANGED <<doc, requests>>
        /\ versions' = [v \in DOMAIN versions |->
                          IF v = c.from THEN [versions[v] EXCEPT !.archived = TRUE]
                                        ELSE versions[v]]
    BY <1>1 DEF SaveArchived, At
  <1>3. c \in DocCall /\ Running(h)
    BY <1>1, <1>2, DocRuns
  <1>4. DOMAIN versions' = DOMAIN versions
    BY <1>2
  <1>5. ASSUME NEW v \in DOMAIN versions
        PROVE  /\ versions'[v].seq = versions[v].seq
               /\ v # c.from => versions'[v] = versions[v]
    <2>1. versions[v] \in VersionRow
      BY DEF DocSerial, DocTypeOK
    <2> QED
      BY <1>2, <2>1 DEF VersionRow
  <1>6. ASSUME NEW v PROVE ActiveRequests(v)' = ActiveRequests(v)
    BY <1>2 DEF ActiveRequests, RequestsOf
  <1>7. ASSUME DocNow(c) PROVE DocRowsAgree'
    <2>1. c.from \in DOMAIN versions => c.from # doc.current
      BY <1>2, <1>7 DEF DocNow, DocKnows
    <2>2. ASSUME NEW v \in DOMAIN versions
          PROVE  /\ doc'.kept /\ doc'.current \in DOMAIN versions'
                 /\ versions'[v].seq <= versions'[doc'.current].seq
                 /\ ~versions'[doc'.current].archived
      <3>1. /\ doc.kept /\ doc.current \in DOMAIN versions
            /\ versions[v].seq <= versions[doc.current].seq
            /\ ~versions[doc.current].archived
        BY <1>7 DEF DocNow, DocRowsAgree
      <3> QED
        BY <1>2, <1>4, <1>5, <2>1, <3>1
    <2> QED
      BY <1>2, <1>4, <1>6, <1>7, <2>2 DEF DocNow, DocRowsAgree
  <1>8. Moves(h, Idle)
    BY <1>2, <1>3, BecomeMoves DEF Return
  <1> QED
    BY <1>1, <1>7, <1>8, DocIdle, DocSerialStep DEF DocNow

\* The document may change, but not which version it shows and which was approved.
LEMMA DocShown ==
  ASSUME DocRowsAgree, UNCHANGED <<versions, requests>>,
         doc'.kept = doc.kept, doc'.current = doc.current,
         doc'.status = "APPROVED" => doc'.approved = doc'.current
  PROVE  DocRowsAgree'
  <1>1. ASSUME NEW v PROVE ActiveRequests(v)' = ActiveRequests(v)
    BY DEF ActiveRequests, RequestsOf
  <1> QED
    BY <1>1 DEF DocRowsAgree

LEMMA DocShowSteps ==
  ASSUME DocSerial, DocTypeOK', NEW h \in Handlers, MarkPending(h) \/ ShowDecision(h)
  PROVE  DocSerial'
  <1>1. PICK c : c = call[h]
    OBVIOUS
  <1>2. c.pc \in {"mark", "show"} /\ Return(h) /\ UNCHANGED <<versions, requests>>
    BY <1>1 DEF MarkPending, ShowDecision, At
  <1>3. c \in DocCall /\ Running(h)
    BY <1>1, <1>2, DocRuns
  <1>4. doc \in DocumentRow
    BY DEF DocSerial, DocTypeOK
  <1>5. ASSUME DocNow(c) PROVE DocRowsAgree'
    <2>1. ASSUME NEW s, s # "APPROVED", doc' = Stored([doc EXCEPT !.status = s])
          PROVE  DocRowsAgree'
      <3>1. PICK row : row = [doc EXCEPT !.status = s]
        OBVIOUS
      <3>2. row.kept = doc.kept /\ row.current = doc.current /\ row.status = s
        BY <1>4, <3>1 DEF DocumentRow
      <3>3. doc' = row \/ doc' = doc
        BY <2>1, <3>1 DEF Stored
      <3> QED
        BY <1>2, <1>5, <2>1, <3>2, <3>3, DocShown DEF DocNow, DocRowsAgree
    <2>2. CASE doc' = Stored([doc EXCEPT !.status = "APPROVED", !.approved = c.from])
               /\ ShowDecision(h)
      <3>1. PICK row : row = [doc EXCEPT !.status = "APPROVED", !.approved = c.from]
        OBVIOUS
      <3>2. row.kept = doc.kept /\ row.current = doc.current /\ row.approved = c.from
        BY <1>4, <3>1 DEF DocumentRow
      <3>3. doc' = row \/ doc' = doc
        BY <2>2, <3>1 DEF Stored
      <3>4. c.from = doc.current
        BY <1>1, <1>5, <2>2 DEF DocNow, DocKnows, Asking, ShowDecision, At
      <3> QED
        BY <1>2, <1>5, <3>2, <3>3, <3>4, DocShown DEF DocNow, DocRowsAgree
    <2>3. \/ \E s : s # "APPROVED" /\ doc' = Stored([doc EXCEPT !.status = s])
          \/ /\ doc' = Stored([doc EXCEPT !.status = "APPROVED", !.approved = c.from])
             /\ ShowDecision(h)
      <3>1. "REJECTED" # "APPROVED" /\ "PENDING_APPROVAL" # "APPROVED"
        OBVIOUS
      <3>2. CASE MarkPending(h)
        BY <3>1, <3>2 DEF MarkPending
      <3>3. CASE ShowDecision(h)
        BY <1>1, <3>1, <3>3 DEF ShowDecision
      <3> QED
        BY <3>2, <3>3
    <2> QED
      BY <2>1, <2>2, <2>3
  <1>6. Moves(h, Idle)
    BY <1>2, <1>3, BecomeMoves DEF Return
  <1> QED
    BY <1>1, <1>5, <1>6, DocIdle, DocSerialStep DEF DocNow

LEMMA DocCreateRequestStep ==
  ASSUME DocSerial, DocTypeOK', NEW h \in Handlers, CreateRequest(h)
  PROVE  DocSerial'
  <1>1. PICK c : c = call[h]
    OBVIOUS
  <1>2. c.pc = "create" /\ UNCHANGED <<doc, versions>>
    BY <1>1 DEF CreateRequest, At
  <1>3. c \in DocCall /\ Running(h)
    BY <1>1, <1>2, DocRuns
  <1>4. CASE Return(h) /\ UNCHANGED requests
    BY <1>2, <1>3, <1>4, DocSerialEnds
  <1>5. CASE /\ requests' = Append(requests, [version |-> c.from, status |-> "PENDING"])
             /\ Goto(h, "mark")
    <2>1. PICK r : r = [version |-> c.from, status |-> "PENDING"]
      OBVIOUS
    <2>2. PICK n : n = Len(requests)
      OBVIOUS
    <2>3. /\ DOMAIN requests = 1 .. n /\ DOMAIN requests' = 1 .. (n + 1) /\ n \in Nat
          /\ requests'[n + 1] = r /\ \A q \in 1 .. n : requests'[q] = requests[q]
      BY <1>5, <2>1, <2>2 DEF DocSerial, DocTypeOK
    <2>4. r.version = c.from
      BY <2>1
    <2>5. ASSUME NEW v
          PROVE  /\ v # c.from => ActiveRequests(v)' = ActiveRequests(v)
                 /\ ActiveRequests(v)' \subseteq ActiveRequests(v) \cup {n + 1}
      BY <2>3, <2>4 DEF ActiveRequests, RequestsOf
    <2>6. ASSUME DocNow(c) PROVE DocRowsAgree'
      <3>1. ActiveRequests(c.from) = {}
        BY <1>2, <2>6 DEF DocNow, DocKnows
      <3>2. ASSUME NEW v PROVE \A q, r2 \in ActiveRequests(v)' : q = r2
        <4>1. CASE v = c.from
          BY <2>5, <3>1, <4>1
        <4>2. CASE v # c.from
          BY <2>5, <2>6, <4>2 DEF DocNow, DocRowsAgree
        <4> QED
          BY <4>1, <4>2
      <3> QED
        BY <1>2, <2>6, <3>2 DEF DocNow, DocRowsAgree
    <2>7. PICK d : d = [c EXCEPT !.pc = "mark"]
      OBVIOUS
    <2>8. d.pc = "mark" /\ Become(h, d)
      BY <1>1, <1>3, <1>5, <2>7 DEF Goto, DocCall
    <2>9. DocKnows(d)'
      BY <2>8 DEF DocKnows, Numbering, Asking, Saving
    <2>10. Moves(h, d)
      BY <1>3, <2>8, BecomeMoves
    <2> QED
      BY <1>1, <2>6, <2>9, <2>10, DocSerialStep DEF DocNow
  <1> QED
    BY <1>1, <1>4, <1>5 DEF CreateRequest

LEMMA DocFlushStep ==
  ASSUME DocSerial, DocTypeOK', NEW h \in Handlers, FlushDocument(h)
  PROVE  DocSerial'
  <1>1. PICK c : c = call[h]
    OBVIOUS
  <1>2. c.pc = "flush" /\ UNCHANGED <<versions, requests>>
    BY <1>1 DEF FlushDocument, At
  <1>3. c \in DocCall /\ Running(h)
    BY <1>1, <1>2, DocRuns
  <1>4. doc \in DocumentRow /\ c.entity \in DocumentRow
    BY <1>3 DEF DocSerial, DocTypeOK, DocCall
  <1>5. PICK row : row = Merge(doc, c.entity, c.dirty)
    OBVIOUS
  <1>6. /\ doc' \in {doc, Stored(row)}
        /\ Return(h) \/ Goto(h, "notify")
    BY <1>1, <1>5 DEF FlushDocument
  <1>7. ASSUME DocNow(c) PROVE DocRowsAgree'
    <2>1. /\ c.entity.kept /\ doc.kept
          /\ c.entity.current = doc.current /\ c.entity.approved = doc.approved
          /\ c.entity.status = "APPROVED" => c.entity.approved = c.entity.current
          /\ c.dirty = Dirty(c.entity, doc)
      BY <1>2, <1>7 DEF DocNow, DocKnows, Saving
    <2>2. row = c.entity
      <3>1. PICK e : e = c.entity
        OBVIOUS
      <3>2. DOMAIN e = DOMAIN doc /\ e = [x \in DOMAIN e |-> e[x]]
        BY <1>4, <3>1 DEF DocumentRow
      <3>3. Merge(doc, e, c.dirty) = e
        BY <2>1, <3>1, <3>2, SavedAsIs
      <3> QED
        BY <1>5, <3>1, <3>3
    <2>3. doc' = doc \/ doc' = c.entity
      BY <1>6, <2>2 DEF Stored
    <2> QED
      BY <1>2, <1>7, <2>1, <2>3, DocShown DEF DocNow, DocRowsAgree
  <1>8. CASE Return(h)
    <2>1. Moves(h, Idle)
      BY <1>3, <1>8, BecomeMoves DEF Return
    <2> QED
      BY <1>1, <1>7, <2>1, DocIdle, DocSerialStep DEF DocNow
  <1>9. CASE Goto(h, "notify")
    <2>1. PICK d : d = [c EXCEPT !.pc = "notify"]
      OBVIOUS
    <2>2. d.pc = "notify" /\ Become(h, d)
      BY <1>1, <1>3, <1>9, <2>1 DEF Goto, DocCall
    <2>3. DocKnows(d)'
      BY <2>2 DEF DocKnows, Numbering, Asking, Saving
    <2>4. Moves(h, d)
      BY <1>3, <2>2, BecomeMoves
    <2> QED
      BY <1>1, <1>7, <2>3, <2>4, DocSerialStep DEF DocNow
  <1> QED
    BY <1>6, <1>8, <1>9

-----------------------------------------------------------------------------
(* Steps of no handler, for calls that run alone *)

\* What the engine does meanwhile opens no request that was not open.
LEMMA EngineOpensNone ==
  ASSUME DocTypeOK, EngineMoves, NEW v
  PROVE  ActiveRequests(v)' \subseteq ActiveRequests(v)
  <1>1. PICK q, s : /\ q \in DOMAIN requests /\ s \in Engine!Moves(requests[q].status)
                    /\ requests' = [requests EXCEPT ![q].status = s]
    BY DEF EngineMoves
  <1>2. \A p \in DOMAIN requests : requests[p] \in RequestRow
    BY DEF DocTypeOK
  <1>3. s \in Engine!Open => requests[q].status \in Engine!Open
    BY <1>1, <1>2 DEF Engine!Moves, Engine!Open, Engine!Settled, RequestRow
  <1>4. DOMAIN requests' = DOMAIN requests
    BY <1>1
  <1>5. ASSUME NEW p \in DOMAIN requests
        PROVE  /\ requests'[p].version = requests[p].version
               /\ requests'[p].status \in Engine!Open => requests[p].status \in Engine!Open
    <2>1. CASE p = q
      BY <1>1, <1>2, <1>3, <2>1 DEF RequestRow
    <2>2. CASE p # q
      BY <1>1, <2>2
    <2> QED
      BY <2>1, <2>2
  <1>6. ASSUME NEW p \in ActiveRequests(v)' PROVE p \in ActiveRequests(v)
    <2>1. p \in DOMAIN requests /\ requests'[p].version = v /\ requests'[p].status \in Engine!Open
      BY <1>4, <1>6 DEF ActiveRequests, RequestsOf, Engine!Open
    <2>2. requests[p].version = v /\ requests[p].status \in Engine!Open
      BY <1>5, <2>1
    <2> QED
      BY <2>1, <2>2 DEF ActiveRequests, RequestsOf, Engine!Open
  <1> QED
    BY <1>6

LEMMA DocOutside ==
  ASSUME DocSerial, DocTypeOK', UNCHANGED call, Disturb \/ UNCHANGED overlaps,
         Calm' /\ DocUndisturbed => DocUndisturbed'
  PROVE  DocSerial'
  <1>1. overlaps' \in Nat /\ (Calm' => Calm)
    BY DEF Disturb, Calm, DocSerial, HandlersOK
  <1>2. Alone => Alone'
    BY DEF Alone, Running, At
  <1> QED
    BY <1>1, <1>2 DEF DocSerial, HandlersOK

LEMMA DocOutsideSteps ==
  ASSUME DocSerial, DocTypeOK', CreateDocument \/ RemoveDocument \/ EngineMoves \/ Tick
  PROVE  DocSerial'
  <1>1. CASE CreateDocument
    <2>1. /\ Quiet /\ doc = NoDocument /\ minted = 0
          /\ UNCHANGED <<versions, requests, call, overlaps>>
      BY <1>1 DEF CreateDocument, serverVars
    <2>2. PICK e : doc' = [NoDocument EXCEPT !.kept = TRUE, !.expiry = e,
                                             !.status = ComputeStatus(e)]
      BY <1>1 DEF CreateDocument
    <2>3. doc'.status # "APPROVED"
      BY <2>2, ExpiryStatus DEF NoDocument
    <2>4. DOMAIN versions = {} /\ DOMAIN versions' = {}
      <3>1. DOMAIN versions \subseteq 1 .. minted
        BY DEF DocSerial, DocTypeOK
      <3>2. 1 .. minted = {}
        BY <2>1
      <3> QED
        BY <2>1, <3>1, <3>2
    <2>5. ASSUME NEW v PROVE ActiveRequests(v)' = ActiveRequests(v)
      BY <2>1 DEF ActiveRequests, RequestsOf
    <2>6. DocUndisturbed => DocRowsAgree'
      BY <2>3, <2>4, <2>5 DEF DocUndisturbed, DocRowsAgree
    <2>7. ASSUME NEW h \in Handlers PROVE DocKnows(call[h])'
      BY <2>1 DEF Quiet, At, DocKnows, Numbering, Asking, Saving
    <2> QED
      BY <2>1, <2>6, <2>7, DocOutside DEF DocUndisturbed
  <1>2. CASE RemoveDocument
    <2>1. doc' = NoDocument /\ versions' = <<>> /\ Disturb /\ UNCHANGED <<requests, call>>
      BY <1>2 DEF RemoveDocument
    <2>2. DOMAIN versions' = {} /\ doc'.status # "APPROVED"
      BY <2>1 DEF NoDocument
    <2>3. ASSUME NEW v PROVE ActiveRequests(v)' = ActiveRequests(v)
      BY <2>1 DEF ActiveRequests, RequestsOf
    <2>4. DocUndisturbed => DocRowsAgree'
      BY <2>2, <2>3 DEF DocUndisturbed, DocRowsAgree
    <2>5. Calm' => Quiet
      BY <2>1 DEF Disturb, Calm, DocSerial, HandlersOK
    <2>6. ASSUME NEW h \in Handlers, Quiet PROVE DocKnows(call[h])'
      BY <2>1, <2>6 DEF Quiet, At, DocKnows, Numbering, Asking, Saving
    <2> QED
      BY <2>1, <2>4, <2>5, <2>6, DocOutside DEF DocUndisturbed
  <1>3. CASE EngineMoves
    <2>1. UNCHANGED <<doc, versions, call, overlaps>>
      BY <1>3 DEF EngineMoves, serverVars
    <2>2. ASSUME NEW v PROVE ActiveRequests(v)' \subseteq ActiveRequests(v)
      BY <1>3, EngineOpensNone DEF DocSerial
    <2>3. DocRowsAgree => DocRowsAgree'
      BY <2>1, <2>2 DEF DocRowsAgree
    <2>4. Seqs' = Seqs
      BY <2>1 DEF Seqs
    <2>5. ASSUME NEW h \in Handlers, DocKnows(call[h]) PROVE DocKnows(call[h])'
      <3>1. PICK c : c = call[h] /\ c = call'[h]
        BY <2>1
      <3>2. DocKnows(c)'
        BY <2>1, <2>2, <2>4, <2>5, <3>1 DEF DocKnows
      <3> QED
        BY <3>1, <3>2
    <2> QED
      BY <2>1, <2>3, <2>5, DocOutside DEF DocUndisturbed
  <1>4. CASE Tick
    <2>1. UNCHANGED <<doc, versions, requests, call, overlaps>>
      BY <1>4 DEF Tick, docTables, serverVars
    <2> QED
      BY <2>1, RowsAsTheyAre, DocOutside DEF DocUndisturbed
  <1> QED
    BY <1>1, <1>2, <1>3, <1>4

LEMMA DocSerialKept ==
  ASSUME DocSerial, DocTypeOK', [DocNext]_docVars
  PROVE  DocSerial'
  <1>1. CASE UNCHANGED docVars
    <2>1. UNCHANGED <<doc, versions, requests, call, overlaps>>
      BY <1>1 DEF docVars, docTables, serverVars
    <2> QED
      BY <2>1, RowsAsTheyAre, DocOutside DEF DocUndisturbed
  <1>2. ASSUME NEW h \in Handlers, DocContinue(h) PROVE DocSerial'
    <2>1. CASE InsertNotices(h)
      <3>1. Running(h)
        BY <2>1 DEF InsertNotices, Running, At
      <3> QED
        BY <2>1, <3>1, DocSerialEnds DEF InsertNotices
    <2> QED
      BY <1>2, <2>1, DocReadingSteps, DocCommitStep, DocArchiveStep, DocCreateRequestStep,
         DocShowSteps, DocFlushStep DEF DocContinue
  <1>3. ASSUME NEW h \in Handlers, DocCrash(h) PROVE DocSerial'
    <2>1. UNCHANGED <<doc, versions, requests>>
      BY <1>3 DEF DocCrash, docTables
    <2> QED
      BY <1>3, <2>1, DocSerialEnds
  <1> QED
    BY <1>1, <1>2, <1>3, DocSerialArrives, DocOutsideSteps DEF DocNext

LEMMA DocSerialInit == DocInit => DocSerial
  <1> SUFFICES ASSUME DocInit PROVE DocSerial
    OBVIOUS
  <1>1. DocTypeOK
    BY DocInitOK DEF DocInv
  <1>2. /\ call = [h \in Handlers |-> Idle] /\ overlaps = 0
        /\ doc = NoDocument /\ versions = <<>> /\ requests = <<>>
    BY DEF DocInit, ServerInit
  <1>3. \A h \in Handlers : call[h] = Idle
    BY <1>2
  <1>4. HandlersOK
    BY <1>2, <1>3 DEF HandlersOK, Alone, Running, At, Idle
  <1>5. DOMAIN versions = {} /\ DOMAIN requests = {} /\ doc.status # "APPROVED"
    BY <1>2 DEF NoDocument
  <1>6. DocRowsAgree
    BY <1>5 DEF DocRowsAgree, ActiveRequests, RequestsOf
  <1> QED
    BY <1>1, <1>3, <1>4, <1>6, DocIdle DEF DocSerial, DocUndisturbed

LEMMA DocAllKept ==
  DocInv /\ DocSerial /\ [DocNext]_docVars => DocInv' /\ DocSerial'
  BY DocNextKeeps, DocSerialKept DEF DocInv

LEMMA CurrentFollows == DocSerial => CurrentIsLatest
  BY DEF DocSerial, DocUndisturbed, DocRowsAgree, CurrentIsLatest

LEMMA ShownFollows == DocSerial => ApprovedIsShown
  BY DEF DocSerial, DocUndisturbed, DocRowsAgree, ApprovedIsShown

LEMMA OneOpenFollows == DocSerial => OneOpenRequest
  <1>1. \A v : \A q \in RequestsOf(v) :
          requests[q].status \in Engine!Open => q \in ActiveRequests(v)
    BY DEF ActiveRequests
  <1> QED
    BY <1>1 DEF DocSerial, DocUndisturbed, DocRowsAgree, OneOpenRequest, OneRequestAtATime

\* As long as every call ran alone and to its end, the document shows its newest
\* version, uploaded or rolled back to, and that one is not archived
\* (document-versions.service.ts): any files, versions, requests and handlers.
THEOREM CurrentNewest == DocSpec => []CurrentIsLatest
  <1> QED
    BY DocSerialInit, DocInitOK, DocAllKept, CurrentFollows, PTL DEF DocSpec

\* As long as every call ran alone and to its end, a document shown APPROVED shows
\* the version that was approved, also after saves and notices between
\* (document-approval.service.ts, documents.service.ts).
THEOREM ApprovedShown == DocSpec => []ApprovedIsShown
  <1> QED
    BY DocSerialInit, DocInitOK, DocAllKept, ShownFollows, PTL DEF DocSpec

\* BR-DOC-07: as long as every call ran alone and to its end, a version has at most
\* one request that is open, whenever the engine moves
\* (document-approval.service.ts, submitForApproval).
THEOREM OneRequestOpen == DocSpec => []OneOpenRequest
  <1> QED
    BY DocSerialInit, DocInitOK, DocAllKept, OneOpenFollows, PTL DEF DocSpec

-----------------------------------------------------------------------------
(* Sales *)

-----------------------------------------------------------------------------
(* The debt and the limit, whatever overlaps *)

Buying    == {"number", "insert", "outNumber", "outInsert", "select"}
Forgiving == {"debtSelect", "debtCommit"}
Changing  == {"cSelect", "cFlush"}

\* The rows a handler works on exist, where n is the number of orders.
Refers(c, n) ==
  /\ c.pc \in {"outStatus", "cancel", "debt"} => c.order \in 1 .. n
  /\ c.pc = "qSelect" => c.quote \in QuoteIds

\* The customer a handler holds owes no more than the limit top.
Claims(c, top) ==
  /\ c.pc \in {"quote", "commit"} \cup Buying \cup Forgiving => c.customer.limit <= top
  /\ c.pc \in Buying /\ ~c.bypass => c.customer.debt + c.total <= top
  /\ c.pc = "commit" /\ ~c.bypass => c.customer.debt <= top
  /\ c.pc \in Forgiving \cup Changing => c.customer.debt <= top

SalesTyped == SalesTypeOK /\ \A h \in Handlers : Refers(call[h], Len(orders))

Solvent ==
  /\ customer.limit <= topLimit /\ customer.debt <= topLimit
  /\ \A h \in Handlers : Claims(call[h], topLimit)

DebtInv == SalesTyped /\ (bypassed \/ Solvent)

-----------------------------------------------------------------------------
(* Facts about the helpers *)

\* A save leaves a row of its table's type (Server!Merge).
LEMMA CustomerMerged ==
  ASSUME NEW row \in CustomerRow, NEW e \in CustomerRow, NEW columns
  PROVE  /\ Merge(row, e, columns) \in CustomerRow
         /\ Merge(row, e, columns).debt \in {row.debt, e.debt}
         /\ Merge(row, e, columns).limit \in {row.limit, e.limit}
         /\ "debt" \in columns => Merge(row, e, columns).debt = e.debt
  BY DEF Merge, CustomerRow

LEMMA QuoteMerged ==
  ASSUME NEW row \in QuoteRow, NEW e \in QuoteRow, NEW columns
  PROVE  Merge(row, e, columns) \in QuoteRow
  BY DEF Merge, QuoteRow

LEMMA QuoteSaved ==
  ASSUME SalesTypeOK, NEW q \in QuoteIds, NEW e \in QuoteRow, NEW columns
  PROVE  SavedQuote(q, e, columns) \in QuoteRow
  <1>1. quotes[q] \in QuoteRow
    BY DEF SalesTypeOK
  <1> QED
    BY <1>1, QuoteMerged DEF SavedQuote

\* What a save compares are columns of its table.
LEMMA DirtyColumns ==
  ASSUME SalesTypeOK
  PROVE  /\ \A e : Dirty(e, customer) \subseteq DOMAIN NoCustomer
         /\ \A e : CustomerDirty(e) \subseteq DOMAIN NoCustomer
         /\ \A e : \A q \in QuoteIds : Dirty(e, quotes[q]) \subseteq DOMAIN NoQuote
  <1>1. DOMAIN customer = DOMAIN NoCustomer /\ "debt" \in DOMAIN NoCustomer
    BY DEF SalesTypeOK, CustomerRow, NoCustomer
  <1>2. ASSUME NEW q \in QuoteIds PROVE DOMAIN quotes[q] = DOMAIN NoQuote
    <2>1. quotes[q] \in QuoteRow
      BY DEF SalesTypeOK
    <2> QED
      BY <2>1 DEF QuoteRow, NoQuote
  <1> QED
    BY <1>1, <1>2 DEF Dirty, CustomerDirty

\* The pc of a running handler is a stage, so that the handler is not idle.
LEMMA InSalesCall ==
  ASSUME SalesTypeOK, NEW h \in Handlers, call[h].pc # "idle"
  PROVE  call[h] \in SalesCall
  BY DEF SalesTypeOK, Idle

LEMMA EmptyTyped == EmptyCall \in SalesCall /\ NoQuote \in QuoteRow /\ NoCustomer \in CustomerRow
  <1>1. NoQuote \in QuoteRow /\ NoCustomer \in CustomerRow
    BY DEF NoQuote, QuoteRow, QuoteStatus, NoCustomer, CustomerRow
  <1> QED
    BY <1>1 DEF EmptyCall, SalesCall

LEMMA SalesDisturbed ==
  ASSUME SalesTypeOK, Disturb \/ UNCHANGED overlaps
  PROVE  overlaps' \in Nat
  BY DEF SalesTypeOK, Disturb

-----------------------------------------------------------------------------
(* The handler h becomes c *)

\* An old claim still holds when the limit has grown.
LEMMA ClaimKept ==
  ASSUME NEW c \in {Idle} \cup SalesCall, NEW top \in Nat, NEW more \in Nat, top <= more,
         Claims(c, top)
  PROVE  Claims(c, more)
  <1>1. CASE c = Idle
    BY <1>1 DEF Claims, Idle, Buying, Forgiving, Changing
  <1>2. CASE c \in SalesCall
    <2>1. c.customer.debt \in Nat /\ c.customer.limit \in Nat /\ c.total \in Nat
      BY <1>2 DEF SalesCall, CustomerRow
    <2> QED
      BY <2>1 DEF Claims
  <1> QED
    BY <1>1, <1>2

\* What a step has to show of the handler that takes it and of the tables.
LEMMA SalesStepOK ==
  ASSUME DebtInv, NEW h \in Handlers, NEW c \in {Idle} \cup SalesCall,
         call' = [call EXCEPT ![h] = c], overlaps' \in Nat,
         customer' \in CustomerRow, quotes' \in [QuoteIds -> QuoteRow],
         orders' \in Seq(OrderRow), Len(orders') >= Len(orders),
         outbounds' \in Seq({"PENDING", "ALLOCATED", "PICKING"}),
         topLimit' \in Nat, topLimit' >= topLimit, bypassed' \in BOOLEAN,
         bypassed => bypassed', Refers(c, Len(orders')),
         Solvent /\ ~bypassed' => /\ Claims(c, topLimit')
                                  /\ customer'.limit <= topLimit'
                                  /\ customer'.debt <= topLimit'
  PROVE  DebtInv'
  <1>1. call' \in [Handlers -> {Idle} \cup SalesCall]
    BY DEF DebtInv, SalesTyped, SalesTypeOK
  <1>2. \A g \in Handlers : call'[g] = IF g = h THEN c ELSE call[g]
    BY DEF DebtInv, SalesTyped, SalesTypeOK
  <1>3. ASSUME NEW g \in Handlers PROVE Refers(call'[g], Len(orders'))
    <2>1. Len(orders) \in Nat /\ Len(orders') \in Nat
      BY DEF DebtInv, SalesTyped, SalesTypeOK
    <2>2. Refers(call[g], Len(orders))
      BY DEF DebtInv, SalesTyped
    <2> QED
      BY <1>2, <2>1, <2>2 DEF Refers
  <1>4. ASSUME Solvent, ~bypassed', NEW g \in Handlers PROVE Claims(call'[g], topLimit')
    <2>1. Claims(call[g], topLimit) /\ call[g] \in {Idle} \cup SalesCall /\ topLimit \in Nat
      BY <1>4 DEF Solvent, DebtInv, SalesTyped, SalesTypeOK
    <2>2. Claims(call[g], topLimit')
      BY <2>1, ClaimKept
    <2> QED
      BY <1>2, <1>4, <2>2
  <1>5. SalesTyped'
    BY <1>1, <1>3 DEF SalesTyped, SalesTypeOK
  <1>6. bypassed' \/ Solvent'
    BY <1>4 DEF Solvent, DebtInv
  <1> QED
    BY <1>5, <1>6 DEF DebtInv

\* The tables stay as they are.
LEMMA SalesQuietOK ==
  ASSUME DebtInv, NEW h \in Handlers, NEW c \in {Idle} \cup SalesCall,
         call' = [call EXCEPT ![h] = c], overlaps' \in Nat, UNCHANGED salesTables,
         Refers(c, Len(orders)), Solvent => Claims(c, topLimit)
  PROVE  DebtInv'
  <1>1. /\ customer \in CustomerRow /\ quotes \in [QuoteIds -> QuoteRow]
        /\ orders \in Seq(OrderRow) /\ Len(orders) >= Len(orders)
        /\ outbounds \in Seq({"PENDING", "ALLOCATED", "PICKING"})
        /\ topLimit \in Nat /\ topLimit >= topLimit /\ bypassed \in BOOLEAN
    BY DEF DebtInv, SalesTyped, SalesTypeOK
  <1>2. UNCHANGED <<customer, quotes, orders, outbounds, topLimit, bypassed>>
    BY DEF salesTables
  <1>3. Solvent /\ ~bypassed' => /\ Claims(c, topLimit')
                                 /\ customer'.limit <= topLimit'
                                 /\ customer'.debt <= topLimit'
    BY <1>2 DEF Solvent
  <1> QED
    BY <1>1, <1>2, <1>3, SalesStepOK

\* The handler goes on with another stage, at which nothing new is claimed.
LEMMA GotoOK ==
  ASSUME DebtInv, NEW h \in Handlers, call[h].pc # "idle", NEW pc, Goto(h, pc),
         UNCHANGED salesTables,
         [call[h] EXCEPT !.pc = pc] \in SalesCall,
         Refers([call[h] EXCEPT !.pc = pc], Len(orders)),
         Solvent => Claims([call[h] EXCEPT !.pc = pc], topLimit)
  PROVE  DebtInv'
  <1>1. overlaps' \in Nat
    BY DEF Goto, Become, DebtInv, SalesTyped, SalesTypeOK
  <1> QED
    BY <1>1, SalesQuietOK DEF Goto, Become

LEMMA SalesIdleOK == \A n, top : Refers(Idle, n) /\ Claims(Idle, top)
  BY DEF Refers, Claims, Idle, Buying, Forgiving, Changing

LEMMA SalesReturnOK ==
  ASSUME DebtInv, NEW h \in Handlers, Return(h), UNCHANGED salesTables
  PROVE  DebtInv'
  <1>1. overlaps' \in Nat
    BY DEF Return, Become, DebtInv, SalesTyped, SalesTypeOK
  <1> QED
    BY <1>1, SalesIdleOK, SalesQuietOK DEF Return, Become

\* a call begins
LEMMA SalesBeginOK ==
  ASSUME DebtInv, NEW h \in Handlers, NEW c \in SalesCall, Begin(h, c),
         UNCHANGED salesTables, Refers(c, Len(orders)), Solvent => Claims(c, topLimit)
  PROVE  DebtInv'
  <1>1. overlaps' \in Nat
    BY SalesDisturbed DEF Begin, DebtInv, SalesTyped
  <1> QED
    BY <1>1, SalesQuietOK DEF Begin

-----------------------------------------------------------------------------
(* One step per action: calls that begin *)

LEMMA SalesArriveKeeps ==
  ASSUME DebtInv, NEW h \in Handlers, SalesArrive(h)
  PROVE  DebtInv'
  <1> USE DEF Refers, Claims, Buying, Forgiving, Changing
  <1>0. /\ customer \in CustomerRow /\ quotes \in [QuoteIds -> QuoteRow]
        /\ orders \in Seq(OrderRow)
    BY DEF DebtInv, SalesTyped, SalesTypeOK
  <1>1. CASE CreateOrder(h)
    <2>1. PICK q \in {0} \cup QuoteIds, amount \in Amounts, bypass \in BOOLEAN :
            Begin(h, [EmptyCall EXCEPT !.customer = customer, !.quote = q,
                                       !.total = amount, !.bypass = bypass])
      BY <1>1 DEF CreateOrder
    <2> DEFINE c == [EmptyCall EXCEPT !.customer = customer, !.quote = q,
                                      !.total = amount, !.bypass = bypass]
    <2>2. c \in SalesCall /\ c.pc = "quote" /\ c.customer = customer
      BY <1>0, EmptyTyped, SalesAssumption DEF SalesCall, EmptyCall
    <2>3. Begin(h, c) /\ UNCHANGED salesTables
      BY <1>1, <2>1 DEF CreateOrder
    <2> HIDE DEF c
    <2> QED
      BY <2>2, <2>3, SalesBeginOK DEF Solvent
  <1>2. CASE CancelOrder(h)
    <2>1. PICK o \in 1 .. Len(orders) :
            Begin(h, [EmptyCall EXCEPT !.pc = "outStatus", !.order = o])
      BY <1>2 DEF CancelOrder
    <2> DEFINE c == [EmptyCall EXCEPT !.pc = "outStatus", !.order = o]
    <2>0. o \in Nat
      BY <1>0
    <2>2. c \in SalesCall /\ c.pc = "outStatus" /\ c.order = o
      BY <2>0, EmptyTyped DEF SalesCall, EmptyCall
    <2>3. Begin(h, c) /\ UNCHANGED salesTables
      BY <1>2, <2>1 DEF CancelOrder
    <2> HIDE DEF c
    <2> QED
      BY <2>2, <2>3, SalesBeginOK
  <1>3. CASE CreateQuote(h)
    <2> DEFINE c == [EmptyCall EXCEPT !.pc = "qNumber"]
    <2>2. c \in SalesCall /\ c.pc = "qNumber"
      BY EmptyTyped DEF SalesCall, EmptyCall
    <2>3. Begin(h, c) /\ UNCHANGED salesTables
      BY <1>3 DEF CreateQuote
    <2> HIDE DEF c
    <2> QED
      BY <2>2, <2>3, SalesBeginOK
  <1>4. CASE UpdateQuote(h) \/ TransitionStatus(h)
    <2>1. PICK q \in QuoteIds, e \in QuoteRow :
            Begin(h, [EmptyCall EXCEPT !.pc = "qSelect", !.quote = q, !.entity = e])
      <3>1. CASE UpdateQuote(h)
        BY <1>0, <3>1 DEF UpdateQuote
      <3>2. CASE TransitionStatus(h)
        <4>1. PICK q \in QuoteIds : \E next \in NextStatus(quotes[q].status) :
                Begin(h, [EmptyCall EXCEPT !.pc = "qSelect", !.quote = q,
                            !.entity = [quotes[q] EXCEPT !.status = next]])
          BY <3>2 DEF TransitionStatus
        <4>2. \A next \in NextStatus(quotes[q].status) :
                [quotes[q] EXCEPT !.status = next] \in QuoteRow
          BY <1>0 DEF QuoteRow, QuoteStatus, NextStatus
        <4> QED
          BY <4>1, <4>2
      <3> QED
        BY <1>4, <3>1, <3>2
    <2> DEFINE c == [EmptyCall EXCEPT !.pc = "qSelect", !.quote = q, !.entity = e]
    <2>2. c \in SalesCall /\ c.pc = "qSelect" /\ c.quote = q
      BY EmptyTyped DEF SalesCall, EmptyCall
    <2>3. Begin(h, c) /\ UNCHANGED salesTables
      BY <1>4, <2>1 DEF UpdateQuote, TransitionStatus
    <2> HIDE DEF c
    <2> QED
      BY <2>2, <2>3, SalesBeginOK
  <1>5. CASE CancelQuote(h)
    <2>1. PICK q \in QuoteIds : Begin(h, [EmptyCall EXCEPT !.pc = "qDelete", !.quote = q])
      BY <1>5 DEF CancelQuote
    <2> DEFINE c == [EmptyCall EXCEPT !.pc = "qDelete", !.quote = q]
    <2>2. c \in SalesCall /\ c.pc = "qDelete"
      BY EmptyTyped DEF SalesCall, EmptyCall
    <2>3. Begin(h, c) /\ UNCHANGED salesTables
      BY <1>5, <2>1 DEF CancelQuote
    <2> HIDE DEF c
    <2> QED
      BY <2>2, <2>3, SalesBeginOK
  <1>6. CASE UpdateCustomer(h)
    <2>1. PICK e \in {[customer EXCEPT !.limit = l] : l \in Limits}
                     \cup {[customer EXCEPT !.barred = b] : b \in BOOLEAN} :
            Begin(h, [EmptyCall EXCEPT !.pc = "cSelect", !.customer = e])
      BY <1>6 DEF UpdateCustomer
    <2>2. e \in CustomerRow /\ e.debt = customer.debt
      BY <1>0, SalesAssumption DEF CustomerRow
    <2> DEFINE c == [EmptyCall EXCEPT !.pc = "cSelect", !.customer = e]
    <2>3. c \in SalesCall /\ c.pc = "cSelect" /\ c.customer = e
      BY <2>2, EmptyTyped DEF SalesCall, EmptyCall
    <2>4. Begin(h, c) /\ UNCHANGED salesTables
      BY <1>6, <2>1 DEF UpdateCustomer
    <2> HIDE DEF c
    <2> QED
      BY <2>2, <2>3, <2>4, SalesBeginOK DEF Solvent
  <1> QED
    BY <1>1, <1>2, <1>3, <1>4, <1>5, <1>6 DEF SalesArrive

-----------------------------------------------------------------------------
(* Steps that only go on, or read *)

\* An order within the limit when it was checked against the customer as read.
LEMMA CheckQuoteKeeps ==
  ASSUME DebtInv, NEW h \in Handlers, CheckQuote(h)
  PROVE  DebtInv'
  <1> DEFINE c == call[h]
             entity == IF c.quote = 0 THEN NoQuote ELSE quotes[c.quote]
             d == [c EXCEPT !.pc = "number", !.entity = entity,
                            !.bypass = ~CreditAllows(c.customer, c.total, FALSE)]
  <1>1. c \in SalesCall /\ c.pc = "quote"
    BY InSalesCall DEF CheckQuote, At, DebtInv, SalesTyped
  <1>2. CASE Return(h)
    BY <1>2, SalesReturnOK DEF CheckQuote
  <1>3. CASE Become(h, d)
    <2>1. entity \in QuoteRow
      BY <1>1, EmptyTyped DEF SalesCall, DebtInv, SalesTyped, SalesTypeOK
    <2>2. CreditAllows(c.customer, c.total, FALSE) \in BOOLEAN
      BY DEF CreditAllows
    <2> DEFINE b == ~CreditAllows(c.customer, c.total, FALSE)
    <2>3. /\ d \in SalesCall /\ d.pc = "number" /\ d.customer = c.customer
          /\ d.total = c.total /\ d.bypass = b
      <3> HIDE DEF entity, c
      <3> QED
        BY <1>1, <2>1, <2>2 DEF SalesCall
    <2>4. Solvent => c.customer.limit <= topLimit
      BY <1>1 DEF Solvent, Claims
    <2>5. /\ c.customer.debt \in Nat /\ c.customer.limit \in Nat /\ c.total \in Nat
          /\ topLimit \in Nat
      BY <1>1 DEF SalesCall, CustomerRow, DebtInv, SalesTyped, SalesTypeOK
    <2>6. ~b => c.customer.debt + c.total <= c.customer.limit
      BY DEF CreditAllows
    <2>7. overlaps' \in Nat /\ call' = [call EXCEPT ![h] = d]
      BY <1>3 DEF Become, DebtInv, SalesTyped, SalesTypeOK
    <2> HIDE DEF d, b, c
    <2>8. Solvent => Claims(d, topLimit)
      BY <2>3, <2>4, <2>5, <2>6 DEF Claims, Buying, Forgiving, Changing
    <2>9. Refers(d, Len(orders))
      BY <2>3 DEF Refers
    <2> QED
      BY <2>3, <2>7, <2>8, <2>9, SalesQuietOK DEF CheckQuote
  <1> QED
    BY <1>2, <1>3 DEF CheckQuote

LEMMA SalesGoesOn ==
  ASSUME DebtInv, NEW h \in Handlers, call[h].pc # "idle", NEW d \in SalesCall,
         Become(h, d), UNCHANGED salesTables,
         d.customer = call[h].customer, d.bypass = call[h].bypass, d.total = call[h].total,
         \/ call[h].pc \in Buying /\ d.pc \in Buying
         \/ call[h].pc \in Changing /\ d.pc \in Changing
         \/ call[h].pc \in Forgiving /\ d.pc \in Forgiving
         \/ /\ d.pc \notin {"quote", "commit"} \cup Buying \cup Changing \cup Forgiving,
         d.pc \in {"outStatus", "cancel", "debt"} =>
           call[h].pc \in {"outStatus", "cancel"} /\ d.order = call[h].order,
         d.pc # "qSelect"
  PROVE  DebtInv'
  <1>1. overlaps' \in Nat
    BY DEF Become, DebtInv, SalesTyped, SalesTypeOK
  <1>2. Refers(d, Len(orders))
    BY DEF Refers, DebtInv, SalesTyped
  <1>3. Solvent => Claims(d, topLimit)
    BY DEF Claims, Solvent, Buying, Changing, Forgiving
  <1> QED
    BY <1>1, <1>2, <1>3, SalesQuietOK DEF Become

LEMMA SalesReadingKeeps ==
  ASSUME DebtInv, NEW h \in Handlers,
         \/ NumberOrder(h) \/ InsertOrder(h) \/ NumberOutbound(h)
         \/ CheckOutbound(h) \/ SaveCanceled(h) \/ SelectDebt(h)
         \/ NumberQuote(h) \/ SelectQuote(h) \/ SelectCustomer(h)
  PROVE  DebtInv'
  <1> DEFINE c == call[h]
  <1>0. SalesTypeOK
    BY DEF DebtInv, SalesTyped
  <1>c. c.pc # "idle" => c \in SalesCall
    BY <1>0, InSalesCall
  <1>r. CASE Return(h) /\ UNCHANGED salesTables
    BY <1>r, SalesReturnOK
  <1>n. Len(orders) + 1 \in Nat /\ Len(outbounds) + 1 \in Nat
    BY <1>0 DEF SalesTypeOK
  <1> USE DEF At
  <1>1. CASE NumberOrder(h)
    <2> DEFINE d == [c EXCEPT !.pc = "insert", !.order = Len(orders) + 1]
    <2>1. c.pc = "number" /\ Become(h, d) /\ UNCHANGED salesTables
      BY <1>1 DEF NumberOrder
    <2>2. /\ d \in SalesCall /\ d.pc = "insert"
          /\ d.customer = c.customer /\ d.bypass = c.bypass /\ d.total = c.total
      BY <1>c, <1>n, <2>1 DEF SalesCall
    <2> HIDE DEF d
    <2> QED
      BY <2>1, <2>2, SalesGoesOn DEF Buying
  <1>2. CASE InsertOrder(h) /\ Goto(h, "outNumber")
    <2> DEFINE d == [c EXCEPT !.pc = "outNumber"]
    <2>1. c.pc = "insert" /\ Become(h, d) /\ UNCHANGED salesTables
      BY <1>2 DEF InsertOrder, Goto
    <2>2. /\ d \in SalesCall /\ d.pc = "outNumber"
          /\ d.customer = c.customer /\ d.bypass = c.bypass /\ d.total = c.total
      BY <1>c, <2>1 DEF SalesCall
    <2> HIDE DEF d
    <2> QED
      BY <2>1, <2>2, SalesGoesOn DEF Buying
  <1>3. CASE NumberOutbound(h)
    <2> DEFINE d == [c EXCEPT !.pc = "outInsert", !.outbound = Len(outbounds) + 1]
    <2>1. c.pc = "outNumber" /\ Become(h, d) /\ UNCHANGED salesTables
      BY <1>3 DEF NumberOutbound
    <2>2. /\ d \in SalesCall /\ d.pc = "outInsert"
          /\ d.customer = c.customer /\ d.bypass = c.bypass /\ d.total = c.total
      BY <1>c, <1>n, <2>1 DEF SalesCall
    <2> HIDE DEF d
    <2> QED
      BY <2>1, <2>2, SalesGoesOn DEF Buying
  <1>4. CASE CheckOutbound(h) /\ Goto(h, "cancel")
    <2> DEFINE d == [c EXCEPT !.pc = "cancel"]
    <2>1. c.pc = "outStatus" /\ Become(h, d) /\ UNCHANGED salesTables
      BY <1>4 DEF CheckOutbound, Goto
    <2>2. /\ d \in SalesCall /\ d.pc = "cancel" /\ d.order = c.order
          /\ d.customer = c.customer /\ d.bypass = c.bypass /\ d.total = c.total
      BY <1>c, <2>1 DEF SalesCall
    <2> HIDE DEF d
    <2> QED
      BY <2>1, <2>2, SalesGoesOn DEF Buying, Forgiving, Changing
  <1>5. CASE SaveCanceled(h)
    <2> DEFINE d == [c EXCEPT !.pc = "debt"]
    <2>1. c.pc = "cancel" /\ Become(h, d) /\ UNCHANGED salesTables
      BY <1>5 DEF SaveCanceled, Goto
    <2>2. /\ d \in SalesCall /\ d.pc = "debt" /\ d.order = c.order
          /\ d.customer = c.customer /\ d.bypass = c.bypass /\ d.total = c.total
      BY <1>c, <2>1 DEF SalesCall
    <2> HIDE DEF d
    <2> QED
      BY <2>1, <2>2, SalesGoesOn DEF Buying, Forgiving, Changing
  <1>6. CASE SelectDebt(h)
    <2> DEFINE columns == CustomerDirty(c.customer)
               d == [c EXCEPT !.pc = "debtCommit", !.dirty = columns]
    <2>1. c.pc = "debtSelect" /\ Become(h, d) /\ UNCHANGED salesTables
      BY <1>6 DEF SelectDebt
    <2>2. columns \subseteq DOMAIN NoCustomer
      BY <1>0, DirtyColumns
    <2> HIDE DEF columns
    <2>3. /\ d \in SalesCall /\ d.pc = "debtCommit"
          /\ d.customer = c.customer /\ d.bypass = c.bypass /\ d.total = c.total
      BY <1>c, <2>1, <2>2 DEF SalesCall
    <2> HIDE DEF d
    <2> QED
      BY <2>1, <2>3, SalesGoesOn DEF Forgiving
  <1>7. CASE NumberQuote(h)
    <2> DEFINE kept == {q \in QuoteIds : quotes[q].kept}
               n == Cardinality(kept) + 1
               d == [c EXCEPT !.pc = "qInsert", !.order = n]
    <2>1. c.pc = "qNumber" /\ Become(h, d) /\ UNCHANGED salesTables
      BY <1>7 DEF NumberQuote
    <2>2. n \in Nat
      <3>1. IsFiniteSet(kept)
        BY SalesAssumption, FS_Subset
      <3> QED
        BY <3>1, FS_CardinalityType
    <2> HIDE DEF n
    <2>3. /\ d \in SalesCall /\ d.pc = "qInsert"
          /\ d.customer = c.customer /\ d.bypass = c.bypass /\ d.total = c.total
      BY <1>c, <2>1, <2>2 DEF SalesCall
    <2> HIDE DEF d
    <2> QED
      BY <2>1, <2>3, SalesGoesOn DEF Buying, Forgiving, Changing
  <1>8. CASE SelectQuote(h)
    <2> DEFINE columns == Dirty(c.entity, quotes[c.quote])
               d == [c EXCEPT !.pc = "qFlush", !.quoteDirty = columns]
    <2>1. c.pc = "qSelect" /\ Become(h, d) /\ UNCHANGED salesTables
      BY <1>8 DEF SelectQuote
    <2>2. c.quote \in QuoteIds
      BY <2>1 DEF DebtInv, SalesTyped, Refers
    <2>3. columns \subseteq DOMAIN NoQuote
      BY <1>0, <2>2, DirtyColumns
    <2> HIDE DEF columns
    <2>4. /\ d \in SalesCall /\ d.pc = "qFlush"
          /\ d.customer = c.customer /\ d.bypass = c.bypass /\ d.total = c.total
      BY <1>c, <2>1, <2>3 DEF SalesCall
    <2> HIDE DEF d
    <2> QED
      BY <2>1, <2>4, SalesGoesOn DEF Buying, Forgiving, Changing
  <1>9. CASE SelectCustomer(h)
    <2> DEFINE columns == Dirty(c.customer, customer)
               d == [c EXCEPT !.pc = "cFlush", !.dirty = columns]
    <2>1. c.pc = "cSelect" /\ Become(h, d) /\ UNCHANGED salesTables
      BY <1>9 DEF SelectCustomer
    <2>2. columns \subseteq DOMAIN NoCustomer
      BY <1>0, DirtyColumns
    <2> HIDE DEF columns
    <2>3. /\ d \in SalesCall /\ d.pc = "cFlush"
          /\ d.customer = c.customer /\ d.bypass = c.bypass /\ d.total = c.total
      BY <1>c, <2>1, <2>2 DEF SalesCall
    <2> HIDE DEF d
    <2> QED
      BY <2>1, <2>3, SalesGoesOn DEF Changing
  <1> QED
    BY <1>r, <1>1, <1>2, <1>3, <1>4, <1>5, <1>6, <1>7, <1>8, <1>9
    DEF InsertOrder, CheckOutbound

-----------------------------------------------------------------------------
(* The customer's debt is computed *)

\* A purchase computes what the customer will owe; it was checked to be within
\* the limit the customer had then.
LEMMA SelectRowsKeeps ==
  ASSUME DebtInv, NEW h \in Handlers, SelectRows(h)
  PROVE  DebtInv'
  <1> DEFINE c    == call[h]
             owes == [c.customer EXCEPT !.debt = @ + c.total]
             sold == [c.entity EXCEPT !.so = c.order]
             columns == CustomerDirty(owes)
             quoted  == IF c.quote = 0 THEN {} ELSE Dirty(sold, quotes[c.quote])
             d == [c EXCEPT !.pc = "commit", !.customer = owes, !.entity = sold,
                            !.dirty = columns, !.quoteDirty = quoted]
  <1>1. c \in SalesCall /\ c.pc = "select" /\ SalesTypeOK
    BY InSalesCall DEF SelectRows, At, DebtInv, SalesTyped
  <1>2. /\ c.customer \in CustomerRow /\ c.total \in Nat /\ c.entity \in QuoteRow
        /\ c.order \in Nat /\ c.quote \in QuoteIds \cup {0} /\ c.bypass \in BOOLEAN
    BY <1>1 DEF SalesCall
  <1>3. call' = [call EXCEPT ![h] = d] /\ overlaps' \in Nat /\ UNCHANGED salesTables
    BY <1>1 DEF SelectRows, Become, SalesTypeOK
  <1>4. /\ owes \in CustomerRow /\ owes.debt = c.customer.debt + c.total
        /\ owes.limit = c.customer.limit
    BY <1>2 DEF CustomerRow
  <1>5. sold \in QuoteRow
    BY <1>2 DEF QuoteRow
  <1>6. columns \subseteq DOMAIN NoCustomer
    BY <1>1, DirtyColumns
  <1>7. quoted \subseteq DOMAIN NoQuote
    BY <1>1, <1>2, DirtyColumns
  <1> HIDE DEF owes, sold, columns, quoted
  <1>8. d \in SalesCall /\ d.pc = "commit" /\ d.customer = owes /\ d.bypass = c.bypass
    BY <1>1, <1>4, <1>5, <1>6, <1>7 DEF SalesCall
  <1>9. Solvent => /\ c.customer.limit <= topLimit
                   /\ ~c.bypass => c.customer.debt + c.total <= topLimit
    BY <1>1 DEF Solvent, Claims, Buying
  <1> HIDE DEF c, d
  <1>10. Solvent => Claims(d, topLimit)
    BY <1>4, <1>8, <1>9 DEF Claims, Buying, Forgiving, Changing
  <1>11. Refers(d, Len(orders))
    BY <1>8 DEF Refers
  <1> QED
    BY <1>3, <1>8, <1>10, <1>11, SalesQuietOK

\* A cancellation never raises the debt.
LEMMA ReadDebtKeeps ==
  ASSUME DebtInv, NEW h \in Handlers, ReadDebt(h)
  PROVE  DebtInv'
  <1> DEFINE c == call[h]
             total == orders[c.order].total
             freed == [customer EXCEPT !.debt = Forgiven(@, total)]
             d == [c EXCEPT !.pc = "debtSelect", !.customer = freed]
  <1>1. c \in SalesCall /\ c.pc = "debt" /\ SalesTypeOK
    BY InSalesCall DEF ReadDebt, At, DebtInv, SalesTyped
  <1>2. call' = [call EXCEPT ![h] = d] /\ overlaps' \in Nat /\ UNCHANGED salesTables
    BY <1>1 DEF ReadDebt, Become, SalesTypeOK
  <1>3. total \in Nat
    <2>1. c.order \in 1 .. Len(orders)
      BY <1>1 DEF DebtInv, SalesTyped, Refers
    <2>2. orders[c.order] \in OrderRow
      BY <1>1, <2>1 DEF SalesTypeOK
    <2> QED
      BY <2>2 DEF OrderRow
  <1> HIDE DEF total
  <1>4. /\ freed \in CustomerRow /\ freed.debt <= customer.debt
        /\ freed.limit = customer.limit
    BY <1>1, <1>3 DEF SalesTypeOK, CustomerRow, Forgiven
  <1>5. customer.debt \in Nat /\ freed.debt \in Nat /\ topLimit \in Nat
    BY <1>1, <1>4 DEF SalesTypeOK, CustomerRow
  <1> HIDE DEF freed
  <1>6. d \in SalesCall /\ d.pc = "debtSelect" /\ d.customer = freed
    BY <1>1, <1>4 DEF SalesCall
  <1> HIDE DEF c, d
  <1>7. Solvent => Claims(d, topLimit)
    BY <1>4, <1>5, <1>6 DEF Solvent, Claims, Buying, Forgiving, Changing
  <1>8. Refers(d, Len(orders))
    BY <1>6 DEF Refers
  <1> QED
    BY <1>2, <1>6, <1>7, <1>8, SalesQuietOK

-----------------------------------------------------------------------------
(* Steps that write a table and end the call *)

\* The handler returns; the tables the conclusion needs are named.
LEMMA SalesWriteOK ==
  ASSUME DebtInv, NEW h \in Handlers, Return(h),
         customer' \in CustomerRow, quotes' \in [QuoteIds -> QuoteRow],
         orders' \in Seq(OrderRow), Len(orders') >= Len(orders), UNCHANGED outbounds,
         topLimit' \in Nat, topLimit' >= topLimit, bypassed' \in BOOLEAN,
         bypassed => bypassed',
         Solvent /\ ~bypassed' => /\ customer'.limit <= topLimit'
                                  /\ customer'.debt <= topLimit'
  PROVE  DebtInv'
  <1>1. overlaps' \in Nat /\ call' = [call EXCEPT ![h] = Idle]
    BY DEF Return, Become, DebtInv, SalesTyped, SalesTypeOK
  <1>2. outbounds' \in Seq({"PENDING", "ALLOCATED", "PICKING"})
    BY DEF DebtInv, SalesTyped, SalesTypeOK
  <1> QED
    BY <1>1, <1>2, SalesIdleOK, SalesStepOK

LEMMA CommitOrderKeeps ==
  ASSUME DebtInv, NEW h \in Handlers, CommitOrder(h)
  PROVE  DebtInv'
  <1> DEFINE c == call[h]
             o == [quote |-> c.quote, total |-> c.total,
                   outbound |-> Linked(c), status |-> "CONFIRMED"]
  <1>1. c \in SalesCall /\ c.pc = "commit" /\ SalesTypeOK
    BY InSalesCall DEF CommitOrder, At, DebtInv, SalesTyped
  <1>2. /\ c.customer \in CustomerRow /\ c.entity \in QuoteRow /\ c.bypass \in BOOLEAN
        /\ customer \in CustomerRow /\ topLimit \in Nat
    BY <1>1 DEF SalesCall, SalesTypeOK
  <1>3. orders' \in Seq(OrderRow) /\ Len(orders') >= Len(orders)
    <2>1. o \in OrderRow
      BY <1>1 DEF SalesCall, OrderRow, Linked
    <2>2. orders' = Append(orders, o) /\ orders \in Seq(OrderRow)
      BY <1>1 DEF CommitOrder, SalesTypeOK
    <2> HIDE DEF o
    <2> QED
      BY <2>1, <2>2
  <1>4. quotes' \in [QuoteIds -> QuoteRow]
    <2>1. quotes' = [q \in QuoteIds |-> IF q = c.quote
                       THEN SavedQuote(q, c.entity, c.quoteDirty) ELSE quotes[q]]
      BY DEF CommitOrder
    <2>2. \A q \in QuoteIds : quotes[q] \in QuoteRow
      BY <1>1 DEF SalesTypeOK
    <2> QED
      BY <1>1, <1>2, <2>1, <2>2, QuoteSaved
  <1>5. customer' = Merge(customer, c.customer, c.dirty)
    BY DEF CommitOrder
  <1>6. /\ customer' \in CustomerRow
        /\ customer'.debt \in {customer.debt, c.customer.debt}
        /\ customer'.limit \in {customer.limit, c.customer.limit}
    BY <1>2, <1>5, CustomerMerged
  <1>7. Return(h) /\ UNCHANGED <<outbounds, topLimit>> /\ bypassed' = (bypassed \/ c.bypass)
    BY DEF CommitOrder
  <1>8. Solvent /\ ~bypassed' => /\ c.customer.limit <= topLimit
                                 /\ c.customer.debt <= topLimit
    BY <1>1, <1>7 DEF Solvent, Claims
  <1>9. Solvent /\ ~bypassed' => customer'.limit <= topLimit' /\ customer'.debt <= topLimit'
    BY <1>6, <1>7, <1>8 DEF Solvent
  <1> HIDE DEF c
  <1>10. bypassed' \in BOOLEAN /\ (bypassed => bypassed')
    BY <1>1, <1>2, <1>7 DEF SalesTypeOK
  <1>11. topLimit' \in Nat /\ topLimit' >= topLimit
    BY <1>2, <1>7
  <1> QED
    BY <1>3, <1>4, <1>6, <1>7, <1>9, <1>10, <1>11, SalesWriteOK

LEMMA CommitCancelKeeps ==
  ASSUME DebtInv, NEW h \in Handlers, CommitCancel(h)
  PROVE  DebtInv'
  <1> DEFINE c == call[h]
  <1>1. c \in SalesCall /\ c.pc = "debtCommit" /\ SalesTypeOK
    BY InSalesCall DEF CommitCancel, At, DebtInv, SalesTyped
  <1>2. c.customer \in CustomerRow /\ customer \in CustomerRow /\ topLimit \in Nat
    BY <1>1 DEF SalesCall, SalesTypeOK
  <1>3. orders' \in Seq(OrderRow) /\ Len(orders') >= Len(orders)
    <2>1. orders' = [orders EXCEPT ![c.order].status = "CANCELED"]
      BY DEF CommitCancel
    <2>2. orders \in Seq(OrderRow) /\ Len(orders) \in Nat
      BY <1>1 DEF SalesTypeOK
    <2>3. CASE c.order \in 1 .. Len(orders)
      <3> DEFINE o == [orders[c.order] EXCEPT !.status = "CANCELED"]
      <3>1. orders[c.order] \in OrderRow
        BY <2>2, <2>3
      <3>2. o \in OrderRow
        BY <3>1 DEF OrderRow
      <3>3. orders' = [orders EXCEPT ![c.order] = o]
        BY <2>1
      <3> HIDE DEF o
      <3> QED
        BY <2>2, <2>3, <3>2, <3>3, ExceptSeq
    <2>4. CASE c.order \notin 1 .. Len(orders)
      <3>1. c.order \notin DOMAIN orders
        BY <2>2, <2>4
      <3>2. orders' = orders
        BY <2>1, <2>2, <3>1
      <3> QED
        BY <2>2, <3>2
    <2> QED
      BY <2>3, <2>4
  <1>4. customer' = Merge(customer, c.customer, c.dirty)
    BY DEF CommitCancel
  <1>5. /\ customer' \in CustomerRow
        /\ customer'.debt \in {customer.debt, c.customer.debt}
        /\ customer'.limit \in {customer.limit, c.customer.limit}
    BY <1>2, <1>4, CustomerMerged
  <1>6. Return(h) /\ UNCHANGED <<quotes, outbounds, topLimit, bypassed>>
    BY DEF CommitCancel
  <1>7. Solvent => c.customer.limit <= topLimit /\ c.customer.debt <= topLimit
    BY <1>1 DEF Solvent, Claims, Forgiving
  <1>8. Solvent => customer'.limit <= topLimit' /\ customer'.debt <= topLimit'
    BY <1>5, <1>6, <1>7 DEF Solvent
  <1>9. /\ quotes' \in [QuoteIds -> QuoteRow] /\ bypassed' \in BOOLEAN
        /\ topLimit' \in Nat /\ topLimit' >= topLimit
    BY <1>1, <1>6 DEF SalesTypeOK
  <1> QED
    BY <1>3, <1>5, <1>6, <1>8, <1>9, SalesWriteOK

\* The limit may be raised by the administrator: topLimit follows it.
LEMMA FlushCustomerKeeps ==
  ASSUME DebtInv, NEW h \in Handlers, FlushCustomer(h)
  PROVE  DebtInv'
  <1> DEFINE c == call[h]
  <1>1. c \in SalesCall /\ c.pc = "cFlush" /\ SalesTypeOK
    BY InSalesCall DEF FlushCustomer, At, DebtInv, SalesTyped
  <1>2. c.customer \in CustomerRow /\ customer \in CustomerRow /\ topLimit \in Nat
    BY <1>1 DEF SalesCall, SalesTypeOK
  <1>3. /\ customer' = Merge(customer, c.customer, c.dirty)
        /\ topLimit' = IF customer'.limit > topLimit THEN customer'.limit ELSE topLimit
        /\ Return(h) /\ UNCHANGED <<quotes, orders, outbounds, bypassed>>
    BY DEF FlushCustomer
  <1>4. customer' \in CustomerRow /\ customer'.debt \in {customer.debt, c.customer.debt}
    BY <1>2, <1>3, CustomerMerged
  <1>5. Solvent => c.customer.debt <= topLimit
    BY <1>1 DEF Solvent, Claims, Changing
  <1>6. /\ customer'.limit \in Nat /\ customer'.debt \in Nat
        /\ customer.debt \in Nat /\ c.customer.debt \in Nat
    BY <1>2, <1>4 DEF CustomerRow
  <1>7. topLimit' \in Nat /\ topLimit' >= topLimit /\ customer'.limit <= topLimit'
    BY <1>2, <1>3, <1>6
  <1>8. Solvent => customer'.debt <= topLimit'
    BY <1>2, <1>4, <1>5, <1>6, <1>7 DEF Solvent
  <1>9. /\ quotes' \in [QuoteIds -> QuoteRow] /\ bypassed' \in BOOLEAN
        /\ orders' \in Seq(OrderRow) /\ Len(orders') >= Len(orders)
    BY <1>1, <1>3 DEF SalesTypeOK
  <1> QED
    BY <1>3, <1>4, <1>7, <1>8, <1>9, SalesWriteOK

LEMMA QuoteWritesKeep ==
  ASSUME DebtInv, NEW h \in Handlers, InsertQuote(h) \/ FlushQuote(h) \/ DeleteQuote(h)
  PROVE  DebtInv'
  <1>0. SalesTypeOK
    BY DEF DebtInv, SalesTyped
  <1>1. Return(h) /\ UNCHANGED <<customer, orders, outbounds, topLimit, bypassed>>
    BY DEF InsertQuote, FlushQuote, DeleteQuote
  <1>2. quotes' \in [QuoteIds -> QuoteRow]
    <2>0. quotes \in [QuoteIds -> QuoteRow]
      BY <1>0 DEF SalesTypeOK
    <2>c. call[h].pc # "idle" => call[h] \in SalesCall
      BY <1>0, InSalesCall
    <2>1. CASE InsertQuote(h)
      <3>1. call[h].order \in Nat
        BY <2>1, <2>c DEF InsertQuote, At, SalesCall
      <3>2. [NoQuote EXCEPT !.kept = TRUE, !.number = call[h].order] \in QuoteRow
        BY <3>1 DEF NoQuote, QuoteRow, QuoteStatus
      <3> QED
        BY <2>0, <2>1, <3>2 DEF InsertQuote
    <2>2. CASE FlushQuote(h)
      <3>1. call[h].entity \in QuoteRow
        BY <2>2, <2>c DEF FlushQuote, At, SalesCall
      <3>2. \A q \in QuoteIds :
              SavedQuote(q, call[h].entity, call[h].quoteDirty) \in QuoteRow
        BY <1>0, <3>1, QuoteSaved
      <3> QED
        BY <2>0, <2>2, <3>2 DEF FlushQuote
    <2>3. CASE DeleteQuote(h)
      BY <2>0, <2>3, EmptyTyped DEF DeleteQuote
    <2> QED
      BY <2>1, <2>2, <2>3
  <1>3. /\ customer' \in CustomerRow /\ bypassed' \in BOOLEAN
        /\ orders' \in Seq(OrderRow) /\ Len(orders') >= Len(orders)
        /\ topLimit' \in Nat /\ topLimit' >= topLimit
    BY <1>0, <1>1 DEF SalesTypeOK
  <1>4. Solvent => customer'.limit <= topLimit' /\ customer'.debt <= topLimit'
    BY <1>1 DEF Solvent
  <1> QED
    BY <1>1, <1>2, <1>3, <1>4, SalesWriteOK

LEMMA InsertOutboundKeeps ==
  ASSUME DebtInv, NEW h \in Handlers, InsertOutbound(h)
  PROVE  DebtInv'
  <1> DEFINE d == [call[h] EXCEPT !.pc = "select"]
  <1>0. SalesTypeOK
    BY DEF DebtInv, SalesTyped
  <1>1. CASE UNCHANGED outbounds /\ Return(h)
    BY <1>1, SalesReturnOK DEF InsertOutbound, salesTables
  <1>2. CASE outbounds' = Append(outbounds, "PENDING") /\ Goto(h, "select")
    <2>1. call[h] \in SalesCall /\ call[h].pc = "outInsert"
      BY <1>0, InSalesCall DEF InsertOutbound, At
    <2>2. /\ d \in SalesCall /\ d.pc = "select" /\ d.customer = call[h].customer
          /\ d.bypass = call[h].bypass /\ d.total = call[h].total
      BY <2>1 DEF SalesCall
    <2>3. call' = [call EXCEPT ![h] = d] /\ overlaps' \in Nat
      BY <1>0, <1>2 DEF Goto, Become, SalesTypeOK
    <2> HIDE DEF d
    <2>4. Solvent => Claims(d, topLimit)
      BY <2>1, <2>2 DEF Solvent, Claims, Buying, Forgiving, Changing
    <2>5. Refers(d, Len(orders))
      BY <2>2 DEF Refers
    <2>6. outbounds' \in Seq({"PENDING", "ALLOCATED", "PICKING"})
      BY <1>0, <1>2 DEF SalesTypeOK
    <2>7. UNCHANGED <<customer, quotes, orders, topLimit, bypassed>>
      BY DEF InsertOutbound
    <2>8. /\ customer' \in CustomerRow /\ quotes' \in [QuoteIds -> QuoteRow]
          /\ orders' \in Seq(OrderRow) /\ Len(orders') >= Len(orders)
          /\ topLimit' \in Nat /\ topLimit' >= topLimit /\ bypassed' \in BOOLEAN
      BY <1>0, <2>7 DEF SalesTypeOK
    <2>9. Solvent => /\ Claims(d, topLimit') /\ customer'.limit <= topLimit'
                     /\ customer'.debt <= topLimit'
      BY <2>4, <2>7 DEF Solvent
    <2>10. Refers(d, Len(orders')) /\ (bypassed => bypassed')
      BY <2>5, <2>7
    <2> QED
      BY <2>2, <2>3, <2>6, <2>8, <2>9, <2>10, SalesStepOK
  <1> QED
    BY <1>1, <1>2 DEF InsertOutbound

\* The warehouse moves on by itself.
LEMMA OutboundMovesKeeps ==
  ASSUME DebtInv, OutboundMoves
  PROVE  DebtInv'
  <1>0. SalesTypeOK
    BY DEF DebtInv, SalesTyped
  <1>1. overlaps' \in Nat
    BY <1>0, SalesDisturbed DEF OutboundMoves
  <1>2. outbounds' \in Seq({"PENDING", "ALLOCATED", "PICKING"})
    BY <1>0 DEF OutboundMoves, SalesTypeOK
  <1>3. UNCHANGED <<call, customer, quotes, orders, topLimit, bypassed>>
    BY DEF OutboundMoves
  <1> QED
    BY <1>0, <1>1, <1>2, <1>3 DEF DebtInv, SalesTyped, SalesTypeOK, Solvent

-----------------------------------------------------------------------------
LEMMA SalesInitOK == SalesInit => DebtInv
  <1> SUFFICES ASSUME SalesInit PROVE DebtInv
    OBVIOUS
  <1>1. /\ customer \in CustomerRow /\ customer.debt = 0 /\ topLimit = customer.limit
        /\ topLimit \in Nat
    <2>1. customer \in [debt : {0}, limit : Limits, barred : {FALSE}] /\ Limits \subseteq Nat
      BY SalesAssumption DEF SalesInit
    <2>2. customer.debt = 0 /\ customer.limit \in Nat /\ customer.barred = FALSE
      BY <2>1
    <2>3. [debt : {0}, limit : Limits, barred : {FALSE}] \subseteq
             [debt : Nat, limit : Nat, barred : BOOLEAN]
      <3>1. {0} \subseteq Nat /\ {FALSE} \subseteq BOOLEAN
        OBVIOUS
      <3> QED
        BY <2>1, <3>1, Zenon
    <2>4. customer \in CustomerRow
      BY <2>1, <2>3, Zenon DEF CustomerRow
    <2> QED
      BY <2>2, <2>4 DEF SalesInit
  <1>2. quotes \in [QuoteIds -> QuoteRow]
    BY EmptyTyped DEF SalesInit
  <1>3. \A h \in Handlers : call[h] = Idle
    BY DEF SalesInit, ServerInit
  <1>4. SalesTypeOK
    <2>1. /\ orders \in Seq(OrderRow) /\ overlaps \in Nat /\ bypassed \in BOOLEAN
          /\ outbounds \in Seq({"PENDING", "ALLOCATED", "PICKING"})
      <3>1. orders = <<>> /\ outbounds = <<>> /\ bypassed = FALSE /\ overlaps = 0
        BY DEF SalesInit, ServerInit
      <3>2. orders \in Seq(OrderRow) /\ outbounds \in Seq({"PENDING", "ALLOCATED", "PICKING"})
        BY <3>1
      <3>3. overlaps \in Nat
        BY <3>1
      <3>4. bypassed \in BOOLEAN
        BY <3>1
      <3> QED
        BY <3>2, <3>3, <3>4
    <2>2. call \in [Handlers -> {Idle} \cup SalesCall]
      BY DEF SalesInit, ServerInit
    <2> QED
      BY <1>1, <1>2, <2>1, <2>2 DEF SalesTypeOK
  <1> QED
    BY <1>1, <1>3, <1>4, SalesIdleOK DEF DebtInv, SalesTyped, Solvent

LEMMA SalesNextKeeps == DebtInv /\ [SalesNext]_salesVars => DebtInv'
  <1> SUFFICES ASSUME DebtInv, [SalesNext]_salesVars PROVE DebtInv'
    OBVIOUS
  <1>1. CASE UNCHANGED salesVars
    BY <1>1 DEF salesVars, salesTables, serverVars, DebtInv, SalesTyped, SalesTypeOK, Solvent
  <1>2. ASSUME NEW h \in Handlers, SalesContinue(h) PROVE DebtInv'
    BY <1>2, CheckQuoteKeeps, SalesReadingKeeps, SelectRowsKeeps, ReadDebtKeeps, CommitOrderKeeps,
       CommitCancelKeeps, FlushCustomerKeeps, QuoteWritesKeep, InsertOutboundKeeps
    DEF SalesContinue
  <1>3. ASSUME NEW h \in Handlers, SalesCrash(h) PROVE DebtInv'
    <2>1. call' = [call EXCEPT ![h] = Idle] /\ overlaps' \in Nat /\ UNCHANGED salesTables
      BY <1>3, SalesDisturbed DEF SalesCrash, Crash, DebtInv, SalesTyped
    <2> QED
      BY <2>1, SalesIdleOK, SalesQuietOK
  <1> QED
    BY <1>1, <1>2, <1>3, SalesArriveKeeps, OutboundMovesKeeps DEF SalesNext

\* A customer never owes more than a credit limit the customer was given, as
\* long as no order was let through on purpose, for any number of handlers, of
\* overlapping saves and of crashes, any amounts and limits (SalesOrderService
\* create and cancel, CustomersService update).
THEOREM DebtBounded == SalesSpec => []DebtWithinLimit
  <1>1. DebtInv => DebtWithinLimit
    BY DEF DebtInv, Solvent, DebtWithinLimit
  <1> QED
    BY <1>1, SalesInitOK, SalesNextKeeps, PTL DEF SalesSpec

-----------------------------------------------------------------------------
(* Orders and their outbounds, whatever overlaps *)

\* The outbound is stored, the order that will name it is not.
Placing == {"select", "commit"}

OutboundsOwned ==
  /\ \A o \in DOMAIN orders : orders[o].outbound \in DOMAIN outbounds
  /\ \A o, p \in DOMAIN orders : orders[o].outbound = orders[p].outbound => o = p
  /\ \A h \in Handlers : call[h].pc \in Placing =>
       /\ call[h].outbound \in DOMAIN outbounds
       /\ \A o \in DOMAIN orders : orders[o].outbound # call[h].outbound
  /\ \A g, h \in Handlers :
       call[g].pc \in Placing /\ call[h].pc \in Placing /\ call[g].outbound = call[h].outbound
         => g = h

OwnedInv == SalesTyped /\ OutboundsOwned

\* Steps that neither store an outbound nor an order.
LEMMA OwnedStays ==
  ASSUME OwnedInv, NEW h \in Handlers, \A g \in Handlers \ {h} : call'[g] = call[g],
         DOMAIN orders' = DOMAIN orders, DOMAIN outbounds' = DOMAIN outbounds,
         \A o \in DOMAIN orders : orders'[o].outbound = orders[o].outbound,
         call'[h].pc \in Placing =>
           call[h].pc \in Placing /\ call'[h].outbound = call[h].outbound
  PROVE  OutboundsOwned'
  BY DEF OwnedInv, OutboundsOwned

LEMMA OneChanges ==
  ASSUME SalesTyped, NEW h \in Handlers
  PROVE  \A c : Begin(h, c) \/ Become(h, c) \/ (c = Idle /\ Crash(h)) =>
                 call'[h] = c /\ \A g \in Handlers \ {h} : call'[g] = call[g]
  BY DEF Begin, Become, Crash, SalesTyped, SalesTypeOK

\* The calls and the steps that leave outbounds and orders alone.
Placeless(h) ==
  \/ SalesArrive(h) \/ SalesCrash(h)
  \/ CheckQuote(h) \/ NumberOrder(h) \/ InsertOrder(h) \/ NumberOutbound(h)
  \/ CheckOutbound(h) \/ SaveCanceled(h) \/ ReadDebt(h) \/ SelectDebt(h)
  \/ NumberQuote(h) \/ InsertQuote(h) \/ SelectQuote(h) \/ FlushQuote(h) \/ DeleteQuote(h)
  \/ SelectCustomer(h) \/ FlushCustomer(h)

LEMMA Stages ==
  /\ EmptyCall.pc \notin Placing /\ Idle.pc \notin Placing
  /\ \A c \in SalesCall : DOMAIN c = DOMAIN EmptyCall
  BY DEF EmptyCall, Idle, Placing, SalesCall

LEMMA PlacelessStep ==
  ASSUME SalesTyped, NEW h \in Handlers, Placeless(h)
  PROVE  /\ UNCHANGED <<orders, outbounds>>
         /\ call'[h].pc \notin Placing /\ \A g \in Handlers \ {h} : call'[g] = call[g]
  <1>0. call = [g \in Handlers |-> call[g]]
    BY DEF SalesTyped, SalesTypeOK
  <1>1. UNCHANGED <<orders, outbounds>>
    BY DEF Placeless, SalesArrive, SalesCrash, CheckQuote, NumberOrder, InsertOrder,
       NumberOutbound, CheckOutbound, SaveCanceled, ReadDebt, SelectDebt, NumberQuote,
       InsertQuote, SelectQuote, FlushQuote, DeleteQuote, SelectCustomer, FlushCustomer,
       CreateOrder, CancelOrder, CreateQuote, UpdateQuote, TransitionStatus, CancelQuote,
       UpdateCustomer, salesTables
  <1>2. SUFFICES call'[h].pc \notin Placing /\ \A g \in Handlers \ {h} : call'[g] = call[g]
    BY <1>1
  <1>3. CASE Return(h) \/ SalesCrash(h)
    BY <1>3, Stages, OneChanges DEF Return, SalesCrash
  <1>4. CASE SalesArrive(h)
    <2>1. CASE CreateOrder(h)
      BY <2>1, <1>0 DEF Begin, Become, CreateOrder, EmptyCall, Placing
    <2>2. CASE CancelOrder(h)
      BY <2>2, <1>0 DEF Begin, Become, CancelOrder, EmptyCall, Placing
    <2>3. CASE CreateQuote(h)
      BY <2>3, <1>0 DEF Begin, Become, CreateQuote, EmptyCall, Placing
    <2>4. CASE UpdateQuote(h)
      BY <2>4, <1>0 DEF Begin, Become, UpdateQuote, EmptyCall, Placing
    <2>5. CASE TransitionStatus(h)
      <3>1. PICK q, e : Begin(h, [EmptyCall EXCEPT !.pc = "qSelect", !.quote = q, !.entity = e])
        BY <2>5 DEF TransitionStatus
      <3>2. PICK c : c = [EmptyCall EXCEPT !.pc = "qSelect", !.quote = q, !.entity = e]
        OBVIOUS
      <3>3. c.pc = "qSelect"
        BY <3>2 DEF EmptyCall
      <3> QED
        BY <1>0, <3>1, <3>2, <3>3 DEF Begin, Placing
    <2>6. CASE CancelQuote(h)
      BY <2>6, <1>0 DEF Begin, Become, CancelQuote, EmptyCall, Placing
    <2>7. CASE UpdateCustomer(h)
      <3>1. PICK e : Begin(h, [EmptyCall EXCEPT !.pc = "cSelect", !.customer = e])
        BY <2>7 DEF UpdateCustomer
      <3>2. PICK c : c = [EmptyCall EXCEPT !.pc = "cSelect", !.customer = e]
        OBVIOUS
      <3>3. c.pc = "cSelect"
        BY <3>2 DEF EmptyCall
      <3> QED
        BY <1>0, <3>1, <3>2, <3>3 DEF Begin, Placing
    <2> QED
      BY <1>4, <2>1, <2>2, <2>3, <2>4, <2>5, <2>6, <2>7 DEF SalesArrive
  <1>5. CASE ~ Return(h) /\ ~ SalesArrive(h) /\ ~ SalesCrash(h)
    <2>1. call[h].pc # "idle"
      BY <1>5 DEF Placeless, CheckQuote, NumberOrder, InsertOrder, NumberOutbound,
         CheckOutbound, SaveCanceled, ReadDebt, SelectDebt, NumberQuote, InsertQuote,
         SelectQuote, FlushQuote, DeleteQuote, SelectCustomer, FlushCustomer, At
    <2>2. PICK c : c = call[h]
      OBVIOUS
    <2>3. DOMAIN c = DOMAIN EmptyCall
      BY <2>1, <2>2, InSalesCall, Stages DEF SalesTyped
    <2>4. "pc" \in DOMAIN c
      BY <2>3 DEF EmptyCall
    <2>5. CASE InsertOrder(h) \/ CheckOutbound(h) \/ SaveCanceled(h)
      BY <1>5, <2>2, <2>4, <2>5, <1>0
         DEF Begin, Become, InsertOrder, CheckOutbound, SaveCanceled, Goto, Placing
    <2>6. CASE CheckQuote(h)
      BY <1>5, <2>2, <2>4, <2>6, <1>0 DEF Begin, Become, CheckQuote, Placing
    <2>7. CASE NumberOrder(h)
      BY <1>5, <2>2, <2>4, <2>7, <1>0 DEF Begin, Become, NumberOrder, Placing
    <2>8. CASE NumberOutbound(h)
      BY <1>5, <2>2, <2>4, <2>8, <1>0 DEF Begin, Become, NumberOutbound, Placing
    <2>9. CASE ReadDebt(h)
      BY <1>5, <2>2, <2>4, <2>9, <1>0 DEF Begin, Become, ReadDebt, Placing
    <2>10. CASE SelectDebt(h)
      BY <1>5, <2>2, <2>4, <2>10, <1>0 DEF Begin, Become, SelectDebt, Placing
    <2>11. CASE NumberQuote(h)
      BY <1>5, <2>2, <2>4, <2>11, <1>0 DEF Begin, Become, NumberQuote, Placing
    <2>12. CASE SelectQuote(h)
      BY <1>5, <2>2, <2>4, <2>12, <1>0 DEF Begin, Become, SelectQuote, Placing
    <2>13. CASE SelectCustomer(h)
      BY <1>5, <2>2, <2>4, <2>13, <1>0 DEF Begin, Become, SelectCustomer, Placing
    <2> QED
      BY <1>5, <2>5, <2>6, <2>7, <2>8, <2>9, <2>10, <2>11, <2>12, <2>13
         DEF Placeless, InsertQuote, FlushQuote, DeleteQuote, FlushCustomer
  <1> QED
    BY <1>3, <1>4, <1>5

LEMMA OutboundPlaced ==
  ASSUME OwnedInv, NEW h \in Handlers, InsertOutbound(h)
  PROVE  OutboundsOwned'
  <1>1. PICK c : c = call[h]
    OBVIOUS
  <1>2. c \in SalesCall /\ c.pc = "outInsert"
    BY <1>1, InSalesCall DEF InsertOutbound, At, OwnedInv, SalesTyped
  <1>3. CASE Return(h) /\ UNCHANGED outbounds
    BY <1>3, OwnedStays, Stages DEF Return, Become, InsertOutbound
  <1>4. CASE FreeOutbound(h) /\ Goto(h, "select") /\ outbounds' = Append(outbounds, "PENDING")
    <2>1. PICK d : d = [c EXCEPT !.pc = "select"]
      OBVIOUS
    <2>2. d.outbound = c.outbound /\ call' = [call EXCEPT ![h] = d]
      BY <1>1, <1>2, <1>4, <2>1 DEF Goto, Become, SalesCall
    <2>3. \A g \in Handlers : call'[g] = IF g = h THEN d ELSE call[g]
      BY <2>2 DEF OwnedInv, SalesTyped, SalesTypeOK
    <2>4. PICK n : n = Len(outbounds)
      OBVIOUS
    <2>5. n \in Nat /\ DOMAIN outbounds = 1 .. n
      BY <2>4 DEF OwnedInv, SalesTyped, SalesTypeOK
    <2>6. DOMAIN outbounds' = 1 .. (n + 1)
      BY <1>4, <2>4, AppendProperties DEF OwnedInv, SalesTyped, SalesTypeOK
    <2>7. DOMAIN outbounds \subseteq DOMAIN outbounds' /\ d.outbound \in DOMAIN outbounds'
          /\ d.outbound \notin DOMAIN outbounds
      BY <1>1, <1>4, <2>2, <2>4, <2>5, <2>6 DEF FreeOutbound
    <2>8. orders' = orders
      BY DEF InsertOutbound
    <2> QED
      BY <2>3, <2>7, <2>8 DEF OwnedInv, OutboundsOwned
  <1> QED
    BY <1>3, <1>4 DEF InsertOutbound

LEMMA OrderStored ==
  ASSUME OwnedInv, NEW h \in Handlers, CommitOrder(h)
  PROVE  OutboundsOwned'
  <1>1. PICK c, row : c = call[h] /\ row = [quote |-> c.quote, total |-> c.total,
                                          outbound |-> c.outbound, status |-> "CONFIRMED"]
    OBVIOUS
  <1>2. c.pc = "commit" /\ orders' = Append(orders, row) /\ outbounds' = outbounds
    BY <1>1 DEF CommitOrder, At, Linked
  <1>3. c \in SalesCall
    BY <1>1, <1>2, InSalesCall DEF OwnedInv, SalesTyped
  <1>4. \A g \in Handlers : call'[g] = IF g = h THEN Idle ELSE call[g]
    BY DEF CommitOrder, Return, Become, OwnedInv, SalesTyped, SalesTypeOK
  <1>5. PICK n : n = Len(orders)
    OBVIOUS
  <1>6. n \in Nat /\ DOMAIN orders = 1 .. n
    BY <1>5 DEF OwnedInv, SalesTyped, SalesTypeOK
  <1>7. /\ DOMAIN orders' = 1 .. (n + 1) /\ orders'[n + 1] = row
        /\ \A o \in DOMAIN orders : orders'[o] = orders[o]
    BY <1>2, <1>5, AppendProperties DEF OwnedInv, SalesTyped, SalesTypeOK
  <1>8. \A o \in DOMAIN orders' : o = n + 1 \/ o \in DOMAIN orders
    BY <1>6, <1>7
  <1>9. /\ c.outbound \in DOMAIN outbounds /\ row.outbound = c.outbound
        /\ \A o \in DOMAIN orders : orders[o].outbound # c.outbound
        /\ \A g \in Handlers \ {h} : call[g].pc \in Placing => call[g].outbound # c.outbound
    BY <1>1, <1>2 DEF OwnedInv, OutboundsOwned, Placing
  <1>10. \A o \in DOMAIN orders' : orders'[o].outbound \in DOMAIN outbounds'
    BY <1>2, <1>7, <1>8, <1>9 DEF OwnedInv, OutboundsOwned
  <1>11. \A o, p \in DOMAIN orders' : orders'[o].outbound = orders'[p].outbound => o = p
    BY <1>7, <1>8, <1>9 DEF OwnedInv, OutboundsOwned
  <1>12. ASSUME NEW g \in Handlers, call'[g].pc \in Placing
         PROVE  /\ g # h /\ call'[g] = call[g] /\ call'[g].outbound \in DOMAIN outbounds'
                /\ \A o \in DOMAIN orders' : orders'[o].outbound # call'[g].outbound
    <2>1. g # h /\ call'[g] = call[g]
      BY <1>4, <1>12, Stages
    <2> QED
      BY <1>2, <1>7, <1>8, <1>9, <1>12, <2>1 DEF OwnedInv, OutboundsOwned
  <1> QED
    BY <1>10, <1>11, <1>12 DEF OwnedInv, OutboundsOwned

LEMMA OwnedKept ==
  ASSUME OwnedInv, SalesTyped', [SalesNext]_salesVars
  PROVE  OwnedInv'
  <1>1. CASE UNCHANGED salesVars
    BY <1>1 DEF salesVars, salesTables, serverVars, OwnedInv, OutboundsOwned
  <1>2. CASE OutboundMoves
    <2>1. DOMAIN outbounds' = DOMAIN outbounds /\ UNCHANGED <<call, orders>>
      BY <1>2 DEF OutboundMoves
    <2> QED
      BY <2>1 DEF OwnedInv, OutboundsOwned
  <1>3. ASSUME NEW h \in Handlers, Placeless(h) PROVE OutboundsOwned'
    BY <1>3, PlacelessStep, OwnedStays DEF OwnedInv
  <1>4. ASSUME NEW h \in Handlers, SelectRows(h) PROVE OutboundsOwned'
    <2>1. PICK c : c = call[h]
      OBVIOUS
    <2>2. c \in SalesCall /\ c.pc = "select"
      BY <1>4, <2>1, InSalesCall DEF SelectRows, At, OwnedInv, SalesTyped
    <2>3. PICK d : /\ call' = [call EXCEPT ![h] = d] /\ d.outbound = c.outbound
                   /\ UNCHANGED salesTables
      BY <1>4, <2>1, <2>2 DEF SelectRows, Become, SalesCall
    <2> QED
      BY <2>1, <2>2, <2>3, OwnedStays DEF salesTables, Placing
  <1>5. ASSUME NEW h \in Handlers, CommitCancel(h) PROVE OutboundsOwned'
    <2>1. PICK n : n = call[h].order
      OBVIOUS
    <2>2. orders' = [orders EXCEPT ![n].status = "CANCELED"]
      BY <1>5, <2>1 DEF CommitCancel
    <2>3. DOMAIN orders' = DOMAIN orders
      BY <2>2
    <2>4. ASSUME NEW o \in DOMAIN orders PROVE orders'[o].outbound = orders[o].outbound
      <3>1. orders[o] \in OrderRow
        BY DEF OwnedInv, SalesTyped, SalesTypeOK
      <3> QED
        BY <2>2, <3>1 DEF OrderRow
    <2> QED
      BY <1>5, <2>3, <2>4, OwnedStays, Stages DEF CommitCancel, Return, Become
  <1>6. ASSUME NEW h \in Handlers, SalesArrive(h) \/ SalesContinue(h) \/ SalesCrash(h)
        PROVE  OutboundsOwned'
    BY <1>3, <1>4, <1>5, <1>6, OutboundPlaced, OrderStored DEF SalesContinue, Placeless
  <1> QED
    BY <1>1, <1>2, <1>6 DEF SalesNext, OwnedInv

-----------------------------------------------------------------------------
(* The outbounds without an order, whatever overlaps *)

\* The outbounds that are stored and whose orders are still to come.
Placers == {h \in Handlers : call[h].pc \in Placing}

\* An outbound has an order, or will have one, or lost it to a crash.
PlacedInv ==
  /\ SalesTyped /\ IsFiniteSet(Placers)
  /\ Len(outbounds) <= Len(orders) + Cardinality(Placers) + overlaps

LEMMA PlacedMoves ==
  ASSUME PlacedInv, SalesTyped', NEW h \in Handlers,
         \A g \in Handlers \ {h} : call'[g] = call[g],
         NEW gone \in Int,
         gone = (IF h \in Placers THEN 1 ELSE 0) - (IF call'[h].pc \in Placing THEN 1 ELSE 0),
         Len(outbounds') + gone + overlaps <= Len(outbounds) + overlaps' + Len(orders') - Len(orders)
  PROVE  PlacedInv'
  <1>1. PICK n : n = Cardinality(Placers)
    OBVIOUS
  <1>2. n \in Nat /\ IsFiniteSet(Placers)
    BY <1>1, FS_CardinalityType DEF PlacedInv
  <1>3. /\ IsFiniteSet(Placers \cup {h}) /\ IsFiniteSet(Placers \ {h})
        /\ Cardinality(Placers \cup {h}) = IF h \in Placers THEN n ELSE n + 1
        /\ Cardinality(Placers \ {h}) = IF h \in Placers THEN n - 1 ELSE n
    BY <1>1, <1>2, FS_AddElement, FS_RemoveElement
  <1>4. Placers' = IF call'[h].pc \in Placing THEN Placers \cup {h} ELSE Placers \ {h}
    <2>1. \A g : g \in Placers' <=>
            g \in (IF call'[h].pc \in Placing THEN Placers \cup {h} ELSE Placers \ {h})
      BY DEF Placers, Placing
    <2> QED
      BY <2>1
  <1>5. IsFiniteSet(Placers') /\ Cardinality(Placers') = n - gone
    BY <1>2, <1>3, <1>4
  <1>6. PICK a, a2, b, b2, c, c2 :
          /\ a = Len(outbounds) /\ a2 = Len(outbounds') /\ b = Len(orders) /\ b2 = Len(orders')
          /\ c = overlaps /\ c2 = overlaps'
    OBVIOUS
  <1>7. a \in Nat /\ a2 \in Nat /\ b \in Nat /\ b2 \in Nat /\ c \in Nat /\ c2 \in Nat
    BY <1>6 DEF PlacedInv, SalesTyped, SalesTypeOK
  <1>8. a <= b + n + c
    BY <1>1, <1>6 DEF PlacedInv
  <1>9. a2 + gone + c <= a + c2 + b2 - b
    BY <1>6
  <1>10. a2 <= b2 + (n - gone) + c2
    BY <1>2, <1>7, <1>8, <1>9
  <1> QED
    BY <1>5, <1>6, <1>10 DEF PlacedInv

\* The steps that neither store an outbound or an order nor begin to.
LEMMA PlacelessCounts ==
  ASSUME PlacedInv, SalesTyped', NEW h \in Handlers, Placeless(h)
  PROVE  PlacedInv'
  <1>1. /\ UNCHANGED <<orders, outbounds>> /\ call'[h].pc \notin Placing
        /\ \A g \in Handlers \ {h} : call'[g] = call[g]
    BY PlacelessStep DEF PlacedInv
  <1>2. overlaps \in Nat /\ overlaps' \in Nat /\ Len(outbounds) \in Nat /\ Len(orders) \in Nat
    BY DEF PlacedInv, SalesTyped, SalesTypeOK
  <1>3. overlaps + (IF h \in Placers THEN 1 ELSE 0) <= overlaps'
    <2>1. CASE SalesCrash(h)
      BY <1>2, <2>1 DEF SalesCrash, Crash, Disturb, Quiet, Placers, Placing, At
    <2>2. CASE SalesArrive(h)
      <3>1. At(h, "idle") /\ Disturb
        BY <2>2 DEF SalesArrive, CreateOrder, CancelOrder, CreateQuote, UpdateQuote,
           TransitionStatus, CancelQuote, UpdateCustomer, Begin
      <3> QED
        BY <1>2, <3>1 DEF At, Placers, Placing, Disturb
    <2>3. CASE ~ SalesCrash(h) /\ ~ SalesArrive(h)
      <3>1. UNCHANGED overlaps
        BY <2>3 DEF Placeless, CheckQuote, NumberOrder, InsertOrder, NumberOutbound,
           CheckOutbound, SaveCanceled, ReadDebt, SelectDebt, NumberQuote, InsertQuote,
           SelectQuote, FlushQuote, DeleteQuote, SelectCustomer, FlushCustomer,
           Become, Goto, Return
      <3>2. h \notin Placers
        BY <2>3 DEF Placeless, CheckQuote, NumberOrder, InsertOrder, NumberOutbound,
           CheckOutbound, SaveCanceled, ReadDebt, SelectDebt, NumberQuote, InsertQuote,
           SelectQuote, FlushQuote, DeleteQuote, SelectCustomer, FlushCustomer,
           At, Placers, Placing
      <3> QED
        BY <1>2, <3>1, <3>2
    <2> QED
      BY <2>1, <2>2, <2>3
  <1>4. PICK gone \in Int :
          gone = (IF h \in Placers THEN 1 ELSE 0) - (IF call'[h].pc \in Placing THEN 1 ELSE 0)
    OBVIOUS
  <1>5. Len(outbounds') + gone + overlaps
          <= Len(outbounds) + overlaps' + Len(orders') - Len(orders)
    BY <1>1, <1>2, <1>3, <1>4
  <1> QED
    BY <1>1, <1>4, <1>5, PlacedMoves

LEMMA PlacedKept ==
  ASSUME PlacedInv, SalesTyped', [SalesNext]_salesVars
  PROVE  PlacedInv'
  <1>0. /\ overlaps \in Nat /\ overlaps' \in Nat /\ Len(outbounds) \in Nat /\ Len(orders) \in Nat
        /\ call = [g \in Handlers |-> call[g]]
    BY DEF PlacedInv, SalesTyped, SalesTypeOK
  <1>1. CASE UNCHANGED salesVars
    BY <1>1 DEF salesVars, salesTables, serverVars, PlacedInv, Placers
  <1>2. CASE OutboundMoves
    <2>1. Len(outbounds') = Len(outbounds) /\ UNCHANGED <<call, orders>>
      BY <1>2 DEF OutboundMoves, PlacedInv, SalesTyped, SalesTypeOK
    <2>2. overlaps <= overlaps'
      BY <1>0, <1>2 DEF OutboundMoves, Disturb
    <2>3. Placers' = Placers
      BY <2>1 DEF Placers
    <2>4. Cardinality(Placers) \in Nat
      BY FS_CardinalityType DEF PlacedInv
    <2> QED
      BY <1>0, <2>1, <2>2, <2>3, <2>4 DEF PlacedInv
  <1>3. ASSUME NEW h \in Handlers, InsertOutbound(h) PROVE PlacedInv'
    <2>1. CASE Return(h) /\ UNCHANGED outbounds
      <3>1. call'[h] = Idle /\ \A g \in Handlers \ {h} : call'[g] = call[g]
        BY <1>0, <2>1 DEF Return, Become
      <3>2. h \notin Placers /\ UNCHANGED <<orders, overlaps>>
        BY <1>3, <2>1 DEF InsertOutbound, At, Placers, Placing, Return, Become
      <3> QED
        BY <1>0, <2>1, <3>1, <3>2, PlacedMoves, Stages
    <2>2. CASE Goto(h, "select") /\ outbounds' = Append(outbounds, "PENDING")
      <3>1. call[h].pc = "outInsert" /\ call[h] \in SalesCall
        BY <1>3, InSalesCall DEF InsertOutbound, At, PlacedInv, SalesTyped
      <3>2. call'[h].pc = "select" /\ \A g \in Handlers \ {h} : call'[g] = call[g]
        BY <1>0, <2>2, <3>1 DEF Goto, Become, SalesCall
      <3>3. h \notin Placers /\ call'[h].pc \in Placing /\ UNCHANGED <<orders, overlaps>>
        BY <1>3, <2>2, <3>1, <3>2 DEF Placers, Placing, InsertOutbound, Goto, Become
      <3>4. Len(outbounds') = Len(outbounds) + 1
        BY <2>2, AppendProperties DEF PlacedInv, SalesTyped, SalesTypeOK
      <3> QED
        BY <1>0, <3>2, <3>3, <3>4, PlacedMoves
    <2> QED
      BY <1>3, <2>1, <2>2 DEF InsertOutbound
  <1>4. ASSUME NEW h \in Handlers, SelectRows(h) PROVE PlacedInv'
    <2>1. call[h].pc = "select" /\ call[h] \in SalesCall
      BY <1>4, InSalesCall DEF SelectRows, At, PlacedInv, SalesTyped
    <2>2. PICK d : d.pc = "commit" /\ call' = [call EXCEPT ![h] = d]
      <3>1. PICK c : c = call[h] /\ c \in SalesCall
        BY <2>1
      <3>2. PICK owes, sold, dirty, quoteDirty :
              call' = [call EXCEPT ![h] = [c EXCEPT !.pc = "commit", !.customer = owes,
                         !.entity = sold, !.dirty = dirty, !.quoteDirty = quoteDirty]]
        BY <1>4, <3>1 DEF SelectRows, Become
      <3>3. PICK d : d = [c EXCEPT !.pc = "commit", !.customer = owes, !.entity = sold,
                                   !.dirty = dirty, !.quoteDirty = quoteDirty]
        OBVIOUS
      <3>4. d.pc = "commit"
        BY <3>1, <3>3 DEF SalesCall
      <3> QED
        BY <3>2, <3>3, <3>4
    <2>3. /\ h \in Placers /\ call'[h].pc \in Placing
          /\ \A g \in Handlers \ {h} : call'[g] = call[g]
      BY <1>0, <2>1, <2>2 DEF Placers, Placing
    <2>4. UNCHANGED <<orders, outbounds, overlaps>>
      BY <1>4 DEF SelectRows, Become, salesTables
    <2> QED
      BY <1>0, <2>3, <2>4, PlacedMoves
  <1>5. ASSUME NEW h \in Handlers, CommitOrder(h) PROVE PlacedInv'
    <2>1. PICK row : orders' = Append(orders, row)
      BY <1>5 DEF CommitOrder
    <2>2. Len(orders') = Len(orders) + 1
      BY <2>1 DEF PlacedInv, SalesTyped, SalesTypeOK
    <2>3. /\ call'[h] = Idle /\ \A g \in Handlers \ {h} : call'[g] = call[g]
          /\ h \in Placers /\ UNCHANGED <<outbounds, overlaps>>
      BY <1>0, <1>5 DEF CommitOrder, At, Return, Become, Placers, Placing
    <2> QED
      BY <1>0, <2>2, <2>3, PlacedMoves, Stages
  <1>6. ASSUME NEW h \in Handlers, CommitCancel(h) PROVE PlacedInv'
    <2>1. Len(orders') = Len(orders)
      <3>1. PICK n : n = call[h].order
        OBVIOUS
      <3>2. orders' = [orders EXCEPT ![n].status = "CANCELED"]
        BY <1>6, <3>1 DEF CommitCancel
      <3> QED
        BY <3>2 DEF PlacedInv, SalesTyped, SalesTypeOK
    <2>2. /\ call'[h] = Idle /\ \A g \in Handlers \ {h} : call'[g] = call[g]
          /\ h \notin Placers /\ UNCHANGED <<outbounds, overlaps>>
      BY <1>0, <1>6 DEF CommitCancel, At, Return, Become, Placers, Placing
    <2> QED
      BY <1>0, <2>1, <2>2, PlacedMoves, Stages
  <1>7. ASSUME NEW h \in Handlers, SalesArrive(h) \/ SalesContinue(h) \/ SalesCrash(h)
        PROVE  PlacedInv'
    BY <1>3, <1>4, <1>5, <1>6, <1>7, PlacelessCounts DEF SalesContinue, Placeless
  <1> QED
    BY <1>1, <1>2, <1>7 DEF SalesNext

LEMMA NonePlaced == SalesInit => PlacedInv
  <1> SUFFICES ASSUME SalesInit PROVE PlacedInv
    OBVIOUS
  <1>1. SalesTyped
    BY SalesInitOK DEF DebtInv
  <1>2. /\ call = [h \in Handlers |-> Idle] /\ overlaps = 0
        /\ Len(orders) = 0 /\ Len(outbounds) = 0
    BY DEF SalesInit, ServerInit
  <1>3. Placers = {}
    BY <1>2, Stages DEF Placers
  <1> QED
    BY <1>1, <1>2, <1>3, FS_EmptySet DEF PlacedInv

-----------------------------------------------------------------------------
(* What is owed, as a sum *)

OwedFor(rows) == [o \in DOMAIN rows |-> rows[o].total]
LiveOrders(rows) == {o \in DOMAIN rows : rows[o].status # "CANCELED"}

OwedIter(S, it) ==
  it = [T \in SUBSET S |-> IF T = {} THEN 0 ELSE orders[OneOf(T)].total + it[Rest(T)]]

LEMMA TotalOfIsIter ==
  ASSUME NEW S
  PROVE  TotalOf(S) = (CHOOSE it : OwedIter(S, it))[S]
  BY DEF TotalOf, MapThenFoldSet, OneOf, Rest, OwedIter

LEMMA OwedIsTotal ==
  ASSUME NEW S, IsFiniteSet(S), S \subseteq DOMAIN orders
  PROVE  TotalOf(S) = Total(OwedFor(orders), S)
  <1>1. PICK f : f = OwedFor(orders)
    OBVIOUS
  <1>2. ASSUME NEW T \in SUBSET S, T # {} PROVE f[OneOf(T)] = orders[OneOf(T)].total
    BY <1>1, <1>2, RestSmaller DEF OwedFor
  <1>3. ASSUME NEW it PROVE OwedIter(S, it) <=> IterOf(f, S, it)
    BY <1>2 DEF OwedIter, IterOf
  <1>4. PICK g : g = CHOOSE it : OwedIter(S, it)
    OBVIOUS
  <1>5. PICK h : h = CHOOSE it : IterOf(f, S, it)
    OBVIOUS
  <1>6. IterOf(f, S, g) /\ IterOf(f, S, h)
    <2>1. PICK it : IterOf(f, S, it)
      BY IterExists
    <2>2. OwedIter(S, it)
      BY <1>3, <2>1
    <2>3. OwedIter(S, g)
      BY <1>4, <2>2
    <2> QED
      BY <1>3, <1>5, <2>1, <2>3
  <1>7. g[S] = h[S]
    <2>1. \A T \in SUBSET (S \cap S) : g[T] = h[T]
      BY ONLY IsFiniteSet(S), <1>6, IterUnique
    <2> QED
      BY <2>1
  <1> QED
    BY <1>1, <1>4, <1>5, <1>7, TotalOfIsIter, TotalIsIter

\* The sum that DebtIsOrders is about.
Owed(rows) == Total(OwedFor(rows), LiveOrders(rows))

LEMMA OwingIsOwed ==
  ASSUME orders \in Seq(OrderRow)
  PROVE  TotalOf(Owing) = Owed(orders)
  <1>1. DOMAIN orders = 1 .. Len(orders) /\ Len(orders) \in Nat
    OBVIOUS
  <1>2. IsFiniteSet(DOMAIN orders)
    BY <1>1, FS_Interval
  <1>3. Owing \subseteq DOMAIN orders /\ Owing = LiveOrders(orders)
    BY DEF Owing, LiveOrders
  <1>4. IsFiniteSet(Owing)
    BY <1>2, <1>3, FS_Subset
  <1>5. TotalOf(Owing) = Total(OwedFor(orders), Owing)
    BY <1>3, <1>4, OwedIsTotal
  <1> QED
    BY <1>3, <1>5 DEF Owed

LEMMA LiveFinite ==
  ASSUME NEW rows \in Seq(OrderRow)
  PROVE  /\ IsFiniteSet(LiveOrders(rows)) /\ LiveOrders(rows) \subseteq DOMAIN rows
         /\ \A o \in DOMAIN rows : OwedFor(rows)[o] \in Nat /\ OwedFor(rows)[o] = rows[o].total
  <1>1. DOMAIN rows = 1 .. Len(rows) /\ Len(rows) \in Nat
    OBVIOUS
  <1>2. IsFiniteSet(DOMAIN rows)
    BY <1>1, FS_Interval
  <1>3. \A o \in DOMAIN rows : rows[o] \in OrderRow
    OBVIOUS
  <1> QED
    BY <1>2, <1>3, FS_Subset DEF LiveOrders, OwedFor, OrderRow

\* An order more is owed, one that is cancelled is not.
LEMMA OwedMore ==
  ASSUME NEW rows \in Seq(OrderRow), NEW row \in OrderRow, row.status = "CONFIRMED"
  PROVE  Owed(Append(rows, row)) = Owed(rows) + row.total
  <1>1. PICK n, more : n = Len(rows) /\ more = Append(rows, row)
    OBVIOUS
  <1>2. /\ n \in Nat /\ DOMAIN rows = 1 .. n /\ DOMAIN more = 1 .. (n + 1)
        /\ more[n + 1] = row /\ \A o \in DOMAIN rows : more[o] = rows[o]
        /\ more \in Seq(OrderRow)
    BY <1>1, AppendProperties
  <1>3. PICK S : S = LiveOrders(rows)
    OBVIOUS
  <1>4. PICK f, g : f = OwedFor(rows) /\ g = OwedFor(more)
    OBVIOUS
  <1>5. /\ IsFiniteSet(S) /\ S \subseteq DOMAIN rows
        /\ \A o \in DOMAIN rows : f[o] \in Nat /\ f[o] = rows[o].total
    BY <1>3, <1>4, LiveFinite
  <1>6. \A o \in DOMAIN more : g[o] \in Nat /\ g[o] = more[o].total
    BY <1>2, <1>4, LiveFinite
  <1>7. LiveOrders(more) = S \cup {n + 1}
    <2>1. \A o : o \in DOMAIN more <=> o \in DOMAIN rows \/ o = n + 1
      BY <1>2
    <2> QED
      BY <1>2, <1>3, <2>1 DEF LiveOrders
  <1>8. \A o \in S : f[o] = g[o]
    BY <1>2, <1>5, <1>6
  <1>9. n + 1 \notin S /\ \A o \in S \cup {n + 1} : g[o] \in Int
    BY <1>2, <1>5, <1>6
  <1>10. Total(g, S \cup {n + 1}) = Total(g, S) + g[n + 1]
    BY <1>5, <1>9, TotalAdd
  <1>11. Total(f, S) = Total(g, S)
    BY <1>5, <1>8, TotalSame
  <1>12. g[n + 1] = row.total
    BY <1>2, <1>6
  <1> QED
    BY <1>1, <1>3, <1>4, <1>7, <1>10, <1>11, <1>12 DEF Owed

LEMMA OwedLess ==
  ASSUME NEW rows \in Seq(OrderRow), NEW n \in LiveOrders(rows)
  PROVE  /\ Owed([rows EXCEPT ![n].status = "CANCELED"]) = Forgiven(Owed(rows), rows[n].total)
         /\ Owed(rows) \in Nat
  <1>1. PICK less : less = [rows EXCEPT ![n].status = "CANCELED"]
    OBVIOUS
  <1>2. n \in DOMAIN rows /\ \A o \in DOMAIN rows : rows[o] \in OrderRow
    BY DEF LiveOrders
  <1>3. DOMAIN less = DOMAIN rows /\ \A o \in DOMAIN rows \ {n} : less[o] = rows[o]
    BY <1>1
  <1>4. less[n] = [rows[n] EXCEPT !.status = "CANCELED"] /\ rows[n] \in OrderRow
    BY <1>1, <1>2
  <1>5. less[n].status = "CANCELED" /\ less[n].total = rows[n].total /\ rows[n].total \in Nat
    BY <1>4 DEF OrderRow
  <1>6. PICK S : S = LiveOrders(rows)
    OBVIOUS
  <1>7. PICK f, g : f = OwedFor(rows) /\ g = OwedFor(less)
    OBVIOUS
  <1>8. /\ IsFiniteSet(S) /\ S \subseteq DOMAIN rows
        /\ \A o \in DOMAIN rows : f[o] \in Nat /\ f[o] = rows[o].total
    BY <1>6, <1>7, LiveFinite
  <1>9. \A o \in DOMAIN rows : f[o] = g[o]
    BY <1>3, <1>5, <1>7, <1>8 DEF OwedFor
  <1>10. LiveOrders(less) = S \ {n}
    BY <1>3, <1>5, <1>6 DEF LiveOrders
  <1>11. IsFiniteSet(S \ {n})
    BY <1>8, FS_Subset
  <1>12. /\ Total(f, S \ {n}) \in Nat /\ Total(f, S) \in Nat
         /\ Total(f, S) = f[n] + Total(f, S \ {n})
    <2>1. n \in S /\ \A x \in S : f[x] \in Nat
      BY <1>6, <1>8
    <2> QED
      BY <1>8, <2>1, TotalLess
  <1>13. Total(g, S \ {n}) = Total(f, S \ {n})
    BY <1>8, <1>9, <1>11, TotalSame
  <1>14. Owed(less) = Total(f, S \ {n}) /\ Owed(rows) = Total(f, S) /\ f[n] = rows[n].total
    BY <1>2, <1>6, <1>7, <1>8, <1>10, <1>13 DEF Owed
  <1>15. Forgiven(Owed(rows), rows[n].total) = Total(f, S \ {n})
    BY <1>5, <1>12, <1>14 DEF Forgiven
  <1> QED
    BY <1>1, <1>12, <1>14, <1>15

-----------------------------------------------------------------------------
(* Calls that run alone *)

\* What a handler that was never disturbed knows of the tables at each await.
SalesKnows(c) ==
  /\ c.pc \in {"quote"} \cup Buying => c.customer = customer
  /\ c.pc \in Buying /\ c.quote # 0 => Convertible(c.quote) /\ c.entity = quotes[c.quote]
  /\ c.pc \in {"outNumber", "outInsert"} \cup Placing => c.order = Len(orders) + 1
  /\ c.pc = "commit" =>
       /\ c.customer = [customer EXCEPT !.debt = @ + c.total]
       /\ c.dirty = CustomerDirty(c.customer)
       /\ c.quote # 0 => /\ Convertible(c.quote)
                         /\ c.entity = [quotes[c.quote] EXCEPT !.so = c.order]
                         /\ c.quoteDirty = Dirty(c.entity, quotes[c.quote])
  /\ c.pc \in {"outStatus", "cancel", "debt"} \cup Forgiving => c.order \in LiveOrders(orders)
  /\ c.pc \in Forgiving =>
       c.customer = [customer EXCEPT !.debt = Forgiven(@, orders[c.order].total)]
  /\ c.pc = "debtCommit" => c.dirty = CustomerDirty(c.customer)
  /\ c.pc \in Changing => c.customer.debt = customer.debt
  /\ c.pc \in {"qSelect", "qFlush"} =>
       /\ c.quote \in QuoteIds /\ quotes[c.quote].kept /\ c.entity.kept
       /\ quotes[c.quote].so = 0 /\ c.entity.so = 0
  /\ c.pc = "qFlush" => c.quoteDirty = Dirty(c.entity, quotes[c.quote])
  /\ c.pc = "qDelete" => c.quote \in QuoteIds /\ quotes[c.quote].so = 0

SoldOnce(q) ==
  /\ \A o \in DOMAIN orders : orders[o].quote = q => o = quotes[q].so
  /\ quotes[q].so # 0 => quotes[q].status = "ACCEPTED"

RowsAgree == customer.debt = Owed(orders) /\ \A q \in QuoteIds : SoldOnce(q)

Placed(c) == IF c.pc \in Placing THEN 1 ELSE 0

SalesUndisturbed ==
  /\ RowsAgree /\ \A h \in Handlers : SalesKnows(call[h])
  /\ Len(outbounds) =
       Len(orders) + (IF \E h \in Handlers : call[h].pc \in Placing THEN 1 ELSE 0)

SerialInv == SalesTyped /\ HandlersOK /\ (Calm => SalesUndisturbed)

\* The same, seen by the one handler that runs.
SalesNow(c) == RowsAgree /\ SalesKnows(c) /\ Len(outbounds) = Len(orders) + Placed(c)

LEMMA SerialStep ==
  ASSUME SerialInv, SalesTyped', NEW h \in Handlers, NEW c, Moves(h, c),
         Calm /\ SalesNow(call[h]) => SalesNow(c)'
  PROVE  SerialInv'
  <1>1. /\ HandlersOK' /\ call'[h] = c /\ \A g \in Handlers \ {h} : call'[g] = call[g]
        /\ Calm' => Calm /\ \A g \in Handlers \ {h} : call[g].pc = "idle"
    BY Moved DEF SerialInv
  <1>2. SUFFICES ASSUME Calm' PROVE SalesUndisturbed'
    BY <1>1 DEF SerialInv
  <1>3. SalesNow(call[h])
    BY <1>1, <1>2 DEF SerialInv, SalesUndisturbed, SalesNow, Placed, Placing
  <1>4. SalesNow(c)'
    BY <1>1, <1>2, <1>3
  <1>5. ASSUME NEW g \in Handlers PROVE SalesKnows(call[g])'
    <2>1. CASE g = h
      BY <1>1, <1>4, <2>1 DEF SalesNow
    <2>2. CASE g # h
      <3>1. call'[g].pc = "idle"
        BY <1>1, <1>2, <2>2
      <3> QED
        BY <3>1 DEF SalesKnows, Buying, Placing, Forgiving, Changing
    <2> QED
      BY <2>1, <2>2
  <1>6. (\E g \in Handlers : call'[g].pc \in Placing) <=> c.pc \in Placing
    BY <1>1, <1>2 DEF Placing
  <1> QED
    BY <1>4, <1>5, <1>6 DEF SalesUndisturbed, SalesNow, Placed

\* A step that writes no table: what it knows is judged by the rows as they are.
LEMMA SerialReads ==
  ASSUME SerialInv, SalesTyped', NEW h \in Handlers, NEW c, Moves(h, c), UNCHANGED salesTables,
         c.pc \in Placing <=> call[h].pc \in Placing,
         Calm /\ SalesNow(call[h]) => SalesKnows(c)
  PROVE  SerialInv'
  <1>1. UNCHANGED <<customer, quotes, orders, outbounds>>
    BY DEF salesTables
  <1>2. RowsAgree => RowsAgree'
    BY <1>1 DEF RowsAgree, SoldOnce
  <1>3. SalesKnows(c) => SalesKnows(c)'
    BY <1>1 DEF SalesKnows, Convertible, CustomerDirty
  <1>4. Calm /\ SalesNow(call[h]) => SalesNow(c)'
    BY <1>1, <1>2, <1>3 DEF SalesNow, Placed
  <1> QED
    BY <1>4, SerialStep

LEMMA SerialIdle ==
  /\ Idle.pc \notin Placing /\ SalesKnows(Idle) /\ SalesKnows(Idle)' /\ Placed(Idle) = 0
  BY DEF Idle, SalesKnows, Placing, Placed, Buying, Forgiving, Changing

LEMMA SerialEnds ==
  ASSUME SerialInv, SalesTyped', NEW h \in Handlers, UNCHANGED salesTables,
         \/ SalesCrash(h)
         \/ Return(h) /\ call[h].pc \notin Placing \cup {"idle"}
  PROVE  SerialInv'
  <1>1. CASE Return(h) /\ call[h].pc \notin Placing \cup {"idle"}
    <2>1. Moves(h, Idle)
      BY <1>1, BecomeMoves DEF Return, Running, At
    <2> QED
      BY <1>1, <2>1, SerialIdle, SerialReads
  <1>2. CASE SalesCrash(h)
    <2>1. Moves(h, Idle) /\ Disturb /\ ~ At(h, "idle")
      BY <1>2, CrashMoves DEF SalesCrash, Crash
    <2>2. ~ Calm'
      BY <2>1 DEF Disturb, Quiet, Calm, SerialInv, HandlersOK
    <2>3. HandlersOK'
      BY <2>1, Moved DEF SerialInv
    <2> QED
      BY <2>2, <2>3 DEF SerialInv
  <1> QED
    BY <1>1, <1>2

-----------------------------------------------------------------------------
(* One step per action, for calls that run alone *)

LEMMA SerialArrives ==
  ASSUME SerialInv, SalesTyped', NEW h \in Handlers, SalesArrive(h)
  PROVE  SerialInv'
  <1>1. UNCHANGED salesTables /\ call[h].pc = "idle"
    BY DEF SalesArrive, CreateOrder, CancelOrder, CreateQuote, UpdateQuote, TransitionStatus,
       CancelQuote, UpdateCustomer, Begin, At
  <1>2. ASSUME NEW c, Begin(h, c), c.pc \notin Placing, RowsAgree => SalesKnows(c)
        PROVE  SerialInv'
    BY <1>1, <1>2, BeginMoves, SerialReads DEF SalesNow, Placing
  <1>3. customer \in CustomerRow /\ quotes \in [QuoteIds -> QuoteRow]
    BY DEF SerialInv, SalesTyped, SalesTypeOK
  <1> USE DEF SalesKnows, Placing, Buying, Forgiving, Changing
  <1>4. CASE CreateOrder(h)
    <2>1. PICK q, amount, bypass :
            Begin(h, [EmptyCall EXCEPT !.customer = customer, !.quote = q,
                                       !.total = amount, !.bypass = bypass])
      BY <1>4 DEF CreateOrder
    <2>2. PICK c : c = [EmptyCall EXCEPT !.customer = customer, !.quote = q,
                                         !.total = amount, !.bypass = bypass]
      OBVIOUS
    <2>3. c.pc = "quote" /\ c.customer = customer
      BY <2>2 DEF EmptyCall
    <2> QED
      BY <1>2, <2>1, <2>2, <2>3
  <1>5. CASE CancelOrder(h)
    <2>1. PICK o \in 1 .. Len(orders) :
            /\ orders[o].status \in {"CONFIRMED", "FULFILLING"}
            /\ Begin(h, [EmptyCall EXCEPT !.pc = "outStatus", !.order = o])
      BY <1>5 DEF CancelOrder
    <2>2. PICK c : c = [EmptyCall EXCEPT !.pc = "outStatus", !.order = o]
      OBVIOUS
    <2>3. c.pc = "outStatus" /\ c.order = o
      BY <2>2 DEF EmptyCall
    <2>4. o \in LiveOrders(orders)
      BY <2>1 DEF LiveOrders, SerialInv, SalesTyped, SalesTypeOK
    <2> QED
      BY <1>2, <2>1, <2>2, <2>3, <2>4
  <1>6. CASE CreateQuote(h)
    <2>1. PICK c : c = [EmptyCall EXCEPT !.pc = "qNumber"]
      OBVIOUS
    <2>2. c.pc = "qNumber"
      BY <2>1 DEF EmptyCall
    <2> QED
      BY <1>2, <1>6, <2>1, <2>2 DEF CreateQuote
  <1>7. CASE UpdateQuote(h) \/ TransitionStatus(h)
    <2>1. PICK q, e :
            /\ q \in QuoteIds
            /\ Begin(h, [EmptyCall EXCEPT !.pc = "qSelect", !.quote = q, !.entity = e])
            /\ quotes[q].kept /\ quotes[q].status # "ACCEPTED"
            /\ e = quotes[q] \/ \E next : e = [quotes[q] EXCEPT !.status = next]
      <3>1. CASE UpdateQuote(h)
        BY <3>1 DEF UpdateQuote
      <3>2. CASE TransitionStatus(h)
        BY <3>2 DEF TransitionStatus, NextStatus
      <3> QED
        BY <1>7, <3>1, <3>2
    <2>2. PICK c : c = [EmptyCall EXCEPT !.pc = "qSelect", !.quote = q, !.entity = e]
      OBVIOUS
    <2>3. c.pc = "qSelect" /\ c.quote = q /\ c.entity = e
      BY <2>2 DEF EmptyCall
    <2>4. e.kept = quotes[q].kept /\ e.so = quotes[q].so
      <3>1. quotes[q] \in QuoteRow
        BY <1>3, <2>1
      <3> QED
        BY <2>1, <3>1 DEF QuoteRow
    <2>5. RowsAgree => quotes[q].so = 0
      BY <2>1 DEF RowsAgree, SoldOnce
    <2> QED
      BY <1>2, <2>1, <2>2, <2>3, <2>4, <2>5
  <1>8. CASE CancelQuote(h)
    <2>1. PICK q \in QuoteIds :
            /\ Begin(h, [EmptyCall EXCEPT !.pc = "qDelete", !.quote = q])
            /\ quotes[q].status = "DRAFT"
      BY <1>8 DEF CancelQuote
    <2>2. PICK c : c = [EmptyCall EXCEPT !.pc = "qDelete", !.quote = q]
      OBVIOUS
    <2>3. c.pc = "qDelete" /\ c.quote = q
      BY <2>2 DEF EmptyCall
    <2>4. RowsAgree => quotes[q].so = 0
      BY <2>1 DEF RowsAgree, SoldOnce
    <2> QED
      BY <1>2, <2>1, <2>2, <2>3, <2>4
  <1>9. CASE UpdateCustomer(h)
    <2>1. PICK e : /\ Begin(h, [EmptyCall EXCEPT !.pc = "cSelect", !.customer = e])
                   /\ \/ \E l : e = [customer EXCEPT !.limit = l]
                      \/ \E b : e = [customer EXCEPT !.barred = b]
      BY <1>9 DEF UpdateCustomer
    <2>2. PICK c : c = [EmptyCall EXCEPT !.pc = "cSelect", !.customer = e]
      OBVIOUS
    <2>3. c.pc = "cSelect" /\ c.customer = e
      BY <2>2 DEF EmptyCall
    <2>4. e.debt = customer.debt
      BY <1>3, <2>1 DEF CustomerRow
    <2> QED
      BY <1>2, <2>1, <2>2, <2>3, <2>4
  <1> QED
    BY <1>4, <1>5, <1>6, <1>7, <1>8, <1>9 DEF SalesArrive

\* The handler of a step that is not its first, and where it stands.
LEMMA SerialRuns ==
  ASSUME SerialInv, NEW h \in Handlers, call[h].pc # "idle"
  PROVE  call[h] \in SalesCall /\ Running(h)
  BY InSalesCall DEF SerialInv, SalesTyped, Running, At

LEMMA OrderSteps ==
  ASSUME SerialInv, SalesTyped', NEW h \in Handlers,
         CheckQuote(h) \/ NumberOrder(h) \/ InsertOrder(h) \/ NumberOutbound(h)
  PROVE  SerialInv'
  <1>1. PICK c : c = call[h]
    OBVIOUS
  <1>2. UNCHANGED salesTables /\ c.pc \in {"quote", "number", "insert", "outNumber"}
    BY <1>1 DEF CheckQuote, NumberOrder, InsertOrder, NumberOutbound, At
  <1>3. c \in SalesCall /\ Running(h)
    BY <1>1, <1>2, SerialRuns
  <1>4. ASSUME NEW d, Become(h, d), d.pc \notin Placing, SalesNow(c) => SalesKnows(d)
        PROVE  SerialInv'
    BY <1>1, <1>2, <1>3, <1>4, BecomeMoves, SerialReads DEF Placing
  <1>5. CASE Return(h)
    BY <1>1, <1>2, <1>5, SerialEnds DEF Placing
  <1> USE DEF SalesKnows, SalesNow, Placing, Buying, Forgiving, Changing
  <1>6. CASE CheckQuote(h) /\ ~ Return(h)
    <2>1. PICK d : d = [c EXCEPT !.pc = "number",
                          !.entity = IF c.quote = 0 THEN NoQuote ELSE quotes[c.quote],
                          !.bypass = ~CreditAllows(c.customer, c.total, FALSE)]
      OBVIOUS
    <2>2. Become(h, d) /\ c.pc = "quote" /\ (c.quote # 0 => Convertible(c.quote))
      BY <1>1, <1>6, <2>1 DEF CheckQuote, At
    <2>3. /\ d.pc = "number" /\ d.customer = c.customer /\ d.quote = c.quote
          /\ d.quote # 0 => d.entity = quotes[d.quote]
      BY <1>3, <2>1 DEF SalesCall
    <2> QED
      BY <1>4, <2>2, <2>3
  <1>7. CASE NumberOrder(h)
    <2>1. PICK d : d = [c EXCEPT !.pc = "insert", !.order = Len(orders) + 1]
      OBVIOUS
    <2>2. Become(h, d) /\ c.pc = "number"
      BY <1>1, <1>7, <2>1 DEF NumberOrder, At
    <2>3. /\ d.pc = "insert" /\ d.customer = c.customer /\ d.quote = c.quote
          /\ d.entity = c.entity
      BY <1>3, <2>1 DEF SalesCall
    <2> QED
      BY <1>4, <2>2, <2>3
  <1>8. CASE InsertOrder(h) /\ ~ Return(h)
    <2>1. PICK d : d = [c EXCEPT !.pc = "outNumber"]
      OBVIOUS
    <2>2. Become(h, d) /\ c.pc = "insert" /\ c.order = Len(orders) + 1
      BY <1>1, <1>8, <2>1 DEF InsertOrder, At, Goto
    <2>3. /\ d.pc = "outNumber" /\ d.customer = c.customer /\ d.quote = c.quote
          /\ d.entity = c.entity /\ d.order = c.order
      BY <1>3, <2>1 DEF SalesCall
    <2> QED
      BY <1>4, <2>2, <2>3
  <1>9. CASE NumberOutbound(h)
    <2>1. PICK d : d = [c EXCEPT !.pc = "outInsert", !.outbound = Len(outbounds) + 1]
      OBVIOUS
    <2>2. Become(h, d) /\ c.pc = "outNumber"
      BY <1>1, <1>9, <2>1 DEF NumberOutbound, At
    <2>3. /\ d.pc = "outInsert" /\ d.customer = c.customer /\ d.quote = c.quote
          /\ d.entity = c.entity /\ d.order = c.order
      BY <1>3, <2>1 DEF SalesCall
    <2> QED
      BY <1>4, <2>2, <2>3
  <1> QED
    BY <1>5, <1>6, <1>7, <1>8, <1>9
LEMMA OutboundStep ==
  ASSUME SerialInv, SalesTyped', NEW h \in Handlers, InsertOutbound(h)
  PROVE  SerialInv'
  <1>1. PICK c : c = call[h]
    OBVIOUS
  <1>2. c.pc = "outInsert"
    BY <1>1 DEF InsertOutbound, At
  <1>3. c \in SalesCall /\ Running(h)
    BY <1>1, <1>2, SerialRuns
  <1>4. CASE Return(h) /\ UNCHANGED outbounds
    BY <1>1, <1>2, <1>4, SerialEnds DEF Placing, InsertOutbound, salesTables
  <1>5. CASE outbounds' = Append(outbounds, "PENDING") /\ Goto(h, "select")
    <2>1. PICK d : d = [c EXCEPT !.pc = "select"]
      OBVIOUS
    <2>2. Become(h, d) /\ UNCHANGED <<customer, quotes, orders>>
      BY <1>1, <1>5, <2>1 DEF Goto, InsertOutbound
    <2>3. /\ d.pc = "select" /\ d.customer = c.customer /\ d.quote = c.quote
          /\ d.entity = c.entity /\ d.order = c.order
      BY <1>3, <2>1 DEF SalesCall
    <2>4. RowsAgree => RowsAgree'
      BY <2>2 DEF RowsAgree, SoldOnce
    <2>5. SalesKnows(c) => SalesKnows(d)'
      BY <1>2, <2>2, <2>3
         DEF SalesKnows, Buying, Placing, Forgiving, Changing, Convertible
    <2>6. Len(outbounds') = Len(outbounds) + 1 /\ Len(outbounds) \in Nat /\ Len(orders) \in Nat
      BY <1>5, AppendProperties DEF SerialInv, SalesTyped, SalesTypeOK
    <2>7. Placed(c) = 0 /\ Placed(d) = 1
      BY <1>2, <2>3 DEF Placed, Placing
    <2>8. SalesNow(c) => SalesNow(d)'
      BY <2>2, <2>4, <2>5, <2>6, <2>7 DEF SalesNow
    <2>9. Moves(h, d)
      BY <1>3, <2>2, BecomeMoves
    <2> QED
      BY <1>1, <2>8, <2>9, SerialStep
  <1> QED
    BY <1>4, <1>5 DEF InsertOutbound

LEMMA SelectStep ==
  ASSUME SerialInv, SalesTyped', NEW h \in Handlers, SelectRows(h)
  PROVE  SerialInv'
  <1>1. PICK c, owes, sold : /\ c = call[h]
                            /\ owes = [c.customer EXCEPT !.debt = @ + c.total]
                            /\ sold = [c.entity EXCEPT !.so = c.order]
    OBVIOUS
  <1>2. c.pc = "select"
    BY <1>1 DEF SelectRows, At
  <1>3. c \in SalesCall /\ Running(h)
    BY <1>1, <1>2, SerialRuns
  <1>4. PICK changed : changed = IF c.quote = 0 THEN {} ELSE Dirty(sold, quotes[c.quote])
    OBVIOUS
  <1>5. PICK d : d = [c EXCEPT !.pc = "commit", !.customer = owes, !.entity = sold,
                               !.dirty = CustomerDirty(owes), !.quoteDirty = changed]
    OBVIOUS
  <1>6. Become(h, d) /\ UNCHANGED salesTables
    BY <1>1, <1>4, <1>5 DEF SelectRows
  <1>7. /\ d.pc = "commit" /\ d.customer = owes /\ d.quote = c.quote /\ d.entity = sold
        /\ d.order = c.order /\ d.total = c.total /\ d.dirty = CustomerDirty(owes)
        /\ d.quoteDirty = changed
    BY <1>3, <1>5 DEF SalesCall
  <1>8. ASSUME SalesNow(c) PROVE SalesKnows(d)
    <2>1. /\ c.customer = customer /\ c.order = Len(orders) + 1
          /\ c.quote # 0 => Convertible(c.quote) /\ c.entity = quotes[c.quote]
      BY <1>2, <1>8 DEF SalesNow, SalesKnows, Buying, Placing
    <2> QED
      BY <1>1, <1>4, <1>7, <2>1 DEF SalesKnows, Buying, Placing, Forgiving, Changing
  <1>9. Moves(h, d)
    BY <1>3, <1>6, BecomeMoves
  <1> QED
    BY <1>1, <1>2, <1>6, <1>7, <1>8, <1>9, SerialReads DEF Placing

\* A row saved alone is the entity.
LEMMA CustomerSaved ==
  ASSUME customer \in CustomerRow, NEW e \in CustomerRow
  PROVE  Merge(customer, e, CustomerDirty(e)) = e
  <1>1. PICK row : row = customer
    OBVIOUS
  <1>2. DOMAIN e = DOMAIN row /\ e = [x \in DOMAIN e |-> e[x]]
    BY <1>1 DEF CustomerRow
  <1>3. Dirty(e, row) \subseteq CustomerDirty(e)
    BY <1>1 DEF CustomerDirty
  <1> QED
    BY <1>1, <1>2, <1>3, SavedAsIs

LEMMA QuoteSavedAlone ==
  ASSUME quotes \in [QuoteIds -> QuoteRow], NEW q \in QuoteIds, NEW e \in QuoteRow,
         e.kept, quotes[q].kept
  PROVE  SavedQuote(q, e, Dirty(e, quotes[q])) = e
  <1>1. PICK row : row = quotes[q]
    OBVIOUS
  <1>2. row \in QuoteRow
    BY <1>1
  <1>3. DOMAIN e = DOMAIN row /\ e = [x \in DOMAIN e |-> e[x]] /\ e.kept = row.kept
    BY <1>1, <1>2 DEF QuoteRow
  <1>4. Merge(row, e, Dirty(e, row)) = e
    BY <1>3, SavedAsIs
  <1>5. "kept" \notin Dirty(e, row)
    BY <1>3 DEF Dirty
  <1> QED
    BY <1>1, <1>4, <1>5 DEF SavedQuote

LEMMA CommitStep ==
  ASSUME SerialInv, SalesTyped', NEW h \in Handlers, CommitOrder(h)
  PROVE  SerialInv'
  <1>1. PICK c, row : c = call[h] /\ row = [quote |-> c.quote, total |-> c.total,
                                          outbound |-> c.outbound, status |-> "CONFIRMED"]
    OBVIOUS
  <1>2. /\ c.pc = "commit" /\ orders' = Append(orders, row) /\ outbounds' = outbounds
        /\ customer' = Merge(customer, c.customer, c.dirty)
        /\ quotes' = [q \in QuoteIds |-> IF q = c.quote
                        THEN SavedQuote(q, c.entity, c.quoteDirty) ELSE quotes[q]]
    BY <1>1 DEF CommitOrder, At, Linked
  <1>3. c \in SalesCall /\ Running(h)
    BY <1>1, <1>2, SerialRuns
  <1>4. /\ customer \in CustomerRow /\ orders \in Seq(OrderRow)
        /\ quotes \in [QuoteIds -> QuoteRow] /\ Len(outbounds) \in Nat
    BY DEF SerialInv, SalesTyped, SalesTypeOK
  <1>5. row \in OrderRow /\ row.status = "CONFIRMED" /\ row.total = c.total
        /\ row.quote = c.quote /\ c.customer \in CustomerRow /\ c.entity \in QuoteRow
        /\ c.total \in Nat
    BY <1>1, <1>3 DEF OrderRow, SalesCall
  <1>6. PICK n : n = Len(orders)
    OBVIOUS
  <1>7. /\ n \in Nat /\ DOMAIN orders = 1 .. n /\ DOMAIN orders' = 1 .. (n + 1)
        /\ Len(orders') = n + 1
        /\ orders'[n + 1] = row /\ \A o \in DOMAIN orders : orders'[o] = orders[o]
    BY <1>2, <1>4, <1>5, <1>6, AppendProperties
  <1>8. ASSUME SalesNow(c) PROVE SalesNow(Idle)'
    <2>1. /\ c.order = n + 1 /\ c.customer = [customer EXCEPT !.debt = @ + c.total]
          /\ c.dirty = CustomerDirty(c.customer)
          /\ c.quote # 0 => /\ Convertible(c.quote)
                            /\ c.entity = [quotes[c.quote] EXCEPT !.so = c.order]
                            /\ c.quoteDirty = Dirty(c.entity, quotes[c.quote])
      BY <1>2, <1>6, <1>8 DEF SalesNow, SalesKnows, Placing
    <2>2. customer' = c.customer
      BY <1>2, <1>4, <1>5, <2>1, CustomerSaved
    <2>3. customer'.debt = customer.debt + c.total
      BY <1>4, <2>1, <2>2 DEF CustomerRow
    <2>4. customer'.debt = Owed(orders')
      BY <1>2, <1>4, <1>5, <1>8, <2>3, OwedMore DEF SalesNow, RowsAgree
    <2>5. ASSUME NEW q \in QuoteIds PROVE SoldOnce(q)'
      <3>1. SoldOnce(q)
        BY <1>8 DEF SalesNow, RowsAgree
      <3>2. CASE q = c.quote
        <4>1. q # 0 /\ quotes[q].kept /\ quotes[q].status = "ACCEPTED" /\ quotes[q].so = 0
          BY <2>1, <3>2, SalesAssumption DEF Convertible
        <4>2. quotes[q] \in QuoteRow /\ c.entity = [quotes[q] EXCEPT !.so = n + 1]
          BY <1>4, <2>1, <3>2, <4>1
        <4>3. c.entity.kept /\ c.entity.so = n + 1 /\ c.entity.status = "ACCEPTED"
          BY <4>1, <4>2 DEF QuoteRow
        <4>4. SavedQuote(q, c.entity, c.quoteDirty) = c.entity
          BY <1>4, <1>5, <2>1, <3>2, <4>1, <4>3, QuoteSavedAlone
        <4>5. quotes'[q] = c.entity
          BY <1>2, <3>2, <4>4
        <4>6. \A o \in DOMAIN orders : orders[o].quote # q
          BY <1>7, <3>1, <4>1 DEF SoldOnce
        <4>7. \A o \in DOMAIN orders' : o = n + 1 \/ o \in DOMAIN orders
          BY <1>7
        <4>8. \A o \in DOMAIN orders' : orders'[o].quote = q => o = n + 1
          BY <1>7, <4>6, <4>7
        <4> QED
          BY <4>3, <4>5, <4>8 DEF SoldOnce
      <3>3. CASE q # c.quote
        <4>1. quotes'[q] = quotes[q]
          BY <1>2, <3>3
        <4>2. \A o \in DOMAIN orders' : o = n + 1 \/ o \in DOMAIN orders
          BY <1>7
        <4>3. \A o \in DOMAIN orders' : orders'[o].quote = q => o = quotes[q].so
          BY <1>5, <1>7, <3>1, <3>3, <4>2 DEF SoldOnce
        <4> QED
          BY <3>1, <4>1, <4>3 DEF SoldOnce
      <3> QED
        BY <3>2, <3>3
    <2>6. Len(outbounds) = n + 1
      BY <1>2, <1>6, <1>8 DEF SalesNow, Placed, Placing
    <2>7. Len(outbounds') = Len(orders') + Placed(Idle)
      BY <1>2, <1>4, <1>7, <2>6, SerialIdle
    <2> QED
      BY <2>4, <2>5, <2>7, SerialIdle DEF SalesNow, RowsAgree, Placed
  <1>9. Moves(h, Idle)
    BY <1>3, BecomeMoves DEF CommitOrder, Return
  <1> QED
    BY <1>1, <1>8, <1>9, SerialStep

LEMMA CancelSteps ==
  ASSUME SerialInv, SalesTyped', NEW h \in Handlers,
         CheckOutbound(h) \/ SaveCanceled(h) \/ ReadDebt(h) \/ SelectDebt(h)
  PROVE  SerialInv'
  <1>1. PICK c : c = call[h]
    OBVIOUS
  <1>2. UNCHANGED salesTables /\ c.pc \in {"outStatus", "cancel", "debt", "debtSelect"}
    BY <1>1 DEF CheckOutbound, SaveCanceled, ReadDebt, SelectDebt, At
  <1>3. c \in SalesCall /\ Running(h)
    BY <1>1, <1>2, SerialRuns
  <1>4. ASSUME NEW d, Become(h, d), d.pc \notin Placing, SalesNow(c) => SalesKnows(d)
        PROVE  SerialInv'
    BY <1>1, <1>2, <1>3, <1>4, BecomeMoves, SerialReads DEF Placing
  <1>5. CASE Return(h)
    BY <1>1, <1>2, <1>5, SerialEnds DEF Placing
  <1> USE DEF SalesKnows, SalesNow, Placing, Buying, Forgiving, Changing
  <1>6. CASE (CheckOutbound(h) \/ SaveCanceled(h)) /\ ~ Return(h)
    <2>1. PICK next : next \in {"cancel", "debt"} /\ Goto(h, next)
                      /\ c.pc \in {"outStatus", "cancel"}
      BY <1>1, <1>6 DEF CheckOutbound, SaveCanceled, At
    <2>2. PICK d : d = [c EXCEPT !.pc = next]
      OBVIOUS
    <2>3. Become(h, d)
      BY <1>1, <2>1, <2>2 DEF Goto
    <2>4. d.pc = next /\ d.order = c.order
      BY <1>3, <2>2 DEF SalesCall
    <2> QED
      BY <1>4, <2>1, <2>3, <2>4
  <1>7. CASE ReadDebt(h)
    <2>1. PICK e, d : /\ e = [customer EXCEPT !.debt = Forgiven(@, orders[c.order].total)]
                      /\ d = [c EXCEPT !.pc = "debtSelect", !.customer = e]
      OBVIOUS
    <2>2. Become(h, d) /\ c.pc = "debt"
      BY <1>1, <1>7, <2>1 DEF ReadDebt, At
    <2>3. d.pc = "debtSelect" /\ d.order = c.order /\ d.customer = e
      BY <1>3, <2>1 DEF SalesCall
    <2> QED
      BY <1>4, <2>1, <2>2, <2>3
  <1>8. CASE SelectDebt(h)
    <2>1. PICK d : d = [c EXCEPT !.pc = "debtCommit", !.dirty = CustomerDirty(c.customer)]
      OBVIOUS
    <2>2. Become(h, d) /\ c.pc = "debtSelect"
      BY <1>1, <1>8, <2>1 DEF SelectDebt, At
    <2>3. /\ d.pc = "debtCommit" /\ d.order = c.order /\ d.customer = c.customer
          /\ d.dirty = CustomerDirty(c.customer)
      BY <1>3, <2>1 DEF SalesCall
    <2> QED
      BY <1>4, <2>2, <2>3
  <1> QED
    BY <1>5, <1>6, <1>7, <1>8

LEMMA ForgiveStep ==
  ASSUME SerialInv, SalesTyped', NEW h \in Handlers, CommitCancel(h)
  PROVE  SerialInv'
  <1>1. PICK c, n : c = call[h] /\ n = c.order
    OBVIOUS
  <1>2. /\ c.pc = "debtCommit" /\ orders' = [orders EXCEPT ![n].status = "CANCELED"]
        /\ customer' = Merge(customer, c.customer, c.dirty)
        /\ quotes' = quotes /\ outbounds' = outbounds
    BY <1>1 DEF CommitCancel, At
  <1>3. c \in SalesCall /\ Running(h)
    BY <1>1, <1>2, SerialRuns
  <1>4. /\ customer \in CustomerRow /\ orders \in Seq(OrderRow) /\ c.customer \in CustomerRow
    BY <1>3 DEF SerialInv, SalesTyped, SalesTypeOK, SalesCall
  <1>5. ASSUME SalesNow(c) PROVE SalesNow(Idle)'
    <2>1. /\ n \in LiveOrders(orders) /\ c.dirty = CustomerDirty(c.customer)
          /\ c.customer = [customer EXCEPT !.debt = Forgiven(@, orders[n].total)]
      BY <1>1, <1>2, <1>5 DEF SalesNow, SalesKnows, Forgiving
    <2>2. customer' = c.customer
      BY <1>2, <1>4, <2>1, CustomerSaved
    <2>3. customer'.debt = Forgiven(customer.debt, orders[n].total)
      BY <1>4, <2>1, <2>2 DEF CustomerRow
    <2>4. customer'.debt = Owed(orders')
      BY <1>2, <1>4, <1>5, <2>1, <2>3, OwedLess DEF SalesNow, RowsAgree
    <2>5. DOMAIN orders' = DOMAIN orders /\ Len(orders') = Len(orders)
      BY <1>2, <1>4
    <2>6. ASSUME NEW o \in DOMAIN orders PROVE orders'[o].quote = orders[o].quote
      <3>1. orders[o] \in OrderRow
        BY <1>4
      <3> QED
        BY <1>2, <3>1 DEF OrderRow
    <2>7. ASSUME NEW q \in QuoteIds PROVE SoldOnce(q)'
      <3>1. SoldOnce(q)
        BY <1>5 DEF SalesNow, RowsAgree
      <3> QED
        BY <1>2, <2>5, <2>6, <3>1 DEF SoldOnce
    <2>8. Len(outbounds') = Len(orders') + Placed(Idle)
      BY <1>2, <1>5, <2>5, SerialIdle DEF SalesNow, Placed, Placing
    <2> QED
      BY <2>4, <2>7, <2>8, SerialIdle DEF SalesNow, RowsAgree, Placed
  <1>6. Moves(h, Idle)
    BY <1>3, BecomeMoves DEF CommitCancel, Return
  <1> QED
    BY <1>1, <1>5, <1>6, SerialStep

LEMMA QuoteSteps ==
  ASSUME SerialInv, SalesTyped', NEW h \in Handlers,
         NumberQuote(h) \/ SelectQuote(h) \/ SelectCustomer(h)
  PROVE  SerialInv'
  <1>1. PICK c : c = call[h]
    OBVIOUS
  <1>2. UNCHANGED salesTables /\ c.pc \in {"qNumber", "qSelect", "cSelect"}
    BY <1>1 DEF NumberQuote, SelectQuote, SelectCustomer, At
  <1>3. c \in SalesCall /\ Running(h)
    BY <1>1, <1>2, SerialRuns
  <1>4. ASSUME NEW d, Become(h, d), d.pc \notin Placing, SalesNow(c) => SalesKnows(d)
        PROVE  SerialInv'
    BY <1>1, <1>2, <1>3, <1>4, BecomeMoves, SerialReads DEF Placing
  <1> USE DEF SalesKnows, SalesNow, Placing, Buying, Forgiving, Changing
  <1>5. CASE NumberQuote(h)
    <2>1. PICK n : Become(h, [c EXCEPT !.pc = "qInsert", !.order = n])
      BY <1>1, <1>5 DEF NumberQuote
    <2>2. PICK d : d = [c EXCEPT !.pc = "qInsert", !.order = n]
      OBVIOUS
    <2>3. d.pc = "qInsert"
      BY <1>3, <2>2 DEF SalesCall
    <2> QED
      BY <1>4, <2>1, <2>2, <2>3
  <1>6. CASE SelectQuote(h)
    <2>1. PICK d : d = [c EXCEPT !.pc = "qFlush",
                                 !.quoteDirty = Dirty(c.entity, quotes[c.quote])]
      OBVIOUS
    <2>2. Become(h, d) /\ c.pc = "qSelect"
      BY <1>1, <1>6, <2>1 DEF SelectQuote, At
    <2>3. /\ d.pc = "qFlush" /\ d.quote = c.quote /\ d.entity = c.entity
          /\ d.quoteDirty = Dirty(c.entity, quotes[c.quote])
      BY <1>3, <2>1 DEF SalesCall
    <2> QED
      BY <1>4, <2>2, <2>3
  <1>7. CASE SelectCustomer(h)
    <2>1. PICK changed : changed = Dirty(c.customer, customer)
      OBVIOUS
    <2>2. PICK d : d = [c EXCEPT !.pc = "cFlush", !.dirty = changed]
      OBVIOUS
    <2>3. Become(h, d) /\ c.pc = "cSelect"
      BY <1>1, <1>7, <2>1, <2>2 DEF SelectCustomer, At
    <2>4. d.pc = "cFlush" /\ d.customer = c.customer
      BY <1>3, <2>2 DEF SalesCall
    <2> QED
      BY <1>4, <2>3, <2>4
  <1> QED
    BY <1>5, <1>6, <1>7

LEMMA QuoteWrites ==
  ASSUME SerialInv, SalesTyped', NEW h \in Handlers,
         InsertQuote(h) \/ FlushQuote(h) \/ DeleteQuote(h)
  PROVE  SerialInv'
  <1>1. PICK c : c = call[h]
    OBVIOUS
  <1>2. /\ UNCHANGED <<customer, orders, outbounds>> /\ Return(h)
        /\ c.pc \in {"qInsert", "qFlush", "qDelete"}
    BY <1>1 DEF InsertQuote, FlushQuote, DeleteQuote, At
  <1>3. c \in SalesCall /\ Running(h)
    BY <1>1, <1>2, SerialRuns
  <1>4. quotes \in [QuoteIds -> QuoteRow] /\ Len(orders) \in Nat
        /\ DOMAIN orders = 1 .. Len(orders)
    BY DEF SerialInv, SalesTyped, SalesTypeOK
  \* the row that is written belongs to no order, before or after
  <1>5. ASSUME SalesNow(c), NEW q \in QuoteIds
        PROVE  quotes'[q] = quotes[q] \/ (quotes'[q].so = 0 /\ quotes[q].so = 0)
    <2>1. CASE InsertQuote(h)
      <3>1. CASE UNCHANGED quotes
        BY <3>1
      <3>2. CASE ~ UNCHANGED quotes
        <4>1. PICK p, row :
                /\ p \in QuoteIds
                /\ quotes[p] = NoQuote /\ quotes' = [quotes EXCEPT ![p] = row]
                /\ row = [NoQuote EXCEPT !.kept = TRUE, !.number = c.order]
          BY <1>1, <2>1, <3>2 DEF InsertQuote
        <4>2. row.so = 0 /\ NoQuote.so = 0
          BY <4>1 DEF NoQuote
        <4> QED
          BY <1>4, <4>1, <4>2
      <3> QED
        BY <3>1, <3>2
    <2>2. CASE FlushQuote(h)
      <3>1. PICK p, e : p = c.quote /\ e = c.entity
        OBVIOUS
      <3>2. c.pc = "qFlush" /\ quotes' = [quotes EXCEPT ![p] = SavedQuote(p, e, c.quoteDirty)]
        BY <1>1, <2>2, <3>1 DEF FlushQuote, At
      <3>3. /\ p \in QuoteIds /\ quotes[p].kept /\ e.kept /\ quotes[p].so = 0 /\ e.so = 0
            /\ c.quoteDirty = Dirty(e, quotes[p])
        BY <1>5, <3>1, <3>2 DEF SalesNow, SalesKnows
      <3>4. e \in QuoteRow
        BY <1>3, <3>1 DEF SalesCall
      <3>5. SavedQuote(p, e, c.quoteDirty) = e
        BY <1>4, <3>3, <3>4, QuoteSavedAlone
      <3> QED
        BY <1>4, <3>2, <3>3, <3>5
    <2>3. CASE DeleteQuote(h)
      <3>1. PICK p : p = c.quote
        OBVIOUS
      <3>2. c.pc = "qDelete" /\ quotes' = [quotes EXCEPT ![p] = NoQuote]
        BY <1>1, <2>3, <3>1 DEF DeleteQuote, At
      <3>3. p \in QuoteIds /\ quotes[p].so = 0 /\ NoQuote.so = 0
        BY <1>5, <3>1, <3>2 DEF SalesNow, SalesKnows, NoQuote
      <3> QED
        BY <1>4, <3>2, <3>3
    <2> QED
      BY <2>1, <2>2, <2>3
  <1>6. ASSUME SalesNow(c) PROVE SalesNow(Idle)'
    <2>1. ASSUME NEW q \in QuoteIds PROVE SoldOnce(q)'
      <3>1. SoldOnce(q)
        BY <1>6 DEF SalesNow, RowsAgree
      <3>2. quotes'[q] = quotes[q] \/ (quotes'[q].so = 0 /\ quotes[q].so = 0)
        BY <1>5, <1>6
      <3> QED
        BY <1>2, <3>1, <3>2 DEF SoldOnce
    <2>2. Len(outbounds') = Len(orders') + Placed(Idle)
      BY <1>2, <1>6, SerialIdle DEF SalesNow, Placed, Placing
    <2> QED
      BY <1>2, <1>6, <2>1, <2>2, SerialIdle DEF SalesNow, RowsAgree, Placed
  <1>7. Moves(h, Idle)
    BY <1>2, <1>3, BecomeMoves DEF Return
  <1> QED
    BY <1>1, <1>6, <1>7, SerialStep

LEMMA CustomerWritten ==
  ASSUME SerialInv, SalesTyped', NEW h \in Handlers, FlushCustomer(h)
  PROVE  SerialInv'
  <1>1. PICK c : c = call[h]
    OBVIOUS
  <1>2. /\ c.pc = "cFlush" /\ customer' = Merge(customer, c.customer, c.dirty)
        /\ UNCHANGED <<quotes, orders, outbounds>> /\ Return(h)
    BY <1>1 DEF FlushCustomer, At
  <1>3. c \in SalesCall /\ Running(h)
    BY <1>1, <1>2, SerialRuns
  <1>4. customer'.debt \in {customer.debt, c.customer.debt}
    BY <1>2, <1>3, CustomerMerged DEF SerialInv, SalesTyped, SalesTypeOK, SalesCall
  <1>5. ASSUME SalesNow(c) PROVE SalesNow(Idle)'
    <2>1. customer'.debt = customer.debt
      BY <1>2, <1>4, <1>5 DEF SalesNow, SalesKnows, Changing
    <2>2. RowsAgree'
      BY <1>2, <1>5, <2>1 DEF SalesNow, RowsAgree, SoldOnce
    <2>3. Len(outbounds') = Len(orders') + Placed(Idle)
      BY <1>2, <1>5, SerialIdle DEF SalesNow, Placed, Placing
    <2> QED
      BY <2>2, <2>3, SerialIdle DEF SalesNow, Placed
  <1>6. Moves(h, Idle)
    BY <1>2, <1>3, BecomeMoves DEF Return
  <1> QED
    BY <1>1, <1>5, <1>6, SerialStep

LEMMA SerialMoves ==
  ASSUME SerialInv, SalesTyped',
         UNCHANGED <<call, customer, quotes, orders>>, Len(outbounds') = Len(outbounds),
         Disturb \/ UNCHANGED overlaps
  PROVE  SerialInv'
  <1>1. overlaps' \in Nat /\ (Calm' => Calm)
    BY DEF Disturb, Calm, SerialInv, HandlersOK
  <1>2. Alone => Alone'
    BY DEF Alone, Running, At
  <1>3. HandlersOK'
    BY <1>1, <1>2 DEF SerialInv, HandlersOK
  <1>4. RowsAgree => RowsAgree'
    BY DEF RowsAgree, SoldOnce
  <1>5. ASSUME NEW h \in Handlers PROVE SalesKnows(call[h]) => SalesKnows(call[h])'
    <2>1. PICK c : c = call[h]
      OBVIOUS
    <2>2. SalesKnows(c) => SalesKnows(c)'
      BY DEF SalesKnows, Convertible, CustomerDirty
    <2> QED
      BY <2>1, <2>2
  <1>6. SalesUndisturbed => SalesUndisturbed'
    BY <1>4, <1>5 DEF SalesUndisturbed
  <1> QED
    BY <1>1, <1>3, <1>6 DEF SerialInv

LEMMA SerialKept ==
  ASSUME SerialInv, SalesTyped', [SalesNext]_salesVars
  PROVE  SerialInv'
  <1>1. CASE UNCHANGED salesVars
    BY <1>1, SerialMoves DEF salesVars, salesTables, serverVars
  <1>2. CASE OutboundMoves
    <2>1. Len(outbounds') = Len(outbounds)
      BY <1>2 DEF OutboundMoves, SerialInv, SalesTyped, SalesTypeOK
    <2> QED
      BY <1>2, <2>1, SerialMoves DEF OutboundMoves
  <1>3. ASSUME NEW h \in Handlers, SalesContinue(h) PROVE SerialInv'
    BY <1>3, OrderSteps, OutboundStep, SelectStep, CommitStep, CancelSteps, ForgiveStep,
       QuoteSteps, QuoteWrites, CustomerWritten DEF SalesContinue
  <1>4. ASSUME NEW h \in Handlers, SalesCrash(h) PROVE SerialInv'
    BY <1>4, SerialEnds DEF SalesCrash
  <1> QED
    BY <1>1, <1>2, <1>3, <1>4, SerialArrives DEF SalesNext

LEMMA SerialInitOK == SalesInit => SerialInv /\ OwnedInv
  <1> SUFFICES ASSUME SalesInit PROVE SerialInv /\ OwnedInv
    OBVIOUS
  <1>1. SalesTyped
    BY SalesInitOK DEF DebtInv
  <1>2. /\ call = [h \in Handlers |-> Idle] /\ overlaps = 0
        /\ orders = <<>> /\ outbounds = <<>>
    BY DEF SalesInit, ServerInit
  <1>3. \A h \in Handlers : call[h] = Idle
    BY <1>2
  <1>4. HandlersOK
    BY <1>2, <1>3 DEF HandlersOK, Alone, Running, At, Idle
  <1>5. DOMAIN orders = {} /\ Len(orders) = 0 /\ Len(outbounds) = 0
    BY <1>2
  <1>6. Owed(orders) = 0
    <2>1. LiveOrders(orders) = {}
      BY <1>5 DEF LiveOrders
    <2> QED
      BY <2>1, TotalEmpty DEF Owed
  <1>7. customer.debt = 0 /\ \A q \in QuoteIds : quotes[q].so = 0
    BY DEF SalesInit, NoQuote
  <1>8. RowsAgree
    BY <1>5, <1>6, <1>7 DEF RowsAgree, SoldOnce
  <1>9. SalesUndisturbed
    BY <1>3, <1>5, <1>8, SerialIdle DEF SalesUndisturbed
  <1> QED
    BY <1>1, <1>3, <1>4, <1>5, <1>9, SerialIdle DEF SerialInv, OwnedInv, OutboundsOwned

LEMMA AllKept ==
  DebtInv /\ SerialInv /\ OwnedInv /\ [SalesNext]_salesVars
    => DebtInv' /\ SerialInv' /\ OwnedInv'
  <1> SUFFICES ASSUME DebtInv, SerialInv, OwnedInv, [SalesNext]_salesVars
               PROVE  DebtInv' /\ SerialInv' /\ OwnedInv'
    OBVIOUS
  <1>1. DebtInv'
    BY SalesNextKeeps
  <1>2. SalesTyped'
    BY <1>1 DEF DebtInv
  <1> QED
    BY <1>1, <1>2, SerialKept, OwnedKept

LEMMA DebtFollows == SerialInv => DebtIsOrders
  BY OwingIsOwed DEF SerialInv, SalesTyped, SalesTypeOK, SalesUndisturbed, RowsAgree,
     DebtIsOrders

LEMMA SoldOnceFollows == SerialInv => QuoteConvertedOnce
  BY DEF SerialInv, SalesUndisturbed, RowsAgree, SoldOnce, QuoteConvertedOnce

LEMMA OwnedFollows == PlacedInv /\ OwnedInv => OutboundPerOrder
  <1> SUFFICES ASSUME PlacedInv, OwnedInv PROVE OutboundPerOrder
    OBVIOUS
  <1>1. Quiet => Len(outbounds) <= Len(orders) + overlaps
    <2>1. Quiet => Placers = {}
      BY DEF Quiet, At, Placers, Placing
    <2>2. Len(orders) \in Nat /\ overlaps \in Nat
      BY DEF PlacedInv, SalesTyped, SalesTypeOK
    <2> QED
      BY <2>1, <2>2, FS_EmptySet DEF PlacedInv
  <1> QED
    BY <1>1 DEF OwnedInv, OutboundsOwned, OutboundPerOrder

\* As long as every call ran alone and to its end, the customer owes exactly the
\* orders that are not cancelled, whatever is edited between them: any amounts,
\* orders, limits and number of handlers (SalesOrderService create and cancel).
THEOREM DebtExact == SalesSpec => []DebtIsOrders
  <1> QED
    BY SerialInitOK, SalesInitOK, AllKept, DebtFollows, PTL DEF SalesSpec

\* As long as every call ran alone and to its end, a quote has become at most
\* the one order it names, and was accepted before (SalesOrderService.create,
\* SalesQuoteService).
THEOREM QuotesSoldOnce == SalesSpec => []QuoteConvertedOnce
  <1> QED
    BY SerialInitOK, SalesInitOK, AllKept, SoldOnceFollows, PTL DEF SalesSpec

\* Whatever overlaps and wherever calls die, each sales order has an outbound of
\* its own, and the outbounds without an order are no more than the calls that
\* came in the way of another or died (SalesOrderService.create,
\* OutboundService.create).
THEOREM OutboundsMatch == SalesSpec => []OutboundPerOrder
  <1>1. SalesInit => DebtInv /\ OwnedInv /\ PlacedInv
    BY SalesInitOK, SerialInitOK, NonePlaced
  <1>2. DebtInv /\ OwnedInv /\ PlacedInv /\ [SalesNext]_salesVars
          => DebtInv' /\ OwnedInv' /\ PlacedInv'
    BY SalesNextKeeps, OwnedKept, PlacedKept DEF DebtInv
  <1> QED
    BY <1>1, <1>2, OwnedFollows, PTL DEF SalesSpec
=============================================================================
