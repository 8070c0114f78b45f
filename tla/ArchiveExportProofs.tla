--------------------------- MODULE ArchiveExportProofs ---------------------------
(***************************************************************************)
(* An export beside the writer, for every number of transactions, errors,  *)
(* crashes and attempts, while no human edits: what is delivered was the   *)
(* store when the first listing was complete.  What was listed only grows; *)
(* that it also stood still is known once the probe after the body finds   *)
(* the slot after the first probe's head free (Standing).                  *)
(***************************************************************************)
EXTENDS ArchiveExport, SnapshotReaderProofs, SequenceTheorems

Digesting == {"digest barrier", "digest head", "count", "copy barrier", "copy head"}
Body == {"capture", "after"} \cup Digesting

\* What one directory can be listed as.
HeadRow == [head : 0..MaxSeq, barrier : Content]
BlobsRow == SUBSET Content
ReceiptsRow == SUBSET (1..MaxSeq)
RequestsRow == SUBSET Requests
SlotsRow == Nat
IntentRow == [{"policy", "queue"} \cup Releases -> Content]
TicketsRow == [Tickets -> Content]
Row == HeadRow \cup BlobsRow \cup ReceiptsRow \cup RequestsRow \cup SlotsRow \cup IntentRow \cup TicketsRow

\* The local state at each program point.
Shape ==
  /\ point \in {"idle", "probe", "verify"} \cup Body
  /\ obs \in Snapshot /\ first \in Snapshot /\ left \in SUBSET IntentPath /\ attempt = 0
  /\ refusal \in {"none", "SNAPSHOT_MOVED", "MALFORMED", "RECEIPT_COUNT"}
  /\ copied = [head |-> copied.head, barrier |-> copied.barrier, tree |-> copied.tree]
  /\ before \in Seq(Row) /\ after \in Seq(Row) /\ Len(before) <= 7 /\ Len(after) <= 7
  /\ at = "idle" => pass = "first" /\ obs = Blank /\ left = {}
  /\ at # "idle" => verdict = "none" /\ (point = "probe" \/ pass = "body")
  /\ pass = "first" /\ at # "idle" => before = <<>> /\ after = <<>> /\ refusal = "none"
  /\ pass = "body" => at = "root" /\ point \in Body \cup {"probe"}
  /\ pass = "body" /\ point = "probe" => left = {} /\ obs = Blank /\ after = <<>> /\ Len(before) < 7 /\ refusal = "none"
  /\ point \in Body => pass = "body" /\ Len(before) = 7
  /\ point \in Body \ {"after"} => refusal = "none" /\ after = <<>>
  /\ point = "after" => Len(after) < 7
  /\ pass = "again" => point = "probe" /\ at # "idle" /\ bodyErr = refusal /\ Len(before) = 7
  /\ at = "head" => obs = Blank
  /\ at \in {"head", "slot2", "slot1", "barrier"} => pass # "body"
  /\ at \in {"head", "slot2", "slot1", "barrier", "root"} /\ pass # "body" => obs.tree = NoTree /\ left = {}

\* Nothing has been committed since the first probe read its head.
Standing == ~Overtaken(first.head)
Surveying == pass # "first"

\* Names that were listed are still there; if nothing was committed, they are all.
Growing ==
  Surveying =>
    /\ Len(before) >= 2 => before[2] \subseteq evidence
    /\ Standing =>
         /\ Len(before) >= 1 => before[1] = [head |-> head, barrier |-> file["barrier"]]
         /\ Len(before) >= 3 => before[3] = Linked
         /\ Len(before) >= 4 => before[4] = Filed

\* The moment lies between the two listings of the blobs.
Remembered ==
  Surveying /\ Len(before) = 7 =>
    /\ before[2] \subseteq moment.evidence /\ moment.evidence \subseteq evidence
    /\ Len(after) >= 2 => moment.evidence \subseteq after[2]
    /\ moment.receipts \subseteq Linked
    /\ \A n \in moment.receipts : receipts[n].blobs \subseteq moment.evidence
    /\ Standing =>
         /\ moment.pending = FALSE /\ moment.head = head /\ moment.barrier = file["barrier"]
         /\ moment.tree = IntentTree /\ moment.receipts = Linked /\ moment.requests = Filed

\* What the body of an export without a refusal has compared and copied.
Copying ==
  Surveying /\ refusal = "none" =>
    /\ point \in Digesting \cup {"after"} \/ pass = "again" => copied.tree = first.tree
    /\ point \in Body \ {"capture", "digest barrier"} \/ pass = "again" => copied.barrier = before[1].barrier
    /\ point \in Body \ {"capture", "digest barrier", "digest head"} \/ pass = "again" => copied.head = before[1].head
    /\ point \in {"copy barrier", "copy head", "after"} \/ pass = "again" => before[3] = 1..first.head
    /\ pass = "again" => after = before

\* The count of the receipts was refused for a reason.
Miscounted == Surveying /\ refusal = "RECEIPT_COUNT" => before[3] # 1..first.head

\* What is copied is the store of the moment, whole.
Coherent ==
  /\ ~moment.pending /\ moment.receipts = 1..moment.head
  /\ moment.head = copied.head /\ moment.barrier = copied.barrier /\ moment.tree = copied.tree
  /\ moment.receipts = before[3] /\ moment.requests = before[4] /\ moment.evidence = before[2]
  /\ before[4] = {receipts[n].cmd.id : n \in before[3]}
  /\ \A n \in before[3] : receipts[n].blobs \subseteq before[2]
  /\ before[3] \subseteq Linked
  /\ copied.head = first.head /\ copied.barrier = first.barrier /\ copied.tree = first.tree
  /\ copied.tree["queue"] \in 0..MaxSeq

\* The probe after the body, once its slot check has found the first probe's head
\* still the last.
Backed ==
  pass = "again" /\ at \in AfterSlots /\ obs.head = first.head =>
    refusal # "RECEIPT_COUNT" /\ (refusal = "none" => Coherent)

\* The answers.
Ended ==
  /\ verdict \notin {"RECEIPT_COUNT", "UNVERIFIED", "DELIVERED", "PREFIX"}
  /\ verdict = "OK" => Coherent
  /\ point = "verify" => verdict = "OK"
  /\ outcome # "none" => point = "idle"
  /\ outcome \notin {"RECEIPT_COUNT", "UNVERIFIED"}
  /\ outcome \in {"DELIVERED", "PREFIX"} => Coherent

Surveyed == Growing /\ Remembered /\ Copying /\ Miscounted
Probed == HeadSeen /\ Probing /\ Pinned
ExportInv == Shape /\ Probed /\ Surveyed /\ Backed /\ Ended

-----------------------------------------------------------------------------
(* The store beside the export. *)

\* A queue is what genesis read or what a receipt computed.
QueueValue == {NoEntry} \cup 0..MaxSeq
QueueWritten ==
  /\ \A n \in 1..MaxSeq : Present(n) => receipts[n].post["queue"] \in QueueValue
  /\ Present(1) => receipts[1].post["queue"] # NoEntry
  /\ phase \in BeforeLink => plan.post["queue"] \in QueueValue

StoreInv == Inv /\ AbstractInv /\ ContentInv /\ QueueWritten

\* No verb gives the queue a value of its caller's.
LEMMA PlansQueue ==
  ASSUME TypeOK, head < MaxSeq, NEW c \in Command, TargetsOK(c), NEW r \in Plans(c)
  PROVE  r.post["queue"] \in QueueValue
<1>1. head + 1 \in 0..MaxSeq /\ "queue" \in Path /\ "queue" # "barrier" /\ "queue" \notin Records
  BY ConstantsAssumption DEF TypeOK, Path, IntentPath, Records
<1>2. \A paths : Indexed(c, paths)["queue"] \in QueueValue
  BY <1>1 DEF Indexed, QueueValue
<1>3. PICK paths, blobs, k, v :
         /\ r = Receipted(c, Indexed(c, paths), blobs) \/ r = Receipted(c, [Indexed(c, paths) EXCEPT ![k] = v], blobs)
         /\ k # "queue"
  <2>1. CASE c.op = "CREATE"
    BY <2>1, <1>1 DEF Plans
  <2>2. CASE c.op \in {"MUTATE", "POLICY_UPDATE", "PAUSE", "ADOPT_FILE"}
    BY <2>2, <1>1 DEF Plans
  <2>3. CASE c.op = "UNPAUSE"
    BY <2>3, <1>1 DEF Plans
  <2>4. CASE c.op = "KEEP_JOURNAL"
    BY <2>4, <1>1 DEF Plans, TargetsOK
  <2>5. c.op \in {"CREATE", "MUTATE", "POLICY_UPDATE", "PAUSE", "ADOPT_FILE", "UNPAUSE", "KEEP_JOURNAL"}
    BY DEF Plans
  <2> QED BY <2>1, <2>2, <2>3, <2>4, <2>5
<1>4. r.post = Indexed(c, paths) \/ r.post = [Indexed(c, paths) EXCEPT ![k] = v]
  BY <1>3 DEF Receipted
<1>5. [Indexed(c, paths) EXCEPT ![k] = v]["queue"] = Indexed(c, paths)["queue"]
  BY <1>1, <1>3 DEF Indexed
<1> QED BY <1>2, <1>4, <1>5

\* The genesis receipt takes the queue as it was authored; later ones compute it.
LEMMA QueueNext ==
  ASSUME Inv, AbstractInv, ContentInv, QueueWritten, MaxEdits = 0, [Next]_vars
  PROVE  QueueWritten'
<1>1. CASE \E i \in Requests : BeginInit(i)
  <2>1. PICK i \in Requests : BeginInit(i)
    BY <1>1
  <2>2. head = 0 /\ ~Present(1) /\ edits = 0 /\ "queue" \in Path /\ "queue" # i
    BY <2>1, ConstantsAssumption DEF BeginInit, Inv, Session, Uncommitted, TypeOK, Path, IntentPath
  <2>3. file["queue"] = 0
    BY <2>2 DEF ContentInv, Following, Calm, Base, Pending
  <2>4. plan'.post["queue"] = file["queue"] /\ UNCHANGED receipts
    BY <2>1, <2>2 DEF BeginInit
  <2> QED BY <2>3, <2>4, ConstantsAssumption DEF QueueWritten, QueueValue, Present
<1>2. ASSUME NEW c \in Command, TargetsOK(c), Fresh(c) PROVE QueueWritten'
  <2>1. PICK r \in Plans(c) : Applying(c, r)
    BY <1>2 DEF Fresh
  <2>2. head < MaxSeq
    BY ConstantsAssumption DEF Inv, TypeOK, Plans
  <2>3. r.post["queue"] \in QueueValue
    BY <1>2, <2>2, PlansQueue DEF Inv
  <2> QED BY <1>2, <2>1, <2>3 DEF Fresh, Applying, disk, QueueWritten, Present
<1>3. ASSUME UNCHANGED receipts, phase' \notin BeforeLink \/ (phase \in BeforeLink /\ plan' = plan) PROVE QueueWritten'
  BY <1>3 DEF QueueWritten, Present
<1>4. CASE \E c \in Invocations : Begin(c)
  <2>1. PICK c \in Invocations : Begin(c)
    BY <1>4
  <2>2. c \in Command /\ TargetsOK(c)
    BY InvocationsAreCommands, InvocationsHaveTargets DEF Inv
  <2> QED BY <1>2, <1>3, <2>1, <2>2 DEF Begin, Mutate, PolicyUpdate, Barrier, Reconcile, Replay, StartRedo, Released, disk, BeforeLink
<1>5. CASE Resume
  <2>1. cmd \in Command /\ TargetsOK(cmd)
    BY <1>5 DEF Inv, Session, Holding, AbstractInv, Resuming, Resume
  <2> QED BY <1>2, <1>3, <1>5, <2>1 DEF Resume, Replay, Released, disk, BeforeLink
<1>6. CASE LinkReceipt
  <2>1. CASE Present(head + 1)
    BY <1>3, <1>6, <2>1 DEF LinkReceipt, Aborting, BeforeLink
  <2>2. CASE ~Present(head + 1)
    <3>1. receipts' = [receipts EXCEPT ![head + 1] = plan] /\ phase' = "posts" /\ phase \in BeforeLink
      BY <1>6, <2>2 DEF LinkReceipt, BeforeLink
    <3>2. \A n \in 1..MaxSeq : receipts'[n] = IF n = head + 1 THEN plan ELSE receipts[n]
      BY <3>1 DEF Inv, TypeOK
    <3>3. head = 0 => plan.post["queue"] # NoEntry
      BY <3>1 DEF AbstractInv, Explained, Genesis, Posted
    <3>4. 1 \in 1..MaxSeq /\ head \in Nat
      BY ConstantsAssumption DEF Inv, TypeOK
    <3>5. Present(1)' => receipts'[1].post["queue"] # NoEntry
      BY <3>2, <3>3, <3>4 DEF QueueWritten, Present
    <3> QED BY <3>1, <3>2, <3>5 DEF QueueWritten, Present, BeforeLink
  <2> QED BY <2>1, <2>2
<1>7. CASE MakeDirectories \/ StageEvidence \/ LinkEvidence \/ StageReceipt
  BY <1>3, <1>7 DEF MakeDirectories, StageEvidence, LinkEvidence, StageReceipt, BeforeLink
<1>8. CASE \/ SkipPost \/ StagePost \/ RefusePost \/ LinkPost \/ VerifyPost \/ RenamePost
           \/ PostsDone \/ DeleteBarrier \/ StageHead \/ PublishHead \/ Finish \/ Abort \/ Fault \/ Crash
  <2>1. UNCHANGED receipts /\ phase' \notin BeforeLink
    BY <1>8 DEF SkipPost, StagePost, RefusePost, LinkPost, VerifyPost, RenamePost, PostsDone,
       DeleteBarrier, StageHead, PublishHead, Finish, Abort, Fault, Crash, Deciding, Aborting,
       Released, Settle, disk, BeforeLink
  <2> QED BY <1>3, <2>1
<1>9. CASE (\E p \in IntentPath : Edit(p)) \/ UNCHANGED vars
  BY <1>3, <1>9 DEF Edit, session, vars
<1> QED BY <1>1, <1>4, <1>5, <1>6, <1>7, <1>8, <1>9 DEF Next, Holder

\* Between transactions the index names the requests of the receipts, and the queue
\* is the canonical one.
LEMMA SettledStore ==
  ASSUME StoreInv, MaxEdits = 0, head # 0, ~Pending
  PROVE  /\ Linked = 1..head
         /\ Filed = {receipts[n].cmd.id : n \in 1..head}
         /\ file["queue"] \in 0..MaxSeq
<1> USE DEF StoreInv
<1>1. head \in 1..MaxSeq /\ edits = 0 /\ MaxSeq \in Nat
  BY ConstantsAssumption DEF Inv, TypeOK
<1>2. \A n \in 1..MaxSeq : Present(n) <=> n \in 1..head
  BY <1>1 DEF Inv, Journal, Chain, ChainOrder, Pending
<1>3. \A p \in Path : file[p] = Latest(p, head)
  BY <1>1 DEF ContentInv, Following, Calm, Base
<1>4. ASSUME NEW p, Writers(p, head) # {}
      PROVE  \E n \in 1..head : n \in Writers(p, head) /\ Latest(p, head) = receipts[n].post[p]
  <2>1. head \in Nat
    BY <1>1
  <2>2. PICK n : n = Max(Writers(p, head))
    OBVIOUS
  <2>3. n \in Writers(p, head)
    BY <1>4, <2>1, <2>2, LatestIsPosted
  <2>4. Latest(p, head) = receipts[n].post[p]
    BY <1>4, <2>2 DEF Latest
  <2> QED BY <2>3, <2>4 DEF Writers
<1>5. Linked = 1..head
  BY <1>1, <1>2 DEF Linked
<1>6. \A n \in 1..head : receipts[n].cmd.id \in Requests /\ receipts[n].post \in Entries
  BY <1>1, <1>2 DEF Inv, Journal, Chain, ReceiptsOK, WellFormed, Receipt, Command
<1>7. ASSUME NEW i \in Requests
      PROVE  i \in Filed <=> i \in {receipts[n].cmd.id : n \in 1..head}
  <2>1. \A n \in 1..head : receipts[n].post[i] # NoEntry <=> receipts[n].cmd.id = i
    BY <1>1, <1>2 DEF AbstractInv, Indexing, Scoped, Posted, Path
  <2>2. i \in Path \ {"barrier"}
    BY ConstantsAssumption DEF Path
  <2>3. \A n \in 1..head : receipts[n].post[i] # NoFile
    BY <1>1, <1>2, <2>2 DEF Inv, Journal, Chain, ReceiptsOK, WellFormed
  <2>4. CASE Writers(i, head) = {}
    <3>1. \A n \in 1..head : receipts[n].post[i] = NoEntry
      BY <1>2, <1>1, <2>4 DEF Writers, Present
    <3>2. file[i] = NoFile
      BY <1>3, <2>2, <2>4 DEF Latest
    <3> QED BY <2>1, <3>1, <3>2 DEF Filed
  <2>5. CASE Writers(i, head) # {}
    <3>1. PICK n \in 1..head : n \in Writers(i, head) /\ Latest(i, head) = receipts[n].post[i]
      BY <1>4, <2>5
    <3>2. receipts[n].cmd.id = i
      BY <2>1, <3>1 DEF Writers
    <3>3. file[i] # NoFile
      BY <1>3, <2>2, <2>3, <3>1
    <3> QED BY <3>2, <3>3 DEF Filed
  <2> QED BY <2>4, <2>5
<1>8. Filed = {receipts[n].cmd.id : n \in 1..head}
  BY <1>6, <1>7 DEF Filed
<1>9. file["queue"] \in 0..MaxSeq
  <2>1. 1 \in Writers("queue", head)
    BY <1>1, <1>2 DEF QueueWritten, Writers, Present
  <2>2. PICK n \in 1..head : n \in Writers("queue", head) /\ Latest("queue", head) = receipts[n].post["queue"]
    BY <1>4, <2>1
  <2>3. "queue" \in Path
    BY DEF Path, IntentPath
  <2> QED BY <1>1, <1>2, <1>3, <2>2, <2>3 DEF QueueWritten, QueueValue, Writers
<1> QED BY <1>5, <1>8, <1>9

\* No step removes a blob.
LEMMA EvidenceGrows == [Next]_vars => evidence \subseteq evidence'
<1>1. CASE LinkEvidence
  BY <1>1 DEF LinkEvidence
<1>2. CASE UNCHANGED evidence
  BY <1>2
<1> QED
  BY <1>1, <1>2 DEF Next, Holder, vars, disk, BeginInit, MakeDirectories, Begin, Mutate, PolicyUpdate, Barrier, Reconcile, Fresh, Replay,
     StartRedo, Resume, StageEvidence, StageReceipt, LinkReceipt, SkipPost, StagePost, RefusePost,
     LinkPost, VerifyPost, RenamePost, PostsDone, DeleteBarrier, StageHead, PublishHead, Finish,
     Abort, Fault, Crash, Edit

\* While nothing is committed, nothing a listing names changes; evidence only grows.
LEMMA StandingFrame ==
  ASSUME Inv, MaxEdits = 0, [Next]_vars, NEW h \in 1..head
  PROVE  /\ evidence \subseteq evidence' /\ Linked \subseteq Linked' /\ 1..head \subseteq 1..head'
         /\ \A n \in Linked : receipts'[n] = receipts[n]
         /\ ~Overtaken(h)' =>
              ~Overtaken(h) /\ head' = head /\ file' = file /\ Linked' = Linked /\ ~Pending /\ head = h
<1>1. head \in 0..MaxSeq /\ head' \in Nat /\ head <= head' /\ MaxSeq \in Nat
  BY StoreFrame, ConstantsAssumption DEF Inv, TypeOK
<1>2. \A n \in 1..MaxSeq : Present(n) => Present(n)' /\ receipts'[n] = receipts[n]
  BY StoreFrame DEF Present
<1>3. evidence \subseteq evidence'
  BY EvidenceGrows
<1>4. ASSUME ~Overtaken(h)'
      PROVE  ~Overtaken(h) /\ head' = head /\ file' = file /\ Linked' = Linked /\ ~Pending /\ head = h
  <2>1. ~Overtaken(h)
    BY <1>2, <1>4 DEF Overtaken, Present
  <2>2. head = h /\ ~Pending
    BY <2>1, HeadStands
  <2>3. head' = head /\ file' = file
    BY <2>2, StoreFrame DEF Pending
  <2>4. \A n \in 1..MaxSeq : Present(n)' => Present(n)
    BY <1>4, <2>2, StoreFrame DEF Overtaken
  <2>5. Linked' = Linked
    BY <1>2, <2>4 DEF Linked
  <2> QED BY <2>1, <2>2, <2>3, <2>5
<1> QED BY <1>1, <1>2, <1>3, <1>4 DEF Linked

-----------------------------------------------------------------------------
(* The listings. *)

\* Every directory is listed as one of them.
LEMMA ListedTyped ==
  ASSUME TypeOK, NEW d \in {"root", "evidence", "receipts", "requests", "staging", "intent", "tickets"}
  PROVE  /\ Listed(d) \in Row
         /\ d = "root" => Listed(d) = [head |-> head, barrier |-> file["barrier"]]
         /\ d = "evidence" => Listed(d) = evidence
         /\ d = "receipts" => Listed(d) = Linked
         /\ d = "requests" => Listed(d) = Filed
<1>1. /\ d = "root" => Listed(d) = [head |-> head, barrier |-> file["barrier"]]
      /\ d = "evidence" => Listed(d) = evidence
      /\ d = "receipts" => Listed(d) = Linked
      /\ d = "requests" => Listed(d) = Filed
      /\ d = "staging" => Listed(d) = slots
      /\ d = "intent" => Listed(d) = [p \in {"policy", "queue"} \cup Releases |-> file[p]]
      /\ d = "tickets" => Listed(d) = [t \in Tickets |-> file[t]]
  BY DEF Listed
<1>2. \A p \in Path : file[p] \in Content
  BY DEF TypeOK
<1>3. /\ "barrier" \in Path /\ {"policy", "queue"} \cup Releases \subseteq Path /\ Tickets \subseteq Path
  BY DEF Path, IntentPath, Records
<1>4. /\ [p \in {"policy", "queue"} \cup Releases |-> file[p]] \in IntentRow
      /\ [t \in Tickets |-> file[t]] \in TicketsRow
      /\ [head |-> head, barrier |-> file["barrier"]] \in HeadRow
  BY <1>2, <1>3 DEF TypeOK, IntentRow, TicketsRow, HeadRow
<1>5. evidence \in BlobsRow /\ Linked \in ReceiptsRow /\ Filed \in RequestsRow /\ slots \in SlotsRow
  BY DEF TypeOK, Linked, Filed, BlobsRow, ReceiptsRow, RequestsRow, SlotsRow
<1>6. \/ Listed(d) \in HeadRow \/ Listed(d) \in BlobsRow \/ Listed(d) \in ReceiptsRow
      \/ Listed(d) \in RequestsRow \/ Listed(d) \in SlotsRow
      \/ Listed(d) \in IntentRow \/ Listed(d) \in TicketsRow
  BY Zenon, <1>1, <1>4, <1>5
<1>7. Listed(d) \in Row
  BY Zenon, <1>6 DEF Row
<1> QED BY Zenon, <1>1, <1>7

\* The order of the directories.
Ordered(d, n) ==
  /\ n = 0 => d = "root"
  /\ n = 1 => d = "evidence"
  /\ n = 2 => d = "receipts"
  /\ n = 3 => d = "requests"
  /\ n \in 4..6 => d \in {"staging", "intent", "tickets"}
  /\ n \in 0..6
LEMMA DirectoryOrder ==
  ASSUME NEW n \in 0..6
  PROVE  Ordered(Directories[n + 1], n)
BY DEF Directories, Ordered

\* A listing grows by the next directory as it is now.
LEMMA ListingAdds ==
  ASSUME TypeOK, NEW s \in Seq(Row), NEW n \in 0..6, n = Len(s)
  PROVE  /\ Listing(s) \in Seq(Row) /\ Len(Listing(s)) = n + 1
         /\ \A k \in 1..n : Listing(s)[k] = s[k]
         /\ n = 0 => Listing(s)[1] = [head |-> head, barrier |-> file["barrier"]]
         /\ n = 1 => Listing(s)[2] = evidence
         /\ n = 2 => Listing(s)[3] = Linked
         /\ n = 3 => Listing(s)[4] = Filed
<1>1. PICK d : d = Directories[n + 1]
  OBVIOUS
<1>2. Ordered(d, n)
  BY <1>1, DirectoryOrder
<1>3. d \in {"root", "evidence", "receipts", "requests", "staging", "intent", "tickets"}
  BY <1>2 DEF Ordered
<1>4. PICK r \in Row : r = Listed(d)
  BY <1>3, ListedTyped
<1>5. Listing(s) = Append(s, r)
  BY <1>1, <1>4 DEF Listing
<1>6. /\ Append(s, r) \in Seq(Row) /\ Len(Append(s, r)) = Len(s) + 1
      /\ \A k \in 1..Len(s) : Append(s, r)[k] = s[k]
      /\ Append(s, r)[Len(s) + 1] = r
  BY AppendProperties
<1>7. /\ n = 0 => r = [head |-> head, barrier |-> file["barrier"]]
      /\ n = 1 => r = evidence
      /\ n = 2 => r = Linked
      /\ n = 3 => r = Filed
  BY <1>2, <1>3, <1>4, ListedTyped DEF Ordered
<1> QED BY <1>5, <1>6, <1>7

-----------------------------------------------------------------------------
(* The store moves under the export. *)

\* A coherent copy stays one: receipts that were listed do not change.
LEMMA CoherentFrame ==
  ASSUME Coherent, UNCHANGED <<first, before, moment, copied>>,
         Linked \subseteq Linked', \A n \in Linked : receipts'[n] = receipts[n]
  PROVE  Coherent'
<1>1. \A n \in before[3] : receipts'[n] = receipts[n]
  BY DEF Coherent
<1>2. {receipts'[n].cmd.id : n \in before[3]} = {receipts[n].cmd.id : n \in before[3]}
  BY <1>1
<1>3. \A n \in before[3] : receipts'[n].blobs \subseteq before[2]
  BY <1>1 DEF Coherent
<1>4. before[3] \subseteq Linked'
  BY DEF Coherent
<1> QED BY <1>2, <1>3, <1>4 DEF Coherent

\* What was surveyed under the first probe's head stands or is overtaken.
LEMMA SurveyMoves ==
  ASSUME StoreInv, Shape, Pinned, Surveyed, MaxEdits = 0, [Next]_vars, UNCHANGED <<reader, export, moment>>
  PROVE  Surveyed'
<1>1. UNCHANGED <<pass, first, before, after, moment, copied, refusal, point>>
  BY DEF reader, export
<1>2. CASE pass = "first"
  BY <1>1, <1>2 DEF Surveyed, Growing, Remembered, Copying, Miscounted, Surveying
<1>3. CASE pass # "first"
  <2>1. PICK h \in 1..head : h = first.head
    BY <1>3 DEF Pinned
  <2>2. /\ evidence \subseteq evidence' /\ Linked \subseteq Linked'
        /\ \A n \in Linked : receipts'[n] = receipts[n]
        /\ ~Overtaken(h)' =>
             ~Overtaken(h) /\ head' = head /\ file' = file /\ Linked' = Linked /\ ~Pending /\ head = h
    BY <2>1, StandingFrame DEF StoreInv
  <2>3. Standing' => Standing /\ head' = head /\ file' = file /\ Linked' = Linked
    BY <1>1, <2>1, <2>2 DEF Standing, Overtaken
  <2>4. Standing' => Filed' = Filed /\ IntentTree' = IntentTree
    BY <2>3 DEF Filed, IntentTree
  <2>5. Growing'
    BY <1>1, <1>3, <2>2, <2>3, <2>4 DEF Surveyed, Growing, Surveying
  <2>6. Remembered'
    BY <1>1, <1>3, <2>2, <2>3, <2>4 DEF Surveyed, Remembered, Surveying
  <2>7. Copying' /\ Miscounted'
    BY <1>1 DEF Surveyed, Copying, Miscounted, Surveying
  <2> QED BY <2>5, <2>6, <2>7 DEF Surveyed
<1> QED BY <1>2, <1>3

\* What was probed stands or is overtaken.
LEMMA ProbeMoves ==
  ASSUME StoreInv, Probed, MaxEdits = 0, [Next]_vars, UNCHANGED reader
  PROVE  Probed'
<1>1. UNCHANGED <<at, pass, obs, left, first>>
  BY DEF reader
<1>2. 1..head \subseteq 1..head' /\ head \in Nat
  BY StoreFrame, ConstantsAssumption DEF StoreInv, Inv, TypeOK
<1>3. ASSUME NEW h \in 1..head, ~Overtaken(h)'
      PROVE  ~Overtaken(h) /\ head' = head /\ file' = file
  BY <1>3, StandingFrame DEF StoreInv
<1>4. HeadSeen'
  BY <1>1, <1>2 DEF Probed, HeadSeen
<1>5. Probing'
  <2> SUFFICES ASSUME pass = "first", at \in AfterSlots, ~Overtaken(obs.head)'
               PROVE  head' = obs.head /\ (at # "barrier" => obs.barrier = file'["barrier"]) /\ TreeSoFar'
    BY <1>1 DEF Probing, Overtaken
  <2>1. PICK h \in 1..head : h = obs.head
    BY DEF Probed, HeadSeen, AfterSlots
  <2>2. ~Overtaken(h) /\ head' = head /\ file' = file
    BY <1>1, <1>3, <2>1 DEF Overtaken
  <2> QED BY <1>1, <2>1, <2>2 DEF Probed, Probing, TreeSoFar, Covered
<1>6. Pinned'
  <2> SUFFICES ASSUME pass # "first"
               PROVE  /\ first.head \in 1..head'
                      /\ \/ Overtaken(first.head)'
                         \/ head' = first.head /\ first.barrier = file'["barrier"] /\ first.tree = IntentTree'
    BY <1>1 DEF Pinned, Overtaken
  <2>1. PICK h \in 1..head : h = first.head
    BY DEF Probed, Pinned
  <2>2. CASE ~Overtaken(first.head)'
    <3>1. ~Overtaken(h) /\ head' = head /\ file' = file
      BY <1>1, <1>3, <2>1, <2>2 DEF Overtaken
    <3> QED BY <1>2, <2>1, <3>1 DEF Probed, Pinned, IntentTree
  <2> QED BY <1>2, <2>1, <2>2
<1> QED BY <1>4, <1>5, <1>6 DEF Probed

\* Whatever the writer does, the export's invariant holds.
LEMMA ExportStoreInv ==
  ASSUME StoreInv, ExportInv, MaxEdits = 0, [Next]_vars, UNCHANGED <<reader, export, moment>>
  PROVE  ExportInv'
<1>1. Shape'
  BY DEF ExportInv, Shape, reader, export
<1>2. Probed' /\ Surveyed'
  BY ProbeMoves, SurveyMoves DEF ExportInv, Probed
<1>3. Linked \subseteq Linked' /\ \A n \in Linked : receipts'[n] = receipts[n]
  BY StoreFrame DEF StoreInv, Linked, Present
<1>4. Coherent => Coherent'
  BY <1>3, CoherentFrame DEF reader, export
<1>5. Backed' /\ Ended'
  BY <1>4 DEF ExportInv, Backed, Ended, reader, export
<1> QED BY <1>1, <1>2, <1>5 DEF ExportInv

-----------------------------------------------------------------------------
(* The probes of the export. *)

\* While the store stands still, so does what was surveyed.
LEMMA StillSurvey ==
  ASSUME UNCHANGED vars
  PROVE  /\ Linked' = Linked /\ Filed' = Filed /\ Moment' = Moment
         /\ UNCHANGED <<first, before, moment, copied>> /\ Coherent => Coherent'
         /\ UNCHANGED first => Standing' = Standing
<1>1. receipts' = receipts /\ head' = head /\ file' = file /\ evidence' = evidence
  BY DEF vars, disk
<1>2. Linked' = Linked /\ Filed' = Filed
  BY <1>1 DEF Linked, Filed, Present
<1>3. Moment' = Moment
  BY <1>1, <1>2, StillStore DEF Moment
<1>4. UNCHANGED <<first, before, moment, copied>> /\ Coherent => Coherent'
  BY <1>1, <1>2 DEF Coherent
<1>5. UNCHANGED first => Standing' = Standing
  BY <1>1 DEF Standing, Overtaken, Present
<1> QED BY <1>2, <1>3, <1>4, <1>5

\* A probe goes on: only what it has read changes.
LEMMA ProbeGoesOn ==
  ASSUME ExportInv, UNCHANGED <<vars, pass, attempt, first, bodyErr, verdict, export, moment>>,
         at # "idle", at' \notin {"idle", "head"}, pass # "body",
         obs' \in Snapshot, left' \in SUBSET IntentPath,
         at' \in {"slot2", "slot1", "barrier", "root"} => obs'.tree = NoTree /\ left' = {},
         HeadSeen', Probing',
         Backed' \/ at' \notin AfterSlots \/ (at \in AfterSlots /\ obs'.head = obs.head)
  PROVE  ExportInv'
<1>1. UNCHANGED <<point, before, after, copied, refusal, outcome>>
  BY DEF export
<1>2. Shape'
  BY <1>1 DEF ExportInv, Shape
<1>3. Probed'
  BY StillStore DEF ExportInv, Probed, Pinned
<1>4. Surveyed'
  <2>1. evidence' = evidence /\ head' = head /\ file' = file /\ receipts' = receipts
    BY DEF vars, disk
  <2>2. Growing'
    BY <1>1, <2>1, StillSurvey DEF ExportInv, Surveyed, Growing, Surveying
  <2>3. Remembered'
    BY <1>1, <2>1, StillStore, StillSurvey DEF ExportInv, Surveyed, Remembered, Surveying
  <2>4. Copying' /\ Miscounted'
    BY <1>1 DEF ExportInv, Surveyed, Copying, Miscounted, Surveying
  <2> QED BY <2>2, <2>3, <2>4 DEF Surveyed
<1>5. Coherent => Coherent'
  BY <1>1, StillSurvey
<1>6. Backed' /\ Ended'
  BY <1>1, <1>5 DEF ExportInv, Backed, Ended
<1> QED BY <1>2, <1>3, <1>4, <1>6 DEF ExportInv

\* A read of the probes returns: OK only of a coherent copy.
LEMMA ProbeReturns ==
  ASSUME ExportInv, UNCHANGED <<vars, export, moment>>, point = "probe", at # "idle",
         NEW code, Return(code), code \notin {"RECEIPT_COUNT", "UNVERIFIED", "DELIVERED", "PREFIX"}, code = "OK" => Coherent
  PROVE  ExportInv'
<1>1. /\ at' = "idle" /\ pass' = "first" /\ attempt' = 0 /\ obs' = Blank /\ left' = {}
      /\ bodyErr' = "none" /\ verdict' = code
      /\ code = "OK" => first' = first
      /\ first' \in {first, Blank}
  BY DEF Return, Goto
<1>2. UNCHANGED <<point, before, after, copied, refusal, outcome>>
  BY DEF export
<1>3. Shape'
  BY <1>1, <1>2, BlankTyped DEF ExportInv, Shape, Body, Digesting
<1>4. Probed' /\ Surveyed' /\ Backed'
  BY <1>1 DEF Probed, HeadSeen, Probing, Pinned, AfterSlots, Surveyed, Growing, Remembered,
     Copying, Miscounted, Surveying, Backed
<1>5. outcome = "none" /\ point # "verify"
  BY DEF ExportInv, Ended
<1>6. code = "OK" => Coherent'
  BY <1>1, <1>2, StillSurvey
<1>7. Ended'
  BY <1>1, <1>2, <1>5, <1>6 DEF Ended
<1> QED BY <1>3, <1>4, <1>7 DEF ExportInv

\* A head is read.
LEMMA ExportReadHead ==
  ASSUME StoreInv, ExportInv, UNCHANGED <<export, moment>>, point = "probe", pass # "body", ReadHead
  PROVE  ExportInv'
<1>1. CASE head = 0
  BY <1>1, ProbeReturns DEF ReadHead
<1>2. CASE head # 0
  <2>1. /\ at = "head" /\ at' = "slot2" /\ obs' = [obs EXCEPT !.head = head]
        /\ UNCHANGED <<vars, pass, attempt, left, first, bodyErr, verdict>>
    BY <1>2 DEF ReadHead, Goto
  <2>2. obs \in Snapshot /\ obs.tree = NoTree /\ left = {}
    BY <2>1, BlankTyped DEF ExportInv, Shape
  <2>0. head \in 1..MaxSeq /\ head \in 0..MaxSeq
    BY <1>2, ConstantsAssumption DEF StoreInv, Inv, TypeOK
  <2>3. obs'.head = head /\ obs'.tree = obs.tree /\ obs' \in Snapshot
    BY ONLY <2>0, <2>1, <2>2 DEF Snapshot
  <2>4. HeadSeen' /\ Probing'
    BY <2>0, <2>1, <2>3, StillStore DEF HeadSeen, Probing, AfterSlots
  <2> QED BY <2>1, <2>2, <2>3, <2>4, ProbeGoesOn DEF AfterSlots
<1> QED BY <1>1, <1>2

\* The slot after next is free.
LEMMA ExportCheckSecondSlot ==
  ASSUME StoreInv, ExportInv, UNCHANGED <<export, moment>>, point = "probe", pass # "body", CheckSecondSlot
  PROVE  ExportInv'
<1>1. CASE Present(obs.head + 2)
  BY <1>1, ProbeReturns DEF CheckSecondSlot
<1>2. CASE ~Present(obs.head + 2)
  <2>1. /\ at = "slot2" /\ at' = "slot1"
        /\ UNCHANGED <<vars, pass, attempt, obs, left, first, bodyErr, verdict>>
    BY <1>2 DEF CheckSecondSlot, Goto
  <2>2. obs \in Snapshot /\ obs.tree = NoTree /\ left = {}
    BY <2>1 DEF ExportInv, Shape
  <2>3. HeadSeen' /\ Probing'
    BY <2>1, StillStore DEF ExportInv, Probed, HeadSeen, Probing, AfterSlots
  <2> QED BY <2>1, <2>2, <2>3, ProbeGoesOn DEF AfterSlots
<1> QED BY <1>1, <1>2

\* The slot after the first probe's head is free after the body: nothing was
\* committed, so what was listed and copied is the store of the moment, whole.
LEMMA StandingIsCoherent ==
  ASSUME StoreInv, ExportInv, MaxEdits = 0, pass = "again", Standing
  PROVE  refusal # "RECEIPT_COUNT" /\ (refusal = "none" => Coherent)
<1> USE DEF ExportInv
<1>1. first.head \in 1..head /\ ~Overtaken(first.head) /\ Surveying /\ Len(before) = 7
  BY DEF Probed, Pinned, Standing, Shape, Surveying
<1>2. PICK h \in 1..head : h = first.head
  BY <1>1
<1>3. head = h /\ ~Pending
  BY <1>1, <1>2, HeadStands DEF StoreInv
<1>4. head # 0
  BY <1>2, ConstantsAssumption DEF StoreInv, Inv, TypeOK
<1>5. /\ Linked = 1..head
      /\ Filed = {receipts[n].cmd.id : n \in 1..head}
      /\ file["queue"] \in 0..MaxSeq
  BY <1>3, <1>4, SettledStore
<1>6. before[1] = [head |-> head, barrier |-> file["barrier"]] /\ before[3] = Linked /\ before[4] = Filed
  BY <1>1 DEF Surveyed, Growing
<1>7. refusal # "RECEIPT_COUNT"
  BY <1>1, <1>2, <1>3, <1>5, <1>6 DEF Surveyed, Miscounted
<1>8. ASSUME refusal = "none" PROVE Coherent
  <2>1. /\ copied.tree = first.tree /\ copied.barrier = file["barrier"] /\ copied.head = head /\ after = before
    BY <1>1, <1>6, <1>8 DEF Surveyed, Copying
  <2>2. first.barrier = file["barrier"] /\ first.tree = IntentTree
    BY <1>1 DEF Probed, Pinned
  <2>3. /\ moment.pending = FALSE /\ moment.head = head /\ moment.barrier = file["barrier"]
        /\ moment.tree = IntentTree /\ moment.receipts = Linked /\ moment.requests = Filed
        /\ \A n \in moment.receipts : receipts[n].blobs \subseteq moment.evidence
    BY <1>1 DEF Surveyed, Remembered
  <2>4. before[2] \subseteq moment.evidence /\ moment.evidence \subseteq after[2]
    <3>1. Len(after) >= 2
      <4>1. Len(after) = 7
        BY Zenon, <1>1, <2>1
      <4>2. PICK n : n = Len(after)
        OBVIOUS
      <4>3. n >= 2
        BY <4>1, <4>2
      <4> QED BY Zenon, <4>2, <4>3
    <3> QED BY <1>1, <3>1 DEF Surveyed, Remembered
  <2>5. moment.evidence = before[2]
    BY <2>1, <2>4
  <2>6. copied.tree["queue"] = file["queue"]
    BY <2>1, <2>2 DEF IntentTree, IntentPath
  <2> QED BY <1>2, <1>3, <1>5, <1>6, <2>1, <2>2, <2>3, <2>5, <2>6 DEF Coherent
<1> QED BY <1>7, <1>8

\* The next slot is free: the head that was read is the head now.
LEMMA ExportCheckNextSlot ==
  ASSUME StoreInv, ExportInv, MaxEdits = 0, UNCHANGED <<export, moment>>, point = "probe",
         pass # "body", CheckNextSlot
  PROVE  ExportInv'
<1>1. CASE Present(obs.head + 1)
  BY <1>1, ProbeReturns DEF CheckNextSlot
<1>2. CASE ~Present(obs.head + 1)
  <2>1. /\ at = "slot1" /\ at' = "barrier"
        /\ UNCHANGED <<vars, pass, attempt, obs, left, first, bodyErr, verdict>>
    BY <1>2 DEF CheckNextSlot, Goto
  <2>2. obs \in Snapshot /\ obs.tree = NoTree /\ left = {}
    BY <2>1 DEF ExportInv, Shape
  <2>3. obs.head \in 1..head /\ ~Overtaken(obs.head)
    BY <1>2, <2>1 DEF ExportInv, Probed, HeadSeen, Overtaken
  <2>4. PICK h \in 1..head : h = obs.head
    BY <2>3
  <2>5. head = obs.head
    BY <2>3, <2>4, HeadStands DEF StoreInv
  <2>6. HeadSeen'
    BY <2>1, StillStore DEF ExportInv, Probed, HeadSeen
  <2>7. Probing'
    <3>1. TreeSoFar'
      BY <2>1, <2>2 DEF TreeSoFar, Covered, NoTree
    <3> QED BY <2>1, <2>5, <3>1, StillStore DEF Probing
  <2>8. Backed'
    <3> SUFFICES ASSUME pass = "again", obs.head = first.head
                 PROVE  refusal' # "RECEIPT_COUNT" /\ (refusal' = "none" => Coherent')
      BY <2>1 DEF Backed
    <3>1. Standing
      BY <2>3 DEF Standing
    <3>2. refusal # "RECEIPT_COUNT" /\ (refusal = "none" => Coherent)
      BY <3>1, StandingIsCoherent
    <3> QED BY <2>1, <3>2, StillSurvey DEF export
  <2> QED BY <2>1, <2>2, <2>6, <2>7, <2>8, ProbeGoesOn
<1> QED BY <1>1, <1>2

\* The barrier is read under a head that stands, or is overtaken.
LEMMA ExportReadBarrier ==
  ASSUME StoreInv, ExportInv, UNCHANGED <<export, moment>>, pass # "body", ReadBarrier
  PROVE  ExportInv'
<1>1. /\ at = "barrier" /\ at' = "root" /\ obs' = [obs EXCEPT !.barrier = file["barrier"]]
      /\ UNCHANGED <<vars, pass, attempt, left, first, bodyErr, verdict>>
  BY DEF ReadBarrier, Goto
<1>2. obs \in Snapshot /\ obs.tree = NoTree /\ left = {}
  BY <1>1 DEF ExportInv, Shape
<1>3. /\ obs'.head = obs.head /\ obs'.tree = obs.tree /\ obs'.barrier = file["barrier"]
      /\ obs' \in Snapshot
  BY <1>1, <1>2 DEF Snapshot, StoreInv, Inv, TypeOK, Path
<1>4. HeadSeen'
  BY <1>1, <1>3, StillStore DEF ExportInv, Probed, HeadSeen
<1>5. Probing'
  <2>1. TreeSoFar'
    BY <1>1, <1>2, <1>3 DEF TreeSoFar, Covered, NoTree
  <2> QED BY <1>1, <1>3, <2>1, StillStore DEF ExportInv, Probed, Probing, AfterSlots
<1> QED BY <1>1, <1>2, <1>3, <1>4, <1>5, ProbeGoesOn DEF AfterSlots

\* A directory is listed by a probe.
LEMMA ExportListDirectory ==
  ASSUME ExportInv, UNCHANGED <<export, moment>>, pass # "body",
         NEW here, NEW entries \in SUBSET IntentPath, NEW next,
         \/ here = "root" /\ entries = {"policy", "queue"} /\ next = "releases"
         \/ here = "releases" /\ entries = Releases /\ next = "tickets"
         \/ here = "tickets" /\ entries = Tickets /\ next = "read",
         ListDirectory(here, entries, next)
  PROVE  ExportInv'
<1>1. /\ at = here /\ at' = next /\ left' = left \cup {p \in entries : file[p] # NoFile}
      /\ UNCHANGED <<vars, pass, attempt, obs, first, bodyErr, verdict>>
  BY DEF ListDirectory, Goto
<1>2. obs \in Snapshot /\ left' \in SUBSET IntentPath
  BY <1>1 DEF ExportInv, Shape
<1>3. HeadSeen'
  BY <1>1, StillStore DEF ExportInv, Probed, HeadSeen
<1>4. TreeSoFar => TreeSoFar'
  BY ListedSoFar
<1>5. Probing'
  BY <1>1, <1>4, StillStore DEF ExportInv, Probed, Probing, AfterSlots
<1> QED BY <1>1, <1>2, <1>3, <1>5, ProbeGoesOn DEF AfterSlots

\* One file is read by a probe.
LEMMA ExportReadFile ==
  ASSUME StoreInv, ExportInv, UNCHANGED <<export, moment>>, point = "probe", pass # "body", ReadFile
  PROVE  ExportInv'
<1>1. at = "read" /\ left # {} /\ UNCHANGED <<vars, instants>>
  BY DEF ReadFile
<1>2. CASE file[NextRead] = NoFile
  BY <1>1, <1>2, ProbeReturns DEF ReadFile, Fail
<1>3. CASE file[NextRead] # NoFile
  <2> DEFINE p == NextRead
  <2>1. /\ obs' = [obs EXCEPT !.tree[p] = file[p]] /\ left' = left \ {p}
        /\ UNCHANGED <<at, pass, attempt, first, bodyErr, verdict>>
    BY <1>3 DEF ReadFile
  <2>2. p \in left
    BY <1>1, NextReadListed DEF ExportInv, Shape
  <2> HIDE DEF p
  <2>3. p \in IntentPath /\ obs \in Snapshot /\ file[p] \in Content /\ left' \in SUBSET IntentPath
    BY <2>1, <2>2 DEF ExportInv, Shape, StoreInv, Inv, TypeOK, Path
  <2>4. /\ obs'.head = obs.head /\ obs'.barrier = obs.barrier /\ obs' \in Snapshot
        /\ obs'.tree = [obs.tree EXCEPT ![p] = file[p]]
    BY <2>1, <2>3 DEF Snapshot
  <2>5. HeadSeen'
    BY <1>1, <2>1, <2>4, StillStore DEF ExportInv, Probed, HeadSeen
  <2>6. Probing'
    <3>1. TreeSoFar => TreeSoFar'
      BY <1>1, <2>1, <2>3, <2>4, StillStore DEF TreeSoFar, Covered, Snapshot
    <3> QED BY <1>1, <2>1, <2>4, <3>1, StillStore DEF ExportInv, Probed, Probing
  <2> QED BY <1>1, <2>1, <2>3, <2>4, <2>5, <2>6, ProbeGoesOn DEF AfterSlots
<1> QED BY <1>2, <1>3

\* The first probe is complete; nothing is listed yet.
LEMMA ExportEndFirstProbe ==
  ASSUME ExportInv, UNCHANGED <<export, moment>>, point = "probe", EndFirstProbe
  PROVE  ExportInv'
<1>1. /\ at = "read" /\ left = {} /\ pass = "first"
      /\ first' = obs /\ pass' = "body" /\ at' = "root" /\ obs' = Blank
      /\ UNCHANGED <<vars, attempt, left, bodyErr, verdict>>
  BY DEF EndFirstProbe, TreeRead, Goto
<1>2. UNCHANGED <<point, before, after, copied, refusal, outcome, moment>>
  BY DEF export
<1>3. before = <<>> /\ after = <<>> /\ refusal = "none" /\ obs \in Snapshot
  BY <1>1 DEF ExportInv, Shape
<1>4. Len(before) = 0
  BY <1>3
<1>5. Shape'
  BY <1>1, <1>2, <1>3, <1>4, BlankTyped DEF ExportInv, Shape, Body, Digesting
<1>6. Pinned'
  <2>1. obs.head \in 1..head
    BY <1>1 DEF ExportInv, Probed, HeadSeen
  <2>2. CASE Overtaken(obs.head)
    BY <1>1, <2>1, <2>2, StillStore DEF Pinned
  <2>3. CASE ~Overtaken(obs.head)
    <3>1. head = obs.head /\ obs.barrier = file["barrier"] /\ TreeSoFar
      BY <1>1, <2>3 DEF ExportInv, Probed, Probing, AfterSlots
    <3>2. obs.tree = IntentTree
      BY <1>1, <1>3, <3>1, WholeTree
    <3> QED BY <1>1, <2>1, <3>1, <3>2, StillStore DEF Pinned
  <2> QED BY <2>2, <2>3
<1>7. HeadSeen' /\ Probing'
  BY <1>1 DEF HeadSeen, Probing
<1>8. Surveyed' /\ Backed'
  BY <1>1, <1>2, <1>3, <1>4 DEF Surveyed, Growing, Remembered, Copying, Miscounted, Body, Digesting, Backed
<1>9. Ended'
  <2>1. outcome = "none" /\ verdict = "none"
    BY <1>1 DEF ExportInv, Ended, Shape
  <2> QED BY <1>1, <1>2, <2>1 DEF Ended
<1> QED BY <1>5, <1>6, <1>7, <1>8, <1>9 DEF ExportInv, Probed

\* The comparison after the body: the refusal, if any, is a fact.
LEMMA ExportEndRead ==
  ASSUME ExportInv, UNCHANGED <<export, moment>>, point = "probe", EndRead
  PROVE  ExportInv'
<1>1. at = "read" /\ pass = "again" /\ UNCHANGED vars
  BY DEF EndRead, TreeRead
<1>2. CASE Same /\ Return(IF bodyErr = "none" THEN "OK" ELSE bodyErr)
  <2>1. obs.head = first.head /\ bodyErr = refusal
    BY <1>1, <1>2 DEF Same, ExportInv, Shape
  <2>2. refusal # "RECEIPT_COUNT" /\ (refusal = "none" => Coherent)
    BY <1>1, <2>1 DEF ExportInv, Backed, AfterSlots
  <2>3. refusal \notin {"OK", "UNVERIFIED", "DELIVERED", "PREFIX"}
    BY DEF ExportInv, Shape
  <2>4. CASE bodyErr = "none"
    BY <1>1, <1>2, <2>1, <2>2, <2>4, ProbeReturns
  <2>5. CASE bodyErr # "none"
    BY <1>1, <1>2, <2>1, <2>2, <2>3, <2>5, ProbeReturns
  <2> QED BY <2>4, <2>5
<1>3. CASE Return("SNAPSHOT_MOVED")
  BY <1>1, <1>3, ProbeReturns
<1>4. ~(attempt < Retries)
  BY AttemptsAssumption DEF ExportInv, Shape
<1> QED BY <1>2, <1>3, <1>4 DEF EndRead

LEMMA ExportProbe ==
  ASSUME StoreInv, ExportInv, MaxEdits = 0, Probe
  PROVE  ExportInv'
<1>1. point = "probe" /\ pass # "body" /\ UNCHANGED <<export, moment>>
  BY DEF Probe
<1>2. {"policy", "queue"} \in SUBSET IntentPath /\ Releases \in SUBSET IntentPath /\ Tickets \in SUBSET IntentPath
  BY DEF IntentPath, Records
<1> QED
  BY <1>1, <1>2, ExportReadHead, ExportCheckSecondSlot, ExportCheckNextSlot, ExportReadBarrier,
     ExportListDirectory, ExportReadFile, ExportEndFirstProbe, ExportEndRead DEF Probe

-----------------------------------------------------------------------------
(* The listing before the body. *)

\* One more directory is listed; with the last of them the moment is chosen.
LEMMA ExportListBefore ==
  ASSUME StoreInv, ExportInv, ListBefore
  PROVE  ExportInv'
<1>1. /\ point = "probe" /\ pass = "body" /\ before' = Listing(before)
      /\ UNCHANGED <<vars, at, pass, attempt, obs, first, bodyErr, verdict, tries, after, copied, refusal, outcome>>
  BY DEF ListBefore
<1>2. /\ before \in Seq(Row) /\ Len(before) < 7 /\ after = <<>> /\ refusal = "none" /\ left = {}
      /\ obs = Blank /\ at = "root" /\ verdict = "none" /\ outcome = "none"
  BY <1>1 DEF ExportInv, Shape, Ended
<1>3. PICK n \in 0..6 : n = Len(before)
  <2>1. Len(before) \in Nat
    BY <1>2, LenProperties
  <2>2. PICK m \in Nat : m = Len(before)
    BY Zenon, <2>1
  <2>3. m < 7
    BY Zenon, <1>2, <2>2
  <2>4. m \in 0..6
    BY <2>3
  <2> QED BY Zenon, <2>2, <2>4
<1>4. /\ before' \in Seq(Row) /\ Len(before') = n + 1
      /\ \A k \in 1..n : before'[k] = before[k]
      /\ n = 0 => before'[1] = [head |-> head, barrier |-> file["barrier"]]
      /\ n = 1 => before'[2] = evidence
      /\ n = 2 => before'[3] = Linked
      /\ n = 3 => before'[4] = Filed
  BY <1>1, <1>2, <1>3, ListingAdds DEF StoreInv, Inv
<1>15. Len(before') <= 7 /\ (n = 6 => Len(before') = 7) /\ (n # 6 => Len(before') < 7 /\ Len(before') # 7)
  <2>1. PICK m : m = n + 1
    OBVIOUS
  <2>2. m <= 7 /\ (n = 6 => m = 7) /\ (n # 6 => m < 7 /\ m # 7)
    BY <2>1
  <2> QED BY Zenon, <1>4, <2>1, <2>2
<1>5. Whole(before') <=> n = 6
  <2>1. Len(Directories) = 7
    BY DEF Directories
  <2> QED BY <1>4, <2>1 DEF Whole
<1>6. IF n = 6 THEN point' = "capture" /\ left' \in SUBSET IntentPath /\ moment' = Moment
      ELSE UNCHANGED <<point, left, moment>>
  BY <1>5 DEF ListBefore
<1>7. Len(after) = 0
  BY <1>2
<1>8. Shape'
  BY <1>1, <1>2, <1>4, <1>6, <1>7, <1>15 DEF ExportInv, Shape, Body, Digesting
<1>9. Probed'
  BY <1>1, StillStore DEF ExportInv, Probed, HeadSeen, Probing, Pinned
<1>10. evidence' = evidence /\ head' = head /\ file' = file /\ receipts' = receipts
       /\ Linked' = Linked /\ Filed' = Filed /\ IntentTree' = IntentTree /\ Standing' = Standing
  BY <1>1, StillStore, StillSurvey DEF vars, disk
<1>11. Growing'
  <2>1. n >= 1 => (Standing => before[1] = [head |-> head, barrier |-> file["barrier"]])
    BY <1>1, <1>3 DEF ExportInv, Surveyed, Growing, Surveying
  <2>2. n >= 2 => before[2] \subseteq evidence
    BY <1>1, <1>3 DEF ExportInv, Surveyed, Growing, Surveying
  <2>3. n >= 3 => (Standing => before[3] = Linked)
    BY <1>1, <1>3 DEF ExportInv, Surveyed, Growing, Surveying
  <2>4. n >= 4 => (Standing => before[4] = Filed)
    BY <1>1, <1>3 DEF ExportInv, Surveyed, Growing, Surveying
  <2>5. Standing => before'[1] = [head |-> head, barrier |-> file["barrier"]]
    BY <1>4, <2>1
  <2>6. n + 1 >= 2 => before'[2] \subseteq evidence
    BY <1>4, <2>2
  <2>7. n + 1 >= 3 /\ Standing => before'[3] = Linked
    BY <1>4, <2>3
  <2>8. n + 1 >= 4 /\ Standing => before'[4] = Filed
    BY <1>4, <2>4
  <2> QED BY <1>4, <1>10, <2>5, <2>6, <2>7, <2>8 DEF Growing
<1>12. Remembered'
  <2>1. CASE n # 6
    BY <1>15, <2>1 DEF Remembered
  <2>2. CASE n = 6
    <3>1. moment' = Moment /\ before'[2] = before[2]
      BY <1>4, <1>6, <2>2
    <3>2. before[2] \subseteq evidence
      BY <1>1, <1>3, <2>2 DEF ExportInv, Surveyed, Growing, Surveying
    <3>3. /\ moment'.evidence = evidence /\ moment'.receipts = Linked /\ moment'.requests = Filed
          /\ moment'.head = head /\ moment'.barrier = file["barrier"] /\ moment'.tree = IntentTree
          /\ moment'.pending = Pending
      BY <3>1 DEF Moment
    <3>4. \A k \in Linked : receipts[k].blobs \subseteq evidence
      BY DEF StoreInv, Inv, Journal, Chain, ReceiptsOK, Linked
    <3>5. Standing => Pending = FALSE
      <4>1. PICK h \in 1..head : h = first.head
        BY <1>1 DEF ExportInv, Probed, Pinned
      <4>2. Standing => ~Pending
        BY <4>1, HeadStands DEF Standing, StoreInv
      <4> QED BY <4>2
    <3> QED BY <1>1, <1>7, <1>10, <3>1, <3>2, <3>3, <3>4, <3>5 DEF Remembered
  <2> QED BY <2>1, <2>2
<1>13. Copying' /\ Miscounted'
  BY <1>1, <1>2, <1>6 DEF Copying, Miscounted, Body, Digesting
<1>14. Backed' /\ Ended'
  BY <1>1, <1>2, <1>6 DEF Backed, Ended
<1> QED BY <1>8, <1>9, <1>11, <1>12, <1>13, <1>14 DEF ExportInv, Surveyed

-----------------------------------------------------------------------------
(* The body. *)

\* The body reaches another of its points; only what it copied changes.
LEMMA BodyGoesOn ==
  ASSUME ExportInv, UNCHANGED <<vars, at, pass, attempt, first, bodyErr, verdict>>,
         UNCHANGED <<tries, before, outcome, moment>>,
         point \in Body, point' \in Body, obs' \in Snapshot, left' \in SUBSET IntentPath,
         after' \in Seq(Row), Len(after') < 7, Len(after') >= 2 => moment.evidence \subseteq after'[2],
         refusal' \in {"none", "SNAPSHOT_MOVED", "MALFORMED", "RECEIPT_COUNT"},
         point' # "after" => refusal' = "none" /\ after' = <<>>,
         copied' = [head |-> copied'.head, barrier |-> copied'.barrier, tree |-> copied'.tree],
         Copying', Miscounted'
  PROVE  ExportInv'
<1>1. pass = "body" /\ at = "root" /\ Len(before) = 7 /\ outcome = "none" /\ verdict = "none" /\ point # "idle"
  BY DEF ExportInv, Shape, Ended, Body, Digesting
<1>2. Len(after') <= 7
  <2>1. Len(after') \in Nat
    BY LenProperties
  <2>2. PICK m \in Nat : m = Len(after')
    BY Zenon, <2>1
  <2>3. m < 7
    BY Zenon, <2>2
  <2>4. m <= 7
    BY <2>3
  <2> QED BY Zenon, <2>2, <2>4
<1>3. Shape'
  BY <1>1, <1>2 DEF ExportInv, Shape, Body, Digesting
<1>4. Probed'
  BY <1>1, StillStore DEF ExportInv, Probed, HeadSeen, Probing, Pinned
<1>5. evidence' = evidence /\ head' = head /\ file' = file /\ receipts' = receipts
  BY DEF vars, disk
<1>6. Growing'
  BY <1>1, <1>5, StillSurvey DEF ExportInv, Surveyed, Growing, Surveying
<1>7. Remembered'
  BY <1>1, <1>5, StillStore, StillSurvey DEF ExportInv, Surveyed, Remembered, Surveying
<1>8. Backed' /\ Ended'
  BY <1>1 DEF Backed, Ended, Body, Digesting
<1> QED BY <1>3, <1>4, <1>6, <1>7, <1>8 DEF ExportInv, Surveyed

\* The body is over; its refusal waits for the second probe.
LEMMA BodyLeaves ==
  ASSUME ExportInv, UNCHANGED <<vars, tries, before, copied, outcome, moment>>, LeaveBody,
         point \in Body, after' \in Seq(Row), Len(after') <= 7,
         Len(after') >= 2 => moment.evidence \subseteq after'[2],
         refusal' \in {"none", "SNAPSHOT_MOVED", "MALFORMED", "RECEIPT_COUNT"},
         refusal' = "none" => point = "after" /\ refusal = "none" /\ after' = before,
         refusal' = "RECEIPT_COUNT" => refusal = "RECEIPT_COUNT"
  PROVE  ExportInv'
<1>1. /\ point' = "probe" /\ bodyErr' = refusal' /\ pass' = "again" /\ at' = "head"
      /\ obs' = Blank /\ left' = {} /\ UNCHANGED <<attempt, first, verdict>>
  BY DEF LeaveBody, EndBody, Goto
<1>2. pass = "body" /\ Len(before) = 7 /\ outcome = "none" /\ verdict = "none" /\ point # "idle"
  BY DEF ExportInv, Shape, Ended, Body, Digesting
<1>3. Shape'
  BY <1>1, <1>2, BlankTyped DEF ExportInv, Shape, Body, Digesting
<1>4. Probed'
  BY <1>1, <1>2, StillStore DEF ExportInv, Probed, HeadSeen, Probing, Pinned
<1>5. evidence' = evidence /\ head' = head /\ file' = file /\ receipts' = receipts
  BY DEF vars, disk
<1>6. Growing'
  BY <1>1, <1>2, <1>5, StillSurvey DEF ExportInv, Surveyed, Growing, Surveying
<1>7. Remembered'
  BY <1>1, <1>2, <1>5, StillStore, StillSurvey DEF ExportInv, Surveyed, Remembered, Surveying
<1>8. Copying' /\ Miscounted'
  BY <1>1, <1>2 DEF ExportInv, Surveyed, Copying, Miscounted, Surveying, Body, Digesting
<1>9. Backed' /\ Ended'
  BY <1>1, <1>2 DEF Backed, Ended, AfterSlots
<1> QED BY <1>3, <1>4, <1>6, <1>7, <1>8, <1>9 DEF ExportInv, Surveyed

\* An intent file is captured, or has been replaced since it was listed.
LEMMA ExportCaptureFile ==
  ASSUME StoreInv, ExportInv, CaptureFile
  PROVE  ExportInv'
<1>1. /\ point = "capture" /\ left # {}
      /\ UNCHANGED <<vars, tries, before, after, copied, outcome, moment>>
  BY DEF CaptureFile
<1>2. /\ pass = "body" /\ refusal = "none" /\ after = <<>> /\ Len(after) = 0 /\ point \in Body
      /\ copied = [head |-> copied.head, barrier |-> copied.barrier, tree |-> copied.tree]
  BY <1>1 DEF ExportInv, Shape, Body, Digesting
<1>3. after \in Seq(Row) /\ Len(after) <= 7 /\ Len(after) < 7 /\ ~(Len(after) >= 2)
  BY <1>1, <1>2 DEF ExportInv, Shape
<1>4. CASE refusal' = "SNAPSHOT_MOVED" /\ LeaveBody
  BY <1>1, <1>2, <1>3, <1>4, BodyLeaves
<1>5. CASE /\ obs' = [obs EXCEPT !.tree[NextRead] = file[NextRead]] /\ left' = left \ {NextRead}
           /\ UNCHANGED <<at, pass, attempt, first, bodyErr, verdict, point, refusal>>
  <2> DEFINE p == NextRead
  <2>1. p \in left
    BY <1>1, NextReadListed DEF ExportInv, Shape
  <2>2. obs' = [obs EXCEPT !.tree[p] = file[p]] /\ left' = left \ {p}
    BY <1>5
  <2> HIDE DEF p
  <2>3. p \in IntentPath /\ obs \in Snapshot /\ file[p] \in Content /\ left' \in SUBSET IntentPath
    BY <2>1, <2>2 DEF ExportInv, Shape, StoreInv, Inv, TypeOK, Path
  <2>4. obs' \in Snapshot
    BY <2>2, <2>3 DEF Snapshot
  <2>5. Copying' /\ Miscounted'
    BY <1>1, <1>2, <1>5 DEF Copying, Miscounted, Digesting, Body, Surveying
  <2> QED BY <1>1, <1>2, <1>3, <1>5, <2>3, <2>4, <2>5, BodyGoesOn
<1> QED BY <1>4, <1>5 DEF CaptureFile

\* A step of the body proper: it refuses, or goes on with what it copied.
LEMMA ExportInBody ==
  ASSUME ExportInv, NEW here, InBody(here), here \in Body \ {"after"}, point' \in Body,
         refusal' \in {"none", "SNAPSHOT_MOVED", "MALFORMED", "RECEIPT_COUNT"},
         point' # "after" => refusal' = "none",
         copied' = [head |-> copied'.head, barrier |-> copied'.barrier, tree |-> copied'.tree],
         Copying', Miscounted'
  PROVE  ExportInv'
<1>1. point = here /\ UNCHANGED <<vars, reader, instants, tries, before, after, outcome, moment>>
  BY DEF InBody, systemVars
<1>2. after = <<>> /\ Len(after) = 0 /\ point \in Body
  BY <1>1 DEF ExportInv, Shape
<1>3. after \in Seq(Row) /\ Len(after) < 7 /\ ~(Len(after) >= 2) /\ obs \in Snapshot /\ left \in SUBSET IntentPath
  BY <1>1, <1>2 DEF ExportInv, Shape
<1> QED BY <1>1, <1>2, <1>3, BodyGoesOn DEF reader

\* What a step of the body may write over what was copied.
LEMMA CopiedFields ==
  ASSUME Shape, NEW x
  PROVE  /\ [copied EXCEPT !.tree = x] = [head |-> copied.head, barrier |-> copied.barrier, tree |-> x]
         /\ [copied EXCEPT !.barrier = x] = [head |-> copied.head, barrier |-> x, tree |-> copied.tree]
         /\ [copied EXCEPT !.head = x] = [head |-> x, barrier |-> copied.barrier, tree |-> copied.tree]
BY DEF Shape

\* The captured tree is the probed one, or the body refuses.
LEMMA ExportCheckCapture ==
  ASSUME ExportInv, CheckCapture
  PROVE  ExportInv'
<1>1. InBody("capture") /\ point = "capture" /\ UNCHANGED <<first, before, pass>>
  BY DEF CheckCapture, InBody, systemVars, reader
<1>2. CASE Refuse("SNAPSHOT_MOVED") \/ Refuse("MALFORMED")
  <2>1. /\ refusal' \in {"SNAPSHOT_MOVED", "MALFORMED"} /\ point' = "after"
        /\ copied' = [head |-> copied'.head, barrier |-> copied'.barrier, tree |-> copied'.tree]
    BY <1>2 DEF Refuse, ExportInv, Shape
  <2>2. Copying' /\ Miscounted'
    BY <2>1 DEF Copying, Miscounted
  <2> QED BY <1>1, <2>1, <2>2, ExportInBody DEF Body, Digesting
<1>3. CASE obs.tree = first.tree /\ Goes("digest barrier") /\ copied' = [copied EXCEPT !.tree = obs.tree]
  <2>1. /\ refusal' = "none" /\ point' = "digest barrier"
        /\ copied' = [head |-> copied'.head, barrier |-> copied'.barrier, tree |-> copied'.tree]
        /\ copied'.tree = first.tree
    BY <1>1, <1>3, CopiedFields DEF Goes, ExportInv, Shape, Body, Digesting
  <2>2. Copying' /\ Miscounted'
    BY <1>1, <2>1 DEF Copying, Miscounted, Body, Digesting, ExportInv, Shape
  <2> QED BY <1>1, <2>1, <2>2, ExportInBody DEF Body, Digesting
<1>4. \/ Refuse("SNAPSHOT_MOVED") \/ Refuse("MALFORMED")
      \/ obs.tree = first.tree /\ Goes("digest barrier") /\ copied' = [copied EXCEPT !.tree = obs.tree]
  <2>1. CASE obs.tree # first.tree
    BY <2>1 DEF CheckCapture
  <2>2. CASE obs.tree = first.tree /\ before[5] # 0
    BY <2>2 DEF CheckCapture
  <2>3. CASE obs.tree = first.tree /\ ~(before[5] # 0)
    BY <2>3 DEF CheckCapture
  <2> QED BY <2>1, <2>2, <2>3
<1> QED BY <1>2, <1>3, <1>4

\* The barrier is read, the first time or the second.
LEMMA ExportReadBarrierFile ==
  ASSUME ExportInv, NEW here, NEW next, ReadBarrierFile(here, next),
         \/ here = "digest barrier" /\ next = "digest head"
         \/ here = "copy barrier" /\ next = "copy head"
  PROVE  ExportInv'
<1>1. /\ InBody(here) /\ point = here /\ UNCHANGED <<first, before, pass>> /\ here \in Body \ {"after"}
  BY DEF ReadBarrierFile, InBody, systemVars, reader, Body, Digesting
<1>2. CASE Refuse("SNAPSHOT_MOVED")
  <2>1. /\ refusal' = "SNAPSHOT_MOVED" /\ point' = "after"
        /\ copied' = [head |-> copied'.head, barrier |-> copied'.barrier, tree |-> copied'.tree]
    BY <1>2 DEF Refuse, ExportInv, Shape
  <2>2. Copying' /\ Miscounted'
    BY <2>1 DEF Copying, Miscounted
  <2> QED BY <1>1, <2>1, <2>2, ExportInBody DEF Body, Digesting
<1>3. CASE Goes(next) /\ copied' = [copied EXCEPT !.barrier = before[1].barrier]
  <2>1. /\ refusal' = "none" /\ refusal = "none" /\ point' = next /\ pass = "body"
        /\ copied' = [head |-> copied'.head, barrier |-> copied'.barrier, tree |-> copied'.tree]
        /\ copied'.tree = copied.tree /\ copied'.head = copied.head /\ copied'.barrier = before[1].barrier
    BY <1>1, <1>3, CopiedFields DEF Goes, ExportInv, Shape, Body, Digesting
  <2>2. Copying' /\ Miscounted'
    BY <1>1, <2>1 DEF Copying, Miscounted, Body, Digesting, ExportInv, Surveyed, Surveying
  <2> QED BY <1>1, <2>1, <2>2, ExportInBody DEF Body, Digesting
<1> QED BY <1>2, <1>3 DEF ReadBarrierFile

\* The head is read, the first time or the second.
LEMMA ExportReadHeadFile ==
  ASSUME ExportInv, NEW here, NEW next, ReadHeadFile(here, next),
         \/ here = "digest head" /\ next = "count"
         \/ here = "copy head" /\ next = "after"
  PROVE  ExportInv'
<1>1. /\ InBody(here) /\ point = here /\ UNCHANGED <<first, before, pass>> /\ here \in Body \ {"after"}
  BY DEF ReadHeadFile, InBody, systemVars, reader, Body, Digesting
<1>2. CASE Refuse("SNAPSHOT_MOVED")
  <2>1. /\ refusal' = "SNAPSHOT_MOVED" /\ point' = "after"
        /\ copied' = [head |-> copied'.head, barrier |-> copied'.barrier, tree |-> copied'.tree]
    BY <1>2 DEF Refuse, ExportInv, Shape
  <2>2. Copying' /\ Miscounted'
    BY <2>1 DEF Copying, Miscounted
  <2> QED BY <1>1, <2>1, <2>2, ExportInBody DEF Body, Digesting
<1>3. CASE head = before[1].head /\ Goes(next) /\ copied' = [copied EXCEPT !.head = head]
  <2>1. /\ refusal' = "none" /\ refusal = "none" /\ point' = next /\ pass = "body"
        /\ copied' = [head |-> copied'.head, barrier |-> copied'.barrier, tree |-> copied'.tree]
        /\ copied'.tree = copied.tree /\ copied'.head = before[1].head /\ copied'.barrier = copied.barrier
    BY <1>1, <1>3, CopiedFields DEF Goes, ExportInv, Shape, Body, Digesting
  <2>2. Copying' /\ Miscounted'
    BY <1>1, <2>1 DEF Copying, Miscounted, Body, Digesting, ExportInv, Surveyed, Surveying
  <2> QED BY <1>1, <2>1, <2>2, ExportInBody DEF Body, Digesting
<1> QED BY <1>2, <1>3 DEF ReadHeadFile

\* The receipts are counted against the probed head.
LEMMA ExportCountReceipts ==
  ASSUME ExportInv, CountReceipts
  PROVE  ExportInv'
<1>1. /\ InBody("count") /\ point = "count" /\ UNCHANGED <<first, before, pass, copied>> /\ pass = "body"
      /\ refusal = "none" /\ "count" \in Body \ {"after"}
      /\ copied = [head |-> copied.head, barrier |-> copied.barrier, tree |-> copied.tree]
  BY DEF CountReceipts, InBody, systemVars, reader, Body, Digesting, ExportInv, Shape, Refuse
<1>2. CASE before[3] = 1..first.head /\ Goes("copy barrier")
  <2>1. Copying' /\ Miscounted'
    BY <1>1, <1>2 DEF Goes, Copying, Miscounted, Body, Digesting, ExportInv, Surveyed, Surveying
  <2> QED BY <1>1, <1>2, <2>1, ExportInBody DEF Goes, Body, Digesting
<1>3. CASE before[3] # 1..first.head /\ Refuse("RECEIPT_COUNT")
  <2>1. Copying' /\ Miscounted'
    BY <1>1, <1>3 DEF Refuse, Copying, Miscounted
  <2> QED BY <1>1, <1>3, <2>1, ExportInBody DEF Refuse, Body, Digesting
<1> QED BY <1>2, <1>3 DEF CountReceipts

-----------------------------------------------------------------------------
(* The listing after the body, and the answers. *)

\* One more directory is listed; with the last of them the body is over.
LEMMA ExportListAfter ==
  ASSUME StoreInv, ExportInv, ListAfter
  PROVE  ExportInv'
<1>1. /\ point = "after" /\ after' = Listing(after)
      /\ UNCHANGED <<vars, instants, tries, before, copied, outcome, moment>>
  BY DEF ListAfter
<1>2. /\ pass = "body" /\ after \in Seq(Row) /\ Len(after) < 7 /\ point \in Body /\ Len(before) = 7
      /\ obs \in Snapshot /\ left \in SUBSET IntentPath
      /\ copied = [head |-> copied.head, barrier |-> copied.barrier, tree |-> copied.tree]
      /\ refusal \in {"none", "SNAPSHOT_MOVED", "MALFORMED", "RECEIPT_COUNT"}
  BY <1>1 DEF ExportInv, Shape, Body
<1>3. PICK n \in 0..6 : n = Len(after)
  <2>1. Len(after) \in Nat
    BY <1>2, LenProperties
  <2>2. PICK m \in Nat : m = Len(after)
    BY Zenon, <2>1
  <2>3. m < 7
    BY Zenon, <1>2, <2>2
  <2>4. m \in 0..6
    BY <2>3
  <2> QED BY Zenon, <2>2, <2>4
<1>4. /\ after' \in Seq(Row) /\ Len(after') = n + 1
      /\ \A k \in 1..n : after'[k] = after[k]
      /\ n = 1 => after'[2] = evidence
  BY <1>1, <1>2, <1>3, ListingAdds DEF StoreInv, Inv
<1>5. PICK m \in 1..7 : m = Len(after') /\ m = n + 1
  BY <1>4
<1>6. Whole(after') <=> m = 7
  <2>1. Len(Directories) = 7
    BY DEF Directories
  <2> QED BY Zenon, <1>5, <2>1 DEF Whole
<1>7. Len(after') <= 7
  <2>1. m <= 7
    BY <1>5
  <2> QED BY Zenon, <1>5, <2>1
<1>8. Len(after') >= 2 => moment.evidence \subseteq after'[2]
  <2>1. moment.evidence \subseteq evidence /\ (n >= 2 => moment.evidence \subseteq after[2])
    BY <1>2, <1>3 DEF ExportInv, Surveyed, Remembered, Surveying
  <2>2. m >= 2 => n = 1 \/ n >= 2
    BY <1>5
  <2>3. n >= 2 => after'[2] = after[2]
    BY <1>4
  <2> QED BY Zenon, <1>4, <1>5, <2>1, <2>2, <2>3
<1>9. CASE m = 7
  <2>1. refusal' = (IF after' = before THEN refusal ELSE "SNAPSHOT_MOVED") /\ LeaveBody
    BY <1>6, <1>9 DEF ListAfter
  <2> QED BY <1>1, <1>2, <1>4, <1>7, <1>8, <2>1, BodyLeaves
<1>10. CASE m # 7
  <2>1. UNCHANGED <<reader, point, refusal>>
    BY <1>6, <1>10 DEF ListAfter
  <2>2. Len(after') < 7
    <3>1. m < 7
      BY <1>10
    <3> QED BY Zenon, <1>5, <3>1
  <2>3. Copying' /\ Miscounted'
    BY <1>1, <1>2, <2>1 DEF ExportInv, Surveyed, Copying, Miscounted, Surveying, reader
  <2> QED BY <1>1, <1>2, <1>4, <1>8, <2>1, <2>2, <2>3, BodyGoesOn DEF reader
<1> QED BY <1>9, <1>10

\* An attempt begins from nothing.
LEMMA ExportBeginAttempt ==
  ASSUME ExportInv, BeginAttempt, at = "idle", outcome = "none"
  PROVE  ExportInv'
<1>1. /\ point' = "probe" /\ at' = "head" /\ verdict' = "none" /\ first' = Blank
      /\ before' = <<>> /\ after' = <<>> /\ copied' = Blank /\ refusal' = "none"
      /\ UNCHANGED <<vars, pass, attempt, obs, left, outcome>>
  BY DEF BeginAttempt, Goto
<1>2. pass = "first" /\ obs = Blank /\ left = {}
  BY DEF ExportInv, Shape
<1>3. /\ before' \in Seq(Row) /\ after' \in Seq(Row)
      /\ Len(before') <= 7 /\ Len(after') <= 7
  <2>1. <<>> \in Seq(Row) /\ Len(<<>>) <= 7
    OBVIOUS
  <2> QED BY <1>1, <2>1
<1>4. copied' = [head |-> copied'.head, barrier |-> copied'.barrier, tree |-> copied'.tree]
  BY <1>1 DEF Blank
<1>5. Shape'
  BY <1>1, <1>2, <1>3, <1>4, BlankTyped DEF ExportInv, Shape, Body, Digesting
<1>6. Probed' /\ Surveyed' /\ Backed'
  BY <1>1, <1>2 DEF Probed, HeadSeen, Probing, Pinned, AfterSlots, Surveyed, Growing, Remembered,
     Copying, Miscounted, Surveying, Backed
<1>7. Ended'
  BY <1>1 DEF Ended
<1> QED BY <1>5, <1>6, <1>7 DEF ExportInv

\* Between attempts: the export is told how the last one ended.
LEMMA ExportSettles ==
  ASSUME ExportInv, UNCHANGED <<systemVars, tries, before, after, copied, refusal, moment>>, at = "idle",
         \/ point' = "verify" /\ verdict = "OK" /\ UNCHANGED outcome /\ outcome = "none"
         \/ /\ point' = "idle" /\ outcome' \notin {"RECEIPT_COUNT", "UNVERIFIED"}
            /\ outcome' \in {"DELIVERED", "PREFIX"} => Coherent
  PROVE  ExportInv'
<1>1. UNCHANGED <<vars, at, pass, attempt, obs, left, first, bodyErr, verdict>> /\ pass = "first"
  BY DEF systemVars, reader, ExportInv, Shape
<1>2. Shape'
  BY <1>1 DEF ExportInv, Shape, Body, Digesting
<1>3. Probed' /\ Surveyed' /\ Backed'
  BY <1>1 DEF Probed, HeadSeen, Probing, Pinned, AfterSlots, Surveyed, Growing, Remembered,
     Copying, Miscounted, Surveying, Backed
<1>4. Coherent => Coherent'
  BY <1>1, StillSurvey
<1>5. Ended'
  BY <1>1, <1>4 DEF ExportInv, Ended
<1> QED BY <1>2, <1>3, <1>5 DEF ExportInv

\* An attempt has ended: again, on to the verification, or an answer.
LEMMA ExportEndAttempt ==
  ASSUME ExportInv, EndAttempt
  PROVE  ExportInv'
<1>1. point = "probe" /\ at = "idle"
  BY DEF EndAttempt
<1>2. outcome = "none" /\ verdict # "RECEIPT_COUNT"
  BY <1>1 DEF ExportInv, Ended
<1>3. CASE verdict = "SNAPSHOT_MOVED" /\ tries < Attempts
  BY <1>1, <1>2, <1>3, ExportBeginAttempt DEF EndAttempt
<1>4. CASE verdict = "OK"
  <2>1. /\ point' = "verify"
        /\ UNCHANGED <<systemVars, tries, before, after, copied, refusal, outcome, moment>>
    BY <1>4 DEF EndAttempt
  <2> QED BY <1>1, <1>2, <1>4, <2>1, ExportSettles
<1>5. CASE ~(verdict = "SNAPSHOT_MOVED" /\ tries < Attempts) /\ verdict # "OK"
  <2>1. Report(verdict)
    BY <1>5 DEF EndAttempt
  <2>2. verdict \notin {"UNVERIFIED", "DELIVERED", "PREFIX"}
    BY DEF ExportInv, Ended
  <2> QED BY <1>1, <1>2, <2>1, <2>2, ExportSettles DEF Report
<1> QED BY <1>3, <1>4, <1>5

\* The staged stream of a coherent copy verifies.
LEMMA ExportVerify ==
  ASSUME ExportInv, VerifyAndDeliver
  PROVE  ExportInv'
<1>1. point = "verify"
  BY DEF VerifyAndDeliver
<1>2. Coherent /\ at = "idle"
  BY <1>1 DEF ExportInv, Ended, Shape, Body, Digesting
<1>3. copied.tree["queue"] # NoFile /\ copied.tree["queue"] \notin EditBytes
  BY <1>2, ConstantsAssumption DEF Coherent
<1>4. Verified
  BY <1>2, <1>3 DEF Coherent, Verified
<1>5. \E code \in {"DELIVERED", "PREFIX"} : Report(code)
  BY <1>3, <1>4 DEF VerifyAndDeliver
<1> QED BY <1>2, <1>5, ExportSettles DEF Report

-----------------------------------------------------------------------------
(* The export and the writer together. *)

LEMMA ExportInitInv ==
  ASSUME ExportInit
  PROVE  StoreInv /\ ExportInv
<1>1. Init
  BY DEF ExportInit, SystemInit
<1>2. Inv /\ AbstractInv /\ ContentInv
  BY <1>1, InitInv, InitAbstract, InitContent
<1>3. \A n \in 1..MaxSeq : ~Present(n)
  BY <1>1 DEF Init, Present
<1>4. QueueWritten
  BY <1>1, <1>3, ConstantsAssumption DEF Init, QueueWritten, BeforeLink
<1>5. /\ at = "idle" /\ pass = "first" /\ attempt = 0 /\ obs = Blank /\ left = {} /\ first = Blank
      /\ verdict = "none" /\ point = "idle" /\ before = <<>> /\ after = <<>> /\ copied = Blank
      /\ refusal = "none" /\ outcome = "none"
  BY DEF ExportInit, SystemInit, ReaderInit
<1>6. /\ before \in Seq(Row) /\ after \in Seq(Row)
      /\ Len(before) <= 7 /\ Len(after) <= 7
  <2>1. <<>> \in Seq(Row) /\ Len(<<>>) <= 7
    OBVIOUS
  <2> QED BY <1>5, <2>1
<1>7. copied = [head |-> copied.head, barrier |-> copied.barrier, tree |-> copied.tree]
  BY <1>5 DEF Blank
<1>8. Shape
  BY <1>5, <1>6, <1>7, BlankTyped DEF Shape, Body, Digesting
<1>9. Probed /\ Surveyed /\ Backed /\ Ended
  BY <1>5 DEF Probed, HeadSeen, Probing, Pinned, AfterSlots, Surveyed, Growing, Remembered,
     Copying, Miscounted, Surveying, Backed, Ended
<1> QED BY <1>2, <1>4, <1>8, <1>9 DEF StoreInv, ExportInv

\* Every step of the system is a step of the store or leaves the store alone.
LEMMA ExportsWriteNothing == [ExportNext]_exportVars => [Next]_vars
<1> SUFFICES ASSUME [ExportNext]_exportVars PROVE [Next]_vars
  OBVIOUS
<1>1. CASE ExportStoreStep
  BY <1>1 DEF ExportStoreStep
<1>2. CASE UNCHANGED exportVars
  BY <1>2 DEF exportVars, systemVars
<1>3. CASE Probe
  BY <1>3 DEF Probe, ReadHead, CheckSecondSlot, CheckNextSlot, ReadBarrier, ListDirectory,
     ReadFile, EndFirstProbe, EndRead
<1>4. CASE ExportStep /\ ~Probe
  BY <1>4 DEF ExportStep, BeginExport, BeginAttempt, ListBefore, CaptureFile, CheckCapture,
     ReadBarrierFile, ReadHeadFile, CountReceipts, ListAfter, EndAttempt, VerifyAndDeliver,
     Report, InBody, systemVars
<1> QED BY <1>1, <1>2, <1>3, <1>4 DEF ExportNext

LEMMA ExportNextInv ==
  ASSUME MaxEdits = 0, StoreInv, ExportInv, [ExportNext]_exportVars
  PROVE  StoreInv' /\ ExportInv'
<1>1. [Next]_vars
  BY ExportsWriteNothing
<1>2. Inv' /\ AbstractInv' /\ ContentInv'
  BY <1>1, NextInv, NextAbstract, NextContent DEF StoreInv
<1>3. QueueWritten'
  BY <1>1, QueueNext DEF StoreInv
<1>4. ASSUME ExportStoreStep \/ UNCHANGED exportVars PROVE ExportInv'
  BY <1>1, <1>4, ExportStoreInv DEF ExportStoreStep, exportVars, systemVars
<1>5. ASSUME ExportStep PROVE ExportInv'
  <2>1. CASE BeginExport
    <3>1. at = "idle"
      BY <2>1 DEF BeginExport, ExportInv, Shape, Body, Digesting
    <3> QED BY <2>1, <3>1, ExportBeginAttempt DEF BeginExport
  <2>2. CASE Probe \/ ListBefore \/ CaptureFile \/ CheckCapture \/ CountReceipts \/ ListAfter
    BY <2>2, ExportProbe, ExportListBefore, ExportCaptureFile, ExportCheckCapture,
       ExportCountReceipts, ExportListAfter
  <2>3. CASE \/ ReadBarrierFile("digest barrier", "digest head") \/ ReadHeadFile("digest head", "count")
             \/ ReadBarrierFile("copy barrier", "copy head") \/ ReadHeadFile("copy head", "after")
    BY <2>3, ExportReadBarrierFile, ExportReadHeadFile
  <2>4. CASE EndAttempt \/ VerifyAndDeliver
    BY <2>4, ExportEndAttempt, ExportVerify
  <2> QED BY <1>5, <2>1, <2>2, <2>3, <2>4 DEF ExportStep
<1> QED BY <1>2, <1>3, <1>4, <1>5 DEF ExportNext, StoreInv

LEMMA ExportInvariance ==
  ASSUME MaxEdits = 0
  PROVE  ExportSpec => [](StoreInv /\ ExportInv)
<1>1. ExportInit => StoreInv /\ ExportInv
  BY ExportInitInv
<1>2. StoreInv /\ ExportInv /\ [ExportNext]_exportVars => (StoreInv /\ ExportInv)'
  BY ExportNextInv
<1> QED BY <1>1, <1>2, PTL DEF ExportSpec

\* While no human edits, what `archive export` delivers was the store when its
\* first listing was complete, settled and whole (archive.Export, readArchive).
THEOREM DeliveriesAreOneMoment ==
  ASSUME MaxEdits = 0
  PROVE  ExportSpec => []ExportIsOneMoment
<1>1. StoreInv /\ ExportInv => ExportIsOneMoment
  BY DEF ExportInv, Ended, Coherent, ExportIsOneMoment
<1> QED BY <1>1, ExportInvariance, PTL

\* While no human edits, an export ends in no count of the receipts and in no
\* failed verification, however the store moves under it.
THEOREM CountAndStreamAreTrue ==
  ASSUME MaxEdits = 0
  PROVE  ExportSpec => []CountAndStreamAreFacts
<1>1. StoreInv /\ ExportInv => CountAndStreamAreFacts
  BY DEF ExportInv, Ended, CountAndStreamAreFacts
<1> QED BY <1>1, ExportInvariance, PTL
=============================================================================
