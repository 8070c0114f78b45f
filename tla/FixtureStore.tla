------------------------------ MODULE FixtureStore ------------------------------
(***************************************************************************)
(* The journal-backed writer of a fixture queue: internal/store over the   *)
(* receipts, head, barrier, request index, evidence and staging slots of   *)
(* the state dir, and over the intent projections of the primary worktree, *)
(* which a human may edit at any time.  Every writer runs under            *)
(* taskman.lock, so the model has one session, owned by the lock holder;   *)
(* the other actors are the editor, the environment that makes a native    *)
(* call return an error, and the crash that kills the holder.              *)
(*                                                                         *)
(* File contents are abstract.  A natural number n names the bytes that    *)
(* receipt n computed for a path (0: the queue and policy the operator     *)
(* authored before INIT); a member of EditBytes is what only a human       *)
(* writes.  Equality of contents stands for equality of SHA-256 digests.   *)
(***************************************************************************)
EXTENDS Integers, FiniteSetsExt

CONSTANTS
  Tickets,       \* ticket projections, intent/tickets/*.json
  Releases,      \* release projections, intent/releases/*.json
  Requests,      \* request ids, and their index files requests/<xx>/<sha>
  EditBytes,     \* contents only the human editor writes
  NoFile,        \* an absent file, and a null digest in a pre or post entry
  NoEntry,       \* a path that a receipt has no pre and post entry for
  NoReceipt,     \* an absent receipts/<n>.json
  NoCommand,     \* the lock is free
  MaxSeq,        \* transaction.MaxReceipts: the receipt slots of a store
  MaxEdits,      \* bound: edits of the human editor
  MaxFaults,     \* bound: native calls that return an error
  MaxCrashes     \* bound: deaths of the lock holder

Records == Tickets \cup Releases
IntentPath == {"policy", "queue"} \cup Records
Path == IntentPath \cup {"barrier"} \cup Requests
Content == 0..MaxSeq \cup EditBytes \cup {NoFile}

Op == {"INIT", "CREATE", "MUTATE", "POLICY_UPDATE", "PAUSE", "UNPAUSE",
       "KEEP_JOURNAL", "ADOPT_FILE"}

\* A request as its caller froze it; two requests with one digest are equal.
\* base is what the caller read or offers: the record whose revision it
\* expects, the policy version it expects, or the projection bytes to keep or
\* adopt.  canon is the canonical digest a KEEP_JOURNAL pins.
Command == [id : Requests, op : Op, target : Path, base : Content, canon : Content]

Entries == [Path -> Content \cup {NoEntry}]
Receipt == [cmd : Command, pre : Entries, post : Entries, blobs : SUBSET Content]
Posted(r) == {p \in Path : r.post[p] # NoEntry}

ASSUME ConstantsAssumption ==
  /\ MaxSeq \in Nat \ {0}
  /\ MaxEdits \in Nat /\ MaxFaults \in Nat /\ MaxCrashes \in Nat
  /\ NoFile \notin 0..MaxSeq \cup EditBytes
  /\ EditBytes \cap 0..MaxSeq = {}
  /\ NoEntry \notin Content
  /\ NoReceipt \notin Receipt
  /\ NoCommand \notin Command
  /\ IntentPath \cap ({"barrier"} \cup Requests) = {}
  /\ "barrier" \notin Requests
  /\ {"policy", "queue"} \cap Records = {} /\ Tickets \cap Releases = {}

VARIABLES
  \* ---- on disk ----
  stateDir,      \* "absent", "partial" (Mkdir "state" done) or "made"
  receipts,      \* receipts/<n>.json
  head,          \* head.json lastSeq; 0 when head.json is absent
  file,          \* current content of every projection
  evidence,      \* blobs in evidence/
  slots,         \* occupied staging/aNN slots
  \* ---- the lock holder ----
  phase, cmd,    \* where the holder is, and the request it carries
  plan,          \* the receipt it publishes or redoes
  redoing,       \* redoPosts rather than apply
  todo,          \* posts not yet settled
  how,           \* what was decided for the artifact being published;
                 \* "raced" is "verified", and a human edited it since
  mine,          \* slots its deferred cleanup will remove
  \* ---- history and environment ----
  acked,         \* <<request, seq>> reported COMPLETED to a caller
  edits, faults, crashes

disk == <<stateDir, receipts, head, file, evidence, slots>>
session == <<phase, cmd, plan, redoing, todo, how, mine>>
env == <<edits, faults, crashes>>
vars == <<stateDir, receipts, head, file, evidence, slots,
          phase, cmd, plan, redoing, todo, how, mine,
          acked, edits, faults, crashes>>

Phase == {"idle", "mkdir", "evidence", "receipt", "posts", "delete", "head",
          "resume", "finish", "abort"}

TypeOK ==
  /\ stateDir \in {"absent", "partial", "made"}
  /\ receipts \in [1..MaxSeq -> Receipt \cup {NoReceipt}]
  /\ head \in 0..MaxSeq
  /\ file \in [Path -> Content]
  /\ evidence \in SUBSET Content
  /\ slots \in Nat
  /\ phase \in Phase
  /\ cmd \in Command \cup {NoCommand}
  /\ plan \in Receipt \cup {NoReceipt}
  /\ redoing \in BOOLEAN
  /\ todo \in SUBSET Path
  /\ how \in {"none", "create", "replace", "verified", "raced"}
  /\ mine \in Nat
  /\ acked \in SUBSET (Command \X (1..MaxSeq))
  /\ edits \in 0..MaxEdits
  /\ faults \in 0..MaxFaults
  /\ crashes \in 0..MaxCrashes

-----------------------------------------------------------------------------
\* Reading the journal.

Present(n) == n \in 1..MaxSeq /\ receipts[n] # NoReceipt

\* One linked receipt beyond the head awaits redo.
Pending == Present(head + 1)

\* The canonical content of a path after receipt n: its latest afterimage.
Writers(p, n) == {i \in 1..n : receipts[i] # NoReceipt /\ receipts[i].post[p] # NoEntry}
Latest(p, n) ==
  IF Writers(p, n) = {} THEN NoFile
  ELSE receipts[Max(Writers(p, n))].post[p]
Canon(p) == Latest(p, head)

\* Everything a path was ever published as by a settled receipt.
Held(p) == {receipts[i].post[p] : i \in Writers(p, head)} \ {NoFile}

\* The receipt in which the request index finds this id; the index is the
\* request afterimages of the audited receipts.
Recorded(id) == Writers(id, MaxSeq)

Chained == /\ \A n \in 1..head : Present(n)
           /\ ~Present(head + 2)
BlobsPresent == \A n \in 1..MaxSeq : Present(n) => receipts[n].blobs \subseteq evidence

\* A completed journal audit of a settled store.  excused is the set of
\* projections this caller permits to diverge.
Audit(excused) ==
  /\ slots = 0 /\ Chained /\ ~Pending /\ BlobsPresent
  /\ \A p \in Path \ excused : file[p] = Canon(p)

\* The audit result that alone authorizes redo: REDO_PENDING, CONSISTENT and
\* every projection at its latest content, or at the pending receipt's pre.
PreOrPost ==
  \A p \in Path :
    \/ file[p] = Latest(p, head + 1)
    \/ file[p] = receipts[head + 1].pre[p]
\* Mutant: a projection still at its pre content blocks the redo.
RedoAuthorizedPostOnly ==
  /\ slots = 0 /\ Chained /\ Pending /\ BlobsPresent
  /\ \A p \in Path : file[p] = Latest(p, head + 1)

RedoAuthorized == slots = 0 /\ Chained /\ Pending /\ BlobsPresent /\ PreOrPost

\* The UNPAUSE template: its barrier post entry has a null digest.
Deletes(r) == r.post["barrier"] = NoFile

\* Artifacts of one role are published in path order.
Rank(p) == CASE p = "barrier" -> 1 [] p = "policy" -> 2 [] p = "queue" -> 3
             [] p \in Releases -> 4 [] p \in Tickets -> 5 [] OTHER -> 6
NextPost == CHOOSE p \in todo : \A q \in todo : Rank(p) <= Rank(q)

-----------------------------------------------------------------------------
\* transaction.Model: the receipts a fresh request may be planned as.  The
\* set is empty exactly when the model refuses or answers NoChange.

Receipted(c, posts, blobs) ==
  [cmd |-> c, post |-> posts, blobs |-> blobs,
   pre |-> [p \in Path |-> IF posts[p] = NoEntry THEN NoEntry ELSE file[p]]]

\* Mutant: the transaction forgets its request-index entry.
IndexedNever(c, paths) == [p \in Path |-> IF p \in paths THEN head + 1 ELSE NoEntry]

\* Every transaction also posts its request-index entry.
Indexed(c, paths) == [p \in Path |-> IF p \in paths \cup {c.id} THEN head + 1 ELSE NoEntry]

Excused(c) ==
  CASE c.op \in {"KEEP_JOURNAL", "ADOPT_FILE"} -> {c.target}
    \* UNPAUSE compares no canonical ticket, but each must still be a file.
    [] c.op = "UNPAUSE" -> {t \in Tickets : Canon(t) # NoFile /\ file[t] # NoFile}
    [] OTHER -> {}

\* Mutant: any record the caller ever read will do.
ExpectedStale(c) == c.base \in Held(c.target) \cup {NoFile}

\* Optimistic concurrency: expectedRevision and expectedPolicyVersion name the
\* canonical content the caller read.
Expected(c) == c.base = Canon(c.target)

\* Mutant: a file that no receipt ever created may be adopted.
OfferedUntracked(c) == file[c.target] = c.base /\ c.base # NoFile

\* A reconciliation binds the bytes the operator preserved to the projection.
Offered(c) == file[c.target] = c.base /\ c.base # NoFile /\ Canon(c.target) # NoFile

\* freeze refuses a request whose index file is already there.
Plans(c) ==
  IF head = MaxSeq \/ ~Audit(Excused(c)) \/ file[c.id] # NoFile THEN {} ELSE
  CASE c.op = "CREATE" ->
         \* a serial names the first free ticket, and the queue is republished
         {Receipted(c, Indexed(c, {t, "queue"}), {}) :
            t \in {u \in Tickets : Canon(u) = NoFile}}
    [] c.op = "MUTATE" ->
         \* base NoFile: a CREATE under an explicit name, or a release CREATE
         IF Expected(c) THEN {Receipted(c, Indexed(c, {c.target}), {})} ELSE {}
    [] c.op = "POLICY_UPDATE" ->
         \* a policy may exceed the inline bound: its bytes travel as a blob
         IF Expected(c) THEN {Receipted(c, Indexed(c, {"policy"}), {head + 1})} ELSE {}
    [] c.op = "PAUSE" ->
         IF Canon("barrier") # NoFile THEN {} ELSE {Receipted(c, Indexed(c, {"barrier"}), {})}
    [] c.op = "UNPAUSE" ->
         IF Canon("barrier") = NoFile THEN {}
         ELSE {Receipted(c, [Indexed(c, {"barrier"}) EXCEPT !["barrier"] = NoFile], {})}
    [] c.op = "KEEP_JOURNAL" ->
         IF /\ Offered(c) /\ c.canon = Canon(c.target)
            /\ c.target \in Tickets => c.base # c.canon
         THEN {Receipted(c, [Indexed(c, {c.target}) EXCEPT ![c.target] = c.canon], {c.base})}
         ELSE {}
    [] c.op = "ADOPT_FILE" ->
         IF Offered(c) THEN {Receipted(c, Indexed(c, {c.target}), {})} ELSE {}
    [] OTHER -> {}

Named(i, o, t, b, k) == [id |-> i, op |-> o, target |-> t, base |-> b, canon |-> k]

\* What callers may submit: any choice made against a record that was once
\* canonical, however stale, and any bytes a projection may have been seen at.
Invocations ==
  UNION {
    {Named(i, "CREATE", "queue", NoFile, NoFile),
     Named(i, "PAUSE", "barrier", NoFile, NoFile),
     Named(i, "UNPAUSE", "barrier", NoFile, NoFile)}
    \cup {Named(i, "POLICY_UPDATE", "policy", b, NoFile) : b \in Held("policy")}
    \cup UNION {
      {Named(i, "MUTATE", t, b, NoFile) : b \in Held(t) \cup {NoFile}}
      \cup {Named(i, "KEEP_JOURNAL", t, b, k) : b \in EditBytes \cup Held(t), k \in Held(t)}
      \cup IF t \in Releases THEN {} ELSE
           {Named(i, "ADOPT_FILE", t, b, NoFile) : b \in EditBytes \cup Held(t)}
      : t \in Records}
    : i \in Requests}

-----------------------------------------------------------------------------
Init ==
  /\ stateDir = "absent"
  /\ receipts = [n \in 1..MaxSeq |-> NoReceipt]
  /\ head = 0
  /\ file = [p \in Path |-> IF p \in {"policy", "queue"} THEN 0 ELSE NoFile]
  /\ evidence = {} /\ slots = 0
  /\ phase = "idle" /\ cmd = NoCommand /\ plan = NoReceipt
  /\ redoing = FALSE /\ todo = {} /\ how = "none" /\ mine = 0
  /\ acked = {} /\ edits = 0 /\ faults = 0 /\ crashes = 0

\* The lock is released and the process is gone.
Released ==
  /\ phase' = "idle" /\ cmd' = NoCommand /\ plan' = NoReceipt
  /\ redoing' = FALSE /\ todo' = {} /\ how' = "none" /\ mine' = 0

\* apply starts on a planned receipt.
Applying(c, r) ==
  /\ phase' = "evidence" /\ cmd' = c /\ plan' = r
  /\ redoing' = FALSE /\ todo' = {} /\ how' = "none" /\ mine' = 0

\* Init reads the authored queue and policy, models the genesis receipt and
\* makes the state dir before any artifact is staged.
BeginInit(i) ==
  LET c == Named(i, "INIT", "queue", NoFile, NoFile)
      posts == [p \in Path |-> IF p = i THEN 1
                                ELSE IF p \in {"policy", "queue"} THEN file[p] ELSE NoEntry]
      absent == [p \in Path |-> IF posts[p] = NoEntry THEN NoEntry ELSE NoFile]
  IN
  /\ phase = "idle" /\ stateDir = "absent"
  /\ file["queue"] # NoFile /\ file["policy"] # NoFile
  /\ stateDir' = "partial"
  /\ phase' = "mkdir" /\ cmd' = c
  /\ plan' = [cmd |-> c, pre |-> absent, post |-> posts, blobs |-> {}]
  /\ UNCHANGED <<receipts, head, file, evidence, slots, redoing, todo, how, mine, acked, env>>

MakeDirectories ==
  /\ phase = "mkdir"
  /\ stateDir' = "made" /\ phase' = "evidence"
  /\ UNCHANGED <<receipts, head, file, evidence, slots, cmd, plan, redoing, todo, how, mine, acked, env>>

\* A settled store: the index is consulted first, then the request is modelled.
Fresh(c) ==
  /\ Audit(IntentPath) /\ Recorded(c.id) = {}
  /\ \E r \in Plans(c) : Applying(c, r)
  /\ UNCHANGED <<disk, acked, env>>

\* Mutant: the stored digest is not compared with the retry's.
ReplayAnyBytes(c) ==
  /\ Audit(IntentPath)
  /\ \E n \in Recorded(c.id) : acked' = acked \cup {<<c, n>>}
  /\ Released
  /\ UNCHANGED <<disk, env>>

\* An exact retry returns the stored outcome; different bytes under the same
\* id are REQUEST_ID_CONFLICT and report nothing.
Replay(c) ==
  /\ Audit(IntentPath)
  /\ \E n \in Recorded(c.id) : receipts[n].cmd = c /\ acked' = acked \cup {<<c, n>>}
  /\ Released
  /\ UNCHANGED <<disk, env>>

\* Mutant: redo passes over a deletion it does not perform.
StartRedoPastDeletion(c) ==
  /\ RedoAuthorized
  /\ phase' = "posts" /\ cmd' = c /\ plan' = receipts[head + 1] /\ redoing' = TRUE
  /\ todo' = {p \in Posted(plan') : plan'.post[p] # NoFile} /\ how' = "none" /\ mine' = 0
  /\ UNCHANGED <<disk, acked, env>>

StartRedo(c) ==
  /\ RedoAuthorized
  /\ phase' = "posts" /\ cmd' = c /\ plan' = receipts[head + 1]
  /\ redoing' = TRUE /\ todo' = Posted(plan') /\ how' = "none" /\ mine' = 0
  /\ UNCHANGED <<disk, acked, env>>

\* The entry points: each takes the lock and passes the guards, the first two
\* redo a pending receipt, all look the request up and model it on a completed
\* audit.  Refusals change nothing.
Mutate(c) == c.op \in {"CREATE", "MUTATE"} /\ (StartRedo(c) \/ Replay(c) \/ Fresh(c))
PolicyUpdate(c) == c.op = "POLICY_UPDATE" /\ (StartRedo(c) \/ Replay(c) \/ Fresh(c))
Barrier(c) == c.op \in {"PAUSE", "UNPAUSE"} /\ (Replay(c) \/ Fresh(c))
Reconcile(c) == c.op \in {"KEEP_JOURNAL", "ADOPT_FILE"} /\ (Replay(c) \/ Fresh(c))

\* One command at a time holds the lock, of a store that has a head.
Begin(c) ==
  /\ phase = "idle" /\ head # 0
  /\ Mutate(c) \/ PolicyUpdate(c) \/ Barrier(c) \/ Reconcile(c)

\* After its redo the same command is looked up and modelled.
Resume ==
  /\ phase = "resume"
  /\ \/ Fresh(cmd)
     \/ Replay(cmd)
     \/ Released /\ UNCHANGED <<disk, acked, env>>

-----------------------------------------------------------------------------
\* apply and redoPosts: one artifact at a time, each staged into a slot and
\* then linked or renamed onto its destination.

Stage(decision) == slots' = slots + 1 /\ mine' = mine + 1 /\ how' = decision

\* An error is returned: the deferred cleanup and the release follow.
Aborting == phase' = "abort" /\ how' = "none" /\ UNCHANGED <<cmd, plan, redoing, todo, mine>>

\* Evidence and blob-backed bytes; a blob already retained is not rewritten.
StageEvidence ==
  /\ phase = "evidence" /\ how = "none" /\ ~(plan.blobs \subseteq evidence)
  /\ Stage("create")
  /\ UNCHANGED <<stateDir, receipts, head, file, evidence, phase, cmd, plan, redoing, todo, acked, env>>

\* Mutant: link(2) is taken to consume the staging slot, as rename(2) does.
LinkEvidenceConsuming ==
  /\ phase = "evidence" /\ how = "create"
  /\ evidence' = evidence \cup plan.blobs /\ how' = "none" /\ slots' = slots - 1
  /\ UNCHANGED <<stateDir, receipts, head, file, phase, cmd, plan, redoing, todo, mine, acked, env>>

LinkEvidence ==
  /\ phase = "evidence" /\ how = "create"
  /\ evidence' = evidence \cup plan.blobs /\ how' = "none"
  /\ UNCHANGED <<stateDir, receipts, head, file, slots, phase, cmd, plan, redoing, todo, mine, acked, env>>

\* Mutant: the receipt does not wait for the blobs it refers to.
StageReceiptEarly ==
  /\ phase = "evidence" /\ how = "none"
  /\ phase' = "receipt" /\ Stage("create")
  /\ UNCHANGED <<stateDir, receipts, head, file, evidence, cmd, plan, redoing, todo, acked, env>>

\* Mutant: posts are published before the receipt.
StageReceiptAfterPosts ==
  /\ phase = "evidence" /\ how = "none" /\ plan.blobs \subseteq evidence
  /\ phase' = "posts" /\ todo' = {p \in Posted(plan) : plan.post[p] # NoFile}
  /\ UNCHANGED <<disk, cmd, plan, redoing, how, mine, acked, env>>

StageReceipt ==
  /\ phase = "evidence" /\ how = "none" /\ plan.blobs \subseteq evidence
  /\ phase' = "receipt" /\ Stage("create")
  /\ UNCHANGED <<stateDir, receipts, head, file, evidence, cmd, plan, redoing, todo, acked, env>>

\* The commit point: link(2), which never replaces a receipt that is there.
LinkReceipt ==
  /\ phase = "receipt"
  /\ IF Present(head + 1)
     THEN Aborting /\ UNCHANGED receipts
     ELSE /\ receipts' = [receipts EXCEPT ![head + 1] = plan]
          /\ phase' = "posts" /\ how' = "none"
          /\ todo' = {p \in Posted(plan) : plan.post[p] # NoFile}
          /\ UNCHANGED <<cmd, plan, redoing, mine>>
  /\ UNCHANGED <<stateDir, head, file, evidence, slots, acked, env>>

Deciding == phase = "posts" /\ how = "none" /\ todo # {}

\* The redo rule (settled): post bytes are skipped, an absent destination is
\* created, pre bytes are replaced, a third value is left alone.
SkipPost ==
  /\ Deciding /\ plan.post[NextPost] # NoFile /\ file[NextPost] = plan.post[NextPost]
  /\ todo' = todo \ {NextPost}
  /\ UNCHANGED <<disk, phase, cmd, plan, redoing, how, mine, acked, env>>

StagePost ==
  /\ Deciding /\ plan.post[NextPost] # NoFile
  /\ file[NextPost] # plan.post[NextPost]
  /\ \/ file[NextPost] = NoFile /\ Stage("create")
     \/ /\ file[NextPost] # NoFile /\ file[NextPost] = plan.pre[NextPost]
        /\ Stage("replace")
  /\ UNCHANGED <<stateDir, receipts, head, file, evidence, phase, cmd, plan, redoing, todo, acked, env>>

\* Mutant: a third value is neither published over nor reported.
RefuseDeletion ==
  /\ Deciding /\ plan.post[NextPost] = NoFile
  /\ Aborting
  /\ UNCHANGED <<disk, acked, env>>

\* INTENT_DIVERGED or JOURNAL_FORKED; and redo refuses a deletion.
RefusePost ==
  /\ Deciding
  /\ \/ plan.post[NextPost] = NoFile
     \/ file[NextPost] \notin {NoFile, plan.post[NextPost], plan.pre[NextPost]}
  /\ Aborting
  /\ UNCHANGED <<disk, acked, env>>

Settle(p) == todo' = todo \ {p} /\ how' = "none" /\ UNCHANGED <<phase, cmd, plan, redoing>>

LinkPost ==
  /\ phase = "posts" /\ how = "create"
  /\ IF file[NextPost] = NoFile
     THEN /\ file' = [file EXCEPT ![NextPost] = plan.post[NextPost]]
          /\ Settle(NextPost) /\ UNCHANGED mine
     ELSE Aborting /\ UNCHANGED file
  /\ UNCHANGED <<stateDir, receipts, head, evidence, slots, acked, env>>

\* Mutant: the destination is not read again before the rename.
VerifyPostTrusting ==
  /\ phase = "posts" /\ how = "replace" /\ how' = "verified"
  /\ UNCHANGED <<disk, phase, cmd, plan, redoing, todo, mine, acked, env>>

\* replace reads its destination again.  One that already holds the post is
\* only synced: the slot stays occupied, and apply no longer counts it.
VerifyPost ==
  /\ phase = "posts" /\ how = "replace"
  /\ \/ file[NextPost] = plan.post[NextPost] /\ Settle(NextPost) /\ mine' = mine - 1
     \/ /\ file[NextPost] = plan.pre[NextPost] /\ how' = "verified"
        /\ UNCHANGED <<phase, cmd, plan, redoing, todo, mine>>
     \/ file[NextPost] \notin {plan.post[NextPost], plan.pre[NextPost]} /\ Aborting
  /\ UNCHANGED <<disk, acked, env>>

\* rename(2): unconditional, and it consumes the slot.
RenamePost ==
  /\ phase = "posts" /\ how \in {"verified", "raced"}
  /\ file' = [file EXCEPT ![NextPost] = plan.post[NextPost]]
  /\ slots' = slots - 1 /\ mine' = mine - 1 /\ Settle(NextPost)
  /\ UNCHANGED <<stateDir, receipts, head, evidence, acked, env>>

\* Mutant: the head may be staged while a post is outstanding.
PostsDoneEarly ==
  /\ phase = "posts" /\ how = "none"
  /\ phase' = IF ~redoing /\ Deletes(plan) THEN "delete" ELSE "head"
  /\ IF redoing THEN slots' = slots - mine /\ mine' = 0 ELSE UNCHANGED <<slots, mine>>
  /\ UNCHANGED <<stateDir, receipts, head, file, evidence, cmd, plan, redoing, todo, how, acked, env>>

\* redoPosts removes its slots before advanceHead stages the head.
PostsDone ==
  /\ phase = "posts" /\ todo = {}
  /\ phase' = IF ~redoing /\ Deletes(plan) THEN "delete" ELSE "head"
  /\ IF redoing THEN slots' = slots - mine /\ mine' = 0 ELSE UNCHANGED <<slots, mine>>
  /\ UNCHANGED <<stateDir, receipts, head, file, evidence, cmd, plan, redoing, todo, how, acked, env>>

\* removeBarrier: absence is success, anything but the pre bytes is refused.
DeleteBarrier ==
  /\ phase = "delete"
  /\ IF file["barrier"] \in {NoFile, plan.pre["barrier"]}
     THEN /\ file' = [file EXCEPT !["barrier"] = NoFile]
          /\ phase' = "head" /\ UNCHANGED <<cmd, plan, redoing, todo, how, mine>>
     ELSE Aborting /\ UNCHANGED file
  /\ UNCHANGED <<stateDir, receipts, head, evidence, slots, acked, env>>

\* advanceHead registers no cleanup for its slot: the rename is to consume it.
StageHead ==
  /\ phase = "head" /\ how = "none"
  /\ slots' = slots + 1
  /\ mine' = IF redoing THEN mine ELSE mine + 1
  /\ how' = IF head = 0 THEN "create" ELSE "replace"
  /\ UNCHANGED <<stateDir, receipts, head, file, evidence, phase, cmd, plan, redoing, todo, acked, env>>

PublishHead ==
  /\ phase = "head" /\ how # "none"
  /\ head' = head + 1 /\ how' = "none"
  /\ IF how = "replace"
     THEN slots' = slots - 1 /\ mine' = IF redoing THEN mine ELSE mine - 1
     ELSE UNCHANGED <<slots, mine>>
  /\ phase' = IF redoing THEN "resume" ELSE "finish"
  /\ UNCHANGED <<stateDir, receipts, file, evidence, cmd, plan, redoing, todo, acked, env>>

\* The deferred cleanup, the report and the release of the lock.
Finish ==
  /\ phase = "finish"
  /\ acked' = acked \cup {<<cmd, head>>}
  /\ slots' = slots - mine /\ Released
  /\ UNCHANGED <<stateDir, receipts, head, file, evidence, env>>

\* Mutant: a failed transaction keeps its staging slots.
AbortKeepingSlots ==
  /\ phase = "abort" /\ Released
  /\ UNCHANGED <<disk, acked, env>>

Abort ==
  /\ phase = "abort"
  /\ slots' = slots - mine /\ Released
  /\ UNCHANGED <<stateDir, receipts, head, file, evidence, acked, env>>

-----------------------------------------------------------------------------
\* The environment.

\* A native call returns an error, before its effect or after it.
Fault ==
  /\ phase \notin {"idle", "abort"} /\ faults < MaxFaults
  /\ faults' = faults + 1 /\ Aborting
  /\ UNCHANGED <<disk, acked, edits, crashes>>

\* The holder dies: the OS releases the lock and no cleanup runs.  A cleanup
\* that itself fails leaves the same disk behind.
Crash ==
  /\ phase # "idle" /\ crashes < MaxCrashes
  /\ crashes' = crashes + 1 /\ Released
  /\ UNCHANGED <<disk, acked, edits, faults>>

\* A human edits, deletes or checks out a projection, at any time: also
\* between the last look of replace at its destination and its rename.
Edit(p) ==
  /\ edits < MaxEdits
  /\ \E b \in (EditBytes \cup Held(p) \cup {NoFile}) \ {file[p]} :
       file' = [file EXCEPT ![p] = b]
  /\ how' = IF how = "verified" /\ p = NextPost THEN "raced" ELSE how
  /\ edits' = edits + 1
  /\ UNCHANGED <<stateDir, receipts, head, evidence, slots, phase, cmd, plan, redoing, todo, mine,
                 acked, faults, crashes>>

Holder ==
  \/ MakeDirectories \/ Resume
  \/ StageEvidence \/ LinkEvidence \/ StageReceipt \/ LinkReceipt
  \/ SkipPost \/ StagePost \/ RefusePost \/ LinkPost \/ VerifyPost \/ RenamePost
  \/ PostsDone \/ DeleteBarrier \/ StageHead \/ PublishHead
  \/ Finish \/ Abort

Next ==
  \/ \E i \in Requests : BeginInit(i)
  \/ \E c \in Invocations : Begin(c)
  \/ Holder
  \/ Fault \/ Crash
  \/ \E p \in IntentPath : Edit(p)

Spec == Init /\ [][Next]_vars

\* A started process runs to its end, and operators keep issuing mutating
\* commands.  Nothing makes the editor, a fault or a crash happen.
FairSpec ==
  /\ Spec
  /\ WF_vars(Holder)
  /\ SF_vars(\E c \in Invocations : Mutate(c) /\ Begin(c))

-----------------------------------------------------------------------------
(* Safety. *)

\* The receipts form one chain with at most one receipt the head has not
\* reached: a fork is never written (SPEC 5.2, checkChainBounds).
ChainOrder == \A n \in 1..MaxSeq : (n <= head => Present(n)) /\ (Present(n) => n <= head + 1)

\* A request id commits at most once, whatever was retried after an error, a
\* crash or a lost answer (TM-V0-006, the request index).
RequestOnce ==
  \A m, n \in 1..MaxSeq : Present(m) /\ Present(n) /\ receipts[m].cmd.id = receipts[n].cmd.id => m = n

\* Never a projection with no receipt (apply): journal bytes are on disk only
\* when a linked receipt posted them.
NoPostBeforeReceipt ==
  \A p \in Path : file[p] \in 1..MaxSeq =>
    \E n \in Writers(p, MaxSeq) : receipts[n].post[p] = file[p]

\* The head is published after every post it implies: a private file is at
\* its canonical content or at the pending receipt's, and so is a projection
\* no human touched.
SettledProjections ==
  head # 0 => \A p \in Path : p \notin IntentPath \/ edits = 0 =>
    file[p] = Canon(p) \/ (Pending /\ file[p] = Latest(p, head + 1))

\* What a receipt refers to is durable before the receipt is; in particular
\* the bytes a KEEP_JOURNAL discards survive it (phase order of apply).
EvidenceFirst ==
  \A n \in 1..MaxSeq : Present(n) =>
    /\ receipts[n].blobs \subseteq evidence
    /\ receipts[n].cmd.op = "KEEP_JOURNAL" => receipts[n].pre[receipts[n].cmd.target] \in evidence

\* No lost update: a committed mutation replaced exactly the record its
\* caller had read, and a serial CREATE took a name never used before.
NoLostUpdate ==
  \A n \in 2..MaxSeq : Present(n) =>
    LET c == receipts[n].cmd IN
    /\ c.op \in {"MUTATE", "POLICY_UPDATE"} => c.base = Latest(c.target, n - 1)
    /\ c.op = "KEEP_JOURNAL" => c.canon = Latest(c.target, n - 1)
    /\ c.op = "CREATE" => \A t \in Tickets \cap Posted(receipts[n]) : Writers(t, n - 1) = {}

\* An answer COMPLETED is the truth about a settled receipt of that very
\* request, on the first try and on every retry.
AckedIsCommitted == \A a \in acked : a[2] <= head /\ receipts[a[2]].cmd = a[1]

\* The holder writes a projection only over nothing or over the pre bytes of
\* its receipt.  The one exception is an edit that falls between replace's
\* last look at that very file and its rename: it is overwritten unseen, for no
\* compare-and-swap is claimed.  Edited in at any other time, it is left alone.
OverwritesOnlyPre ==
  [][\A p \in IntentPath : file'[p] # file[p] /\ edits' = edits =>
        file[p] \in {NoFile, plan.pre[p]} \/ (how = "raced" /\ p = NextPost)]_vars

\* What no later command redoes: a genesis receipt whose INIT never wrote
\* head.json (redoPending reads it first), and the deletion of an UNPAUSE.
NeverRedone == head = 0 \/ Deletes(receipts[head + 1])

\* A command that returned, also with an error, leaves a pending receipt that
\* the next mutating command may redo, with three exceptions: an INIT that
\* failed after its receipt link (no command serves a store without a head), an UNPAUSE that
\* failed before its deletion, and a projection a human changed meanwhile.
IdleIsRedoable ==
  phase = "idle" /\ Pending /\ ~NeverRedone /\ PreOrPost => RedoAuthorized

\* An UNPAUSE that failed after its commit point is guessed at by nobody: no
\* other command moves its receipt, its barrier or the head past it (redoPosts
\* refuses the deletion, and reconcile and barrier commands refuse a pending
\* receipt).
FailedUnpauseWaits ==
  [][Pending /\ Deletes(receipts[head + 1]) /\ cmd # receipts[head + 1].cmd
       => UNCHANGED <<receipts, head>> /\ file'["barrier"] = file["barrier"]]_vars

\* The store implements AtomicStore: a command takes effect when its receipt
\* is linked, and settles when the head names it.
Abstract == INSTANCE AtomicStore WITH
  log <- [n \in 1..MaxSeq |-> IF Present(n) THEN receipts[n].cmd ELSE NoCommand],
  values <- [p \in Path |-> Latest(p, MaxSeq)],
  settled <- head,
  answers <- acked

\* Whatever the interleaving of editor, faults and crashes, a caller sees one
\* atomic, once-only effect per request id (writerGuards, Lookup, apply, redo).
ImplementsAtomicStore == Abstract!Spec

(* Liveness. *)

\* A committed receipt is completed as long as operators keep issuing commands,
\* unless a human diverged its projections; an INIT that failed after its
\* receipt link and an UNPAUSE that failed before its deletion never are.
PendingRedone == (Pending /\ ~NeverRedone) ~> (~Pending \/ ~PreOrPost)

\* Every command returns and releases the lock.
LockReleased == phase # "idle" ~> phase = "idle"
=============================================================================
