----------------------------- MODULE ArchiveExport -----------------------------
(***************************************************************************)
(* archive export: archive.Export around the one-shot probes of            *)
(* snapshot.Reader, beside the writer and the editor of FixtureStore.  The *)
(* body lists the store, captures the intent files, reads the others       *)
(* twice, and lists the store again; the probe is repeated; the staged     *)
(* stream is verified; only then is anything delivered.                    *)
(*                                                                         *)
(* Of SnapshotReader only the probes are used: Retries is 0 and the body   *)
(* is the one below.  Receipts, request records and blobs are never        *)
(* replaced, so a listing of their names stands for their bytes; for the   *)
(* other files equal contents stand for the same identity, size and time,  *)
(* which makes this sameLayout weaker than the code's.  The second listing *)
(* reads the intent files again as well, which can only add moves.         *)
(***************************************************************************)
EXTENDS SnapshotReader, Sequences

CONSTANTS Attempts   \* readArchive: 4

ASSUME AttemptsAssumption == Attempts \in Nat \ {0} /\ Retries = 0

VARIABLES
  point,     \* where the export is in its body, or "probe"
  tries,     \* attempts begun
  before,    \* the listing before the body
  after,     \* the listing after it
  copied,    \* what was read: the head, the barrier and the intent files
  refusal,   \* the error the body ended with
  outcome,   \* how the export ended
  moment     \* history: the store when the first listing was complete

export == <<point, tries, before, after, copied, refusal, outcome>>
exportVars == <<systemVars, export, moment>>

Linked == {n \in 1..MaxSeq : Present(n)}
Filed == {i \in Requests : file[i] # NoFile}

\* The store as the archive of this instant would hold it.
Moment ==
  [pending |-> Pending, head |-> head, barrier |-> file["barrier"], tree |-> IntentTree,
   receipts |-> Linked, requests |-> Filed, evidence |-> evidence]
NoMoment == [pending |-> TRUE]

ExportInit ==
  /\ SystemInit
  /\ point = "idle" /\ tries = 0 /\ before = <<>> /\ after = <<>>
  /\ copied = Blank /\ refusal = "none" /\ outcome = "none" /\ moment = NoMoment

\* rd.Read of one attempt.
BeginAttempt ==
  /\ point' = "probe" /\ tries' = tries + 1 /\ Goto("head") /\ verdict' = "none" /\ first' = Blank
  /\ before' = <<>> /\ after' = <<>> /\ copied' = Blank /\ refusal' = "none"
  /\ moment' = NoMoment
  /\ UNCHANGED <<vars, pass, attempt, obs, left, bodyErr, instants, outcome>>

BeginExport == point = "idle" /\ outcome = "none" /\ BeginAttempt

Probe ==
  /\ point = "probe" /\ pass # "body"
  /\ \/ ReadHead \/ CheckSecondSlot \/ CheckNextSlot \/ ReadBarrier
     \/ ListDirectory("root", {"policy", "queue"}, "releases")
     \/ ListDirectory("releases", Releases, "tickets")
     \/ ListDirectory("tickets", Tickets, "read")
     \/ ReadFile \/ EndFirstProbe \/ EndRead
  /\ UNCHANGED <<export, moment>>

-----------------------------------------------------------------------------
(* captureLayout: one directory at a time, in this order; then the intent *)
(* files are read, by name, and must still be the files that were listed.  *)

Directories == <<"root", "evidence", "receipts", "requests", "staging", "intent", "tickets">>
Listed(directory) ==
  CASE directory = "root"     -> [head |-> head, barrier |-> file["barrier"]]
    [] directory = "evidence" -> evidence
    [] directory = "receipts" -> Linked
    [] directory = "requests" -> Filed
    [] directory = "staging"  -> slots
    [] directory = "intent"   -> [p \in {"policy", "queue"} \cup Releases |-> file[p]]
    [] directory = "tickets"  -> [t \in Tickets |-> file[t]]

Whole(listing) == Len(listing) = Len(Directories)
Listing(listing) == Append(listing, Listed(Directories[Len(listing) + 1]))
ListedFile(p) == IF p \in Tickets THEN before[7][p] ELSE before[6][p]

ListBefore ==
  /\ point = "probe" /\ pass = "body"
  /\ before' = Listing(before)
  /\ IF Whole(before')
     THEN point' = "capture" /\ left' = {p \in IntentPath : ListedFile(p)' # NoFile}
          /\ moment' = Moment
     ELSE UNCHANGED <<point, left, moment>>
  /\ UNCHANGED <<vars, at, pass, attempt, obs, first, bodyErr, verdict, instants>>
  /\ UNCHANGED <<tries, after, copied, refusal, outcome>>

\* The body is over; refusal is its error.
LeaveBody == point' = "probe" /\ EndBody(refusal')

\* A file that was replaced since it was listed is a move, and so is one that
\* has gone; a file edited in place is captured as it is now.
CaptureFile ==
  /\ point = "capture" /\ left # {}
  /\ \/ /\ file[NextRead] # ListedFile(NextRead)
        /\ refusal' = "SNAPSHOT_MOVED" /\ LeaveBody
     \/ /\ file[NextRead] # NoFile
        /\ obs' = [obs EXCEPT !.tree[NextRead] = file[NextRead]] /\ left' = left \ {NextRead}
        /\ UNCHANGED <<at, pass, attempt, first, bodyErr, verdict, point, refusal>>
  /\ UNCHANGED <<vars, instants, tries, before, after, copied, outcome, moment>>

-----------------------------------------------------------------------------
(* The body proper.  Every outcome of it waits for the second listing. *)

InBody(here) == point = here /\ UNCHANGED <<systemVars, tries, before, after, outcome, moment>>
Refuse(code) == refusal' = code /\ point' = "after" /\ UNCHANGED copied
Goes(next) == point' = next /\ UNCHANGED refusal

\* The captured tree is the probed one; a staging slot has no descriptor that
\* assigns it, since no command of this store writes one (validateStage).
CheckCapture ==
  /\ InBody("capture") /\ left = {}
  /\ CASE obs.tree # first.tree -> Refuse("SNAPSHOT_MOVED")
       [] obs.tree = first.tree /\ before[5] # 0 -> Refuse("MALFORMED")
       [] OTHER -> Goes("digest barrier") /\ copied' = [copied EXCEPT !.tree = obs.tree]

\* One of the two reads of a file that the writer replaces by rename.
ReadBarrierFile(here, next) ==
  /\ InBody(here)
  /\ IF before[1].barrier = NoFile \/ file["barrier"] = before[1].barrier
     THEN Goes(next) /\ copied' = [copied EXCEPT !.barrier = before[1].barrier]
     ELSE Refuse("SNAPSHOT_MOVED")

ReadHeadFile(here, next) ==
  /\ InBody(here)
  /\ IF head = before[1].head THEN Goes(next) /\ copied' = [copied EXCEPT !.head = head]
     ELSE Refuse("SNAPSHOT_MOVED")

\* The receipts listed are those up to the probed head.  RECEIPT_COUNT is the
\* body's JOURNAL_FORKED, apart from the one a probe may report.
CountReceipts ==
  /\ InBody("count")
  /\ IF before[3] = 1..first.head THEN Goes("copy barrier") /\ UNCHANGED copied
     ELSE Refuse("RECEIPT_COUNT")

\* Mutant: a refusal that a second listing confirms is reported at once.
ListAfterFinal ==
  /\ point = "after"
  /\ after' = Listing(after)
  /\ IF Whole(after')
     THEN /\ refusal' = IF after' = before THEN refusal ELSE "SNAPSHOT_MOVED"
          /\ IF refusal' = "none" THEN LeaveBody ELSE point' = "probe" /\ Return(refusal')
     ELSE UNCHANGED <<reader, point, refusal>>
  /\ UNCHANGED <<vars, instants, tries, before, copied, outcome, moment>>

\* The deferred second listing: any difference overrides the body's outcome.
ListAfter ==
  /\ point = "after"
  /\ after' = Listing(after)
  /\ IF Whole(after')
     THEN refusal' = (IF after' = before THEN refusal ELSE "SNAPSHOT_MOVED") /\ LeaveBody
     ELSE UNCHANGED <<reader, point, refusal>>
  /\ UNCHANGED <<vars, instants, tries, before, copied, outcome, moment>>

-----------------------------------------------------------------------------
Report(code) ==
  /\ outcome' = code /\ point' = "idle"
  /\ UNCHANGED <<systemVars, tries, before, after, copied, refusal, moment>>

\* readArchive: only a move is tried again.
EndAttempt ==
  /\ point = "probe" /\ at = "idle"
  /\ CASE verdict = "SNAPSHOT_MOVED" /\ tries < Attempts -> BeginAttempt
       [] verdict = "OK" ->
            point' = "verify" /\ UNCHANGED <<systemVars, tries, before, after, copied, refusal, outcome, moment>>
       [] OTHER -> Report(verdict)

\* Verify of the staged stream: the manifest carries the probed head, barrier
\* and tree digest; the entries are what was copied.  A queue.json that a human
\* wrote may not decode.
Verified ==
  /\ copied.head = first.head /\ copied.barrier = first.barrier /\ copied.tree = first.tree
  /\ before[3] = 1..copied.head /\ copied.tree["queue"] # NoFile

\* Zero bytes without verification; a failing stdout leaves a prefix.
VerifyAndDeliver ==
  /\ point = "verify"
  /\ \/ Verified /\ \E code \in {"DELIVERED", "PREFIX"} : Report(code)
     \/ ~Verified /\ Report("UNVERIFIED")
     \/ copied.tree["queue"] \in EditBytes /\ Report("UNVERIFIED")

ExportStep ==
  \/ BeginExport \/ Probe \/ ListBefore \/ CaptureFile \/ CheckCapture
  \/ ReadBarrierFile("digest barrier", "digest head") \/ ReadHeadFile("digest head", "count")
  \/ CountReceipts
  \/ ReadBarrierFile("copy barrier", "copy head") \/ ReadHeadFile("copy head", "after")
  \/ ListAfter \/ EndAttempt \/ VerifyAndDeliver

\* The writer and the editor, who do not know about exports.
ExportStoreStep == Next /\ UNCHANGED <<reader, instants, export, moment>>

ExportNext == ExportStep \/ ExportStoreStep
ExportSpec == ExportInit /\ [][ExportNext]_exportVars

-----------------------------------------------------------------------------
\* What is delivered is the store of one moment with no commit under way, with
\* exactly the receipts up to its head ("a torn archive is never produced",
\* SPEC 10 C10a), although it was listed and read piece by piece; and it is whole:
\* each receipt comes with its request record and its blobs, and no record alone.
ExportIsOneMoment ==
  outcome \in {"DELIVERED", "PREFIX"} =>
    /\ ~moment.pending /\ moment.receipts = 1..moment.head
    /\ moment.head = copied.head /\ moment.barrier = copied.barrier /\ moment.tree = copied.tree
    /\ moment.receipts = before[3] /\ moment.requests = before[4] /\ moment.evidence = before[2]
    /\ before[4] = {receipts[n].cmd.id : n \in before[3]}
    /\ \A n \in before[3] : receipts[n].blobs \subseteq before[2]

\* The export itself accuses a store in two ways, a count of the receipts
\* (JOURNAL_FORKED of the body) and a staged stream that fails Verify; neither is
\* ever the answer about a store that merely moved, and a stream fails only for a
\* queue that a human wrote.  Of the other damage reports this says nothing: a
\* running transaction's slot is MALFORMED (the run claim_export_moved), and two
\* commits within one probe are its JOURNAL_FORKED (the run claim_forked_read).
CountAndStreamAreFacts ==
  /\ outcome # "RECEIPT_COUNT"
  /\ outcome = "UNVERIFIED" => copied.tree["queue"] # Latest("queue", copied.head)

\* "archive taken while a transaction commits: NOT_RUN/SNAPSHOT_MOVED" (crash
\* matrix C10a, docs/SPEC.md 5.3): a store that no human, error or crash has
\* touched is not reported as malformed or forked.
MovementIsMoved ==
  edits = 0 /\ faults = 0 /\ crashes = 0 => outcome \notin {"MALFORMED", "JOURNAL_FORKED"}
=============================================================================
