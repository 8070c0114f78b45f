----------------------------- MODULE SnapshotReader -----------------------------
(***************************************************************************)
(* The read commands: snapshot.Reader.Read around intent.LoadExpecting, as *)
(* cli.withStore runs them.  A reader takes no lock and reads one file at  *)
(* a time while the writer of FixtureStore and the human editor go on, so  *)
(* it probes the store, reads the intent tree a second time under the      *)
(* digest of the first, probes again and compares.                         *)
(*                                                                         *)
(* A file is replaced by rename, so one read of one file is one step.      *)
(* Equality of contents stands for equality of bytes or of tree digests.   *)
(***************************************************************************)
EXTENDS FixtureStore

CONSTANTS Retries      \* Reader.Retries, 3 when left at its default

ASSUME RetriesAssumption == Retries \in Nat

VARIABLES
  at,         \* where the reader is
  pass,       \* the probe, the body, or the probe after it
  attempt,    \* the attempts that ended with a moved snapshot
  obs,        \* what the current pass has read
  left,       \* listed entries of the intent tree not yet read
  first,      \* what the first probe of this attempt read
  bodyErr,    \* how the body ended
  verdict,    \* how the last read ended; its snapshot is first when it is OK
  instants    \* history: the states the store went through during the read

reader == <<at, pass, attempt, obs, left, first, bodyErr, verdict>>
systemVars == <<vars, reader, instants>>

NoTree == [p \in IntentPath |-> NoFile]
Blank == [head |-> 0, barrier |-> NoFile, tree |-> NoTree]

Snapshot == [head : 0..MaxSeq, barrier : Content, tree : [IntentPath -> Content]]
FaultCodes == {"MALFORMED", "SNAPSHOT_MOVED", "UNINITIALIZED", "UNSUPPORTED_FILESYSTEM"}
Verdict == {"none", "OK", "JOURNAL_FORKED", "REDO_PENDING"} \cup FaultCodes

ReaderTypeOK ==
  /\ at \in {"idle", "head", "slot2", "slot1", "barrier", "root", "releases", "tickets", "read"}
  /\ pass \in {"first", "body", "again"}
  /\ attempt \in 0..Retries
  /\ obs \in Snapshot /\ first \in Snapshot
  /\ left \in SUBSET IntentPath
  /\ bodyErr \in {"none"} \cup FaultCodes
  /\ verdict \in Verdict

-----------------------------------------------------------------------------
IntentTree == [p \in IntentPath |-> file[p]]

\* The store as an observer who stops the world would see it; while a commit
\* is under way only that counts.
Now ==
  IF Pending THEN [head |-> head, barrier |-> NoFile, tree |-> NoTree, pending |-> TRUE]
  ELSE [head |-> head, barrier |-> file["barrier"], tree |-> IntentTree, pending |-> FALSE]

\* The intent tree that receipt n left behind.
CanonTree(n) == [p \in IntentPath |-> Latest(p, n)]

ReaderInit ==
  /\ at = "idle" /\ pass = "first" /\ attempt = 0 /\ obs = Blank /\ left = {}
  /\ first = Blank /\ bodyErr = "none" /\ verdict = "none" /\ instants = {}

Goto(point) == at' = point

\* Read returns: the local state is gone; the snapshot stays with an outcome
\* that speaks of its contents.
Return(code) ==
  /\ verdict' = code /\ Goto("idle")
  /\ pass' = "first" /\ attempt' = 0 /\ obs' = Blank /\ left' = {} /\ bodyErr' = "none"
  /\ first' = IF code \in {"OK", "MALFORMED"} THEN first ELSE Blank

\* Mutant: a body's failure is reported without another probe.
EndBodyUnprobed(code) ==
  IF code = "MALFORMED" THEN Return(code)
  ELSE /\ bodyErr' = code /\ pass' = "again" /\ Goto("head")
       /\ obs' = Blank /\ left' = {}
       /\ UNCHANGED <<attempt, first, verdict>>

\* The body is over: the store is probed again before anything is reported.
EndBody(code) ==
  /\ bodyErr' = code /\ pass' = "again" /\ Goto("head")
  /\ obs' = Blank /\ left' = {}
  /\ UNCHANGED <<attempt, first, verdict>>

\* A probe's error is returned verbatim; the body's waits for the probe.
Fail(code) == IF pass = "body" THEN EndBody(code) ELSE Return(code)

BeginRead ==
  /\ at = "idle"
  /\ Goto("head") /\ verdict' = "none" /\ first' = Blank
  /\ instants' = {Now}
  /\ UNCHANGED <<vars, pass, attempt, obs, left, bodyErr>>

ReadHead ==
  /\ at = "head"
  /\ IF head = 0 THEN Return("UNINITIALIZED")
     ELSE /\ obs' = [obs EXCEPT !.head = head] /\ Goto("slot2")
          /\ UNCHANGED <<pass, attempt, left, first, bodyErr, verdict>>
  /\ UNCHANGED <<vars, instants>>

\* checkSlots looks at the slot after next first: a fork is not a redo.
CheckSecondSlot ==
  /\ at = "slot2"
  /\ IF Present(obs.head + 2) THEN Return("JOURNAL_FORKED")
     ELSE Goto("slot1") /\ UNCHANGED <<pass, attempt, obs, left, first, bodyErr, verdict>>
  /\ UNCHANGED <<vars, instants>>

\* Mutant: the slot of the head itself is taken for the next one.
CheckHeadSlot ==
  /\ at = "slot1"
  /\ IF Present(obs.head) THEN Return("REDO_PENDING")
     ELSE Goto("barrier") /\ UNCHANGED <<pass, attempt, obs, left, first, bodyErr, verdict>>
  /\ UNCHANGED <<vars, instants>>

\* Mutant: the re-probe compares the head and forgets the slot after it.
CheckNextSlotOnce ==
  /\ at = "slot1"
  /\ IF pass = "first" /\ Present(obs.head + 1) THEN Return("REDO_PENDING")
     ELSE Goto("barrier") /\ UNCHANGED <<pass, attempt, obs, left, first, bodyErr, verdict>>
  /\ UNCHANGED <<vars, instants>>

CheckNextSlot ==
  /\ at = "slot1"
  /\ IF Present(obs.head + 1) THEN Return("REDO_PENDING")
     ELSE Goto("barrier") /\ UNCHANGED <<pass, attempt, obs, left, first, bodyErr, verdict>>
  /\ UNCHANGED <<vars, instants>>

\* Mutant: the barrier is read by the first probe only.
ReadBarrierOnce ==
  /\ at = "barrier" /\ Goto("root")
  /\ obs' = IF pass = "first" THEN [obs EXCEPT !.barrier = file["barrier"]] ELSE obs
  /\ UNCHANGED <<vars, instants, pass, attempt, left, first, bodyErr, verdict>>

\* The last receipt, which nothing replaces, and the barrier.
ReadBarrier ==
  /\ at = "barrier"
  /\ obs' = [obs EXCEPT !.barrier = file["barrier"]] /\ Goto("root")
  /\ UNCHANGED <<vars, instants, pass, attempt, left, first, bodyErr, verdict>>

\* TreeDigest, phase 1: one directory at a time is listed.
ListDirectory(point, entries, next) ==
  /\ at = point
  /\ left' = left \cup {p \in entries : file[p] # NoFile} /\ Goto(next)
  /\ UNCHANGED <<vars, instants, pass, attempt, obs, first, bodyErr, verdict>>

\* Phase 2: the listed entries are read; one that has gone is an error.
NextRead == CHOOSE p \in left : \A q \in left : Rank(p) <= Rank(q)

ReadFile ==
  /\ at = "read" /\ left # {}
  /\ IF file[NextRead] = NoFile THEN Fail("UNSUPPORTED_FILESYSTEM")
     ELSE /\ obs' = [obs EXCEPT !.tree[NextRead] = file[NextRead]]
          /\ left' = left \ {NextRead}
          /\ UNCHANGED <<at, pass, attempt, first, bodyErr, verdict>>
  /\ UNCHANGED <<vars, instants>>

TreeRead == at = "read" /\ left = {}

EndFirstProbe ==
  /\ TreeRead /\ pass = "first"
  /\ first' = obs /\ pass' = "body" /\ Goto("root") /\ obs' = Blank
  /\ UNCHANGED <<vars, instants, attempt, left, bodyErr, verdict>>

\* LoadExpecting: another digest is a move; bytes that no receipt computed
\* together may fail to decode.  MALFORMED stands for every decoding error.
Load ==
  /\ TreeRead /\ pass = "body"
  /\ CASE obs.tree # first.tree -> EndBody("SNAPSHOT_MOVED")
       [] obs.tree["queue"] = NoFile \/ obs.tree["policy"] = NoFile -> EndBody("UNINITIALIZED")
       [] OTHER -> \/ EndBody("none")
                   \/ obs.tree # CanonTree(first.head) /\ EndBody("MALFORMED")
  /\ UNCHANGED <<vars, instants>>

Same == obs = first

Retry ==
  /\ pass' = "first" /\ Goto("head")
  /\ obs' = Blank /\ first' = Blank /\ bodyErr' = "none"
  /\ UNCHANGED <<left, verdict>>

\* Mutant: one attempt too many.
EndReadLate ==
  /\ TreeRead /\ pass = "again"
  /\ \/ Same /\ Return(IF bodyErr = "none" THEN "OK" ELSE bodyErr)
     \/ ~Same /\ attempt > Retries /\ Return("SNAPSHOT_MOVED")
     \/ ~Same /\ attempt <= Retries /\ attempt' = attempt + 1 /\ Retry
  /\ UNCHANGED <<vars, instants>>

\* The same snapshot: the body's own outcome is the answer.  Another one: the
\* body's outcome is dropped and the attempt repeated, a limited number of times.
EndRead ==
  /\ TreeRead /\ pass = "again"
  /\ \/ Same /\ Return(IF bodyErr = "none" THEN "OK" ELSE bodyErr)
     \/ ~Same /\ attempt = Retries /\ Return("SNAPSHOT_MOVED")
     \/ ~Same /\ attempt < Retries /\ attempt' = attempt + 1 /\ Retry
  /\ UNCHANGED <<vars, instants>>

ReaderStep ==
  \/ ReadHead \/ CheckSecondSlot \/ CheckNextSlot \/ ReadBarrier
  \/ ListDirectory("root", {"policy", "queue"}, "releases")
  \/ ListDirectory("releases", Releases, "tickets")
  \/ ListDirectory("tickets", Tickets, "read")
  \/ ReadFile \/ EndFirstProbe \/ Load \/ EndRead

\* The writer and the editor, who do not know about readers.
StoreStep ==
  /\ Next
  /\ instants' = IF at = "idle" THEN instants ELSE instants \cup {Now'}
  /\ UNCHANGED reader

SystemInit == Init /\ ReaderInit
SystemNext == BeginRead \/ ReaderStep \/ StoreStep
System == SystemInit /\ [][SystemNext]_systemVars

-----------------------------------------------------------------------------
\* The read returned a snapshot the store was in, settled, at one instant.
Matches(i) ==
  /\ ~i.pending /\ i.head = first.head
  /\ i.barrier = first.barrier /\ i.tree = first.tree

\* "No output ever mixes two snapshots" (TM-V0-008, Reader.Read): head, barrier
\* and all of the intent tree held together, with no commit under way, at one
\* instant of the call, although they were read one after another.
ReadIsAtomic == verdict = "OK" => \E i \in instants : Matches(i)

\* A body that failed on bytes of two transactions is a move, never a fact
\* about the store (the re-probe after a failed body in Reader.Read).
FailureIsAFact == verdict = "MALFORMED" => \E i \in instants : Matches(i) /\ i.tree # CanonTree(i.head)

\* REDO_PENDING, on the first probe or on the re-probe, names a receipt that
\* the head had not reached at some instant of the call (checkSlots).
PendingIsTrue == verdict = "REDO_PENDING" => \E i \in instants : i.pending

\* While nobody writes, a read answers what the store is, on its first
\* attempt: a stable store is never reported as moved, forked or pending
\* when it is not (Reader.Read, "a corrupt store that is stable").
Answer(i) ==
  CASE i.head = 0 -> {"UNINITIALIZED"}
    [] i.head # 0 /\ i.pending -> {"REDO_PENDING"}
    [] OTHER -> IF NoFile \in {i.tree["queue"], i.tree["policy"]} THEN {"UNINITIALIZED"}
                ELSE {"OK"} \cup IF i.tree = CanonTree(i.head) THEN {} ELSE {"MALFORMED"}
QuietReadAnswers ==
  \A i \in instants : verdict # "none" /\ instants = {i} => verdict \in Answer(i)

\* "A read whose snapshot changed while it ran reports NOT_RUN with
\* REDO_PENDING or SNAPSHOT_MOVED" (docs/SPEC.md 3.3): JOURNAL_FORKED, which
\* refuses and asks for a restore, is reported of forked stores only.
ForkedIsAFact == verdict = "JOURNAL_FORKED" => ~ChainOrder
=============================================================================
