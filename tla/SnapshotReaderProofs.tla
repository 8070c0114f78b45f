--------------------------- MODULE SnapshotReaderProofs ---------------------------
(***************************************************************************)
(* A read beside the writer, for every number of transactions, errors,     *)
(* crashes and attempts, while no human edits: what it returns was the     *)
(* store at one instant.  ReaderInv says what each point of the read knows *)
(* of the store: what was read under head h still stands, or receipt h + 1 *)
(* is linked and the re-probe is going to see it.  Local, the reader's own *)
(* state, and Quiet, the read of a store that stands still, hold whatever  *)
(* humans edit.                                                            *)
(***************************************************************************)
EXTENDS SnapshotReader, FixtureStoreProofs

AfterSlots == {"barrier", "root", "releases", "tickets", "read"}

\* The entry's directory was listed in this pass.
Covered(p) ==
  \/ at = "read"
  \/ at = "tickets" /\ p \notin Tickets
  \/ at = "releases" /\ p \in {"policy", "queue"}

\* What was listed was read or is going to be; nothing else was read.
TreeSoFar ==
  \A p \in IntentPath :
    IF Covered(p) THEN p \in left \/ obs.tree[p] = file[p] ELSE obs.tree[p] = NoFile

\* A transaction follows h: no later probe that saw h passes its slot check.
Overtaken(h) == Present(h + 1)

\* The local state at each program point.
Points ==
  /\ at = "idle" => pass = "first" /\ bodyErr = "none"
  /\ at \in {"idle", "head"} => obs = Blank
  /\ at \in {"idle", "head", "slot2", "slot1", "barrier"} => pass # "body"
  /\ at \in {"idle", "head", "slot2", "slot1", "barrier", "root"} => obs.tree = NoTree /\ left = {}

Current == at # "idle" => Now \in instants /\ verdict = "none"

HeadSeen == at \notin {"idle", "head"} /\ pass # "body" => obs.head \in 1..head

Warned == at \in {"slot2", "slot1"} /\ Overtaken(obs.head) => \E i \in instants : i.pending

\* The first probe, once it has passed its slot check.
Probing ==
  pass = "first" /\ at \in AfterSlots =>
    \/ Overtaken(obs.head)
    \/ /\ head = obs.head
       /\ at # "barrier" => obs.barrier = file["barrier"]
       /\ TreeSoFar

\* The completed first probe.
Pinned ==
  pass # "first" =>
    /\ first.head \in 1..head
    /\ \/ Overtaken(first.head)
       \/ head = first.head /\ first.barrier = file["barrier"] /\ first.tree = IntentTree

\* The probe after the body, once it has passed its slot check.
Confirmed ==
  pass = "again" /\ at \in AfterSlots /\ obs.head = first.head => \E i \in instants : Matches(i)

Undecodable == bodyErr = "MALFORMED" => pass = "again" /\ first.tree # CanonTree(first.head)

\* The result of the last read.
Reported ==
  /\ ReadIsAtomic /\ PendingIsTrue
  /\ verdict = "MALFORMED" =>
       /\ first.head \in 1..head /\ first.tree # CanonTree(first.head)
       /\ \E i \in instants : Matches(i)

\* Whatever the humans do.
Local == ReaderTypeOK /\ Points /\ Current

\* While they do nothing.
ReaderInv ==
  /\ HeadSeen /\ Warned
  /\ Probing /\ Pinned /\ Confirmed /\ Undecodable /\ Reported

Safe == Inv /\ Local /\ ReaderInv

-----------------------------------------------------------------------------
(* The reader's own state, beside any store. *)

\* Every step of the system is a step of the store or leaves the store alone.
LEMMA ReadersWriteNothing == [SystemNext]_systemVars => [Next]_vars
BY DEF SystemNext, systemVars, StoreStep, BeginRead, ReaderStep, ReadHead, CheckSecondSlot,
   CheckNextSlot, ReadBarrier, ListDirectory, ReadFile, EndFirstProbe, Load, EndRead

\* The store stands still: everything said about it alone stays true.
LEMMA StillStore ==
  ASSUME UNCHANGED vars
  PROVE  /\ \A h : Overtaken(h)' = Overtaken(h)
         /\ \A n : CanonTree(n)' = CanonTree(n)
         /\ IntentTree' = IntentTree /\ Now' = Now /\ Pending' = Pending
         /\ head' = head /\ file' = file
<1>1. receipts' = receipts /\ head' = head /\ file' = file
  BY DEF vars
<1> QED BY <1>1 DEF Overtaken, Present, CanonTree, Latest, Writers, IntentTree, Now, NoTree, Pending

\* The blank snapshot of a pass that has read nothing.
LEMMA BlankTyped == Blank \in Snapshot /\ Blank.tree = NoTree /\ Blank.head = 0
BY ConstantsAssumption DEF Blank, Snapshot, NoTree, Content

\* The entry that is read next is a listed one.
LEMMA NextReadListed ==
  ASSUME left # {}, left \in SUBSET IntentPath
  PROVE  NextRead \in left
<1>1. \E p \in left : \A q \in left : Rank(p) <= Rank(q)
  BY LeastRank
<1> QED BY <1>1 DEF NextRead

\* Beside any store and any editor, the reader's own state is one its code can be in.
LEMMA LocalInv ==
  ASSUME TypeOK, Local, [SystemNext]_systemVars
  PROVE  Local'
<1> USE DEF Local
<1>1. CASE BeginRead
  BY <1>1, BlankTyped, StillStore DEF BeginRead, Goto, ReaderTypeOK, Points, Current, Verdict
<1>2. ASSUME UNCHANGED <<vars, instants>>, NEW code \in Verdict \ {"none"}, Return(code) PROVE Local'
  BY <1>2, BlankTyped, RetriesAssumption DEF Return, Goto, ReaderTypeOK, Points, Current
<1>3. ASSUME UNCHANGED <<vars, instants>>, at # "idle", NEW code \in {"none"} \cup FaultCodes, EndBody(code)
      PROVE  Local'
  BY <1>3, BlankTyped, StillStore DEF EndBody, Goto, ReaderTypeOK, Points, Current
<1>4. CASE ReadHead
  <2>1. CASE head = 0
    BY <1>2, <1>4, <2>1 DEF ReadHead, Verdict, FaultCodes
  <2>2. CASE head # 0
    <3>1. /\ obs' = [obs EXCEPT !.head = head] /\ obs' \in Snapshot /\ obs'.tree = obs.tree
      BY <1>4, <2>2 DEF ReadHead, ReaderTypeOK, TypeOK, Snapshot
    <3> QED BY <1>4, <2>2, <3>1, StillStore DEF ReadHead, Goto, ReaderTypeOK, Points, Current
  <2> QED BY <2>1, <2>2
<1>5. CASE CheckSecondSlot
  <2>1. CASE Present(obs.head + 2)
    BY <1>2, <1>5, <2>1 DEF CheckSecondSlot, Verdict
  <2>2. CASE ~Present(obs.head + 2)
    BY <1>5, <2>2, StillStore DEF CheckSecondSlot, Goto, ReaderTypeOK, Points, Current
  <2> QED BY <2>1, <2>2
<1>6. CASE CheckNextSlot
  <2>1. CASE Present(obs.head + 1)
    BY <1>2, <1>6, <2>1 DEF CheckNextSlot, Verdict
  <2>2. CASE ~Present(obs.head + 1)
    BY <1>6, <2>2, StillStore DEF CheckNextSlot, Goto, ReaderTypeOK, Points, Current
  <2> QED BY <2>1, <2>2
<1>7. CASE ReadBarrier
  <2>1. obs' \in Snapshot /\ obs'.tree = obs.tree
    BY <1>7 DEF ReadBarrier, ReaderTypeOK, TypeOK, Snapshot, Path
  <2> QED BY <1>7, <2>1, StillStore DEF ReadBarrier, Goto, ReaderTypeOK, Points, Current
<1>8. ASSUME NEW point, NEW entries \in SUBSET IntentPath, NEW next,
             \/ point = "root" /\ next = "releases"
             \/ point = "releases" /\ next = "tickets"
             \/ point = "tickets" /\ next = "read",
             ListDirectory(point, entries, next)
      PROVE  Local'
  BY <1>8, StillStore DEF ListDirectory, Goto, ReaderTypeOK, Points, Current
<1>9. {"policy", "queue"} \in SUBSET IntentPath /\ Releases \in SUBSET IntentPath /\ Tickets \in SUBSET IntentPath
  BY DEF IntentPath, Records
<1>10. CASE ReadFile
  <2>1. CASE file[NextRead] = NoFile
    BY <1>2, <1>3, <1>10, <2>1 DEF ReadFile, Fail, Verdict, FaultCodes
  <2>2. CASE file[NextRead] # NoFile
    <3> DEFINE p == NextRead
    <3>1. p \in IntentPath
      BY <1>10, NextReadListed DEF ReadFile, ReaderTypeOK
    <3>2. /\ obs' = [obs EXCEPT !.tree[p] = file[p]] /\ left' = left \ {p}
          /\ at = "read" /\ UNCHANGED <<vars, instants, at, pass, attempt, first, bodyErr, verdict>>
      BY <1>10, <2>2 DEF ReadFile
    <3> HIDE DEF p
    <3>3. obs' \in Snapshot
      BY <3>1, <3>2 DEF ReaderTypeOK, TypeOK, Snapshot, Path
    <3> QED BY <3>2, <3>3, StillStore DEF ReaderTypeOK, Points, Current
  <2> QED BY <2>1, <2>2
<1>11. CASE EndFirstProbe
  BY <1>11, BlankTyped, StillStore DEF EndFirstProbe, TreeRead, Goto, ReaderTypeOK, Points, Current
<1>12. CASE Load
  <2>1. \E code \in {"none", "SNAPSHOT_MOVED", "UNINITIALIZED", "MALFORMED"} : EndBody(code)
    BY <1>12 DEF Load
  <2> QED BY <1>3, <1>12, <2>1 DEF Load, TreeRead, FaultCodes
<1>13. CASE EndRead
  <2>1. CASE Return(IF bodyErr = "none" THEN "OK" ELSE bodyErr)
    BY <1>2, <1>13, <2>1 DEF EndRead, ReaderTypeOK, Verdict, FaultCodes
  <2>2. CASE Return("SNAPSHOT_MOVED")
    BY <1>2, <1>13, <2>2 DEF EndRead, Verdict, FaultCodes
  <2>3. CASE attempt < Retries /\ attempt' = attempt + 1 /\ Retry
    BY <1>13, <2>3, BlankTyped, StillStore, RetriesAssumption
       DEF EndRead, TreeRead, Retry, Goto, ReaderTypeOK, Points, Current
  <2> QED BY <1>13, <2>1, <2>2, <2>3 DEF EndRead
<1>14. CASE StoreStep \/ UNCHANGED systemVars
  <2>1. UNCHANGED reader /\ instants \subseteq instants'
    BY <1>14 DEF StoreStep, systemVars
  <2>2. at # "idle" => Now' \in instants'
    BY <1>14, StillStore DEF StoreStep, systemVars, Current
  <2> QED BY <2>1, <2>2 DEF reader, ReaderTypeOK, Points, Current
<1> QED
  BY <1>1, <1>4, <1>5, <1>6, <1>7, <1>8, <1>9, <1>10, <1>11, <1>12, <1>13, <1>14
     DEF SystemNext, ReaderStep

\* Listing a directory leaves everything read as it was and covers its files.
LEMMA ListedSoFar ==
  ASSUME NEW point, NEW entries \in SUBSET IntentPath, NEW next,
         \/ point = "root" /\ entries = {"policy", "queue"} /\ next = "releases"
         \/ point = "releases" /\ entries = Releases /\ next = "tickets"
         \/ point = "tickets" /\ entries = Tickets /\ next = "read",
         ListDirectory(point, entries, next), TreeSoFar
  PROVE  TreeSoFar'
<1>1. /\ at = point /\ at' = next /\ left' = left \cup {p \in entries : file[p] # NoFile}
      /\ UNCHANGED <<vars, obs>>
  BY DEF ListDirectory, Goto
<1> SUFFICES ASSUME NEW p \in IntentPath
             PROVE  IF Covered(p)' THEN p \in left' \/ obs.tree[p] = file[p] ELSE obs.tree[p] = NoFile
  BY <1>1, StillStore DEF TreeSoFar
<1>2. Covered(p)' <=> Covered(p) \/ p \in entries
  BY <1>1, ConstantsAssumption DEF Covered, IntentPath, Records
<1>3. p \in entries => p \in left' \/ file[p] = NoFile
  BY <1>1
<1> QED BY <1>1, <1>2, <1>3, ConstantsAssumption DEF TreeSoFar, Covered, IntentPath, Records

\* Once nothing listed is left to read, the whole tree has been read.
LEMMA WholeTree ==
  ASSUME at = "read", left = {}, TreeSoFar, obs \in Snapshot
  PROVE  obs.tree = IntentTree
BY DEF TreeSoFar, Covered, IntentTree, Snapshot

-----------------------------------------------------------------------------
(* What a step of the store may do to the files a reader looks at. *)

\* A receipt is linked only next to the head and never changes; the head and,
\* but for the humans, the projections move only while it is there.
LEMMA StoreFrame ==
  ASSUME Inv, [Next]_vars
  PROVE  /\ \A n \in 1..MaxSeq : Present(n) => receipts'[n] = receipts[n]
         /\ \A n \in 1..MaxSeq : Present(n)' /\ ~Present(n) => n = head + 1 /\ head' = head
         /\ head' = head \/ (head' = head + 1 /\ Present(head + 1))
         /\ MaxEdits = 0 => file' = file \/ Present(head + 1)
<1>1. CASE LinkReceipt
  BY <1>1 DEF LinkReceipt, Present, Inv, TypeOK
<1>2. CASE PublishHead
  BY <1>2 DEF PublishHead, Present, Inv, Session, Underway, AfterLink
<1>3. CASE LinkPost \/ RenamePost \/ DeleteBarrier
  <2>1. Present(head + 1)
    BY <1>3 DEF LinkPost, RenamePost, DeleteBarrier, Inv, Session, Underway, AfterLink
  <2>2. UNCHANGED <<receipts, head>>
    BY <1>3 DEF LinkPost, RenamePost, DeleteBarrier
  <2> QED BY <2>1, <2>2 DEF Present
<1>4. CASE \E q \in IntentPath : Edit(q)
  BY <1>4, ConstantsAssumption DEF Edit, Inv, TypeOK, Present
<1>5. CASE UNCHANGED <<receipts, head, file>>
  BY <1>5 DEF Present
<1>6. \/ LinkReceipt \/ PublishHead \/ LinkPost \/ RenamePost \/ DeleteBarrier
      \/ \E q \in IntentPath : Edit(q)
      \/ UNCHANGED <<receipts, head, file>>
  BY DEF Next, Holder, vars, disk, BeginInit, MakeDirectories, Begin, Mutate, PolicyUpdate, Barrier, Reconcile, Fresh, Replay,
     StartRedo, Resume, StageEvidence, LinkEvidence, StageReceipt, SkipPost,
     StagePost, RefusePost, VerifyPost, PostsDone, StageHead, Finish, Abort, Fault, Crash
<1> QED BY <1>1, <1>2, <1>3, <1>4, <1>5, <1>6

\* The content a settled head stands for is never computed again differently.
LEMMA CanonTreeFrame ==
  ASSUME Inv, [Next]_vars, NEW n \in 1..head
  PROVE  CanonTree(n)' = CanonTree(n)
<1>1. \A i \in 1..n : receipts'[i] = receipts[i]
  <2>1. head \in 0..MaxSeq /\ MaxSeq \in Nat
    BY ConstantsAssumption DEF Inv, TypeOK
  <2>2. \A i \in 1..n : i \in 1..MaxSeq /\ i <= head
    BY <2>1
  <2>3. \A i \in 1..n : Present(i)
    BY <2>2 DEF Inv, Journal, Chain, ChainOrder
  <2> QED BY <2>2, <2>3, StoreFrame
<1>2. \A p : Latest(p, n)' = Latest(p, n)
  BY <1>1, LatestFrame
<1> QED BY <1>2 DEF CanonTree

\* A receipt beyond the head, or a settled head: every head that was read
\* earlier is overtaken or still current.
LEMMA HeadStands ==
  ASSUME Inv, NEW h \in 1..head, ~Overtaken(h)
  PROVE  head = h /\ ~Pending
<1>1. head \in 0..MaxSeq /\ h \in Nat
  BY ConstantsAssumption DEF Inv, TypeOK
<1>2. h + 1 <= head => Present(h + 1)
  BY <1>1, ConstantsAssumption DEF Inv, TypeOK, Journal, Chain, ChainOrder
<1> QED BY <1>1, <1>2 DEF Overtaken, Pending

-----------------------------------------------------------------------------
(* The reader's invariant through the steps of the others and its own. *)

\* Whatever the writer does, what was read either still stands or is overtaken.
LEMMA StoreMoves ==
  ASSUME Safe, MaxEdits = 0, [Next]_vars, UNCHANGED reader,
         instants \subseteq instants', at # "idle" => Now' \in instants'
  PROVE  ReaderInv'
<1> USE DEF Safe, Local, ReaderInv
<1>1. /\ head \in 0..MaxSeq /\ head' \in Nat /\ head <= head' /\ MaxSeq \in Nat
      /\ 1..head \subseteq 1..head'
  BY StoreFrame, ConstantsAssumption DEF Inv, TypeOK
<1>2. \A h \in 1..head : Overtaken(h) => Overtaken(h)'
  <2>1. \A n \in 1..MaxSeq : Present(n) => Present(n)'
    BY StoreFrame DEF Present
  <2> QED BY <2>1 DEF Overtaken, Present
<1>3. ASSUME NEW h \in 1..head, ~Overtaken(h)'
      PROVE  head = h /\ ~Pending /\ head' = head /\ file' = file
  <2>1. head = h /\ ~Pending
    BY <1>2, <1>3, HeadStands
  <2> QED BY <2>1, StoreFrame DEF Pending
<1>4. (\E i \in instants : Matches(i)) => (\E i \in instants : Matches(i))'
  BY DEF Matches, reader
<1>5. HeadSeen'
  BY <1>1 DEF reader, HeadSeen
<1>6. Warned'
  <2> SUFFICES ASSUME at \in {"slot2", "slot1"}, Overtaken(obs.head)' PROVE \E i \in instants' : i.pending
    BY DEF Warned, reader, Overtaken
  <2>1. obs.head \in 1..head
    BY DEF HeadSeen, Points
  <2>2. CASE Overtaken(obs.head)
    BY <2>2 DEF Warned
  <2>3. CASE ~Overtaken(obs.head)
    <3>1. obs.head = head /\ ~Present(head + 1)
      BY <2>1, <2>3, HeadStands DEF Pending
    <3>2. head + 1 \in 1..MaxSeq /\ Present(head + 1)'
      BY <1>1, <3>1, StoreFrame DEF Overtaken, Present, reader
    <3>3. head' = head
      BY <3>1, StoreFrame
    <3>4. Pending'
      BY <3>2, <3>3 DEF Pending, Present
    <3>5. Now' \in instants' /\ Now'.pending
      BY <3>4 DEF Now
    <3> QED BY <3>5
  <2> QED BY <2>2, <2>3
<1>7. Probing'
  <2> SUFFICES ASSUME pass = "first", at \in AfterSlots, ~Overtaken(obs.head)'
               PROVE  head' = obs.head /\ (at # "barrier" => obs.barrier = file'["barrier"]) /\ TreeSoFar'
    BY DEF Probing, reader, Overtaken
  <2>1. obs.head \in 1..head
    BY DEF HeadSeen, AfterSlots
  <2>2. ~Overtaken(obs.head) /\ head' = head /\ file' = file
    BY <1>2, <1>3, <2>1 DEF reader, Overtaken
  <2> QED BY <2>2 DEF Probing, TreeSoFar, Covered, reader
<1>8. Pinned'
  <2> SUFFICES ASSUME pass # "first"
               PROVE  /\ first.head \in 1..head'
                      /\ \/ Overtaken(first.head)'
                         \/ head' = first.head /\ first.barrier = file'["barrier"] /\ first.tree = IntentTree'
    BY DEF Pinned, reader, Overtaken
  <2>1. first.head \in 1..head
    BY DEF Pinned
  <2>2. CASE ~Overtaken(first.head)'
    <3>1. ~Overtaken(first.head) /\ head' = head /\ file' = file
      BY <1>2, <1>3, <2>1, <2>2 DEF reader, Overtaken
    <3> QED BY <1>1, <2>1, <3>1 DEF Pinned, IntentTree
  <2> QED BY <1>1, <2>1, <2>2
<1>9. Confirmed'
  BY <1>4 DEF Confirmed, reader
<1>10. Undecodable'
  BY CanonTreeFrame DEF Undecodable, Pinned, reader
<1>11. Reported'
  <2>1. ReadIsAtomic' /\ PendingIsTrue'
    BY <1>4 DEF Reported, ReadIsAtomic, PendingIsTrue, reader
  <2> QED BY <1>1, <1>4, <2>1, CanonTreeFrame DEF Reported, reader
<1> QED BY <1>5, <1>6, <1>7, <1>8, <1>9, <1>10, <1>11

\* A read returns what it has evidence for.
LEMMA ReturnInv ==
  ASSUME Safe, UNCHANGED <<vars, instants>>, NEW code \in Verdict \ {"none"}, Return(code),
         code = "OK" => \E i \in instants : Matches(i),
         code = "REDO_PENDING" => \E i \in instants : i.pending,
         code = "MALFORMED" => /\ first.head \in 1..head /\ first.tree # CanonTree(first.head)
                               /\ \E i \in instants : Matches(i)
  PROVE  ReaderInv'
<1> USE DEF Safe, Local, ReaderInv
<1>1. /\ at' = "idle" /\ pass' = "first" /\ attempt' = 0 /\ obs' = Blank /\ left' = {}
      /\ bodyErr' = "none" /\ verdict' = code /\ instants' = instants
      /\ code \in {"OK", "MALFORMED"} => first' = first
      /\ first' \in {first, Blank}
  BY DEF Return, Goto
<1>2. Blank \in Snapshot /\ Blank.tree = NoTree
  BY BlankTyped
<1>3. HeadSeen' /\ Warned'
  BY <1>1, <1>2 DEF HeadSeen, Warned
<1>4. Probing' /\ Pinned' /\ Confirmed' /\ Undecodable'
  BY <1>1 DEF Probing, Pinned, Confirmed, Undecodable, AfterSlots
<1>5. Reported'
  BY <1>1, StillStore DEF Reported, ReadIsAtomic, PendingIsTrue, Matches
<1> QED BY <1>3, <1>4, <1>5

\* The body ends; what the first probe read is kept for the comparison.
LEMMA EndBodyInv ==
  ASSUME Safe, UNCHANGED <<vars, instants>>, NEW code \in {"none"} \cup FaultCodes, EndBody(code),
         at # "idle", pass = "body",
         code = "MALFORMED" => first.tree # CanonTree(first.head)
  PROVE  ReaderInv'
<1> USE DEF Safe, Local, ReaderInv
<1>1. /\ at' = "head" /\ pass' = "again" /\ obs' = Blank /\ left' = {} /\ bodyErr' = code
      /\ UNCHANGED <<attempt, first, verdict, instants>>
  BY DEF EndBody, Goto
<1>2. Blank \in Snapshot /\ Blank.tree = NoTree
  BY BlankTyped
<1>3. HeadSeen' /\ Warned'
  BY <1>1, <1>2, StillStore DEF HeadSeen, Warned
<1>4. Probing' /\ Confirmed'
  BY <1>1 DEF Probing, Confirmed, AfterSlots
<1>5. Pinned' /\ Undecodable'
  BY <1>1, StillStore DEF Pinned, Undecodable
<1>6. Reported'
  BY <1>1, StillStore DEF Reported, ReadIsAtomic, PendingIsTrue, Matches, Current
<1> QED BY <1>3, <1>4, <1>5, <1>6

\* A new read starts from one instant of the store.
LEMMA BeginReadInv == Safe /\ BeginRead => ReaderInv'
<1> SUFFICES ASSUME Safe, BeginRead PROVE ReaderInv'
  OBVIOUS
<1> USE DEF Safe, Local, ReaderInv
<1>1. /\ at = "idle" /\ at' = "head" /\ verdict' = "none" /\ first' = Blank /\ instants' = {Now}
      /\ UNCHANGED <<vars, pass, attempt, obs, left, bodyErr>>
  BY DEF BeginRead, Goto
<1>2. Blank \in Snapshot
  BY BlankTyped
<1>3. HeadSeen' /\ Warned'
  BY <1>1, StillStore DEF HeadSeen, Warned
<1>4. Probing' /\ Pinned' /\ Confirmed' /\ Undecodable'
  BY <1>1 DEF Points, Probing, Pinned, Confirmed, Undecodable, AfterSlots
<1>5. Reported'
  BY <1>1 DEF Reported, ReadIsAtomic, PendingIsTrue
<1> QED BY <1>3, <1>4, <1>5

\* The head is read; if a receipt is beyond it, it is pending at this instant.
LEMMA ReadHeadInv == Safe /\ ReadHead => ReaderInv'
<1> SUFFICES ASSUME Safe, ReadHead PROVE ReaderInv'
  OBVIOUS
<1> USE DEF Safe, Local, ReaderInv
<1>1. CASE head = 0
  <2>1. Return("UNINITIALIZED") /\ UNCHANGED <<vars, instants>>
    BY <1>1 DEF ReadHead
  <2> QED BY <2>1, ReturnInv DEF Verdict, FaultCodes
<1>2. CASE head # 0
  <2>1. /\ at = "head" /\ at' = "slot2" /\ obs' = [obs EXCEPT !.head = head]
        /\ UNCHANGED <<vars, instants, pass, attempt, left, first, bodyErr, verdict>>
    BY <1>2 DEF ReadHead, Goto
  <2>2. head \in 1..MaxSeq /\ obs'.head = head /\ obs'.tree = obs.tree /\ obs' \in Snapshot
    BY <1>2, <2>1, ConstantsAssumption DEF Inv, TypeOK, ReaderTypeOK, Snapshot
  <2>3. HeadSeen'
    BY <2>1, <2>2, StillStore DEF HeadSeen
  <2>4. Warned'
    <3>1. Now \in instants
      BY <2>1 DEF Current
    <3>2. Overtaken(head) => Now.pending
      BY DEF Overtaken, Now, Pending
    <3> QED BY <2>1, <2>2, <3>1, <3>2, StillStore DEF Warned
  <2>5. Probing' /\ Pinned' /\ Confirmed' /\ Undecodable'
    BY <2>1, StillStore DEF Probing, Pinned, Confirmed, Undecodable, AfterSlots
  <2>6. Reported'
    BY <2>1, StillStore DEF Reported, ReadIsAtomic, PendingIsTrue, Matches, Current
  <2> QED BY <2>3, <2>4, <2>5, <2>6
<1> QED BY <1>1, <1>2

\* The slot after next is free.
LEMMA CheckSecondSlotInv == Safe /\ CheckSecondSlot => ReaderInv'
<1> SUFFICES ASSUME Safe, CheckSecondSlot PROVE ReaderInv'
  OBVIOUS
<1> USE DEF Safe, Local, ReaderInv
<1>1. CASE Present(obs.head + 2)
  <2>1. Return("JOURNAL_FORKED") /\ UNCHANGED <<vars, instants>>
    BY <1>1 DEF CheckSecondSlot
  <2> QED BY <2>1, ReturnInv DEF Verdict
<1>2. CASE ~Present(obs.head + 2)
  <2>1. /\ at = "slot2" /\ at' = "slot1"
        /\ UNCHANGED <<vars, instants, pass, attempt, obs, left, first, bodyErr, verdict>>
    BY <1>2 DEF CheckSecondSlot, Goto
  <2>2. HeadSeen' /\ Warned'
    BY <2>1, StillStore DEF HeadSeen, Warned
  <2>3. Probing' /\ Pinned' /\ Confirmed' /\ Undecodable'
    BY <2>1, StillStore DEF Probing, Pinned, Confirmed, Undecodable, AfterSlots
  <2>4. Reported'
    BY <2>1, StillStore DEF Reported, ReadIsAtomic, PendingIsTrue, Matches, Current
  <2> QED BY <2>2, <2>3, <2>4
<1> QED BY <1>1, <1>2

\* The next slot is free: the head that was read is the head now, and if it is
\* the first probe's head, the store is what the first probe read.
LEMMA CheckNextSlotInv == Safe /\ CheckNextSlot => ReaderInv'
<1> SUFFICES ASSUME Safe, CheckNextSlot PROVE ReaderInv'
  OBVIOUS
<1> USE DEF Safe, Local, ReaderInv
<1>1. CASE Present(obs.head + 1)
  <2>1. Return("REDO_PENDING") /\ UNCHANGED <<vars, instants>> /\ at = "slot1"
    BY <1>1 DEF CheckNextSlot
  <2>2. \E i \in instants : i.pending
    BY <1>1, <2>1 DEF Warned, Overtaken
  <2> QED BY <2>1, <2>2, ReturnInv DEF Verdict
<1>2. CASE ~Present(obs.head + 1)
  <2>1. /\ at = "slot1" /\ at' = "barrier"
        /\ UNCHANGED <<vars, instants, pass, attempt, obs, left, first, bodyErr, verdict>>
    BY <1>2 DEF CheckNextSlot, Goto
  <2>2. pass # "body" /\ obs.tree = NoTree /\ left = {}
    BY <2>1 DEF Points
  <2>3. obs.head \in 1..head /\ ~Overtaken(obs.head)
    BY <1>2, <2>1, <2>2 DEF HeadSeen, Overtaken
  <2>4. head = obs.head /\ ~Pending
    BY <2>3, HeadStands
  <2>5. HeadSeen' /\ Warned'
    BY <2>1, StillStore DEF HeadSeen, Warned
  <2>6. Probing'
    <3>1. TreeSoFar'
      BY <2>1, <2>2 DEF TreeSoFar, Covered, NoTree
    <3> QED BY <2>1, <2>4, <3>1, StillStore DEF Probing
  <2>7. Pinned' /\ Undecodable'
    BY <2>1, StillStore DEF Pinned, Undecodable
  <2>8. Confirmed'
    <3> SUFFICES ASSUME pass = "again", obs.head = first.head PROVE \E i \in instants : Matches(i)
      BY <2>1 DEF Confirmed, Matches
    <3>1. head = first.head /\ first.barrier = file["barrier"] /\ first.tree = IntentTree
      BY <2>3, <2>4 DEF Pinned
    <3>2. Now \in instants
      BY <2>1 DEF Current
    <3>3. Matches(Now)
      BY <2>4, <3>1 DEF Matches, Now
    <3> QED BY <3>2, <3>3
  <2>9. Reported'
    BY <2>1, StillStore DEF Reported, ReadIsAtomic, PendingIsTrue, Matches, Current
  <2> QED BY <2>5, <2>6, <2>7, <2>8, <2>9
<1> QED BY <1>1, <1>2

\* The barrier is read under a head that stands, or is overtaken.
LEMMA ReadBarrierInv == Safe /\ ReadBarrier => ReaderInv'
<1> SUFFICES ASSUME Safe, ReadBarrier PROVE ReaderInv'
  OBVIOUS
<1> USE DEF Safe, Local, ReaderInv
<1>1. /\ at = "barrier" /\ at' = "root" /\ obs' = [obs EXCEPT !.barrier = file["barrier"]]
      /\ UNCHANGED <<vars, instants, pass, attempt, left, first, bodyErr, verdict>>
  BY DEF ReadBarrier, Goto
<1>2. /\ obs'.head = obs.head /\ obs'.tree = obs.tree /\ obs'.barrier = file["barrier"]
      /\ obs' \in Snapshot
  BY <1>1 DEF ReaderTypeOK, Snapshot, Inv, TypeOK, Path
<1>3. HeadSeen' /\ Warned'
  BY <1>1, <1>2, StillStore DEF HeadSeen, Warned
<1>4. Probing'
  <2>1. TreeSoFar'
    BY <1>1, <1>2 DEF TreeSoFar, Covered, NoTree, Points
  <2> QED BY <1>1, <1>2, <2>1, StillStore DEF Probing, AfterSlots
<1>5. Pinned' /\ Confirmed' /\ Undecodable'
  BY <1>1, <1>2, StillStore DEF Pinned, Confirmed, Undecodable, AfterSlots, Matches
<1>6. Reported'
  BY <1>1, StillStore DEF Reported, ReadIsAtomic, PendingIsTrue, Matches, Current
<1> QED BY <1>3, <1>4, <1>5, <1>6

\* A directory is listed: its files, and only they, wait to be read.
LEMMA ListDirectoryInv ==
  ASSUME Safe, NEW point, NEW entries \in SUBSET IntentPath, NEW next,
         \/ point = "root" /\ entries = {"policy", "queue"} /\ next = "releases"
         \/ point = "releases" /\ entries = Releases /\ next = "tickets"
         \/ point = "tickets" /\ entries = Tickets /\ next = "read",
         ListDirectory(point, entries, next)
  PROVE  ReaderInv'
<1> USE DEF Safe, Local, ReaderInv
<1>1. /\ at = point /\ at' = next /\ left' = left \cup {p \in entries : file[p] # NoFile}
      /\ UNCHANGED <<vars, instants, pass, attempt, obs, first, bodyErr, verdict>>
  BY DEF ListDirectory, Goto
<1>2. HeadSeen' /\ Warned'
  BY <1>1, StillStore DEF HeadSeen, Warned
<1>3. TreeSoFar => TreeSoFar'
  BY ListedSoFar
<1>4. Probing'
  BY <1>1, <1>3, StillStore DEF Probing, AfterSlots
<1>5. Pinned' /\ Confirmed' /\ Undecodable'
  BY <1>1, StillStore DEF Pinned, Confirmed, Undecodable, AfterSlots, Matches
<1>6. Reported'
  BY <1>1, StillStore DEF Reported, ReadIsAtomic, PendingIsTrue, Matches, Current
<1> QED BY <1>2, <1>4, <1>5, <1>6

\* One listed file is read; a failure in the body waits for the next probe.
LEMMA ReadFileInv == Safe /\ ReadFile => ReaderInv'
<1> SUFFICES ASSUME Safe, ReadFile PROVE ReaderInv'
  OBVIOUS
<1> USE DEF Safe, Local, ReaderInv
<1>1. at = "read" /\ left # {} /\ UNCHANGED <<vars, instants>>
  BY DEF ReadFile
<1>2. CASE file[NextRead] = NoFile
  <2>1. CASE pass = "body"
    <3>1. EndBody("UNSUPPORTED_FILESYSTEM")
      BY <1>2, <2>1 DEF ReadFile, Fail
    <3> QED BY <1>1, <2>1, <3>1, EndBodyInv DEF FaultCodes
  <2>2. CASE pass # "body"
    <3>1. Return("UNSUPPORTED_FILESYSTEM")
      BY <1>2, <2>2 DEF ReadFile, Fail
    <3> QED BY <1>1, <3>1, ReturnInv DEF Verdict, FaultCodes
  <2> QED BY <2>1, <2>2
<1>3. CASE file[NextRead] # NoFile
  <2> DEFINE p == NextRead
  <2>1. /\ obs' = [obs EXCEPT !.tree[p] = file[p]] /\ left' = left \ {p}
        /\ UNCHANGED <<at, pass, attempt, first, bodyErr, verdict>>
    BY <1>3 DEF ReadFile
  <2>2. p \in left
    BY <1>1, NextReadListed DEF ReaderTypeOK
  <2> HIDE DEF p
  <2>3. p \in IntentPath /\ obs \in Snapshot /\ file[p] \in Content
    BY <2>2 DEF ReaderTypeOK, Inv, TypeOK, Path
  <2>4. /\ obs'.head = obs.head /\ obs'.barrier = obs.barrier /\ obs' \in Snapshot
        /\ obs'.tree = [obs.tree EXCEPT ![p] = file[p]]
    BY <2>1, <2>3 DEF Snapshot
  <2>5. HeadSeen' /\ Warned'
    BY <1>1, <2>1, <2>4, StillStore DEF HeadSeen, Warned
  <2>6. Probing'
    <3>1. TreeSoFar => TreeSoFar'
      BY <1>1, <2>1, <2>3, <2>4, StillStore DEF TreeSoFar, Covered, Snapshot
    <3> QED BY <1>1, <2>1, <2>4, <3>1, StillStore DEF Probing
  <2>7. Pinned' /\ Confirmed' /\ Undecodable'
    BY <1>1, <2>1, <2>4, StillStore DEF Pinned, Confirmed, Undecodable, AfterSlots, Matches
  <2>8. Reported'
    BY <1>1, <2>1, StillStore DEF Reported, ReadIsAtomic, PendingIsTrue, Matches, Current
  <2> QED BY <2>5, <2>6, <2>7, <2>8
<1> QED BY <1>2, <1>3

\* The first probe is complete: it is what the store holds, or overtaken.
LEMMA EndFirstProbeInv == Safe /\ EndFirstProbe => ReaderInv'
<1> SUFFICES ASSUME Safe, EndFirstProbe PROVE ReaderInv'
  OBVIOUS
<1> USE DEF Safe, Local, ReaderInv
<1>1. /\ at = "read" /\ left = {} /\ pass = "first"
      /\ first' = obs /\ pass' = "body" /\ at' = "root" /\ obs' = Blank
      /\ UNCHANGED <<vars, instants, attempt, left, bodyErr, verdict>>
  BY DEF EndFirstProbe, TreeRead, Goto
<1>2. Blank \in Snapshot /\ Blank.tree = NoTree
  BY BlankTyped
<1>3. HeadSeen' /\ Warned'
  BY <1>1, StillStore DEF HeadSeen, Warned
<1>4. Pinned'
  <2>1. obs.head \in 1..head
    BY <1>1 DEF HeadSeen
  <2>2. CASE Overtaken(obs.head)
    BY <1>1, <2>1, <2>2, StillStore DEF Pinned
  <2>3. CASE ~Overtaken(obs.head)
    <3>1. head = obs.head /\ obs.barrier = file["barrier"] /\ TreeSoFar
      BY <1>1, <2>3 DEF Probing, AfterSlots
    <3>2. obs.tree = IntentTree
      BY <1>1, <3>1, WholeTree DEF ReaderTypeOK
    <3> QED BY <1>1, <2>1, <3>1, <3>2, StillStore DEF Pinned
  <2> QED BY <2>2, <2>3
<1>5. Probing' /\ Confirmed' /\ Undecodable'
  BY <1>1 DEF Probing, Confirmed, Undecodable
<1>6. Reported'
  BY <1>1 DEF Reported, ReadIsAtomic, PendingIsTrue, Current
<1> QED BY <1>3, <1>4, <1>5, <1>6

\* The body ends; it calls MALFORMED only bytes no receipt computed together.
LEMMA LoadInv == Safe /\ Load => ReaderInv'
<1> SUFFICES ASSUME Safe, Load PROVE ReaderInv'
  OBVIOUS
<1>1. at = "read" /\ pass = "body" /\ UNCHANGED <<vars, instants>>
  BY DEF Load, TreeRead
<1>2. CASE EndBody("SNAPSHOT_MOVED") \/ EndBody("UNINITIALIZED") \/ EndBody("none")
  BY <1>1, <1>2, EndBodyInv DEF FaultCodes
<1>3. CASE EndBody("MALFORMED") /\ first.tree # CanonTree(first.head)
  BY <1>1, <1>3, EndBodyInv DEF FaultCodes
<1>4. \/ EndBody("SNAPSHOT_MOVED") \/ EndBody("UNINITIALIZED") \/ EndBody("none")
      \/ EndBody("MALFORMED") /\ first.tree # CanonTree(first.head)
  BY DEF Load
<1> QED BY <1>2, <1>3, <1>4

\* The comparison: the same snapshot was confirmed at the second slot check.
LEMMA EndReadInv == Safe /\ EndRead => ReaderInv'
<1> SUFFICES ASSUME Safe, EndRead PROVE ReaderInv'
  OBVIOUS
<1> USE DEF Safe, Local, ReaderInv
<1>1. at = "read" /\ pass = "again" /\ UNCHANGED <<vars, instants>>
  BY DEF EndRead, TreeRead
<1>2. CASE Same /\ Return(IF bodyErr = "none" THEN "OK" ELSE bodyErr)
  <2>1. \E i \in instants : Matches(i)
    BY <1>1, <1>2 DEF Same, Confirmed, AfterSlots
  <2>2. first.head \in 1..head
    BY <1>1 DEF Pinned
  <2>3. CASE bodyErr = "none"
    BY <1>1, <1>2, <2>1, <2>3, ReturnInv DEF Verdict
  <2>4. CASE bodyErr # "none"
    <3>1. bodyErr \in FaultCodes /\ Return(bodyErr)
      BY <1>2, <2>4 DEF ReaderTypeOK
    <3> QED BY <1>1, <2>1, <2>2, <3>1, ReturnInv DEF Verdict, FaultCodes, Undecodable
  <2> QED BY <2>3, <2>4
<1>3. CASE Return("SNAPSHOT_MOVED")
  BY <1>1, <1>3, ReturnInv DEF Verdict, FaultCodes
<1>4. CASE attempt < Retries /\ attempt' = attempt + 1 /\ Retry
  <2>1. /\ at' = "head" /\ pass' = "first" /\ obs' = Blank /\ first' = Blank /\ bodyErr' = "none"
        /\ UNCHANGED <<left, verdict>>
    BY <1>4 DEF Retry, Goto
  <2>2. left = {} /\ Blank \in Snapshot /\ Blank.tree = NoTree
    BY BlankTyped DEF EndRead, TreeRead
  <2>3. HeadSeen' /\ Warned'
    BY <1>1, <2>1, StillStore DEF HeadSeen, Warned
  <2>4. Probing' /\ Pinned' /\ Confirmed' /\ Undecodable'
    BY <2>1 DEF Probing, Pinned, Confirmed, Undecodable, AfterSlots
  <2>5. Reported'
    BY <1>1, <2>1 DEF Reported, ReadIsAtomic, PendingIsTrue, Current
  <2> QED BY <2>3, <2>4, <2>5
<1> QED BY <1>2, <1>3, <1>4 DEF EndRead

-----------------------------------------------------------------------------
(* A read while nobody moves the store, whatever humans did to it before. *)

\* The store has been in one state since the read began.
Alone == at # "idle" /\ instants = {Now}

\* What the body may have said of the store that is there.
Told ==
  IF NoFile \in {file["queue"], file["policy"]} THEN {"UNINITIALIZED"}
  ELSE {"none"} \cup IF IntentTree = CanonTree(head) THEN {} ELSE {"MALFORMED"}

\* Everything read is what the store holds, and a pending receipt ends the
\* read in its first slot check.
Steady ==
  /\ at # "head" \/ pass # "first" => head # 0
  /\ at # "head" /\ pass # "body" => obs.head = head
  /\ Pending => pass = "first" /\ at \in {"head", "slot2", "slot1"}
  /\ ~Pending =>
       /\ at \in AfterSlots \ {"barrier"} /\ pass # "body" => obs.barrier = file["barrier"]
       /\ TreeSoFar
       /\ \A p \in left : file[p] # NoFile
  /\ pass # "first" => first = [head |-> head, barrier |-> file["barrier"], tree |-> IntentTree]
  /\ pass = "again" => bodyErr \in Told

\* The head only grows, so what an instant's head stands for stays known.
Past == \A i \in instants : i.head \in 0..head

Quiet == Past /\ (Alone => Steady) /\ QuietReadAnswers

\* What Answer says, case by case.
LEMMA AnswerCases ==
  ASSUME NEW i
  PROVE  /\ i.head = 0 => Answer(i) = {"UNINITIALIZED"}
         /\ i.head # 0 /\ i.pending = TRUE => Answer(i) = {"REDO_PENDING"}
         /\ i.head # 0 /\ i.pending = FALSE =>
              Answer(i) = IF NoFile \in {i.tree["queue"], i.tree["policy"]} THEN {"UNINITIALIZED"}
                          ELSE {"OK"} \cup IF i.tree = CanonTree(i.head) THEN {} ELSE {"MALFORMED"}
BY DEF Answer

\* An instant of the past is judged by receipts that never change.
LEMMA AnswerFrame ==
  ASSUME Inv, [Next]_vars, NEW i, i.head \in 0..head
  PROVE  Answer(i)' = Answer(i)
<1>1. head \in Nat
  BY ConstantsAssumption DEF Inv, TypeOK
<1>2. CASE i.head = 0
  BY <1>2 DEF Answer
<1>3. CASE i.head # 0
  <2>1. i.head \in 1..head
    BY <1>1, <1>3
  <2>2. CanonTree(i.head)' = CanonTree(i.head)
    BY <2>1, CanonTreeFrame
  <2> QED BY <2>2 DEF Answer
<1> QED BY <1>2, <1>3

\* The store is as it was, as far as a reader can tell.
LEMMA SameNow ==
  ASSUME Now' = Now
  PROVE  /\ head' = head /\ (Pending' <=> Pending)
         /\ ~Pending => file'["barrier"] = file["barrier"] /\ \A p \in IntentPath : file'[p] = file[p]
<1>1. Now.head = head /\ Now'.head = head'
  BY DEF Now
<1>2. (Now.pending <=> Pending) /\ (Now'.pending <=> Pending')
  BY DEF Now
<1>3. ASSUME ~Pending
      PROVE  file'["barrier"] = file["barrier"] /\ \A p \in IntentPath : file'[p] = file[p]
  <2>1. ~Pending'
    BY <1>2, <1>3
  <2>2. file'["barrier"] = file["barrier"] /\ IntentTree' = IntentTree
    BY <1>3, <2>1 DEF Now
  <2>3. \A p \in IntentPath : IntentTree[p] = file[p] /\ IntentTree'[p] = file'[p]
    BY DEF IntentTree
  <2> QED BY <2>2, <2>3
<1> QED BY <1>1, <1>2, <1>3

\* A step of writer or editor either is seen as another instant of the store or
\* changes nothing that the read has seen or will see.
LEMMA QuietStore ==
  ASSUME Inv, Local, Quiet, [Next]_vars, UNCHANGED reader,
         at = "idle" => instants' = instants,
         at # "idle" => instants' = instants \cup {Now'}
  PROVE  Quiet'
<1>1. head \in 0..MaxSeq /\ head' \in Nat /\ head <= head' /\ MaxSeq \in Nat
  BY StoreFrame, ConstantsAssumption DEF Inv, TypeOK
<1>2. Past'
  <2>1. Now'.head = head'
    BY DEF Now
  <2> QED BY <1>1, <2>1 DEF Past, Quiet
<1>3. QuietReadAnswers'
  <2>1. CASE at = "idle"
    <3> SUFFICES ASSUME NEW i \in instants, verdict # "none", instants = {i} PROVE verdict \in Answer(i)'
      BY <2>1 DEF QuietReadAnswers, reader
    <3>1. verdict \in Answer(i) /\ i.head \in 0..head
      BY DEF Quiet, QuietReadAnswers, Past
    <3> QED BY <3>1, AnswerFrame
  <2>2. CASE at # "idle"
    BY <2>2 DEF QuietReadAnswers, reader, Local, Current
  <2> QED BY <2>1, <2>2
<1>4. ASSUME Alone' PROVE Steady'
  <2>1. at # "idle" /\ instants' = instants \cup {Now'} /\ Now \in instants
    BY <1>4 DEF Alone, reader, Local, Current
  <2>2. Now' = Now /\ Alone
    BY <1>4, <2>1 DEF Alone
  <2>3. Steady
    BY <2>2 DEF Quiet
  <2> HIDE DEF Now
  <2>4. /\ head' = head /\ (Pending' <=> Pending)
        /\ ~Pending => file'["barrier"] = file["barrier"] /\ \A p \in IntentPath : file'[p] = file[p]
    BY <2>2, SameNow
  <2>5. CASE Pending
    BY <2>3, <2>4, <2>5 DEF Steady, reader
  <2>6. CASE ~Pending
    <3>1. TreeSoFar' /\ \A p \in left : file'[p] # NoFile
      BY <2>3, <2>4, <2>6 DEF Steady, TreeSoFar, Covered, reader, Local, ReaderTypeOK
    <3>2. IntentTree' = IntentTree
      BY <2>4, <2>6 DEF IntentTree
    <3>3. pass = "again" => Told' = Told
      <4> SUFFICES ASSUME pass = "again" PROVE Told' = Told
        OBVIOUS
      <4>1. head \in 1..head
        BY <1>1, <2>3 DEF Steady
      <4>2. CanonTree(head)' = CanonTree(head)
        <5> PICK h \in 1..head : h = head
          BY <4>1
        <5>1. CanonTree(h)' = CanonTree(h)
          BY CanonTreeFrame
        <5> QED BY <5>1, <2>4 DEF CanonTree
      <4>3. file'["queue"] = file["queue"] /\ file'["policy"] = file["policy"]
        BY <2>4, <2>6 DEF IntentPath
      <4> QED BY <3>2, <4>2, <4>3 DEF Told
    <3> QED BY <2>3, <2>4, <2>6, <3>1, <3>2, <3>3 DEF Steady, reader
  <2> QED BY <2>5, <2>6
<1> QED BY <1>2, <1>3, <1>4 DEF Quiet

\* A read that has been alone returns one of the store's answers.
LEMMA QuietReturn ==
  ASSUME Inv, Local, Quiet, UNCHANGED <<vars, instants>>, NEW code, Return(code), at # "idle",
         Alone => code \in Answer(Now)
  PROVE  Quiet'
<1>1. at' = "idle" /\ verdict' = code /\ head' = head
  BY DEF Return, Goto, vars
<1>2. ASSUME NEW i \in instants, instants = {i} PROVE code \in Answer(i)'
  <2>1. i = Now /\ Alone
    BY <1>2 DEF Local, Current, Alone
  <2>2. code \in Answer(i) /\ i.head \in 0..head
    BY <2>1 DEF Quiet, Past
  <2> QED BY <2>2, AnswerFrame
<1> QED BY <1>1, <1>2 DEF Quiet, Past, Alone, QuietReadAnswers

\* A step inside the read has only its own effect to account for.
LEMMA QuietStep ==
  ASSUME Local, Quiet, UNCHANGED <<vars, instants, verdict>>, at # "idle",
         Alone /\ Steady => Steady'
  PROVE  Quiet'
<1>1. Alone' => Alone
  BY StillStore DEF Alone
<1> QED BY <1>1, StillStore DEF Quiet, Past, QuietReadAnswers, Local, Current

\* The end of the body: the probe after it starts on the store that was there.
LEMMA QuietBody ==
  ASSUME Local, Quiet, UNCHANGED <<vars, instants>>, NEW code, EndBody(code), at \in AfterSlots, pass = "body",
         Alone => code \in Told
  PROVE  Quiet'
<1>1. /\ at' = "head" /\ pass' = "again" /\ obs' = Blank /\ left' = {} /\ bodyErr' = code
      /\ UNCHANGED <<first, verdict>> /\ at # "idle"
  BY DEF EndBody, Goto, AfterSlots
<1>2. ASSUME Alone, Steady PROVE Steady'
  <2>1. Told' = Told
    BY StillStore DEF Told
  <2>2. TreeSoFar'
    BY <1>1, BlankTyped DEF TreeSoFar, Covered, NoTree
  <2> QED BY <1>1, <1>2, <2>1, <2>2, StillStore DEF Steady, AfterSlots
<1> QED BY <1>1, <1>2, QuietStep

\* Each step of the reader keeps it.
LEMMA QuietReader ==
  ASSUME Inv, Local, Quiet, BeginRead \/ ReaderStep
  PROVE  Quiet'
<1> USE DEF Local
<1>1. CASE BeginRead
  <2>1. at' = "head" /\ pass' = "first" /\ obs' = Blank /\ left' = {} /\ verdict' = "none"
    BY <1>1 DEF BeginRead, Goto, Points
  <2>2. Now.head = head /\ head \in 0..MaxSeq /\ instants' = {Now} /\ UNCHANGED vars
    BY <1>1 DEF BeginRead, Now, Inv, TypeOK
  <2>3. TreeSoFar'
    BY <2>1, BlankTyped DEF TreeSoFar, Covered, NoTree
  <2>4. Past'
    BY <2>2, StillStore, ConstantsAssumption DEF Past
  <2> QED BY <2>1, <2>3, <2>4 DEF Quiet, Steady, QuietReadAnswers, AfterSlots
<1>2. CASE ReadHead
  <2>1. CASE head = 0
    <3>1. Now.head = head
      BY DEF Now
    <3>2. Return("UNINITIALIZED") /\ UNCHANGED <<vars, instants>> /\ at # "idle"
      BY <1>2, <2>1 DEF ReadHead
    <3> QED BY <2>1, <3>1, <3>2, AnswerCases, QuietReturn
  <2>2. CASE head # 0
    <3>1. /\ at = "head" /\ at' = "slot2" /\ obs' = [obs EXCEPT !.head = head]
          /\ UNCHANGED <<vars, instants, pass, attempt, left, first, bodyErr, verdict>>
      BY <1>2, <2>2 DEF ReadHead, Goto
    <3>2. obs'.head = head /\ obs'.tree = obs.tree
      BY <3>1 DEF ReaderTypeOK, Snapshot
    <3>3. Steady => Steady'
      <4>1. TreeSoFar => TreeSoFar'
        BY <3>1, <3>2, StillStore DEF TreeSoFar, Covered
      <4>2. Told' = Told
        BY <3>1, StillStore DEF Told
      <4> QED BY <2>2, <3>1, <3>2, <4>1, <4>2, StillStore DEF Steady, AfterSlots, Points
    <3> QED BY <3>1, <3>3, QuietStep
  <2> QED BY <2>1, <2>2
<1>3. CASE CheckSecondSlot
  <2>1. CASE Present(obs.head + 2)
    <3>1. Return("JOURNAL_FORKED") /\ UNCHANGED <<vars, instants>> /\ at = "slot2"
      BY <1>3, <2>1 DEF CheckSecondSlot
    <3>2. ~Alone
      <4> SUFFICES ASSUME Alone PROVE FALSE
        OBVIOUS
      <4>1. Present(head + 2) /\ head \in Nat
        BY <2>1, <3>1, ConstantsAssumption DEF Quiet, Steady, Points, Inv, TypeOK
      <4> QED BY <4>1 DEF Present, Inv, Journal, Chain, ChainOrder
    <3> QED BY <3>1, <3>2, QuietReturn
  <2>2. CASE ~Present(obs.head + 2)
    <3>1. /\ at = "slot2" /\ at' = "slot1"
          /\ UNCHANGED <<vars, instants, pass, attempt, obs, left, first, bodyErr, verdict>>
      BY <1>3, <2>2 DEF CheckSecondSlot, Goto
    <3>2. Steady => Steady'
      <4>1. TreeSoFar => TreeSoFar'
        BY <3>1, StillStore DEF TreeSoFar, Covered
      <4>2. Told' = Told
        BY <3>1, StillStore DEF Told
      <4> QED BY <3>1, <4>1, <4>2, StillStore DEF Steady, AfterSlots
    <3> QED BY <3>1, <3>2, QuietStep
  <2> QED BY <2>1, <2>2
<1>4. CASE CheckNextSlot
  <2>1. CASE Present(obs.head + 1)
    <3>1. Return("REDO_PENDING") /\ UNCHANGED <<vars, instants>> /\ at = "slot1"
      BY <1>4, <2>1 DEF CheckNextSlot
    <3>2. Alone => "REDO_PENDING" \in Answer(Now)
      <4> SUFFICES ASSUME Alone PROVE "REDO_PENDING" \in Answer(Now)
        OBVIOUS
      <4>1. Pending /\ head # 0
        BY <2>1, <3>1 DEF Quiet, Steady, Points, Pending
      <4>2. Now.head = head /\ Now.pending = TRUE
        BY <4>1 DEF Now
      <4> QED BY <4>1, <4>2, AnswerCases
    <3> QED BY <3>1, <3>2, QuietReturn
  <2>2. CASE ~Present(obs.head + 1)
    <3>1. /\ at = "slot1" /\ at' = "barrier"
          /\ UNCHANGED <<vars, instants, pass, attempt, obs, left, first, bodyErr, verdict>>
      BY <1>4, <2>2 DEF CheckNextSlot, Goto
    <3>2. Steady => Steady'
      <4> SUFFICES ASSUME Steady PROVE Steady'
        OBVIOUS
      <4>1. ~Pending
        BY <2>2, <3>1 DEF Steady, Points, Pending
      <4>2. TreeSoFar'
        BY <3>1, <4>1, StillStore DEF Steady, TreeSoFar, Covered
      <4>3. Told' = Told
        BY <3>1, StillStore DEF Told
      <4> QED BY <3>1, <4>1, <4>2, <4>3, StillStore DEF Steady, AfterSlots
    <3> QED BY <3>1, <3>2, QuietStep
  <2> QED BY <2>1, <2>2
<1>5. CASE ReadBarrier
  <2>1. /\ at = "barrier" /\ at' = "root" /\ obs' = [obs EXCEPT !.barrier = file["barrier"]]
        /\ UNCHANGED <<vars, instants, pass, attempt, left, first, bodyErr, verdict>>
    BY <1>5 DEF ReadBarrier, Goto
  <2>2. obs'.head = obs.head /\ obs'.tree = obs.tree /\ obs'.barrier = file["barrier"]
    BY <2>1 DEF ReaderTypeOK, Snapshot
  <2>3. Steady => Steady'
    <3>1. TreeSoFar => TreeSoFar'
      BY <2>1, <2>2, StillStore DEF TreeSoFar, Covered
    <3>2. Told' = Told
      BY <2>1, StillStore DEF Told
    <3> QED BY <2>1, <2>2, <3>1, <3>2, StillStore DEF Steady, Points
  <2> QED BY <2>1, <2>3, QuietStep
<1>6. ASSUME NEW point, NEW entries \in SUBSET IntentPath, NEW next,
             \/ point = "root" /\ entries = {"policy", "queue"} /\ next = "releases"
             \/ point = "releases" /\ entries = Releases /\ next = "tickets"
             \/ point = "tickets" /\ entries = Tickets /\ next = "read",
             ListDirectory(point, entries, next)
      PROVE  Quiet'
  <2>1. /\ at = point /\ at' = next /\ left' = left \cup {p \in entries : file[p] # NoFile}
        /\ UNCHANGED <<vars, instants, pass, attempt, obs, first, bodyErr, verdict>>
    BY <1>6 DEF ListDirectory, Goto
  <2>2. Steady => Steady'
    <3>1. TreeSoFar => TreeSoFar'
      BY <1>6, ListedSoFar
    <3>2. Told' = Told
      BY <2>1, StillStore DEF Told
    <3>3. (\A p \in left : file[p] # NoFile) => \A p \in left' : file'[p] # NoFile
      BY <2>1, StillStore
    <3> QED BY <1>6, <2>1, <3>1, <3>2, <3>3, StillStore DEF Steady, AfterSlots
  <2> QED BY <1>6, <2>1, <2>2, QuietStep
<1>7. {"policy", "queue"} \in SUBSET IntentPath /\ Releases \in SUBSET IntentPath /\ Tickets \in SUBSET IntentPath
  BY DEF IntentPath, Records
<1>8. CASE ReadFile
  <2>1. at = "read" /\ left # {} /\ NextRead \in left /\ UNCHANGED <<vars, instants>>
    BY <1>8, NextReadListed DEF ReadFile, ReaderTypeOK
  <2>2. CASE file[NextRead] = NoFile
    <3>1. ~Alone
      BY <2>1, <2>2 DEF Quiet, Steady
    <3>2. CASE pass = "body"
      <4>1. EndBody("UNSUPPORTED_FILESYSTEM")
        BY <1>8, <2>2, <3>2 DEF ReadFile, Fail
      <4> QED BY <2>1, <3>1, <3>2, <4>1, QuietBody DEF AfterSlots
    <3>3. CASE pass # "body"
      <4>1. Return("UNSUPPORTED_FILESYSTEM")
        BY <1>8, <2>2, <3>3 DEF ReadFile, Fail
      <4> QED BY <2>1, <3>1, <4>1, QuietReturn
    <3> QED BY <3>2, <3>3
  <2>3. CASE file[NextRead] # NoFile
    <3> DEFINE p == NextRead
    <3>1. p \in IntentPath
      BY <2>1 DEF ReaderTypeOK
    <3>2. /\ obs' = [obs EXCEPT !.tree[p] = file[p]] /\ left' = left \ {p}
          /\ UNCHANGED <<at, pass, attempt, first, bodyErr, verdict>>
      BY <1>8, <2>3 DEF ReadFile
    <3> HIDE DEF p
    <3>3. /\ obs'.head = obs.head /\ obs'.barrier = obs.barrier
          /\ obs'.tree = [obs.tree EXCEPT ![p] = file[p]]
      BY <3>1, <3>2 DEF ReaderTypeOK, Snapshot
    <3>4. Steady => Steady'
      <4>1. TreeSoFar => TreeSoFar'
        BY <2>1, <3>1, <3>2, <3>3, StillStore DEF TreeSoFar, Covered, ReaderTypeOK, Snapshot
      <4>2. Told' = Told
        BY <2>1, StillStore DEF Told
      <4> QED BY <2>1, <3>2, <3>3, <4>1, <4>2, StillStore DEF Steady
    <3> QED BY <2>1, <3>2, <3>4, QuietStep
  <2> QED BY <2>2, <2>3
<1>9. CASE EndFirstProbe
  <2>1. /\ at = "read" /\ left = {} /\ pass = "first"
        /\ first' = obs /\ pass' = "body" /\ at' = "root" /\ obs' = Blank
        /\ UNCHANGED <<vars, instants, attempt, left, bodyErr, verdict>>
    BY <1>9 DEF EndFirstProbe, TreeRead, Goto
  <2>2. ASSUME Steady PROVE Steady'
    <3>1. ~Pending
      BY <2>1, <2>2 DEF Steady
    <3>2. obs = [head |-> head, barrier |-> file["barrier"], tree |-> IntentTree]
      BY <2>1, <2>2, <3>1, WholeTree DEF Steady, AfterSlots, ReaderTypeOK, Snapshot
    <3>3. TreeSoFar'
      BY <2>1, BlankTyped DEF TreeSoFar, Covered, NoTree
    <3> QED BY <2>1, <2>2, <3>1, <3>2, <3>3, StillStore DEF Steady
  <2> QED BY <2>1, <2>2, QuietStep
<1>10. CASE Load
  <2>1. at = "read" /\ left = {} /\ pass = "body" /\ UNCHANGED <<vars, instants>>
    BY <1>10 DEF Load, TreeRead
  <2>2. PICK code : /\ EndBody(code)
                    /\ \/ code = "SNAPSHOT_MOVED" /\ obs.tree # first.tree
                       \/ code = "UNINITIALIZED" /\ NoFile \in {obs.tree["queue"], obs.tree["policy"]}
                       \/ code = "none" /\ NoFile \notin {obs.tree["queue"], obs.tree["policy"]}
                       \/ code = "MALFORMED" /\ obs.tree # CanonTree(first.head)
                          /\ NoFile \notin {obs.tree["queue"], obs.tree["policy"]}
    BY <1>10 DEF Load
  <2>3. ASSUME Alone PROVE code \in Told
    <3>1. Steady /\ ~Pending
      BY <2>1, <2>3 DEF Quiet, Steady
    <3>2. obs.tree = IntentTree /\ first.head = head /\ first.tree = IntentTree
      BY <2>1, <3>1, WholeTree DEF Steady, ReaderTypeOK
    <3>3. IntentTree["queue"] = file["queue"] /\ IntentTree["policy"] = file["policy"]
      BY DEF IntentTree, IntentPath
    <3> QED BY <2>2, <3>2, <3>3 DEF Told
  <2> QED BY <2>1, <2>2, <2>3, QuietBody DEF AfterSlots
<1>11. CASE EndRead
  <2>1. at = "read" /\ left = {} /\ pass = "again" /\ UNCHANGED <<vars, instants>>
    BY <1>11 DEF EndRead, TreeRead
  <2>2. ASSUME Alone
        PROVE  Same /\ (IF bodyErr = "none" THEN "OK" ELSE bodyErr) \in Answer(Now)
    <3>1. Steady /\ ~Pending /\ head # 0
      BY <2>1, <2>2 DEF Quiet, Steady
    <3>2. obs = [head |-> head, barrier |-> file["barrier"], tree |-> IntentTree]
      BY <2>1, <3>1, WholeTree DEF Steady, AfterSlots, ReaderTypeOK, Snapshot
    <3>3. Same
      BY <2>1, <3>1, <3>2 DEF Same, Steady
    <3>4. Now.head = head /\ Now.pending = FALSE /\ Now.tree = IntentTree
      BY <3>1 DEF Now
    <3>5. IntentTree["queue"] = file["queue"] /\ IntentTree["policy"] = file["policy"]
      BY DEF IntentTree, IntentPath
    <3>6. bodyErr \in Told
      BY <2>1, <3>1 DEF Steady
    <3>7. (IF bodyErr = "none" THEN "OK" ELSE bodyErr) \in Answer(Now)
      BY <3>1, <3>4, <3>5, <3>6, AnswerCases DEF Told
    <3> QED BY <3>3, <3>7
  <2>3. CASE Same /\ Return(IF bodyErr = "none" THEN "OK" ELSE bodyErr)
    BY <2>1, <2>2, <2>3, QuietReturn
  <2>4. CASE ~Same /\ Return("SNAPSHOT_MOVED")
    BY <2>1, <2>2, <2>4, QuietReturn
  <2>5. CASE ~Same /\ Retry
    BY <2>1, <2>2, <2>5, QuietStep DEF Retry
  <2> QED BY <1>11, <2>3, <2>4, <2>5 DEF EndRead
<1> QED
  BY <1>1, <1>2, <1>3, <1>4, <1>5, <1>6, <1>7, <1>8, <1>9, <1>10, <1>11 DEF ReaderStep

-----------------------------------------------------------------------------
\* The system starts with no read under way.
LEMMA SystemInitInv == SystemInit => Safe
<1> SUFFICES ASSUME SystemInit PROVE Safe
  OBVIOUS
<1>1. Inv
  BY InitInv DEF SystemInit
<1>2. /\ at = "idle" /\ pass = "first" /\ attempt = 0 /\ obs = Blank /\ left = {}
      /\ first = Blank /\ bodyErr = "none" /\ verdict = "none"
  BY DEF SystemInit, ReaderInit
<1>3. Blank \in Snapshot /\ Blank.tree = NoTree
  BY BlankTyped
<1>4. Local
  BY <1>2, <1>3, RetriesAssumption DEF Local, ReaderTypeOK, Points, Current, Verdict
<1>5. ReaderInv
  BY <1>2 DEF ReaderInv, HeadSeen, Warned, Probing, Pinned, Confirmed, Undecodable, Reported,
     AfterSlots, ReadIsAtomic, PendingIsTrue
<1> QED BY <1>1, <1>4, <1>5 DEF Safe

\* The reader's invariant is inductive while no human edits.
LEMMA SystemNextInv ==
  ASSUME MaxEdits = 0
  PROVE  Safe /\ [SystemNext]_systemVars => Safe'
<1> SUFFICES ASSUME Safe, [SystemNext]_systemVars PROVE Safe'
  OBVIOUS
<1>1. Inv' /\ Local'
  BY ReadersWriteNothing, NextInv, LocalInv DEF Safe, Inv
<1>2. CASE StoreStep \/ UNCHANGED systemVars
  <2>1. [Next]_vars /\ UNCHANGED reader /\ instants \subseteq instants'
    BY <1>2, ReadersWriteNothing DEF StoreStep, systemVars
  <2>2. at # "idle" => Now' \in instants'
    BY <1>1, <2>1 DEF Local, Current, reader
  <2> QED BY <1>1, <2>1, <2>2, StoreMoves DEF Safe
<1>3. CASE ListDirectory("root", {"policy", "queue"}, "releases")
  <2>1. {"policy", "queue"} \in SUBSET IntentPath
    BY DEF IntentPath
  <2> QED BY <1>1, <1>3, <2>1, ListDirectoryInv DEF Safe
<1>4. CASE ListDirectory("releases", Releases, "tickets")
  <2>1. Releases \in SUBSET IntentPath
    BY DEF IntentPath, Records
  <2> QED BY <1>1, <1>4, <2>1, ListDirectoryInv DEF Safe
<1>5. CASE ListDirectory("tickets", Tickets, "read")
  <2>1. Tickets \in SUBSET IntentPath
    BY DEF IntentPath, Records
  <2> QED BY <1>1, <1>5, <2>1, ListDirectoryInv DEF Safe
<1>6. CASE \/ BeginRead \/ ReadHead \/ CheckSecondSlot \/ CheckNextSlot \/ ReadBarrier
           \/ ReadFile \/ EndFirstProbe \/ Load \/ EndRead
  BY <1>1, <1>6, BeginReadInv, ReadHeadInv, CheckSecondSlotInv, CheckNextSlotInv, ReadBarrierInv,
     ReadFileInv, EndFirstProbeInv, LoadInv, EndReadInv DEF Safe
<1> QED BY <1>2, <1>3, <1>4, <1>5, <1>6 DEF SystemNext, ReaderStep

\* Reads never write: beside any reader the store behaves as it does alone, so
\* each theorem about Spec holds of the system (TM-V0-008).
LEMMA ReadersAreInvisible == System => Spec
<1>1. SystemInit => Init
  BY DEF SystemInit
<1> QED BY <1>1, ReadersWriteNothing, PTL DEF System, Spec

\* The program counter, the pass and the partial snapshot agree.
LEMMA LocalInvariance == System => []Local
<1>1. SystemInit => Local
  BY SystemInitInv DEF Safe
<1>2. TypeOK /\ Local /\ [SystemNext]_systemVars => Local'
  BY LocalInv
<1>3. Inv => TypeOK
  BY DEF Inv
<1> QED BY <1>1, <1>2, <1>3, ReadersAreInvisible, Invariance, PTL DEF System

\* The reader's variables keep their types whatever writer and editor do; in
\* particular no more than Retries attempts are repeated.
THEOREM ReaderTypeCorrect == System => []ReaderTypeOK
<1>1. Local => ReaderTypeOK
  BY DEF Local
<1> QED BY <1>1, LocalInvariance, PTL

\* The reader's invariant, for every number of transactions, errors, crashes
\* and attempts.
THEOREM ReaderInvariance ==
  ASSUME MaxEdits = 0
  PROVE  System => []Safe
<1>1. SystemInit => Safe
  BY SystemInitInv
<1>2. Safe /\ [SystemNext]_systemVars => Safe'
  BY SystemNextInv
<1> QED BY <1>1, <1>2, PTL DEF System

\* Reader.Read: head, barrier and intent tree of a successful read held
\* together at one instant of the call.
THEOREM ReadsAreAtomic ==
  ASSUME MaxEdits = 0
  PROVE  System => []ReadIsAtomic
<1>1. Safe => ReadIsAtomic
  BY DEF Safe, ReaderInv, Reported
<1> QED BY <1>1, ReaderInvariance, PTL

\* Reader.Read: an error of the body that is reported is one of a single state
\* of the store, never of a read across a commit.
THEOREM FailuresAreFacts ==
  ASSUME MaxEdits = 0
  PROVE  System => []FailureIsAFact
<1>1. Safe => FailureIsAFact
  BY DEF Safe, ReaderInv, Reported, FailureIsAFact, Matches
<1> QED BY <1>1, ReaderInvariance, PTL

\* checkSlots: REDO_PENDING is never reported of a store that had no pending
\* receipt during the call.
THEOREM PendingIsReportedTruly ==
  ASSUME MaxEdits = 0
  PROVE  System => []PendingIsTrue
<1>1. Safe => PendingIsTrue
  BY DEF Safe, ReaderInv, Reported
<1> QED BY <1>1, ReaderInvariance, PTL

\* Reader.Read: a store that nobody moves during the read is answered for on
\* the first attempt, and what is reported is what the store is: initialised,
\* pending, readable or undecodable.  Human edits before the read are included.
THEOREM QuietReadsAnswer == System => []QuietReadAnswers
<1>1. SystemInit => Quiet
  BY DEF SystemInit, ReaderInit, Quiet, Past, Alone, QuietReadAnswers
<1>2. Inv /\ Local /\ Quiet /\ [SystemNext]_systemVars => Quiet'
  <2> SUFFICES ASSUME Inv, Local, Quiet, [SystemNext]_systemVars PROVE Quiet'
    OBVIOUS
  <2>1. CASE StoreStep \/ UNCHANGED systemVars
    <3>1. /\ UNCHANGED reader /\ [Next]_vars
          /\ at = "idle" => instants' = instants
          /\ at # "idle" => instants' = instants \cup {Now'}
      BY <2>1, ReadersWriteNothing, StillStore DEF StoreStep, systemVars, Local, Current
    <3> QED BY <3>1, QuietStore
  <2>2. CASE BeginRead \/ ReaderStep
    BY <2>2, QuietReader
  <2> QED BY <2>1, <2>2 DEF SystemNext
<1>3. Quiet => QuietReadAnswers
  BY DEF Quiet
<1> QED BY <1>1, <1>2, <1>3, LocalInvariance, ReadersAreInvisible, Invariance, PTL DEF System
=============================================================================
