----------------------------- MODULE FixtureStoreProofs -----------------------------
(***************************************************************************)
(* Safety of FixtureStore for every set of tickets, releases and requests  *)
(* and every bound.  The inductive invariant Inv says what the holder      *)
(* knows in each phase: a receipt that is not linked yet names a request   *)
(* no receipt names and was decided on the canonical content below it; a   *)
(* linked one is receipts[head + 1] until the head is published.  The      *)
(* second half shows that the store implements AtomicStore, that the head  *)
(* is published after the posts it implies, and that what one error leaves *)
(* behind may be redone.                                                   *)
(***************************************************************************)
EXTENDS FixtureStore, FiniteSetTheorems, WellFoundedInduction, TLAPS

BeforeLink == {"mkdir", "evidence", "receipt"}
AfterLink == {"posts", "delete", "head"}

\* Every receipt carries its own request-index entry and, when it discards
\* human bytes, names the blob that retains them.
WellFormed(r) ==
  /\ r \in Receipt
  /\ r.post[r.cmd.id] # NoEntry
  /\ \A p \in Path \ {"barrier"} : r.post[p] # NoFile
  /\ r.cmd.op = "KEEP_JOURNAL" => r.pre[r.cmd.target] \in r.blobs

\* What NoLostUpdate says of one receipt, over the content below n.
DecidedOn(r, n) ==
  /\ r.cmd.op \in {"MUTATE", "POLICY_UPDATE"} => r.cmd.base = Latest(r.cmd.target, n)
  /\ r.cmd.op = "KEEP_JOURNAL" => r.cmd.canon = Latest(r.cmd.target, n)
  /\ r.cmd.op = "CREATE" => \A t \in Tickets \cap Posted(r) : Writers(t, n) = {}

ReceiptsOK == \A n \in 1..MaxSeq : Present(n) =>
  WellFormed(receipts[n]) /\ receipts[n].blobs \subseteq evidence

SlotsOK ==
  /\ mine <= slots
  /\ how # "none" => IF phase = "head" /\ redoing THEN mine < slots ELSE 0 < mine

Uncommitted == stateDir = "absent" => phase = "idle" /\ head = 0 /\ ~Present(1)

Holding == IF phase = "idle" THEN ~redoing /\ how = "none" ELSE cmd \in Command

Planned ==
  phase \in BeforeLink =>
    /\ WellFormed(plan) /\ plan.cmd = cmd /\ ~redoing /\ head < MaxSeq
    /\ \A n \in 1..MaxSeq : Present(n) => receipts[n].cmd.id # cmd.id
    /\ head # 0 => DecidedOn(plan, head)
    /\ phase = "receipt" => plan.blobs \subseteq evidence

Underway ==
  phase \in AfterLink =>
    /\ Present(head + 1) /\ plan = receipts[head + 1]
    /\ ~redoing => plan.cmd = cmd
    /\ phase = "posts" => todo \subseteq Posted(plan)

Checked ==
  /\ how \in {"verified", "raced"} => phase = "posts" /\ todo # {}
  /\ how = "verified" => file[NextPost] = plan.pre[NextPost]

Finished == phase = "finish" => head \in 1..MaxSeq /\ receipts[head].cmd = cmd

Staging ==
  /\ phase = "posts" /\ how # "none" => todo # {}
  /\ phase = "delete" => how = "none"

\* What the disk and the callers hold, and what the holder knows.
Chain == ReceiptsOK /\ ChainOrder /\ RequestOnce /\ NoLostUpdate /\ AckedIsCommitted
Journal == Chain /\ NoPostBeforeReceipt
Session ==
  /\ SlotsOK /\ Uncommitted /\ Holding /\ Planned /\ Underway
  /\ Checked /\ Finished /\ Staging

Inv == TypeOK /\ Journal /\ Session
-----------------------------------------------------------------------------
(* Lemmas on the operators of the model. *)

\* A nonempty set of receipt numbers has a last one: the set of its elements
\* from i on shrinks as i grows, and it cannot shrink for ever.
LEMMA LastExists ==
  ASSUME NEW n \in Nat, NEW S \in SUBSET (1..n), S # {}
  PROVE  Max(S) \in S /\ \A j \in S : j <= Max(S)
<1> DEFINE From(i) == {j \in S : i <= j}
           Tails == {From(i) : i \in S}
<1>1. FiniteSubsetsOf(S) = SUBSET S
  <2>1. IsFiniteSet(1..n)
    BY FS_Interval
  <2>2. IsFiniteSet(S)
    BY <2>1, FS_Subset
  <2> QED BY <2>2, FS_FiniteSubsetsOfFinite
<1>2. Tails \subseteq SUBSET S /\ Tails # {}
  OBVIOUS
<1>3. PICK T \in Tails : \A U \in Tails : ~(<<U, T>> \in StrictSubsetOrdering(S))
  <2>1. IsWellFoundedOn(StrictSubsetOrdering(S), SUBSET S)
    BY <1>1, FS_StrictSubsetOrderingWellFounded
  <2> HIDE DEF Tails
  <2> QED BY <1>2, <2>1, WFMin
<1>4. PICK m \in S : T = From(m)
  BY <1>3
<1>5. ASSUME NEW j \in S, ~(j <= m) PROVE FALSE
  <2>1. j \in Int /\ m \in Int /\ m < j
    BY <1>5
  <2>2. \A k \in S : k \in Int
    OBVIOUS
  <2>3. From(j) \in Tails
    OBVIOUS
  <2>4. ASSUME NEW k \in From(j) PROVE k \in From(m)
    <3>1. k \in S /\ j <= k
      OBVIOUS
    <3>2. k \in Int /\ m <= k
      BY <2>1, <2>2, <3>1
    <3> QED BY <3>1, <3>2
  <2>5. m \in From(m) /\ m \notin From(j)
    BY <2>1
  <2>6. <<From(j), From(m)>> \in StrictSubsetOrdering(S)
    BY <1>2, <2>3, <2>4, <2>5 DEF StrictSubsetOrdering
  <2> QED BY <1>3, <1>4, <2>3, <2>6
<1>6. m \in S /\ \A j \in S : j <= m
  BY <1>5
<1>7. \E k \in S : \A j \in S : k >= j
  BY <1>6
<1>8. Max(S) \in S /\ \A j \in S : Max(S) >= j
  BY <1>7 DEF Max
<1> QED BY <1>8

\* The canonical content of a path some receipt posted is one of those posts.
LEMMA LatestIsPosted ==
  ASSUME NEW p, NEW n \in Nat, Writers(p, n) # {}
  PROVE  Max(Writers(p, n)) \in Writers(p, n)
<1>1. Writers(p, n) \in SUBSET (1..n)
  BY DEF Writers
<1> QED BY <1>1, LastExists

\* Receipts above n have no say in the canonical content after n.
LEMMA LatestFrame ==
  ASSUME NEW p, NEW n \in Nat, \A i \in 1..n : receipts'[i] = receipts[i]
  PROVE  Writers(p, n)' = Writers(p, n) /\ Latest(p, n)' = Latest(p, n)
<1>1. Writers(p, n)' = Writers(p, n)
  BY DEF Writers
<1>2. CASE Writers(p, n) = {}
  BY <1>1, <1>2 DEF Latest
<1>3. CASE Writers(p, n) # {}
  <2>1. Max(Writers(p, n)) \in 1..n
    BY <1>3, LatestIsPosted DEF Writers
  <2> QED BY <1>1, <1>3, <2>1 DEF Latest
<1> QED BY <1>2, <1>3

\* The ranks of a set of paths have a least one.
LEMMA LeastRank ==
  ASSUME NEW S, S # {}
  PROVE  \E p \in S : \A q \in S : Rank(p) <= Rank(q)
<1>1. \A p : Rank(p) \in 1..6
  BY DEF Rank
<1>2. ASSUME \A p \in S : \E q \in S : ~(Rank(p) <= Rank(q)) PROVE FALSE
  <2> DEFINE Least(k) == \A q \in S : k <= Rank(q)
  <2>1. Least(1)
    BY <1>1
  <2>2. \A k \in 1..6 : Least(k) => Least(k + 1)
    BY <1>1, <1>2
  <2>3. Least(7)
    BY <2>1, <2>2
  <2> QED BY <1>1, <2>3
<1> QED BY <1>2

\* The next post is one of those still to be settled.
LEMMA NextPostIsOutstanding ==
  ASSUME todo # {}
  PROVE  NextPost \in todo
<1>1. \E p \in todo : \A q \in todo : Rank(p) <= Rank(q)
  BY LeastRank
<1> QED BY <1>1 DEF NextPost

\* What was ever published is content, and never absence.
LEMMA HeldIsContent ==
  ASSUME TypeOK, NEW p \in Path
  PROVE  /\ Held(p) \subseteq Content \ {NoFile}
         /\ \A b \in Held(p) : \E i \in Writers(p, MaxSeq) : receipts[i].post[p] = b
<1>1. \A i \in Writers(p, head) : i \in Writers(p, MaxSeq)
  BY ConstantsAssumption DEF TypeOK, Writers
<1>2. \A i \in Writers(p, MaxSeq) : receipts[i] \in Receipt /\ receipts[i].post[p] # NoEntry
  BY DEF TypeOK, Writers
<1>3. \A i \in Writers(p, MaxSeq) : receipts[i].post[p] \in Content
  BY <1>2 DEF Receipt, Entries
<1> QED BY <1>1, <1>3 DEF Held

\* Callers submit well-formed commands.
LEMMA InvocationsAreCommands ==
  ASSUME TypeOK
  PROVE  Invocations \subseteq Command
<1>1. \A p \in Path : Held(p) \subseteq Content
  BY HeldIsContent
<1>2. Records \subseteq Path /\ {"policy", "queue", "barrier"} \subseteq Path
  BY DEF Path, IntentPath, Records
<1>3. NoFile \in Content /\ EditBytes \subseteq Content
  BY DEF Content
<1> QED BY <1>1, <1>2, <1>3 DEF Invocations, Named, Command, Op

\* A receipt whose posts are its own number, its index entry among them, is a
\* receipt of its command.
LEMMA PlannedPosts ==
  ASSUME TypeOK, head < MaxSeq, NEW c \in Command, NEW paths \in SUBSET Path,
         NEW blobs \in SUBSET Content
  PROVE  LET r == Receipted(c, Indexed(c, paths), blobs) IN
         /\ r \in Receipt /\ r.cmd = c /\ r.blobs = blobs
         /\ r.post = Indexed(c, paths)
         /\ \A p \in Path : r.post[p] = IF p \in paths \cup {c.id} THEN head + 1 ELSE NoEntry
         /\ \A p \in Path : r.post[p] # NoEntry => r.pre[p] = file[p]
         /\ Posted(r) = paths \cup {c.id}
<1>1. head + 1 \in 0..MaxSeq /\ head + 1 \in Content /\ head + 1 # NoEntry
  BY ConstantsAssumption DEF TypeOK, Content
<1>2. Indexed(c, paths) \in Entries
  BY <1>1 DEF Indexed, Entries
<1>3. [p \in Path |-> IF Indexed(c, paths)[p] = NoEntry THEN NoEntry ELSE file[p]] \in Entries
  BY DEF TypeOK, Entries
<1>4. c.id \in Path
  BY DEF Command, Path
<1> QED BY <1>1, <1>2, <1>3, <1>4 DEF Receipted, Receipt, Posted, Indexed

\* The model plans only receipts that its own request explains: what the
\* caller read is canonical, a serial is fresh, discarded bytes are retained.
LEMMA PlansAreSound ==
  ASSUME TypeOK, ReceiptsOK, NEW c \in Command, NEW r \in Plans(c)
  PROVE  WellFormed(r) /\ r.cmd = c /\ head < MaxSeq /\ DecidedOn(r, head)
<1>1. head < MaxSeq /\ head \in Nat /\ head + 1 \in Content \ {NoFile, NoEntry}
  <2>1. head # MaxSeq
    BY DEF Plans
  <2> QED BY <2>1, ConstantsAssumption DEF TypeOK, Content
<1>2. c.id \in Path /\ c.target \in Path /\ c.op \in Op /\ c.base \in Content /\ c.canon \in Content
  BY DEF Command, Path
<1>3. {"queue", "policy", "barrier"} \subseteq Path /\ Tickets \subseteq Path /\ {} \in SUBSET Content
  BY DEF Path, IntentPath, Records
<1>4. "barrier" # c.id /\ "barrier" \notin Tickets /\ "queue" \notin Tickets /\ c.id \notin Tickets
  BY ConstantsAssumption DEF Command, IntentPath, Records
<1>5. NoFile \in Content /\ NoFile # NoEntry
  BY ConstantsAssumption DEF Content
<1>6. CASE c.op = "CREATE"
  <2>1. PICK t \in Tickets : Canon(t) = NoFile /\ r = Receipted(c, Indexed(c, {t, "queue"}), {})
    BY <1>6 DEF Plans
  <2>2. Writers(t, head) = {}
    <3>1. ASSUME Writers(t, head) # {} PROVE FALSE
      <4>1. Max(Writers(t, head)) \in Writers(t, head)
        BY <1>1, <3>1, LatestIsPosted
      <4>2. receipts[Max(Writers(t, head))].post[t] = NoFile
        BY <2>1, <3>1 DEF Canon, Latest
      <4>3. ReceiptsOK /\ head \in 0..MaxSeq /\ t \in Path \ {"barrier"}
        BY <1>3, <1>4 DEF TypeOK
      <4> QED BY <4>1, <4>2, <4>3, ConstantsAssumption DEF ReceiptsOK, WellFormed, Writers, Present
    <3> QED BY <3>1
  <2> QED BY <1>1, <1>2, <1>3, <1>4, <1>5, <1>6, <2>1, <2>2, PlannedPosts DEF WellFormed, DecidedOn
<1>7. CASE c.op = "MUTATE"
  <2>1. c.base = Canon(c.target) /\ r = Receipted(c, Indexed(c, {c.target}), {})
    BY <1>7 DEF Plans, Expected
  <2> QED BY <1>1, <1>2, <1>3, <1>4, <1>5, <1>7, <2>1, PlannedPosts DEF WellFormed, DecidedOn, Canon
<1>8. CASE c.op = "POLICY_UPDATE"
  <2>1. c.base = Canon(c.target) /\ r = Receipted(c, Indexed(c, {"policy"}), {head + 1})
    BY <1>8 DEF Plans, Expected
  <2> QED BY <1>1, <1>2, <1>3, <1>4, <1>5, <1>8, <2>1, PlannedPosts DEF WellFormed, DecidedOn, Canon
<1>9. CASE c.op = "PAUSE"
  <2>1. r = Receipted(c, Indexed(c, {"barrier"}), {})
    BY <1>9 DEF Plans
  <2> QED BY <1>1, <1>2, <1>3, <1>4, <1>5, <1>9, <2>1, PlannedPosts DEF WellFormed, DecidedOn
<1>10. CASE c.op = "ADOPT_FILE"
  <2>1. r = Receipted(c, Indexed(c, {c.target}), {})
    BY <1>10 DEF Plans
  <2> QED BY <1>1, <1>2, <1>3, <1>4, <1>5, <1>10, <2>1, PlannedPosts DEF WellFormed, DecidedOn
<1>11. CASE c.op = "UNPAUSE"
  <2> DEFINE posts == [Indexed(c, {"barrier"}) EXCEPT !["barrier"] = NoFile]
  <2>1. r = Receipted(c, posts, {})
    BY <1>11 DEF Plans
  <2>2. posts \in Entries /\ posts[c.id] = head + 1
    BY <1>1, <1>2, <1>3, <1>4, <1>5 DEF Indexed, Entries
  <2>3. \A p \in Path \ {"barrier"} : posts[p] # NoFile
    BY <1>1, <1>3, <1>5 DEF Indexed
  <2>4. [p \in Path |-> IF posts[p] = NoEntry THEN NoEntry ELSE file[p]] \in Entries
    BY DEF TypeOK, Entries
  <2> HIDE DEF posts
  <2> QED BY <1>1, <1>3, <1>11, <2>1, <2>2, <2>3, <2>4 DEF Receipted, Receipt, WellFormed, DecidedOn
<1>12. CASE c.op = "KEEP_JOURNAL"
  <2> DEFINE posts == [Indexed(c, {c.target}) EXCEPT ![c.target] = c.canon]
  <2>1. /\ r = Receipted(c, posts, {c.base}) /\ c.canon = Canon(c.target)
        /\ file[c.target] = c.base /\ Canon(c.target) # NoFile
    BY <1>12 DEF Plans, Offered
  <2>2. posts \in Entries /\ posts[c.id] # NoEntry /\ posts[c.target] # NoEntry
    BY <1>1, <1>2, <1>3, <1>4, <1>5, ConstantsAssumption DEF Indexed, Entries
  <2>3. \A p \in Path \ {"barrier"} : posts[p] # NoFile
    BY <1>1, <1>2, <1>3, <1>5, <2>1 DEF Indexed
  <2>4. [p \in Path |-> IF posts[p] = NoEntry THEN NoEntry ELSE file[p]] \in Entries
    BY DEF TypeOK, Entries
  <2> HIDE DEF posts
  <2> QED BY <1>1, <1>2, <1>3, <1>12, <2>1, <2>2, <2>3, <2>4
          DEF Receipted, Receipt, WellFormed, DecidedOn, Canon
<1>13. c.op # "INIT"
  BY DEF Plans
<1> QED BY <1>2, <1>6, <1>7, <1>8, <1>9, <1>10, <1>11, <1>12, <1>13 DEF Op

-----------------------------------------------------------------------------
(* The inductive invariant: the environment and the lock. *)

\* Retaining more evidence disturbs nothing in the journal.
LEMMA ChainFrame ==
  ASSUME Chain, UNCHANGED <<receipts, head, acked>>, evidence \subseteq evidence'
  PROVE  Chain'
<1>1. ReceiptsOK' /\ ChainOrder' /\ RequestOnce'
  BY DEF Chain, ReceiptsOK, ChainOrder, RequestOnce, Present
<1>2. NoLostUpdate'
  BY DEF Chain, NoLostUpdate, Present, Latest, Writers
<1>3. AckedIsCommitted'
  BY DEF Chain, AckedIsCommitted
<1> QED BY <1>1, <1>2, <1>3 DEF Chain

\* A step that leaves receipts, head and answers alone preserves Journal.
LEMMA JournalFrame ==
  ASSUME Journal, UNCHANGED <<receipts, head, file, acked>>, evidence \subseteq evidence'
  PROVE  Journal'
<1>1. NoPostBeforeReceipt'
  BY DEF Journal, NoPostBeforeReceipt, Writers
<1> QED BY <1>1, ChainFrame DEF Journal

\* The initial states.
LEMMA InitInv == Init => Inv
<1> SUFFICES ASSUME Init PROVE Inv
  OBVIOUS
<1>1. TypeOK
  <2>1. file \in [Path -> Content]
    BY ConstantsAssumption DEF Init, Content
  <2>2. receipts \in [1..MaxSeq -> Receipt \cup {NoReceipt}]
    BY DEF Init
  <2>3. head \in 0..MaxSeq /\ edits \in 0..MaxEdits /\ faults \in 0..MaxFaults
        /\ crashes \in 0..MaxCrashes
    BY ConstantsAssumption DEF Init
  <2> QED BY <2>1, <2>2, <2>3 DEF Init, TypeOK, Phase
<1>2. Journal
  <2>1. \A n : ~Present(n)
    BY DEF Init, Present
  <2>2. \A p \in Path : file[p] \notin 1..MaxSeq
    BY ConstantsAssumption DEF Init
  <2> QED BY <2>1, <2>2, ConstantsAssumption
          DEF Init, Journal, Chain, ReceiptsOK, ChainOrder, RequestOnce, NoPostBeforeReceipt,
              NoLostUpdate, AckedIsCommitted
<1>3. Session
  BY DEF Init, Session, SlotsOK, Uncommitted, Holding, Planned, Underway, Checked, Finished,
         Staging, Present, BeforeLink, AfterLink
<1> QED BY <1>1, <1>2, <1>3 DEF Inv

\* Letting the lock go forgets what the holder knew.
LEMMA ReleasedSession ==
  ASSUME TypeOK, Session, Released, UNCHANGED <<stateDir, receipts, head>>,
         slots' \in Nat
  PROVE  Session'
BY DEF Released, Session, SlotsOK, Uncommitted, Holding, Planned, Underway, Checked, Finished,
       Staging, Present, BeforeLink, AfterLink

\* Released keeps the types of the session variables.
LEMMA ReleasedType ==
  ASSUME TypeOK, Released, UNCHANGED <<stateDir, receipts, head, file, evidence>>,
         slots' \in Nat, acked' \in SUBSET (Command \X (1..MaxSeq)),
         edits' \in 0..MaxEdits, faults' \in 0..MaxFaults, crashes' \in 0..MaxCrashes
  PROVE  TypeOK'
BY DEF Released, TypeOK, Phase

\* A crash, an error and an edit.
LEMMA CrashInv == Inv /\ Crash => Inv'
<1> SUFFICES ASSUME Inv, Crash PROVE Inv'
  OBVIOUS
<1>1. TypeOK'
  BY ReleasedType, ConstantsAssumption DEF Inv, Crash, disk, TypeOK
<1>2. Journal'
  BY JournalFrame DEF Inv, Crash, disk
<1>3. Session'
  BY ReleasedSession DEF Inv, Crash, disk, TypeOK
<1> QED BY <1>1, <1>2, <1>3 DEF Inv

\* An error return keeps the lock until the cleanup ran.
LEMMA AbortingSession ==
  ASSUME TypeOK, Session, phase # "idle", Aborting, UNCHANGED <<stateDir, receipts, head, slots>>
  PROVE  Session'
BY DEF Aborting, Session, SlotsOK, Uncommitted, Holding, Planned, Underway, Checked, Finished,
       Staging, Present, BeforeLink, AfterLink

\* Aborting keeps the types of the session variables.
LEMMA AbortingType ==
  ASSUME TypeOK, Aborting, UNCHANGED <<disk, acked>>,
         edits' \in 0..MaxEdits, faults' \in 0..MaxFaults, crashes' \in 0..MaxCrashes
  PROVE  TypeOK'
BY DEF Aborting, TypeOK, Phase, disk

\* A native call that fails changes only where the holder is.
LEMMA FaultInv == Inv /\ Fault => Inv'
<1> SUFFICES ASSUME Inv, Fault PROVE Inv'
  OBVIOUS
<1>1. TypeOK'
  BY AbortingType, ConstantsAssumption DEF Inv, Fault, TypeOK
<1>2. Journal'
  BY JournalFrame DEF Inv, Fault, disk
<1>3. Session'
  BY AbortingSession DEF Inv, Fault, disk
<1> QED BY <1>1, <1>2, <1>3 DEF Inv

\* A human edit disturbs only the conjuncts that read file: it writes no
\* journal bytes of its own, and one that falls between replace's last look and
\* its rename is told apart by how.
LEMMA EditInv == \A p \in IntentPath : Inv /\ Edit(p) => Inv'
<1> SUFFICES ASSUME NEW p \in IntentPath, Inv, Edit(p) PROVE Inv'
  OBVIOUS
<1> USE DEF Inv
<1>1. PICK b \in (EditBytes \cup Held(p) \cup {NoFile}) \ {file[p]} : file' = [file EXCEPT ![p] = b]
  BY DEF Edit
<1>2. p \in Path /\ b \in Content
  BY <1>1, HeldIsContent DEF Path, Content
<1>3. TypeOK'
  BY <1>1, <1>2, ConstantsAssumption DEF Edit, TypeOK, session
<1>4. Journal'
  <2>1. ASSUME NEW q \in Path, file'[q] \in 1..MaxSeq
        PROVE  \E n \in Writers(q, MaxSeq) : receipts[n].post[q] = file'[q]
    <3>1. CASE q = p
      <4>1. b \in Held(p)
        BY <1>1, <1>2, <2>1, <3>1, ConstantsAssumption DEF TypeOK
      <4> QED BY <1>1, <1>2, <3>1, <4>1, HeldIsContent DEF TypeOK
    <3>2. CASE q # p
      BY <1>1, <2>1, <3>2 DEF Journal, NoPostBeforeReceipt, TypeOK
    <3> QED BY <3>1, <3>2
  <2>2. NoPostBeforeReceipt'
    BY <2>1 DEF NoPostBeforeReceipt, Writers, Edit
  <2>3. Chain'
    BY ChainFrame DEF Edit, Journal
  <2> QED BY <2>2, <2>3 DEF Journal
<1>5. Session'
  <2>1. /\ UNCHANGED <<stateDir, receipts, head, slots, phase, cmd, plan, redoing, todo, mine, evidence>>
        /\ how' = IF how = "verified" /\ p = NextPost THEN "raced" ELSE how
    BY DEF Edit
  <2>5. (how' = "none" <=> how = "none") /\ (how' \in {"verified", "raced"} <=> how \in {"verified", "raced"})
    BY <2>1
  <2>2. SlotsOK' /\ Uncommitted' /\ Holding' /\ Underway' /\ Finished' /\ Staging'
    BY <2>1, <2>5 DEF Session, SlotsOK, Uncommitted, Holding, Underway, Finished, Staging, Present
  <2>3. Planned'
    BY <2>1 DEF Session, Planned, DecidedOn, Latest, Writers, Present
  <2>4. Checked'
    <3>1. NextPost' = NextPost
      BY <2>1 DEF NextPost
    <3>2. ASSUME how' = "verified" PROVE file'[NextPost'] = plan'.pre[NextPost']
      <4>1. how = "verified" /\ p # NextPost
        BY <2>1, <3>2
      <4>2. file'[NextPost] = file[NextPost]
        BY <1>1, <4>1 DEF TypeOK
      <4> QED BY <2>1, <3>1, <4>1, <4>2 DEF Session, Checked
    <3> QED BY <2>1, <2>5, <3>2 DEF Session, Checked
  <2> QED BY <2>2, <2>3, <2>4 DEF Session
<1> QED BY <1>3, <1>4, <1>5

-----------------------------------------------------------------------------
(* The inductive invariant: starting a command. *)

\* INIT starts in a repository without a state dir, so without a receipt.
LEMMA BeginInitInv == \A i \in Requests : Inv /\ BeginInit(i) => Inv'
<1> SUFFICES ASSUME NEW i \in Requests, Inv, BeginInit(i) PROVE Inv'
  OBVIOUS
<1> USE DEF Inv
<1> DEFINE c == Named(i, "INIT", "queue", NoFile, NoFile)
           posts == [p \in Path |-> IF p = i THEN 1
                                    ELSE IF p \in {"policy", "queue"} THEN file[p] ELSE NoEntry]
           absent == [p \in Path |-> IF posts[p] = NoEntry THEN NoEntry ELSE NoFile]
           r == [cmd |-> c, pre |-> absent, post |-> posts, blobs |-> {}]
<1>1. /\ phase = "idle" /\ stateDir = "absent" /\ stateDir' = "partial"
      /\ file["queue"] # NoFile /\ file["policy"] # NoFile
      /\ phase' = "mkdir" /\ cmd' = c /\ plan' = r
      /\ UNCHANGED <<receipts, head, file, evidence, slots, redoing, todo, how, mine, acked, env>>
  BY DEF BeginInit
<1>2. c \in Command /\ c.id = i /\ c.op = "INIT"
  BY DEF Command, Named, Op, Content, Path, IntentPath
<1>3. {"policy", "queue"} \subseteq Path /\ i \in Path /\ 1 \in Content /\ 1 # NoFile /\ 1 # NoEntry
      /\ NoFile \in Content /\ NoFile # NoEntry
  BY ConstantsAssumption DEF Path, IntentPath, Content
<1>4. posts \in Entries
  BY <1>3 DEF TypeOK, Entries
<1>5. absent \in Entries
  BY <1>3 DEF Entries
<1>6. posts[i] # NoEntry /\ \A p \in Path \ {"barrier"} : posts[p] # NoFile
  BY <1>1, <1>3
<1>7. r \in Receipt /\ WellFormed(r) /\ r.cmd = c
  <2> HIDE DEF posts, absent, c
  <2> QED BY <1>2, <1>4, <1>5, <1>6 DEF Receipt, WellFormed
<1>8. TypeOK'
  <2> HIDE DEF r, c
  <2> QED BY <1>1, <1>2, <1>7 DEF TypeOK, Phase, env
<1>9. Journal'
  BY <1>1, JournalFrame
<1>10. Session'
  <2> HIDE DEF r, c
  <2>1. head = 0 /\ \A n \in 1..MaxSeq : ~Present(n)
    BY <1>1, ConstantsAssumption DEF Session, Uncommitted, Journal, Chain, ChainOrder
  <2>2. Planned'
    BY <1>1, <1>2, <1>7, <2>1, ConstantsAssumption DEF Session, Holding, Planned, Present, BeforeLink, TypeOK
  <2> QED BY <1>1, <1>2, <2>2, <2>1 DEF Session, SlotsOK, Uncommitted, Holding, Underway, Checked,
          Finished, Staging, Present, BeforeLink, AfterLink
<1> QED BY <1>8, <1>9, <1>10

\* A fresh request is not in the index, so no receipt names it.
LEMMA FreshInv ==
  ASSUME Inv, stateDir # "absent", NEW c \in Command, Fresh(c)
  PROVE  Inv'
<1> USE DEF Inv
<1>1. PICK r \in Plans(c) : Applying(c, r)
  BY DEF Fresh
<1>2. WellFormed(r) /\ r.cmd = c /\ head < MaxSeq /\ DecidedOn(r, head)
  BY PlansAreSound DEF Journal, Chain
<1>3. UNCHANGED <<stateDir, receipts, head, file, evidence, slots, acked, edits, faults, crashes>>
  BY DEF Fresh, disk, env
<1>4. /\ phase' = "evidence" /\ cmd' = c /\ plan' = r
      /\ redoing' = FALSE /\ todo' = {} /\ how' = "none" /\ mine' = 0
  BY <1>1 DEF Applying
<1>5. \A n \in 1..MaxSeq : Present(n) => receipts[n].cmd.id # c.id
  BY DEF Fresh, Recorded, Writers, Present, Journal, Chain, ReceiptsOK, WellFormed
<1>6. TypeOK'
  BY <1>2, <1>3, <1>4 DEF TypeOK, Phase, WellFormed
<1>7. Journal'
  BY <1>3, JournalFrame
<1>8. Session'
  <2>1. WellFormed(plan)' /\ DecidedOn(plan, head)'
    BY <1>2, <1>3, <1>4 DEF WellFormed, DecidedOn, Latest, Writers
  <2>2. Planned'
    BY <1>2, <1>3, <1>4, <1>5, <2>1 DEF Planned, Present
  <2> QED BY <1>3, <1>4, <2>2 DEF Session, SlotsOK, Uncommitted, Holding, Underway, Checked,
          Finished, Staging, AfterLink, TypeOK
<1> QED BY <1>6, <1>7, <1>8

\* An answer from the index names a settled receipt of that very command.
LEMMA ReplayInv ==
  ASSUME Inv, NEW c \in Command, Replay(c)
  PROVE  Inv'
<1> USE DEF Inv
<1>1. PICK n \in Recorded(c.id) : receipts[n].cmd = c /\ acked' = acked \cup {<<c, n>>}
  BY DEF Replay
<1>2. UNCHANGED <<stateDir, receipts, head, file, evidence, slots, edits, faults, crashes>>
  BY DEF Replay, disk, env
<1>3. n \in 1..MaxSeq /\ Present(n)
  BY DEF Recorded, Writers, Present
<1>4. n <= head
  <2>1. ~Present(head + 1)
    BY DEF Replay, Audit, Pending
  <2>2. n <= head + 1 /\ n # head + 1
    BY <1>3, <2>1 DEF Journal, Chain, ChainOrder
  <2> QED BY <1>3, <2>2 DEF TypeOK
<1>5. TypeOK'
  BY <1>1, <1>2, <1>3, ReleasedType DEF Replay, TypeOK
<1>6. Journal'
  <2>1. AckedIsCommitted'
    BY <1>1, <1>2, <1>4 DEF Journal, Chain, AckedIsCommitted
  <2>2. ReceiptsOK' /\ ChainOrder' /\ RequestOnce'
    BY <1>2 DEF Journal, Chain, ReceiptsOK, ChainOrder, RequestOnce, Present
  <2>3. NoLostUpdate'
    BY <1>2 DEF Journal, Chain, NoLostUpdate, Present, Latest, Writers
  <2>4. NoPostBeforeReceipt'
    BY <1>2 DEF Journal, NoPostBeforeReceipt, Writers
  <2> QED BY <2>1, <2>2, <2>3, <2>4 DEF Journal, Chain
<1>7. Session'
  BY <1>2, ReleasedSession DEF Replay, TypeOK
<1> QED BY <1>5, <1>6, <1>7

\* Redo carries the pending receipt, whatever request asked for it.
LEMMA StartRedoInv ==
  ASSUME Inv, stateDir # "absent", NEW c \in Command, StartRedo(c)
  PROVE  Inv'
<1> USE DEF Inv
<1>1. Present(head + 1)
  BY DEF StartRedo, RedoAuthorized, Pending
<1>2. /\ phase' = "posts" /\ cmd' = c /\ plan' = receipts[head + 1] /\ redoing' = TRUE
      /\ todo' = Posted(receipts[head + 1]) /\ how' = "none" /\ mine' = 0
      /\ UNCHANGED <<stateDir, receipts, head, file, evidence, slots, acked, edits, faults, crashes>>
  BY DEF StartRedo, disk, env
<1>3. TypeOK'
  BY <1>1, <1>2 DEF TypeOK, Phase, Present, Posted
<1>4. Journal'
  BY <1>2, JournalFrame
<1>5. Session'
  BY <1>1, <1>2 DEF Session, SlotsOK, Uncommitted, Holding, Planned, Underway, Checked, Finished,
     Staging, BeforeLink, Present, TypeOK, Posted
<1> QED BY <1>3, <1>4, <1>5

\* Begin is one of Fresh, Replay and StartRedo.
LEMMA BeginInv == \A c \in Invocations : Inv /\ Begin(c) => Inv'
<1> SUFFICES ASSUME NEW c \in Invocations, Inv, Begin(c) PROVE Inv'
  OBVIOUS
<1>1. c \in Command
  BY InvocationsAreCommands DEF Inv
<1>2. stateDir # "absent"
  BY DEF Inv, Session, Uncommitted, Begin, Mutate, PolicyUpdate, Barrier, Reconcile
<1> QED BY <1>1, <1>2, FreshInv, ReplayInv, StartRedoInv DEF Begin, Mutate, PolicyUpdate, Barrier, Reconcile

\* After its redo the command starts afresh, replays or returns.
LEMMA ResumeInv == Inv /\ Resume => Inv'
<1> SUFFICES ASSUME Inv, Resume PROVE Inv'
  OBVIOUS
<1>1. cmd \in Command /\ stateDir # "absent"
  BY DEF Inv, Session, Uncommitted, Holding, Resume
<1>2. CASE Released /\ UNCHANGED <<disk, acked, env>>
  <2>1. TypeOK'
    BY <1>2, ReleasedType DEF Inv, TypeOK, disk, env
  <2>2. Journal'
    BY <1>2, JournalFrame DEF Inv, disk
  <2>3. Session'
    BY <1>2, ReleasedSession DEF Inv, TypeOK, disk
  <2> QED BY <2>1, <2>2, <2>3 DEF Inv
<1> QED BY <1>1, <1>2, FreshInv, ReplayInv DEF Resume

-----------------------------------------------------------------------------
(* The inductive invariant: apply and redoPosts. *)

\* What a plan was decided on does not move under the lock.
LEMMA PlannedFrame ==
  ASSUME Planned, phase \in BeforeLink, UNCHANGED <<receipts, head, plan, cmd, redoing>>,
         phase' = "receipt" => plan.blobs \subseteq evidence'
  PROVE  Planned'
<1>1. head # 0 => DecidedOn(plan, head)'
  BY DEF Planned, DecidedOn, Latest, Writers
<1> QED BY <1>1 DEF Planned, WellFormed, Present

\* Making the directories of the state dir touches no receipt.
LEMMA MakeDirectoriesInv == Inv /\ MakeDirectories => Inv'
<1> SUFFICES ASSUME Inv, MakeDirectories PROVE Inv'
  OBVIOUS
<1> USE DEF Inv
<1>1. /\ phase = "mkdir" /\ phase' = "evidence" /\ stateDir' = "made"
      /\ UNCHANGED <<receipts, head, file, evidence, slots, cmd, plan, redoing, todo, how, mine,
                     acked, edits, faults, crashes>>
  BY DEF MakeDirectories, env
<1>2. TypeOK'
  BY <1>1 DEF TypeOK, Phase
<1>3. Journal'
  BY <1>1, JournalFrame
<1>4. Session'
  <2>1. Planned'
    BY <1>1, PlannedFrame DEF Session, BeforeLink
  <2> QED BY <1>1, <2>1 DEF Session, SlotsOK, Uncommitted, Holding, Underway, Checked, Finished,
          Staging, AfterLink
<1> QED BY <1>2, <1>3, <1>4

\* Staging a blob occupies one slot that the holder owns.
LEMMA StageEvidenceInv == Inv /\ StageEvidence => Inv'
<1> SUFFICES ASSUME Inv, StageEvidence PROVE Inv'
  OBVIOUS
<1> USE DEF Inv
<1>1. /\ phase = "evidence" /\ how = "none"
      /\ slots' = slots + 1 /\ mine' = mine + 1 /\ how' = "create"
      /\ UNCHANGED <<stateDir, receipts, head, file, evidence, phase, cmd, plan, redoing, todo,
                     acked, edits, faults, crashes>>
  BY DEF StageEvidence, Stage, env
<1>2. TypeOK'
  BY <1>1 DEF TypeOK
<1>3. Journal'
  BY <1>1, JournalFrame
<1>4. Session'
  <2>1. Planned'
    BY <1>1, PlannedFrame DEF Session, BeforeLink
  <2> QED BY <1>1, <2>1 DEF Session, SlotsOK, Uncommitted, Holding, Underway, Checked, Finished,
          Staging, AfterLink, TypeOK
<1> QED BY <1>2, <1>3, <1>4

\* Linking a blob only adds evidence.
LEMMA LinkEvidenceInv == Inv /\ LinkEvidence => Inv'
<1> SUFFICES ASSUME Inv, LinkEvidence PROVE Inv'
  OBVIOUS
<1> USE DEF Inv
<1>1. /\ phase = "evidence" /\ how = "create" /\ how' = "none"
      /\ evidence' = evidence \cup plan.blobs
      /\ UNCHANGED <<stateDir, receipts, head, file, slots, phase, cmd, plan, redoing, todo, mine,
                     acked, edits, faults, crashes>>
  BY DEF LinkEvidence, env
<1>2. plan \in Receipt
  BY <1>1 DEF Session, Planned, BeforeLink, WellFormed
<1>3. TypeOK'
  BY <1>1, <1>2 DEF TypeOK, Receipt
<1>4. Journal'
  BY <1>1, JournalFrame
<1>5. Session'
  <2>1. Planned'
    BY <1>1, PlannedFrame DEF Session, BeforeLink
  <2> QED BY <1>1, <2>1 DEF Session, SlotsOK, Uncommitted, Holding, Underway, Checked, Finished,
          Staging, AfterLink, TypeOK
<1> QED BY <1>3, <1>4, <1>5

\* The receipt is staged once its blobs are in evidence.
LEMMA StageReceiptInv == Inv /\ StageReceipt => Inv'
<1> SUFFICES ASSUME Inv, StageReceipt PROVE Inv'
  OBVIOUS
<1> USE DEF Inv
<1>1. /\ phase = "evidence" /\ phase' = "receipt" /\ plan.blobs \subseteq evidence
      /\ slots' = slots + 1 /\ mine' = mine + 1 /\ how' = "create"
      /\ UNCHANGED <<stateDir, receipts, head, file, evidence, cmd, plan, redoing, todo,
                     acked, edits, faults, crashes>>
  BY DEF StageReceipt, Stage, env
<1>2. TypeOK'
  BY <1>1 DEF TypeOK, Phase
<1>3. Journal'
  BY <1>1, JournalFrame
<1>4. Session'
  <2>1. Planned'
    BY <1>1, PlannedFrame DEF Session, BeforeLink
  <2> QED BY <1>1, <2>1 DEF Session, SlotsOK, Uncommitted, Holding, Underway, Checked, Finished,
          Staging, AfterLink, TypeOK
<1> QED BY <1>2, <1>3, <1>4

\* The commit: one more receipt, decided on everything below it.
LEMMA LinkReceiptInv == Inv /\ LinkReceipt => Inv'
<1> SUFFICES ASSUME Inv, LinkReceipt PROVE Inv'
  OBVIOUS
<1> USE DEF Inv
<1>1. phase = "receipt" /\ UNCHANGED <<stateDir, head, file, evidence, slots, acked, edits, faults, crashes>>
  BY DEF LinkReceipt, env
<1>2. CASE Present(head + 1)
  <2>1. Aborting /\ UNCHANGED <<disk, acked>>
    BY <1>1, <1>2 DEF LinkReceipt, disk
  <2>2. TypeOK'
    BY <1>1, <2>1, AbortingType DEF TypeOK
  <2>3. Journal'
    BY <2>1, JournalFrame DEF disk
  <2>4. Session'
    BY <1>1, <2>1, AbortingSession DEF disk
  <2> QED BY <2>2, <2>3, <2>4
<1>3. CASE ~Present(head + 1)
  <2>1. /\ receipts' = [receipts EXCEPT ![head + 1] = plan]
        /\ phase' = "posts" /\ how' = "none"
        /\ todo' = {p \in Posted(plan) : plan.post[p] # NoFile}
        /\ UNCHANGED <<cmd, plan, redoing, mine>>
    BY <1>3 DEF LinkReceipt
  <2>2. /\ WellFormed(plan) /\ plan \in Receipt /\ plan.cmd = cmd /\ ~redoing
        /\ plan.blobs \subseteq evidence /\ head < MaxSeq
        /\ \A n \in 1..MaxSeq : Present(n) => receipts[n].cmd.id # plan.cmd.id
        /\ head # 0 => DecidedOn(plan, head)
    BY <1>1 DEF Session, Planned, BeforeLink, WellFormed
  <2>3. /\ head \in Nat /\ head + 1 \in 1..MaxSeq /\ receipts' \in [1..MaxSeq -> Receipt \cup {NoReceipt}]
        /\ receipts'[head + 1] = plan /\ plan # NoReceipt
        /\ \A n \in 1..MaxSeq : n # head + 1 => receipts'[n] = receipts[n]
    BY <2>1, <2>2, ConstantsAssumption DEF TypeOK
  <2>4. /\ Present(head + 1)'
        /\ \A n \in 1..MaxSeq : n # head + 1 => (Present(n)' <=> Present(n))
    BY <1>1, <2>3 DEF Present
  <2>5. TypeOK'
    BY <1>1, <2>1, <2>3 DEF TypeOK, Phase, Posted
  <2>6. ReceiptsOK'
    BY <1>1, <2>2, <2>3, <2>4 DEF Journal, Chain, ReceiptsOK, WellFormed
  <2>7. ChainOrder'
    BY <1>1, <2>3, <2>4 DEF Journal, Chain, ChainOrder
  <2>8. RequestOnce'
    BY <1>3, <2>2, <2>3, <2>4 DEF Journal, Chain, RequestOnce
  <2>9. NoPostBeforeReceipt'
    <3>1. \A p \in Path : \A n \in Writers(p, MaxSeq) : n \in Writers(p, MaxSeq)' /\ receipts'[n] = receipts[n]
      BY <1>3, <2>3 DEF Writers, Present
    <3> QED BY <1>1, <3>1 DEF Journal, NoPostBeforeReceipt
  <2>10. NoLostUpdate'
    <3>1. ASSUME NEW n \in 2..MaxSeq, Present(n)' PROVE DecidedOn(receipts[n], n - 1)'
      <4>1. n <= head + 1 /\ n - 1 \in Nat
        BY <2>3, <2>7, <3>1, <1>1 DEF ChainOrder
      <4>2. ASSUME NEW i \in 1..(n - 1) PROVE receipts'[i] = receipts[i]
        <5>1. i \in 1..MaxSeq /\ i # head + 1
          BY <2>3, <4>1, ConstantsAssumption
        <5> QED BY <2>3, <5>1
      <4>3. \A p : Writers(p, n - 1)' = Writers(p, n - 1) /\ Latest(p, n - 1)' = Latest(p, n - 1)
        BY <4>1, <4>2, LatestFrame
      <4>4. DecidedOn(receipts'[n], n - 1)
        <5>1. CASE n = head + 1
          BY <2>2, <2>3, <5>1
        <5>2. CASE n # head + 1
          BY <2>3, <2>4, <3>1, <5>2 DEF Journal, Chain, NoLostUpdate, DecidedOn
        <5> QED BY <5>1, <5>2
      <4> QED BY <4>3, <4>4 DEF DecidedOn
    <3> QED BY <3>1 DEF NoLostUpdate, DecidedOn
  <2>11. AckedIsCommitted'
    <3>1. ASSUME NEW a \in acked PROVE receipts'[a[2]] = receipts[a[2]]
      <4>1. a[2] \in 1..MaxSeq /\ a[2] <= head
        BY DEF TypeOK, Journal, Chain, AckedIsCommitted
      <4> QED BY <2>3, <4>1
    <3> QED BY <1>1, <3>1 DEF Journal, Chain, AckedIsCommitted
  <2>12. Session'
    BY <1>1, <2>1, <2>2, <2>3, <2>4 DEF Session, SlotsOK, Uncommitted, Holding, Planned, Underway,
       Checked, Finished, Staging, BeforeLink, AfterLink, Posted
  <2> QED BY <2>5, <2>6, <2>7, <2>8, <2>9, <2>10, <2>11, <2>12 DEF Journal, Chain
<1> QED BY <1>2, <1>3

\* While posts are published, the linked receipt stays the one below them.
LEMMA LinkedFrame ==
  ASSUME Underway, phase \in AfterLink, UNCHANGED <<receipts, head, plan, cmd, redoing>>,
         phase' = "posts" => phase = "posts" /\ todo' \subseteq todo
  PROVE  Underway'
BY DEF Underway, Present, Posted

\* A post that is already there is passed over.
LEMMA SkipPostInv == Inv /\ SkipPost => Inv'
<1> SUFFICES ASSUME Inv, SkipPost PROVE Inv'
  OBVIOUS
<1> USE DEF Inv
<1>1. /\ phase = "posts" /\ how = "none" /\ todo' = todo \ {NextPost}
      /\ UNCHANGED <<stateDir, receipts, head, file, evidence, slots, phase, cmd, plan, redoing,
                     how, mine, acked, edits, faults, crashes>>
  BY DEF SkipPost, Deciding, disk, env
<1>2. TypeOK'
  BY <1>1 DEF TypeOK
<1>3. Journal'
  BY <1>1, JournalFrame
<1>4. Session'
  <2>1. Underway'
    BY <1>1, LinkedFrame DEF Session, AfterLink
  <2> QED BY <1>1, <2>1 DEF Session, SlotsOK, Uncommitted, Holding, Planned, Checked, Finished,
          Staging, BeforeLink
<1> QED BY <1>2, <1>3, <1>4

\* Staging a post occupies one slot and decides how it is published.
LEMMA StagePostInv == Inv /\ StagePost => Inv'
<1> SUFFICES ASSUME Inv, StagePost PROVE Inv'
  OBVIOUS
<1> USE DEF Inv
<1>1. /\ phase = "posts" /\ todo # {}
      /\ slots' = slots + 1 /\ mine' = mine + 1 /\ how' \in {"create", "replace"}
      /\ UNCHANGED <<stateDir, receipts, head, file, evidence, phase, cmd, plan, redoing, todo,
                     acked, edits, faults, crashes>>
  BY DEF StagePost, Deciding, Stage, env
<1>2. TypeOK'
  BY <1>1 DEF TypeOK
<1>3. Journal'
  BY <1>1, JournalFrame
<1>4. Session'
  <2>1. Underway'
    BY <1>1, LinkedFrame DEF Session, AfterLink
  <2> QED BY <1>1, <2>1 DEF Session, SlotsOK, Uncommitted, Holding, Planned, Checked, Finished,
          Staging, BeforeLink, TypeOK
<1> QED BY <1>2, <1>3, <1>4

\* Refusing a post writes nothing.
LEMMA RefusePostInv == Inv /\ RefusePost => Inv'
<1> SUFFICES ASSUME Inv, RefusePost PROVE Inv'
  OBVIOUS
<1> USE DEF Inv
<1>1. phase = "posts" /\ Aborting /\ UNCHANGED <<disk, acked, env>>
  BY DEF RefusePost, Deciding
<1>2. TypeOK'
  BY <1>1, AbortingType DEF TypeOK, env
<1>3. Journal'
  BY <1>1, JournalFrame DEF disk
<1>4. Session'
  BY <1>1, AbortingSession DEF disk
<1> QED BY <1>2, <1>3, <1>4

\* A projection written by the holder is one its linked receipt posted.
LEMMA WrittenPost ==
  ASSUME Inv, phase = "posts", todo # {},
         file' = [file EXCEPT ![NextPost] = plan.post[NextPost]],
         UNCHANGED <<receipts, head, evidence, acked>>
  PROVE  Journal' /\ file' \in [Path -> Content]
<1> USE DEF Inv
<1>1. /\ NextPost \in Posted(plan) /\ plan = receipts[head + 1] /\ Present(head + 1)
  BY NextPostIsOutstanding DEF Session, Underway, AfterLink
<1>2. NextPost \in Path /\ plan.post[NextPost] \in Content
  BY <1>1 DEF Posted, Present, TypeOK, Receipt, Entries
<1>3. head + 1 \in Writers(NextPost, MaxSeq)
  BY <1>1 DEF Writers, Posted, Present
<1>4. \A p \in Path : file'[p] \in 1..MaxSeq =>
        \E n \in Writers(p, MaxSeq) : receipts[n].post[p] = file'[p]
  BY <1>1, <1>2, <1>3 DEF Journal, NoPostBeforeReceipt, TypeOK
<1>5. NoPostBeforeReceipt'
  BY <1>4 DEF NoPostBeforeReceipt, Writers
<1> QED BY <1>2, <1>5, ChainFrame DEF Journal, TypeOK

\* Linking a post onto an absent destination.
LEMMA LinkPostInv == Inv /\ LinkPost => Inv'
<1> SUFFICES ASSUME Inv, LinkPost PROVE Inv'
  OBVIOUS
<1> USE DEF Inv
<1>1. /\ phase = "posts" /\ how = "create" /\ todo # {}
      /\ UNCHANGED <<stateDir, receipts, head, evidence, slots, acked, edits, faults, crashes>>
  BY DEF LinkPost, Session, Staging, env
<1>2. CASE file[NextPost] = NoFile
  <2>1. /\ file' = [file EXCEPT ![NextPost] = plan.post[NextPost]]
        /\ todo' = todo \ {NextPost} /\ how' = "none"
        /\ UNCHANGED <<phase, cmd, plan, redoing, mine>>
    BY <1>2 DEF LinkPost, Settle
  <2>2. Journal' /\ file' \in [Path -> Content]
    BY <1>1, <2>1, WrittenPost
  <2>3. TypeOK'
    BY <1>1, <2>1, <2>2 DEF TypeOK
  <2>4. Underway'
    BY <1>1, <2>1, LinkedFrame DEF Session, AfterLink
  <2>5. Session'
    BY <1>1, <2>1, <2>4 DEF Session, SlotsOK, Uncommitted, Holding, Planned, Checked, Finished,
       Staging, BeforeLink
  <2> QED BY <2>2, <2>3, <2>5
<1>3. CASE file[NextPost] # NoFile
  <2>1. Aborting /\ UNCHANGED <<disk, acked>>
    BY <1>1, <1>3 DEF LinkPost, disk
  <2>2. TypeOK'
    BY <1>1, <2>1, AbortingType DEF TypeOK
  <2>3. Journal'
    BY <2>1, JournalFrame DEF disk
  <2>4. Session'
    BY <1>1, <2>1, AbortingSession DEF disk
  <2> QED BY <2>2, <2>3, <2>4
<1> QED BY <1>2, <1>3

\* The second reading of the destination, before the rename.
LEMMA VerifyPostInv == Inv /\ VerifyPost => Inv'
<1> SUFFICES ASSUME Inv, VerifyPost PROVE Inv'
  OBVIOUS
<1> USE DEF Inv
<1>1. /\ phase = "posts" /\ how = "replace" /\ todo # {}
      /\ UNCHANGED <<stateDir, receipts, head, file, evidence, slots, acked, edits, faults, crashes>>
  BY DEF VerifyPost, disk, env, Session, Staging
<1>2. CASE Settle(NextPost) /\ mine' = mine - 1
  <2>1. 0 < mine /\ mine \in Nat /\ slots \in Nat
    BY <1>1 DEF Session, SlotsOK, TypeOK
  <2>2. TypeOK'
    BY <1>1, <1>2, <2>1 DEF TypeOK, Settle
  <2>3. Journal'
    BY <1>1, JournalFrame
  <2>4. Underway'
    BY <1>1, <1>2, LinkedFrame DEF Session, AfterLink, Settle
  <2>5. Session'
    BY <1>1, <1>2, <2>1, <2>4 DEF Settle, Session, SlotsOK, Uncommitted, Holding, Planned, Checked,
       Finished, Staging, BeforeLink
  <2> QED BY <2>2, <2>3, <2>5
<1>3. CASE /\ file[NextPost] = plan.pre[NextPost] /\ how' = "verified"
           /\ UNCHANGED <<phase, cmd, plan, redoing, todo, mine>>
  <2>1. TypeOK'
    BY <1>1, <1>3 DEF TypeOK
  <2>2. Journal'
    BY <1>1, JournalFrame
  <2>3. Underway'
    BY <1>1, <1>3, LinkedFrame DEF Session, AfterLink
  <2>4. Session'
    BY <1>1, <1>3, <2>3 DEF Session, SlotsOK, Uncommitted, Holding, Planned, Checked, Finished,
       Staging, BeforeLink, NextPost
  <2> QED BY <2>1, <2>2, <2>4
<1>4. CASE Aborting
  <2>1. TypeOK'
    BY <1>1, <1>4, AbortingType DEF TypeOK, disk
  <2>2. Journal'
    BY <1>1, JournalFrame
  <2>3. Session'
    BY <1>1, <1>4, AbortingSession
  <2> QED BY <2>1, <2>2, <2>3
<1> QED BY <1>2, <1>3, <1>4 DEF VerifyPost

\* Renaming a post over its destination.
LEMMA RenamePostInv == Inv /\ RenamePost => Inv'
<1> SUFFICES ASSUME Inv, RenamePost PROVE Inv'
  OBVIOUS
<1> USE DEF Inv
<1>1. /\ phase = "posts" /\ how \in {"verified", "raced"} /\ todo # {}
      /\ file' = [file EXCEPT ![NextPost] = plan.post[NextPost]]
      /\ slots' = slots - 1 /\ mine' = mine - 1
      /\ todo' = todo \ {NextPost} /\ how' = "none"
      /\ UNCHANGED <<stateDir, receipts, head, evidence, phase, cmd, plan, redoing, acked, edits, faults, crashes>>
  BY DEF RenamePost, Settle, Session, Staging, env
<1>2. 0 < mine /\ mine <= slots /\ mine \in Nat /\ slots \in Nat
  BY <1>1 DEF Session, SlotsOK, TypeOK
<1>3. Journal' /\ file' \in [Path -> Content]
  BY <1>1, WrittenPost
<1>4. TypeOK'
  BY <1>1, <1>2, <1>3 DEF TypeOK
<1>5. Underway'
  BY <1>1, LinkedFrame DEF Session, AfterLink
<1>6. Session'
  BY <1>1, <1>2, <1>5 DEF Session, SlotsOK, Uncommitted, Holding, Planned, Checked, Finished,
     Staging, BeforeLink
<1> QED BY <1>3, <1>4, <1>6

\* The last post is settled, and a redo gives its slots back.
LEMMA PostsDoneInv == Inv /\ PostsDone => Inv'
<1> SUFFICES ASSUME Inv, PostsDone PROVE Inv'
  OBVIOUS
<1> USE DEF Inv
<1>1. /\ phase = "posts" /\ todo = {} /\ phase' \in {"delete", "head"}
      /\ IF redoing THEN slots' = slots - mine /\ mine' = 0 ELSE UNCHANGED <<slots, mine>>
      /\ UNCHANGED <<stateDir, receipts, head, file, evidence, cmd, plan, redoing, todo, how,
                     acked, edits, faults, crashes>>
  BY DEF PostsDone, env
<1>2. how = "none"
  BY <1>1 DEF Session, Staging
<1>3. mine <= slots /\ mine \in Nat /\ slots \in Nat
  BY DEF Session, SlotsOK, TypeOK
<1>4. TypeOK'
  BY <1>1, <1>3 DEF TypeOK, Phase
<1>5. Journal'
  BY <1>1, JournalFrame
<1>6. Underway'
  BY <1>1, LinkedFrame DEF Session, AfterLink
<1>7. Session'
  BY <1>1, <1>2, <1>3, <1>6 DEF Session, SlotsOK, Uncommitted, Holding, Planned, Checked, Finished,
     Staging, BeforeLink
<1> QED BY <1>4, <1>5, <1>7

\* Removing the barrier writes no journal bytes.
LEMMA DeleteBarrierInv == Inv /\ DeleteBarrier => Inv'
<1> SUFFICES ASSUME Inv, DeleteBarrier PROVE Inv'
  OBVIOUS
<1> USE DEF Inv
<1>1. phase = "delete" /\ UNCHANGED <<stateDir, receipts, head, evidence, slots, acked, edits, faults, crashes>>
  BY DEF DeleteBarrier, env
<1>2. CASE /\ file' = [file EXCEPT !["barrier"] = NoFile]
           /\ phase' = "head" /\ UNCHANGED <<cmd, plan, redoing, todo, how, mine>>
  <2>1. "barrier" \in Path /\ NoFile \in Content
    BY DEF Path, Content
  <2>2. TypeOK'
    BY <1>1, <1>2, <2>1 DEF TypeOK, Phase
  <2>3. Journal'
    <3>1. NoFile \notin 1..MaxSeq
      BY ConstantsAssumption
    <3>2. \A p \in Path : file'[p] \in 1..MaxSeq =>
            \E n \in Writers(p, MaxSeq) : receipts[n].post[p] = file'[p]
      BY <1>2, <2>1, <3>1 DEF TypeOK, Journal, NoPostBeforeReceipt
    <3>3. NoPostBeforeReceipt'
      BY <1>1, <3>2 DEF NoPostBeforeReceipt, Writers
    <3> QED BY <1>1, <3>3, ChainFrame DEF Journal
  <2>4. Underway'
    BY <1>1, <1>2, LinkedFrame DEF Session, AfterLink
  <2>5. Session'
    BY <1>1, <1>2, <2>4 DEF Session, SlotsOK, Uncommitted, Holding, Planned, Checked, Finished,
       Staging, BeforeLink
  <2> QED BY <2>2, <2>3, <2>5
<1>3. CASE Aborting /\ UNCHANGED file
  <2>1. TypeOK'
    BY <1>1, <1>3, AbortingType DEF TypeOK, disk
  <2>2. Journal'
    BY <1>1, <1>3, JournalFrame
  <2>3. Session'
    BY <1>1, <1>3, AbortingSession
  <2> QED BY <2>1, <2>2, <2>3
<1> QED BY <1>2, <1>3 DEF DeleteBarrier

\* Staging the head occupies one slot.
LEMMA StageHeadInv == Inv /\ StageHead => Inv'
<1> SUFFICES ASSUME Inv, StageHead PROVE Inv'
  OBVIOUS
<1> USE DEF Inv
<1>1. /\ phase = "head" /\ slots' = slots + 1
      /\ mine' = IF redoing THEN mine ELSE mine + 1
      /\ how' \in {"create", "replace"}
      /\ UNCHANGED <<stateDir, receipts, head, file, evidence, phase, cmd, plan, redoing, todo,
                     acked, edits, faults, crashes>>
  BY DEF StageHead, env
<1>2. TypeOK'
  BY <1>1 DEF TypeOK
<1>3. Journal'
  BY <1>1, JournalFrame
<1>4. Session'
  <2>1. Underway'
    BY <1>1, LinkedFrame DEF Session, AfterLink
  <2> QED BY <1>1, <2>1 DEF Session, SlotsOK, Uncommitted, Holding, Planned, Checked, Finished,
          Staging, BeforeLink, TypeOK
<1> QED BY <1>2, <1>3, <1>4

\* The head moves only onto the receipt that is there.
LEMMA PublishHeadInv == Inv /\ PublishHead => Inv'
<1> SUFFICES ASSUME Inv, PublishHead PROVE Inv'
  OBVIOUS
<1> USE DEF Inv
<1>1. /\ phase = "head" /\ how # "none" /\ head' = head + 1 /\ how' = "none"
      /\ phase' = IF redoing THEN "resume" ELSE "finish"
      /\ UNCHANGED <<stateDir, receipts, file, evidence, cmd, plan, redoing, todo,
                     acked, edits, faults, crashes>>
  BY DEF PublishHead, env
<1>2. /\ Present(head + 1) /\ head + 1 \in 1..MaxSeq /\ head \in Nat
      /\ ~redoing => receipts[head + 1].cmd = cmd
  BY <1>1 DEF Session, Underway, AfterLink, Present, TypeOK
<1>3. /\ mine \in Nat /\ slots \in Nat /\ mine <= slots
      /\ IF redoing THEN mine < slots ELSE 0 < mine
  BY <1>1 DEF Session, SlotsOK, TypeOK
<1>4. slots' \in Nat /\ mine' \in Nat /\ mine' <= slots'
  BY <1>3 DEF PublishHead
<1>5. TypeOK'
  BY <1>1, <1>2, <1>4 DEF TypeOK, Phase
<1>6. Journal'
  <2>1. ReceiptsOK' /\ RequestOnce'
    BY <1>1 DEF Journal, Chain, ReceiptsOK, RequestOnce, Present
  <2>2. ChainOrder'
    BY <1>1, <1>2 DEF Journal, Chain, ChainOrder, Present
  <2>3. NoLostUpdate'
    BY <1>1 DEF Journal, Chain, NoLostUpdate, Present, Latest, Writers
  <2>4. AckedIsCommitted'
    BY <1>1, <1>2 DEF Journal, Chain, AckedIsCommitted, TypeOK
  <2>5. NoPostBeforeReceipt'
    BY <1>1 DEF Journal, NoPostBeforeReceipt, Writers
  <2> QED BY <2>1, <2>2, <2>3, <2>4, <2>5 DEF Journal, Chain
<1>7. Session'
  BY <1>1, <1>2, <1>4 DEF Session, SlotsOK, Uncommitted, Holding, Planned, Underway, Checked,
     Finished, Staging, BeforeLink, AfterLink
<1> QED BY <1>5, <1>6, <1>7

\* COMPLETED is reported for the receipt the head has just reached.
LEMMA FinishInv == Inv /\ Finish => Inv'
<1> SUFFICES ASSUME Inv, Finish PROVE Inv'
  OBVIOUS
<1> USE DEF Inv
<1>1. /\ acked' = acked \cup {<<cmd, head>>} /\ slots' = slots - mine /\ Released
      /\ UNCHANGED <<stateDir, receipts, head, file, evidence, edits, faults, crashes>>
  BY DEF Finish, env
<1>2. head \in 1..MaxSeq /\ receipts[head].cmd = cmd /\ cmd \in Command
  BY DEF Finish, Session, Finished, Holding
<1>3. slots' \in Nat
  BY <1>1 DEF Session, SlotsOK, TypeOK
<1>4. TypeOK'
  BY <1>1, <1>2, <1>3, ReleasedType DEF TypeOK
<1>5. Journal'
  <2>1. AckedIsCommitted'
    BY <1>1, <1>2 DEF Journal, Chain, AckedIsCommitted
  <2>2. ReceiptsOK' /\ ChainOrder' /\ RequestOnce'
    BY <1>1 DEF Journal, Chain, ReceiptsOK, ChainOrder, RequestOnce, Present
  <2>3. NoLostUpdate'
    BY <1>1 DEF Journal, Chain, NoLostUpdate, Present, Latest, Writers
  <2>4. NoPostBeforeReceipt'
    BY <1>1 DEF Journal, NoPostBeforeReceipt, Writers
  <2> QED BY <2>1, <2>2, <2>3, <2>4 DEF Journal, Chain
<1>6. Session'
  BY <1>1, <1>3, ReleasedSession
<1> QED BY <1>4, <1>5, <1>6

\* The deferred cleanup gives back only slots of the holder.
LEMMA AbortInv == Inv /\ Abort => Inv'
<1> SUFFICES ASSUME Inv, Abort PROVE Inv'
  OBVIOUS
<1> USE DEF Inv
<1>1. /\ slots' = slots - mine /\ Released
      /\ UNCHANGED <<stateDir, receipts, head, file, evidence, acked, edits, faults, crashes>>
  BY DEF Abort, env
<1>2. slots' \in Nat
  BY <1>1 DEF Session, SlotsOK, TypeOK
<1>3. TypeOK'
  BY <1>1, <1>2, ReleasedType DEF TypeOK
<1>4. Journal'
  BY <1>1, JournalFrame
<1>5. Session'
  BY <1>1, <1>2, ReleasedSession
<1> QED BY <1>3, <1>4, <1>5

-----------------------------------------------------------------------------
\* A stuttering step.
LEMMA StutterInv == Inv /\ UNCHANGED vars => Inv'
<1> SUFFICES ASSUME Inv, UNCHANGED vars PROVE Inv'
  OBVIOUS
<1>1. TypeOK'
  BY DEF Inv, vars, TypeOK
<1>2. Journal'
  BY JournalFrame DEF Inv, vars
<1>3. Session'
  <2>1. Planned'
    BY DEF Inv, vars, Session, Planned, DecidedOn, Latest, Writers, Present
  <2> QED BY <2>1 DEF Inv, vars, Session, SlotsOK, Uncommitted, Holding, Underway, Checked,
          Finished, Staging, Present, NextPost
<1> QED BY <1>1, <1>2, <1>3 DEF Inv

\* Inv is inductive.
LEMMA NextInv == Inv /\ [Next]_vars => Inv'
<1>1. Inv /\ Holder => Inv'
  BY MakeDirectoriesInv, ResumeInv, StageEvidenceInv, LinkEvidenceInv, StageReceiptInv,
     LinkReceiptInv, SkipPostInv, StagePostInv, RefusePostInv, LinkPostInv, VerifyPostInv,
     RenamePostInv, PostsDoneInv, DeleteBarrierInv, StageHeadInv, PublishHeadInv, FinishInv,
     AbortInv DEF Holder
<1> QED BY <1>1, BeginInitInv, BeginInv, FaultInv, CrashInv, EditInv, StutterInv DEF Next

\* Every reachable state satisfies the inductive invariant, for any number of
\* receipts, edits, errors and crashes and whether or not the editor races.
THEOREM Invariance == Spec => []Inv
<1>1. Init => Inv
  BY InitInv
<1>2. Inv /\ [Next]_vars => Inv'
  BY NextInv
<1> QED BY <1>1, <1>2, PTL DEF Spec

\* Type correctness of the store and its holder; in particular the cleanup
\* never removes more slots than are occupied.
THEOREM TypeCorrect == Spec => []TypeOK
<1>1. Inv => TypeOK
  BY DEF Inv
<1> QED BY <1>1, Invariance, PTL

\* checkChainBounds never finds a fork: the receipts form one chain with at
\* most one receipt beyond the head, through every crash and retry.
THEOREM OneChain == Spec => []ChainOrder
<1>1. Inv => ChainOrder
  BY DEF Inv, Journal, Chain
<1> QED BY <1>1, Invariance, PTL

\* A request id commits at most once (request index, TM-V0-006).
THEOREM AtMostOnce == Spec => []RequestOnce
<1>1. Inv => RequestOnce
  BY DEF Inv, Journal, Chain
<1> QED BY <1>1, Invariance, PTL

\* apply's effect order: no projection carries bytes no linked receipt posted.
THEOREM ReceiptBeforePosts == Spec => []NoPostBeforeReceipt
<1>1. Inv => NoPostBeforeReceipt
  BY DEF Inv, Journal
<1> QED BY <1>1, Invariance, PTL

\* apply's effect order: a linked receipt's blobs are in evidence/, and so are
\* the bytes a KEEP_JOURNAL discards.
THEOREM BlobsBeforeReceipt == Spec => []EvidenceFirst
<1>1. Inv => EvidenceFirst
  BY DEF Inv, Journal, Chain, ReceiptsOK, WellFormed, EvidenceFirst, Present
<1> QED BY <1>1, Invariance, PTL

\* Optimistic concurrency: a committed mutation replaced the very record its
\* caller had read, however many commands and crashes lay between.
THEOREM UpdatesAreNotLost == Spec => []NoLostUpdate
<1>1. Inv => NoLostUpdate
  BY DEF Inv, Journal, Chain
<1> QED BY <1>1, Invariance, PTL

\* An answer COMPLETED names a settled receipt of that very request.
THEOREM AnswersAreTrue == Spec => []AckedIsCommitted
<1>1. Inv => AckedIsCommitted
  BY DEF Inv, Journal, Chain
<1> QED BY <1>1, Invariance, PTL

\* The holder writes a projection only over nothing, over its receipt's pre
\* bytes, or over an edit made after replace's last look at that file: at no
\* other time is an edit lost (decide, settled, replace).
THEOREM OnlyPreIsOverwritten == Spec => OverwritesOnlyPre
<1> DEFINE Safe(p) == file'[p] # file[p] /\ edits' = edits =>
                        file[p] \in {NoFile, plan.pre[p]} \/ (how = "raced" /\ p = NextPost)
<1>1. ASSUME Inv, [Next]_vars, NEW p \in IntentPath PROVE Safe(p)
  <2>1. file \in [Path -> Content] /\ edits \in Nat /\ p # "barrier" /\ p \in Path
    BY <1>1, ConstantsAssumption DEF Inv, TypeOK, Path
  <2>2. CASE LinkPost
    BY <1>1, <2>1, <2>2 DEF LinkPost
  <2>3. CASE RenamePost
    <3>1. how = "raced" \/ file[NextPost] = plan.pre[NextPost]
      BY <1>1, <2>3 DEF RenamePost, Inv, Session, Checked
    <3>2. p # NextPost => file'[p] = file[p]
      BY <2>1, <2>3 DEF RenamePost
    <3> QED BY <3>1, <3>2
  <2>4. CASE DeleteBarrier
    BY <1>1, <2>1, <2>4 DEF DeleteBarrier
  <2>5. CASE \E q \in IntentPath : Edit(q)
    BY <2>1, <2>5 DEF Edit
  <2>6. CASE UNCHANGED file
    BY <2>6
  <2>7. \/ LinkPost \/ RenamePost \/ DeleteBarrier \/ \E q \in IntentPath : Edit(q)
        \/ UNCHANGED file
    BY <1>1 DEF Next, Holder, vars, disk, BeginInit, MakeDirectories, Begin, Mutate, PolicyUpdate, Barrier, Reconcile, Fresh, Replay,
       StartRedo, Resume, StageEvidence, LinkEvidence, StageReceipt, LinkReceipt, SkipPost,
       StagePost, RefusePost, VerifyPost, PostsDone, StageHead, PublishHead, Finish, Abort,
       Fault, Crash
  <2> QED BY <2>2, <2>3, <2>4, <2>5, <2>6, <2>7
<1>2. Inv /\ [Next]_vars => [\A p \in IntentPath : Safe(p)]_vars
  BY <1>1
<1> QED BY <1>2, Invariance, PTL DEF Spec, OverwritesOnlyPre

-----------------------------------------------------------------------------
(***************************************************************************)
(* FixtureStore implements AtomicStore: the commit is the link of the      *)
(* receipt, the settlement the rename of the head.  Inv knows what a plan  *)
(* was decided on; AbstractInv also knows that what the holder decided is  *)
(* all that the plan changes.                                              *)
(***************************************************************************)

\* What callers may name as the target of each verb.
TargetsOK(c) ==
  /\ c.op \in {"MUTATE", "KEEP_JOURNAL", "ADOPT_FILE"} => c.target \in Records
  /\ c.op = "POLICY_UPDATE" => c.target = "policy"
  /\ c.op \in {"PAUSE", "UNPAUSE"} => c.target = "barrier"

\* A receipt gives a value only to what its command is about.
Scoped(r) == Posted(r) \cap Requests = {r.cmd.id}

Genesis(r) == r.cmd.op = "INIT" /\ Posted(r) = {r.cmd.id, "policy", "queue"}

Justified(r, n) ==
  LET c == r.cmd IN
  /\ TargetsOK(c) /\ c.op # "INIT"
  /\ c.op = "CREATE" => Posted(r) \subseteq {c.id, "queue"} \cup {t \in Tickets : Latest(t, n) = NoFile}
  /\ c.op # "CREATE" => Posted(r) = {c.id, c.target}
  /\ c.op \in {"KEEP_JOURNAL", "ADOPT_FILE"} => Latest(c.target, n) # NoFile
  /\ c.op = "KEEP_JOURNAL" => r.post[c.target] = c.canon
  /\ c.op = "PAUSE" => Latest("barrier", n) = NoFile
  /\ c.op = "UNPAUSE" => Latest("barrier", n) # NoFile
  /\ c.op = "UNPAUSE" <=> r.post["barrier"] = NoFile

Indexing == \A n \in 1..MaxSeq : Present(n) => Scoped(receipts[n])

Explained ==
  phase \in BeforeLink => Scoped(plan) /\ IF head = 0 THEN Genesis(plan) ELSE Justified(plan, head)

Resuming == (phase # "idle" => TargetsOK(cmd)) /\ (phase = "resume" => head # 0)

AbstractInv == Indexing /\ Explained /\ Resuming

-----------------------------------------------------------------------------
\* Absent receipts have no say in the canonical content.
LEMMA LatestBeyond ==
  ASSUME NEW p, NEW n \in Nat, NEW m \in Nat, n <= m, \A i \in (n + 1)..m : receipts[i] = NoReceipt
  PROVE  Writers(p, m) = Writers(p, n) /\ Latest(p, m) = Latest(p, n)
<1>1. Writers(p, m) = Writers(p, n)
  BY DEF Writers
<1> QED BY <1>1 DEF Latest

\* The canonical content after one more receipt: its post, where it has one.
LEMMA LatestStep ==
  ASSUME NEW p, NEW n \in Nat
  PROVE  Latest(p, n + 1) = IF n + 1 \in Writers(p, n + 1) THEN receipts[n + 1].post[p] ELSE Latest(p, n)
<1>1. CASE n + 1 \in Writers(p, n + 1)
  <2>1. Writers(p, n + 1) # {} /\ Writers(p, n + 1) \in SUBSET (1..(n + 1))
    BY <1>1 DEF Writers
  <2>2. Max(Writers(p, n + 1)) \in Writers(p, n + 1) /\ n + 1 <= Max(Writers(p, n + 1))
    BY <1>1, <2>1, LastExists
  <2>3. Max(Writers(p, n + 1)) = n + 1
    BY <2>1, <2>2
  <2> QED BY <1>1, <2>1, <2>3 DEF Latest
<1>2. CASE n + 1 \notin Writers(p, n + 1)
  <2>1. Writers(p, n + 1) = Writers(p, n)
    BY <1>2 DEF Writers
  <2> QED BY <1>2, <2>1 DEF Latest
<1> QED BY <1>1, <1>2

\* Canonical contents are contents, and those of all paths but the barrier,
\* once published, are never absent again.
LEMMA LatestIsContent ==
  ASSUME Inv, NEW p \in Path, NEW n \in 0..MaxSeq
  PROVE  /\ Latest(p, n) \in Content
         /\ p # "barrier" => (Latest(p, n) = NoFile <=> Writers(p, n) = {})
<1>0. n \in Nat /\ MaxSeq \in Nat
  BY ConstantsAssumption
<1>1. CASE Writers(p, n) = {}
  BY <1>1 DEF Latest, Content
<1>2. CASE Writers(p, n) # {}
  <2> DEFINE last == Max(Writers(p, n))
  <2>1. last \in Writers(p, n)
    BY <1>0, <1>2, LatestIsPosted
  <2>2. last \in 1..MaxSeq /\ Present(last) /\ receipts[last].post[p] # NoEntry
    BY <1>0, <2>1 DEF Writers, Present
  <2>3. WellFormed(receipts[last])
    BY <2>2 DEF Inv, Journal, Chain, ReceiptsOK
  <2>4. receipts[last].post[p] \in Content /\ (p # "barrier" => receipts[last].post[p] # NoFile)
    BY <2>2, <2>3 DEF WellFormed, Receipt, Entries
  <2> QED BY <1>2, <2>4 DEF Latest
<1> QED BY <1>1, <1>2

-----------------------------------------------------------------------------
(* The strengthened invariant. *)

\* Posts of a plan, when it posts its own number.
LEMMA IndexedPosts ==
  ASSUME TypeOK, head < MaxSeq, NEW c \in Command, NEW paths \in SUBSET (Path \ Requests),
         NEW blobs \in SUBSET Content
  PROVE  LET r == Receipted(c, Indexed(c, paths), blobs) IN
         /\ Posted(r) = paths \cup {c.id} /\ r.cmd = c /\ Scoped(r)
         /\ "barrier" \notin paths => r.post["barrier"] # NoFile
         /\ "barrier" \in paths => r.post["barrier"] # NoFile
<1> DEFINE r == Receipted(c, Indexed(c, paths), blobs)
<1>1. /\ r.cmd = c /\ Posted(r) = paths \cup {c.id}
      /\ \A p \in Path : r.post[p] = IF p \in paths \cup {c.id} THEN head + 1 ELSE NoEntry
  BY PlannedPosts
<1>2. c.id \in Requests /\ "barrier" \in Path
  BY DEF Command, Path
<1>3. NoEntry # NoFile /\ head + 1 # NoFile
  BY ConstantsAssumption DEF TypeOK, Content
<1> HIDE DEF r
<1>4. Scoped(r)
  BY <1>1, <1>2 DEF Scoped
<1> QED BY <1>1, <1>2, <1>3, <1>4 DEF r

\* transaction.Model changes what the command is about, and nothing else.
LEMMA PlansAreJustified ==
  ASSUME Inv, NEW c \in Command, TargetsOK(c), NEW r \in Plans(c)
  PROVE  Scoped(r) /\ Justified(r, head)
<1>1. TypeOK /\ head < MaxSeq /\ head \in Nat
  <2>1. TypeOK /\ head # MaxSeq
    BY DEF Plans, Inv
  <2> QED BY <2>1, ConstantsAssumption DEF TypeOK
<1>2. /\ {"policy", "queue", "barrier"} \subseteq Path \ Requests /\ Records \subseteq Path \ Requests
      /\ Tickets \subseteq Records /\ {} \in SUBSET Content /\ "barrier" \notin Records
      /\ c.id \in Requests /\ c.target \in Path /\ c.base \in Content /\ c.canon \in Content
      /\ "barrier" # c.id /\ c.op \in Op
  BY ConstantsAssumption DEF Path, IntentPath, Records, Command
<1>3. head + 1 \in Content /\ head + 1 # NoFile /\ NoEntry # NoFile /\ head + 1 # NoEntry
      /\ NoEntry \notin Content
  BY <1>1, ConstantsAssumption DEF Content
<1>4. CASE c.op = "CREATE"
  <2>1. PICK t \in Tickets : Canon(t) = NoFile /\ r = Receipted(c, Indexed(c, {t, "queue"}), {})
    BY <1>4 DEF Plans
  <2>2. {t, "queue"} \in SUBSET (Path \ Requests) /\ "barrier" \notin {t, "queue"}
    BY <1>2
  <2>3. Posted(r) = {t, "queue"} \cup {c.id} /\ r.cmd = c /\ Scoped(r) /\ r.post["barrier"] # NoFile
    BY <1>1, <1>2, <2>1, <2>2, IndexedPosts
  <2> QED BY <1>4, <2>1, <2>3 DEF Justified, TargetsOK, Canon
<1>5. CASE c.op \in {"MUTATE", "ADOPT_FILE"}
  <2>1. r = Receipted(c, Indexed(c, {c.target}), {}) /\ c.target \in Records
        /\ (c.op = "ADOPT_FILE" => Canon(c.target) # NoFile)
    BY <1>5 DEF Plans, TargetsOK, Offered
  <2>2. {c.target} \in SUBSET (Path \ Requests) /\ "barrier" \notin {c.target}
    BY <1>2, <2>1
  <2>3. Posted(r) = {c.target} \cup {c.id} /\ r.cmd = c /\ Scoped(r) /\ r.post["barrier"] # NoFile
    BY <1>1, <1>2, <2>1, <2>2, IndexedPosts
  <2> QED BY <1>5, <2>1, <2>3 DEF Justified, Canon
<1>6. CASE c.op = "POLICY_UPDATE"
  <2>1. r = Receipted(c, Indexed(c, {"policy"}), {head + 1}) /\ c.target = "policy"
    BY <1>6 DEF Plans, TargetsOK
  <2>2. {"policy"} \in SUBSET (Path \ Requests) /\ "barrier" \notin {"policy"} /\ {head + 1} \in SUBSET Content
    BY <1>2, <1>3
  <2>3. Posted(r) = {"policy"} \cup {c.id} /\ r.cmd = c /\ Scoped(r) /\ r.post["barrier"] # NoFile
    BY <1>1, <1>2, <2>1, <2>2, IndexedPosts
  <2> QED BY <1>6, <2>1, <2>3 DEF Justified, TargetsOK
<1>7. CASE c.op = "PAUSE"
  <2>1. r = Receipted(c, Indexed(c, {"barrier"}), {}) /\ c.target = "barrier" /\ Canon("barrier") = NoFile
    BY <1>7 DEF Plans, TargetsOK
  <2>2. {"barrier"} \in SUBSET (Path \ Requests)
    BY <1>2
  <2>3. Posted(r) = {"barrier"} \cup {c.id} /\ r.cmd = c /\ Scoped(r) /\ r.post["barrier"] # NoFile
    BY <1>1, <1>2, <2>1, <2>2, IndexedPosts
  <2> QED BY <1>7, <2>1, <2>3 DEF Justified, TargetsOK, Canon
<1>8. CASE c.op = "UNPAUSE"
  <2> DEFINE posts == [Indexed(c, {"barrier"}) EXCEPT !["barrier"] = NoFile]
  <2>1. r = Receipted(c, posts, {}) /\ c.target = "barrier" /\ Canon("barrier") # NoFile
    BY <1>8 DEF Plans, TargetsOK
  <2>2. \A p \in Path : posts[p] = IF p = "barrier" THEN NoFile ELSE IF p = c.id THEN head + 1 ELSE NoEntry
    BY <1>2 DEF Indexed
  <2> HIDE DEF posts
  <2>3. Posted(r) = {c.id, "barrier"} /\ r.cmd = c /\ r.post["barrier"] = NoFile
    BY <1>2, <1>3, <2>1, <2>2 DEF Receipted, Posted, Path
  <2>4. Scoped(r)
    BY <1>2, <2>3 DEF Scoped
  <2> QED BY <1>8, <2>1, <2>3, <2>4 DEF Justified, TargetsOK, Canon
<1>9. CASE c.op = "KEEP_JOURNAL"
  <2> DEFINE posts == [Indexed(c, {c.target}) EXCEPT ![c.target] = c.canon]
  <2>1. /\ r = Receipted(c, posts, {c.base}) /\ c.canon = Canon(c.target)
        /\ c.target \in Records /\ Canon(c.target) # NoFile
    BY <1>9 DEF Plans, Offered, TargetsOK
  <2>2. \A p \in Path : posts[p] = IF p = c.target THEN c.canon ELSE IF p = c.id THEN head + 1 ELSE NoEntry
    BY <1>2 DEF Indexed
  <2> HIDE DEF posts
  <2>3. Posted(r) = {c.id, c.target} /\ r.cmd = c /\ r.post[c.target] = c.canon /\ r.post["barrier"] = NoEntry
    BY <1>2, <1>3, <2>1, <2>2 DEF Receipted, Posted, Path
  <2>4. Scoped(r)
    BY <1>2, <2>1, <2>3 DEF Scoped
  <2> QED BY <1>3, <1>9, <2>1, <2>3, <2>4 DEF Justified, TargetsOK, Canon
<1>10. c.op # "INIT"
  BY DEF Plans
<1> QED BY <1>2, <1>4, <1>5, <1>6, <1>7, <1>8, <1>9, <1>10 DEF Op

\* Callers name what their verb is about.
LEMMA InvocationsHaveTargets ==
  ASSUME NEW c \in Invocations
  PROVE  TargetsOK(c)
BY DEF Invocations, Named, TargetsOK

\* A step that links nothing and plans nothing keeps what is known.
LEMMA AbstractFrame ==
  ASSUME AbstractInv, UNCHANGED receipts, phase' \notin BeforeLink, phase' # "resume",
         phase' = "idle" \/ (phase # "idle" /\ cmd' = cmd)
  PROVE  AbstractInv'
<1>1. Indexing'
  BY DEF AbstractInv, Indexing, Present, Scoped, Posted
<1>2. Explained' /\ Resuming'
  BY DEF AbstractInv, Explained, Resuming, TargetsOK
<1> QED BY <1>1, <1>2 DEF AbstractInv

\* A step before the link keeps the plan and the content it was decided on.
LEMMA ExplainedFrame ==
  ASSUME AbstractInv, phase \in BeforeLink, phase' \in BeforeLink,
         UNCHANGED <<receipts, head, cmd, plan>>
  PROVE  AbstractInv'
<1>1. Indexing'
  BY DEF AbstractInv, Indexing, Present, Scoped, Posted
<1>2. Explained'
  <2>1. Scoped(plan)' /\ (Genesis(plan)' <=> Genesis(plan))
    BY DEF AbstractInv, Explained, Scoped, Genesis, Posted
  <2>2. Justified(plan, head)' <=> Justified(plan, head)
    BY DEF Justified, TargetsOK, Latest, Writers, Posted
  <2> QED BY <2>1, <2>2 DEF AbstractInv, Explained
<1>3. Resuming'
  BY DEF AbstractInv, Resuming, TargetsOK, BeforeLink
<1> QED BY <1>1, <1>2, <1>3 DEF AbstractInv

\* The initial states.
LEMMA InitAbstract == Init => AbstractInv
BY DEF Init, AbstractInv, Indexing, Explained, Resuming, Present, BeforeLink

\* INIT posts the policy, the queue and its index entry, over nothing.
LEMMA BeginInitAbstract ==
  ASSUME Inv, AbstractInv, NEW i \in Requests, BeginInit(i)
  PROVE  AbstractInv'
<1> DEFINE c == Named(i, "INIT", "queue", NoFile, NoFile)
           posts == [p \in Path |-> IF p = i THEN 1
                                    ELSE IF p \in {"policy", "queue"} THEN file[p] ELSE NoEntry]
           absent == [p \in Path |-> IF posts[p] = NoEntry THEN NoEntry ELSE NoFile]
           r == [cmd |-> c, pre |-> absent, post |-> posts, blobs |-> {}]
<1>1. phase' = "mkdir" /\ cmd' = c /\ plan' = r /\ UNCHANGED <<receipts, head>>
      /\ phase = "idle" /\ stateDir = "absent"
  BY DEF BeginInit
<1>2. c.id = i /\ c.op = "INIT"
  BY DEF Named
<1>3. i \in Path /\ {"policy", "queue"} \subseteq Path /\ {"policy", "queue"} \cap Requests = {}
      /\ 1 # NoEntry /\ \A p \in Path : file[p] # NoEntry
  BY ConstantsAssumption DEF Path, IntentPath, Content, Inv, TypeOK
<1>4. r.post = posts /\ r.cmd = c
  OBVIOUS
<1>5. \A p \in Path : r.post[p] # NoEntry <=> p \in {i, "policy", "queue"}
  BY <1>3, <1>4
<1> HIDE DEF r, c, posts, absent
<1>6. Posted(r) = {i, "policy", "queue"}
  BY <1>3, <1>5 DEF Posted
<1>7. Scoped(plan)' /\ Genesis(plan)'
  BY <1>1, <1>2, <1>3, <1>4, <1>6 DEF Scoped, Genesis, Posted
<1>8. head = 0
  BY <1>1 DEF Inv, Session, Uncommitted
<1>9. Explained' /\ Resuming'
  BY <1>1, <1>2, <1>7, <1>8 DEF Explained, Resuming, TargetsOK
<1>10. Indexing'
  BY <1>1 DEF AbstractInv, Indexing, Present, Scoped, Posted
<1> QED BY <1>9, <1>10 DEF AbstractInv

\* A fresh request is planned as a receipt its command justifies.
LEMMA FreshAbstract ==
  ASSUME Inv, AbstractInv, head # 0, NEW c \in Command, TargetsOK(c), Fresh(c)
  PROVE  AbstractInv'
<1>1. PICK r \in Plans(c) : Applying(c, r)
  BY DEF Fresh
<1>2. phase' = "evidence" /\ cmd' = c /\ plan' = r /\ UNCHANGED <<receipts, head>>
  BY <1>1 DEF Applying, Fresh, disk
<1>3. Scoped(r) /\ Justified(r, head)
  BY PlansAreJustified
<1>4. Scoped(plan)' /\ Justified(plan, head)'
  <2>1. Scoped(plan)'
    BY <1>2, <1>3 DEF Scoped, Posted
  <2>2. \A p : Latest(p, head)' = Latest(p, head)
    BY <1>2 DEF Latest, Writers
  <2>3. Justified(plan, head)'
    BY <1>2, <1>3, <2>2 DEF Justified, TargetsOK, Posted
  <2> QED BY <2>1, <2>3
<1>5. Explained' /\ Resuming'
  BY <1>2, <1>4 DEF Explained, Resuming, TargetsOK
<1>6. Indexing'
  BY <1>2 DEF AbstractInv, Indexing, Present, Scoped, Posted
<1> QED BY <1>5, <1>6 DEF AbstractInv

\* Begin and Resume plan, answer, redo or return.
LEMMA BeginAbstract ==
  ASSUME Inv, AbstractInv, NEW c \in Invocations, Begin(c)
  PROVE  AbstractInv'
<1>1. c \in Command /\ TargetsOK(c) /\ head # 0
  BY InvocationsAreCommands, InvocationsHaveTargets DEF Inv, Begin, Mutate, PolicyUpdate, Barrier, Reconcile
<1>2. CASE Fresh(c)
  BY <1>1, <1>2, FreshAbstract
<1>3. CASE Replay(c)
  BY <1>3, AbstractFrame DEF Replay, Released, disk, BeforeLink
<1>4. CASE StartRedo(c)
  <2>1. phase' = "posts" /\ cmd' = c /\ UNCHANGED receipts
    BY <1>4 DEF StartRedo, disk
  <2>2. Indexing' /\ Explained' /\ Resuming'
    BY <1>1, <2>1 DEF AbstractInv, Indexing, Explained, Resuming, Present, Scoped, Posted, TargetsOK, BeforeLink
  <2> QED BY <2>2 DEF AbstractInv
<1> QED BY <1>2, <1>3, <1>4 DEF Begin, Mutate, PolicyUpdate, Barrier, Reconcile

\* After its redo the command is planned, answered or returned.
LEMMA ResumeAbstract ==
  ASSUME Inv, AbstractInv, Resume
  PROVE  AbstractInv'
<1>1. cmd \in Command /\ TargetsOK(cmd) /\ head # 0
  BY DEF Inv, Session, Holding, AbstractInv, Resuming, Resume
<1>2. CASE Fresh(cmd)
  BY <1>1, <1>2, FreshAbstract
<1>3. CASE Released /\ UNCHANGED disk
  BY <1>3, AbstractFrame DEF Released, disk, BeforeLink
<1> QED BY <1>2, <1>3 DEF Resume, Replay

\* The linked receipt is one its command justifies.
LEMMA LinkReceiptAbstract ==
  ASSUME Inv, AbstractInv, LinkReceipt
  PROVE  AbstractInv'
<1>1. phase = "receipt"
  BY DEF LinkReceipt
<1>2. CASE Present(head + 1)
  BY <1>1, <1>2, AbstractFrame DEF LinkReceipt, Aborting, BeforeLink
<1>3. CASE ~Present(head + 1)
  <2>1. receipts' = [receipts EXCEPT ![head + 1] = plan] /\ phase' = "posts" /\ cmd' = cmd
    BY <1>3 DEF LinkReceipt
  <2>2. \A n \in 1..MaxSeq : receipts'[n] = IF n = head + 1 THEN plan ELSE receipts[n]
    BY <2>1 DEF Inv, TypeOK
  <2>3. Scoped(plan)
    BY <1>1 DEF AbstractInv, Explained, BeforeLink
  <2>4. \A n \in 1..MaxSeq : Present(n)' => Scoped(receipts'[n])
    BY <2>2, <2>3 DEF AbstractInv, Indexing, Present
  <2>5. Indexing'
    BY <2>4 DEF Indexing, Scoped, Posted
  <2>6. Explained' /\ Resuming'
    BY <1>1, <2>1 DEF AbstractInv, Explained, Resuming, TargetsOK, BeforeLink
  <2> QED BY <2>5, <2>6 DEF AbstractInv
<1> QED BY <1>2, <1>3

\* A head that was published is no longer the empty one.
LEMMA PublishHeadAbstract ==
  ASSUME Inv, AbstractInv, PublishHead
  PROVE  AbstractInv'
<1>1. phase = "head" /\ head' = head + 1 /\ phase' \in {"resume", "finish"} /\ cmd' = cmd /\ UNCHANGED receipts
  BY DEF PublishHead
<1>2. head' # 0
  BY <1>1 DEF Inv, TypeOK
<1>3. Indexing'
  BY <1>1 DEF AbstractInv, Indexing, Present, Scoped, Posted
<1>4. Explained' /\ Resuming'
  BY <1>1, <1>2 DEF AbstractInv, Explained, Resuming, TargetsOK, BeforeLink
<1> QED BY <1>3, <1>4 DEF AbstractInv

\* AbstractInv is preserved by every step of Inv's system.
LEMMA NextAbstract == Inv /\ AbstractInv /\ [Next]_vars => AbstractInv'
<1> SUFFICES ASSUME Inv, AbstractInv, [Next]_vars PROVE AbstractInv'
  OBVIOUS
<1>1. CASE \E i \in Requests : BeginInit(i)
  BY <1>1, BeginInitAbstract
<1>2. CASE \E c \in Invocations : Begin(c)
  BY <1>2, BeginAbstract
<1>3. CASE MakeDirectories \/ StageEvidence \/ LinkEvidence \/ StageReceipt
  <2>1. phase \in BeforeLink /\ phase' \in BeforeLink /\ UNCHANGED <<receipts, head, cmd, plan>>
    BY <1>3 DEF MakeDirectories, StageEvidence, LinkEvidence, StageReceipt, BeforeLink
  <2> QED BY <2>1, ExplainedFrame
<1>4. CASE \/ SkipPost \/ StagePost \/ RefusePost \/ LinkPost \/ VerifyPost \/ RenamePost
           \/ PostsDone \/ DeleteBarrier \/ StageHead \/ Finish \/ Abort \/ Fault \/ Crash
  <2>1. /\ UNCHANGED receipts /\ phase' \notin BeforeLink /\ phase' # "resume"
        /\ phase' = "idle" \/ (phase # "idle" /\ cmd' = cmd)
    BY <1>4 DEF SkipPost, StagePost, RefusePost, LinkPost, VerifyPost, RenamePost, PostsDone,
       DeleteBarrier, StageHead, Finish, Abort, Fault, Crash, Deciding, Aborting, Released,
       Settle, disk, BeforeLink
  <2> QED BY <2>1, AbstractFrame
<1>5. CASE (\E p \in IntentPath : Edit(p)) \/ UNCHANGED vars
  <2>1. UNCHANGED <<receipts, head, phase, cmd, plan>>
    BY <1>5 DEF Edit, session, vars
  <2>2. CASE phase \in BeforeLink
    BY <2>1, <2>2, ExplainedFrame
  <2>3. CASE phase \notin BeforeLink
    BY <2>1, <2>3 DEF AbstractInv, Indexing, Explained, Resuming, Present, Scoped, Posted, TargetsOK
  <2> QED BY <2>2, <2>3
<1> QED BY <1>1, <1>2, <1>3, <1>4, <1>5, ResumeAbstract, LinkReceiptAbstract, PublishHeadAbstract
        DEF Next, Holder

-----------------------------------------------------------------------------
(* The refinement, step by step. *)

\* The canonical content once receipt n + 1, the last one, is linked.
LEMMA LatestCommitted ==
  ASSUME NEW p, NEW n \in Nat, NEW m \in Nat, n + 1 <= m, receipts'[n + 1] # NoReceipt,
         \A i \in 1..n : receipts'[i] = receipts[i],
         \A i \in (n + 2)..m : receipts'[i] = NoReceipt
  PROVE  Latest(p, m)' = IF receipts'[n + 1].post[p] # NoEntry THEN receipts'[n + 1].post[p]
                         ELSE Latest(p, n)
<1>0. Writers(p, m)' \in SUBSET (1..(n + 1))
  BY DEF Writers
<1>1. PICK W \in SUBSET (1..(n + 1)) : W = Writers(p, m)'
  BY <1>0
<1>2. /\ n + 1 \in W <=> receipts'[n + 1].post[p] # NoEntry
      /\ Latest(p, m)' = IF W = {} THEN NoFile ELSE receipts'[Max(W)].post[p]
  BY <1>1 DEF Latest, Writers
<1>3. CASE n + 1 \in W
  <2>1. Max(W) \in W /\ n + 1 <= Max(W)
    BY <1>3, LastExists
  <2>2. Max(W) = n + 1
    BY <1>1, <2>1
  <2> QED BY <1>1, <1>2, <1>3, <2>2
<1>4. CASE n + 1 \notin W
  <2>1. W = Writers(p, n)
    BY <1>1, <1>4 DEF Writers
  <2>2. CASE W = {}
    BY <1>1, <1>2, <1>4, <2>1, <2>2 DEF Latest
  <2>3. CASE W # {}
    <3>1. Max(W) \in 1..n
      BY <2>1, <2>3, LatestIsPosted DEF Writers
    <3> QED BY <1>1, <1>2, <1>4, <2>1, <2>3, <3>1 DEF Latest
  <2> QED BY <2>2, <2>3
<1> QED BY <1>3, <1>4

\* The abstract names are the paths of the store.
LEMMA NamesArePaths == Abstract!Name = Path
BY DEF Abstract!Name, Path, IntentPath, Records

\* The abstract store starts empty.
LEMMA InitRefines == Init => Abstract!Init
<1> SUFFICES ASSUME Init PROVE Abstract!Init
  OBVIOUS
<1>1. \A n : ~Present(n)
  BY DEF Init, Present
<1>2. \A p : Latest(p, MaxSeq) = NoFile
  BY DEF Init, Latest, Writers
<1> QED BY <1>1, <1>2, NamesArePaths DEF Init, Abstract!Init

\* What a plan is justified by is what the abstract store asks of a command.
LEMMA PlanIsCurrent ==
  ASSUME Inv, AbstractInv, phase = "receipt", ~Present(head + 1)
  PROVE  /\ Abstract!Unused(plan.cmd.id) /\ Abstract!Current(plan.cmd)
         /\ Posted(plan) \subseteq Abstract!Scope(plan.cmd)
                                   \cup IF plan.cmd.op = "KEEP_JOURNAL" THEN {plan.cmd.target} ELSE {}
<1>1. /\ WellFormed(plan) /\ plan.cmd \in Command /\ head \in 0..MaxSeq /\ head < MaxSeq
      /\ \A n \in 1..MaxSeq : Present(n) => receipts[n].cmd.id # plan.cmd.id
      /\ head # 0 => DecidedOn(plan, head)
      /\ Scoped(plan) /\ IF head = 0 THEN Genesis(plan) ELSE Justified(plan, head)
  BY DEF Inv, TypeOK, Session, Planned, AbstractInv, Explained, BeforeLink, WellFormed, Receipt
<1> DEFINE c == plan.cmd
<1>2. \A n \in (head + 1)..MaxSeq : receipts[n] = NoReceipt
  BY <1>1 DEF Inv, Journal, Chain, ChainOrder, Present
<1>3. \A p : Latest(p, MaxSeq) = Latest(p, head)
  BY <1>1, <1>2, LatestBeyond, ConstantsAssumption
<1>4. c.id \in Requests /\ c.id \in Path /\ c.op \in Op
  BY <1>1 DEF Command, Path
<1>5. Abstract!Unused(c.id)
  BY <1>1 DEF Abstract!Unused, Present
<1>6. Latest(c.id, head) = NoFile
  <2>1. ASSUME NEW n \in Writers(c.id, head) PROVE FALSE
    <3>1. n \in 1..MaxSeq /\ Present(n) /\ receipts[n].post[c.id] # NoEntry
      BY <1>1, <2>1, ConstantsAssumption DEF Writers, Present
    <3>2. c.id \in Posted(receipts[n]) /\ Scoped(receipts[n])
      BY <1>4, <3>1 DEF Posted, AbstractInv, Indexing
    <3> QED BY <1>1, <1>4, <3>1, <3>2 DEF Scoped
  <2> QED BY <2>1 DEF Latest
<1>7. CASE head = 0
  <2>1. c.op = "INIT" /\ Posted(plan) = {c.id, "policy", "queue"}
    BY <1>1, <1>7 DEF Genesis
  <2>2. \A p : Latest(p, head) = NoFile
    BY <1>7 DEF Latest, Writers
  <2>3. Abstract!Current(c)
    BY <1>3, <1>4, <2>1, <2>2, NamesArePaths DEF Abstract!Current
  <2>4. Abstract!Scope(c) = {c.id, "policy", "queue"}
    BY <2>1 DEF Abstract!Scope
  <2> QED BY <1>5, <2>1, <2>3, <2>4
<1>8. CASE head # 0
  <2>1. Justified(plan, head) /\ DecidedOn(plan, head) /\ TargetsOK(c) /\ c.op # "INIT"
    BY <1>1, <1>8 DEF Justified
  <2>2. c.target \in Path
    BY <1>1 DEF Command
  <2>3. Abstract!Current(c)
    BY <1>3, <1>4, <1>6, <2>1, <2>2, NamesArePaths, Zenon DEF Abstract!Current, Justified, DecidedOn, TargetsOK
  <2>4. CASE c.op = "CREATE"
    <3>1. Abstract!Scope(c) = {c.id} \cup ({"queue"} \cup {t \in Tickets : Latest(t, head) = NoFile})
      BY <1>3, <2>4 DEF Abstract!Scope, Path, IntentPath, Records
    <3> QED BY <1>5, <2>1, <2>3, <2>4, <3>1 DEF Justified
  <2>5. CASE c.op = "KEEP_JOURNAL"
    <3>1. Abstract!Scope(c) = {c.id}
      BY <2>5 DEF Abstract!Scope
    <3> QED BY <1>5, <2>1, <2>3, <2>5, <3>1 DEF Justified
  <2>6. CASE c.op \notin {"CREATE", "KEEP_JOURNAL"}
    <3>1. Abstract!Scope(c) = {c.id, c.target}
      BY <2>1, <2>6 DEF Abstract!Scope
    <3> QED BY <1>5, <2>1, <2>3, <2>6, <3>1 DEF Justified
  <2> QED BY <2>4, <2>5, <2>6
<1> QED BY <1>7, <1>8

\* Linking the receipt is the commit; an EEXIST on the link is a stutter.
LEMMA LinkReceiptRefines ==
  ASSUME Inv, AbstractInv, LinkReceipt
  PROVE  Abstract!Commit \/ UNCHANGED Abstract!absvars
<1>1. phase = "receipt" /\ UNCHANGED <<head, acked>>
  BY DEF LinkReceipt
<1>2. CASE Present(head + 1)
  <2>1. UNCHANGED <<receipts, head, acked>>
    BY <1>1, <1>2 DEF LinkReceipt
  <2> QED BY <2>1 DEF Abstract!absvars, Present, Latest, Writers
<1>3. CASE ~Present(head + 1)
  <2>1. receipts' = [receipts EXCEPT ![head + 1] = plan]
    BY <1>3 DEF LinkReceipt
  <2>2. /\ WellFormed(plan) /\ plan \in Receipt /\ plan.cmd \in Command /\ plan # NoReceipt
        /\ head \in Nat /\ head < MaxSeq /\ head + 1 \in 1..MaxSeq /\ MaxSeq \in Nat /\ head \in 0..MaxSeq
        /\ receipts \in [1..MaxSeq -> Receipt \cup {NoReceipt}]
        /\ head = 0 => Genesis(plan)
        /\ head # 0 => Justified(plan, head)
    BY <1>1, ConstantsAssumption
       DEF Inv, TypeOK, Session, Planned, AbstractInv, Explained, BeforeLink, WellFormed, Receipt
  <2>3. \A n \in 1..MaxSeq : receipts'[n] = IF n = head + 1 THEN plan ELSE receipts[n]
    BY <2>1, <2>2
  <2>4. \A n \in (head + 1)..MaxSeq : receipts[n] = NoReceipt
    BY <1>3, <2>2 DEF Inv, Journal, Chain, ChainOrder, Present
  <2>5. \A p : Latest(p, MaxSeq) = Latest(p, head)
    BY <2>2, <2>4, LatestBeyond
  <2>6. ASSUME NEW p \in Path
        PROVE  Latest(p, MaxSeq)' = IF p \in Posted(plan) THEN plan.post[p] ELSE Latest(p, head)
    <3>1. receipts'[head + 1] = plan /\ receipts'[head + 1] # NoReceipt /\ head + 1 <= MaxSeq
      BY <2>2, <2>3
    <3>2. \A i \in 1..head : receipts'[i] = receipts[i]
      BY <2>2, <2>3
    <3>3. \A i \in (head + 2)..MaxSeq : receipts'[i] = NoReceipt
      BY <2>2, <2>3, <2>4
    <3>4. Latest(p, MaxSeq)' = IF receipts'[head + 1].post[p] # NoEntry THEN receipts'[head + 1].post[p]
                               ELSE Latest(p, head)
      BY <2>2, <3>1, <3>2, <3>3, LatestCommitted
    <3> QED BY <3>1, <3>4 DEF Posted
  <2>7. \A p \in Path : Latest(p, MaxSeq)' \in Content
    <3>1. \A p \in Path : Latest(p, head) \in Content
      BY <2>2, LatestIsContent
    <3>2. \A p \in Posted(plan) : plan.post[p] \in Content
      BY <2>2 DEF Posted, Receipt, Entries
    <3> QED BY <2>6, <3>1, <3>2
  <2>8. /\ Abstract!Unused(plan.cmd.id) /\ Abstract!Current(plan.cmd)
        /\ Posted(plan) \subseteq Abstract!Scope(plan.cmd)
                                  \cup IF plan.cmd.op = "KEEP_JOURNAL" THEN {plan.cmd.target} ELSE {}
    BY <1>1, <1>3, PlanIsCurrent
  <2>9. ASSUME NEW p \in Path \ Abstract!Scope(plan.cmd)
        PROVE  Latest(p, MaxSeq)' = Latest(p, MaxSeq)
    <3>1. CASE p \notin Posted(plan)
      BY <2>5, <2>6, <3>1
    <3>2. CASE p \in Posted(plan)
      <4>1. plan.cmd.op = "KEEP_JOURNAL" /\ p = plan.cmd.target
        BY <2>8, <3>2
      <4>2. head # 0 /\ plan.post[p] = plan.cmd.canon
        BY <2>2, <4>1 DEF Genesis, Justified
      <4>3. plan.cmd.canon = Latest(p, head)
        BY <1>1, <4>1, <4>2 DEF Inv, Session, Planned, DecidedOn, BeforeLink
      <4> QED BY <2>5, <2>6, <3>2, <4>2, <4>3
    <3> QED BY <3>1, <3>2
  <2>10. plan.cmd.op = "UNPAUSE" <=> Latest("barrier", MaxSeq) # NoFile /\ Latest("barrier", MaxSeq)' = NoFile
    <3>1. "barrier" \in Path /\ "barrier" \notin Requests /\ plan.cmd.id \in Requests
      BY <2>2, ConstantsAssumption DEF Path, Command
    <3>2. CASE head = 0
      <4>1. Latest("barrier", MaxSeq) = NoFile
        BY <2>5, <3>2 DEF Latest, Writers
      <4> QED BY <2>2, <3>2, <4>1 DEF Genesis
    <3>3. CASE head # 0
      <4>1. /\ plan.cmd.op = "UNPAUSE" <=> plan.post["barrier"] = NoFile
            /\ plan.cmd.op = "UNPAUSE" => Latest("barrier", head) # NoFile
        BY <2>2, <3>3 DEF Justified
      <4>2. NoFile # NoEntry
        BY ConstantsAssumption DEF Content
      <4> QED BY <2>5, <2>6, <3>1, <4>1, <4>2 DEF Posted
    <3> QED BY <3>2, <3>3
  <2> DEFINE log == [n \in 1..MaxSeq |-> IF Present(n) THEN receipts[n].cmd ELSE NoCommand]
             values == [p \in Path |-> Latest(p, MaxSeq)]
  <2>11. log' = [log EXCEPT ![head + 1] = plan.cmd] /\ log[head + 1] = NoCommand /\ log'[head + 1] = plan.cmd
    BY <1>3, <2>2, <2>3 DEF Present
  <2>12. /\ values' \in [Path -> Content]
         /\ \A p \in Path \ Abstract!Scope(plan.cmd) : values'[p] = values[p]
         /\ plan.cmd.op = "UNPAUSE" <=> values["barrier"] # NoFile /\ values'["barrier"] = NoFile
    BY <2>7, <2>9, <2>10 DEF Path
  <2>13. Abstract!Commit
    BY <1>1, <2>2, <2>8, <2>11, <2>12, NamesArePaths, Zenon DEF Abstract!Commit
  <2> QED BY <2>13
<1> QED BY <1>2, <1>3

\* Publishing the head settles the receipt.
LEMMA PublishHeadRefines ==
  ASSUME Inv, PublishHead
  PROVE  Abstract!Settle
<1>0. /\ Present(head + 1) /\ head' = head + 1 /\ UNCHANGED <<receipts, acked>>
      /\ head \in 0..MaxSeq /\ receipts \in [1..MaxSeq -> Receipt \cup {NoReceipt}]
  BY DEF PublishHead, Inv, TypeOK, Session, Underway, AfterLink
<1>1. /\ head \in Nat /\ head < MaxSeq /\ head + 1 \in 1..MaxSeq
      /\ receipts[head + 1] \in Receipt
  BY <1>0, ConstantsAssumption DEF Present
<1>2. receipts[head + 1].cmd # NoCommand
  BY <1>1, ConstantsAssumption DEF Receipt
<1> QED BY <1>0, <1>1, <1>2 DEF Abstract!Settle, Present, Latest, Writers

\* COMPLETED is reported of a settled receipt, by Finish and by a replay.
LEMMA AnswerRefines ==
  ASSUME NEW n \in 1..head, head \in 0..MaxSeq, Present(n), UNCHANGED <<receipts, head>>,
         acked' = acked \cup {<<receipts[n].cmd, n>>}
  PROVE  Abstract!Answer
<1>1. n \in 1..MaxSeq
  BY ConstantsAssumption
<1> QED BY <1>1 DEF Abstract!Answer, Present, Latest, Writers

\* A replay answers from the settled prefix: nothing is pending then.
LEMMA ReplayRefines ==
  ASSUME Inv, NEW c \in Command, Replay(c)
  PROVE  Abstract!Answer
<1>1. PICK n \in Recorded(c.id) : receipts[n].cmd = c /\ acked' = acked \cup {<<c, n>>}
  BY DEF Replay
<1>2. n \in 1..MaxSeq /\ Present(n) /\ head \in 0..MaxSeq
  BY DEF Recorded, Writers, Present, Inv, TypeOK
<1>3. n \in 1..head
  <2>1. ~Present(head + 1)
    BY DEF Replay, Audit, Pending
  <2> QED BY <1>2, <2>1 DEF Inv, Journal, Chain, ChainOrder
<1> QED BY <1>1, <1>2, <1>3, AnswerRefines DEF Replay, disk

\* The first answer names the receipt the head has just reached.
LEMMA FinishRefines ==
  ASSUME Inv, Finish
  PROVE  Abstract!Answer
<1>1. head \in 1..MaxSeq /\ receipts[head].cmd = cmd /\ Present(head) /\ head \in 1..head
  BY ConstantsAssumption DEF Finish, Inv, Session, Finished, Journal, Chain, ChainOrder
<1> QED BY <1>1, AnswerRefines DEF Finish

\* Every step of the store is a step of the abstract store or none.
LEMMA NextRefines ==
  Inv /\ AbstractInv /\ [Next]_vars => [Abstract!Next]_(Abstract!absvars)
<1> SUFFICES ASSUME Inv, AbstractInv, [Next]_vars
             PROVE  Abstract!Next \/ UNCHANGED Abstract!absvars
  OBVIOUS
<1>1. ASSUME UNCHANGED <<receipts, head, acked>> PROVE UNCHANGED Abstract!absvars
  BY <1>1 DEF Abstract!absvars, Present, Latest, Writers
<1>2. CASE LinkReceipt
  BY <1>2, LinkReceiptRefines DEF Abstract!Next
<1>3. CASE PublishHead
  BY <1>3, PublishHeadRefines DEF Abstract!Next
<1>4. CASE Finish
  BY <1>4, FinishRefines DEF Abstract!Next
<1>5. CASE \E c \in Invocations : Begin(c)
  <2>1. PICK c \in Invocations : Begin(c)
    BY <1>5
  <2>2. c \in Command
    BY InvocationsAreCommands DEF Inv
  <2>3. CASE Replay(c)
    BY <2>2, <2>3, ReplayRefines DEF Abstract!Next
  <2> QED BY <1>1, <2>1, <2>3 DEF Begin, Mutate, PolicyUpdate, Barrier, Reconcile, Fresh, StartRedo, disk
<1>6. CASE Resume
  <2>1. cmd \in Command
    BY <1>6 DEF Resume, Inv, Session, Holding
  <2>2. CASE Replay(cmd)
    BY <2>1, <2>2, ReplayRefines DEF Abstract!Next
  <2> QED BY <1>1, <1>6, <2>2 DEF Resume, Fresh, disk
<1>7. \/ LinkReceipt \/ PublishHead \/ Finish \/ Resume \/ \E c \in Invocations : Begin(c)
      \/ UNCHANGED <<receipts, head, acked>>
  BY DEF Next, Holder, vars, disk, BeginInit, MakeDirectories, StageEvidence, LinkEvidence,
     StageReceipt, SkipPost, StagePost, RefusePost, LinkPost, VerifyPost, RenamePost, PostsDone,
     DeleteBarrier, StageHead, Abort, Fault, Crash, Edit
<1> QED BY <1>1, <1>2, <1>3, <1>4, <1>5, <1>6, <1>7

\* A caller of the store cannot tell it from the abstract one: whatever the
\* interleaving of editor, errors and crashes, a command takes effect when its
\* receipt is linked (apply), atomically, at most once per request id, and only
\* against the values it was decided on; it settles when the head names it.
THEOREM StoreIsAtomic == Spec => ImplementsAtomicStore
<1>1. Init => Inv /\ AbstractInv /\ Abstract!Init
  BY InitInv, InitAbstract, InitRefines
<1>2. Inv /\ AbstractInv /\ [Next]_vars => Inv' /\ AbstractInv' /\ [Abstract!Next]_(Abstract!absvars)
  BY NextInv, NextAbstract, NextRefines
<1> QED BY <1>1, <1>2, PTL DEF Spec, ImplementsAtomicStore, Abstract!Spec

-----------------------------------------------------------------------------
(* The projections no human touched follow the head. *)

Calm(p) == p \notin IntentPath \/ edits = 0

\* Before INIT only the authored policy and queue are there.
Base(p, n) == IF n # 0 THEN Latest(p, n) ELSE IF p \in {"policy", "queue"} THEN 0 ELSE NoFile
Published(p) == file[p] = Latest(p, head + 1)
Following == \A p \in Path : Calm(p) => file[p] = Base(p, head) \/ (Pending /\ Published(p))

\* A post that is no longer outstanding was published, but for the deletion,
\* which apply leaves to removeBarrier and which redo never settles.
Publishing ==
  phase = "posts" =>
    /\ \A p \in Path \ todo : Calm(p) => Published(p) \/ (p = "barrier" /\ Deletes(plan))
    /\ redoing /\ Deletes(plan) => "barrier" \in todo
    /\ how # "none" => plan.post[NextPost] # NoFile
Deleting ==
  phase = "delete" =>
    ~redoing /\ Deletes(plan) /\ \A p \in Path \ {"barrier"} : Calm(p) => Published(p)
Heading ==
  phase = "head" =>
    /\ \A p \in Path : Calm(p) => Published(p)
    /\ redoing => ~Deletes(plan)

ContentInv == Following /\ Publishing /\ Deleting /\ Heading

\* Until the head is published, the pending content is the plan's.
LEMMA LatestAtPlan ==
  ASSUME Inv, phase \in AfterLink, NEW p \in Path
  PROVE  Latest(p, head + 1) = IF p \in Posted(plan) THEN plan.post[p] ELSE Latest(p, head)
<1>1. head \in Nat /\ Present(head + 1) /\ plan = receipts[head + 1]
  BY ConstantsAssumption DEF Inv, TypeOK, Session, Underway
<1>2. head + 1 \in Writers(p, head + 1) <=> p \in Posted(plan)
  BY <1>1 DEF Writers, Posted, Present
<1> QED BY <1>1, <1>2, LatestStep

\* A path the editor may touch is calm only while nothing was edited.
LEMMA ContentFrame ==
  ASSUME ContentInv, UNCHANGED <<receipts, head, file, edits>>, phase' \notin AfterLink
  PROVE  ContentInv'
<1>1. Following'
  BY DEF ContentInv, Following, Calm, Base, Published, Pending, Present, Latest, Writers
<1>2. Publishing' /\ Deleting' /\ Heading'
  BY DEF Publishing, Deleting, Heading, AfterLink
<1> QED BY <1>1, <1>2 DEF ContentInv

\* The initial states.
LEMMA InitContent == Init => ContentInv
<1> SUFFICES ASSUME Init PROVE ContentInv
  OBVIOUS
<1>1. Following
  BY DEF Init, Following, Base
<1> QED BY <1>1 DEF Init, ContentInv, Publishing, Deleting, Heading

\* Redo starts from projections at their canonical or at their pending content.
LEMMA StartRedoContent ==
  ASSUME Inv, ContentInv, head # 0, NEW c \in Command, StartRedo(c)
  PROVE  ContentInv'
<1>1. /\ Present(head + 1) /\ head \in Nat
      /\ phase' = "posts" /\ plan' = receipts[head + 1] /\ how' = "none"
      /\ todo' = Posted(receipts[head + 1]) /\ UNCHANGED <<receipts, head, file, edits>>
  BY DEF StartRedo, RedoAuthorized, Pending, disk, env, Inv, TypeOK
<1>2. Following'
  BY <1>1 DEF ContentInv, Following, Calm, Base, Published, Pending, Present, Latest, Writers
<1>3. ASSUME NEW p \in Path \ Posted(receipts[head + 1]), Calm(p) PROVE Published(p)
  <2>1. head + 1 \notin Writers(p, head + 1)
    BY DEF Writers, Posted
  <2>2. Latest(p, head + 1) = Latest(p, head)
    BY <1>1, <2>1, LatestStep
  <2> QED BY <1>3, <2>2 DEF ContentInv, Following, Base, Published
<1>4. Deletes(receipts[head + 1]) => "barrier" \in Posted(receipts[head + 1])
  BY ConstantsAssumption DEF Deletes, Posted, Path, Content
<1>5. Publishing'
  BY <1>1, <1>3, <1>4 DEF Publishing, Calm, Published, Latest, Writers
<1> QED BY <1>1, <1>2, <1>5 DEF ContentInv, Deleting, Heading

\* The commit makes the content pending that its posts are still to publish.
LEMMA LinkReceiptContent ==
  ASSUME Inv, AbstractInv, ContentInv, LinkReceipt
  PROVE  ContentInv'
<1>1. phase = "receipt" /\ UNCHANGED <<head, file, edits>>
  BY DEF LinkReceipt, env
<1>2. CASE Present(head + 1)
  <2>1. phase' = "abort" /\ UNCHANGED receipts
    BY <1>2 DEF LinkReceipt, Aborting
  <2> QED BY <1>1, <2>1, ContentFrame DEF AfterLink
<1>3. CASE ~Present(head + 1)
  <2>1. /\ receipts' = [receipts EXCEPT ![head + 1] = plan] /\ phase' = "posts" /\ how' = "none"
        /\ todo' = {p \in Posted(plan) : plan.post[p] # NoFile} /\ UNCHANGED <<plan, redoing>>
    BY <1>3 DEF LinkReceipt
  <2>2. /\ WellFormed(plan) /\ plan # NoReceipt /\ ~redoing
        /\ head \in Nat /\ head + 1 \in 1..MaxSeq
        /\ receipts \in [1..MaxSeq -> Receipt \cup {NoReceipt}]
        /\ head = 0 => Genesis(plan)
    BY <1>1, ConstantsAssumption
       DEF Inv, TypeOK, Session, Planned, AbstractInv, Explained, BeforeLink, WellFormed
  <2>3. /\ receipts'[head + 1] = plan /\ \A i \in 1..head : receipts'[i] = receipts[i]
        /\ Present(head + 1)'
    BY <1>1, <2>1, <2>2 DEF Present
  <2>4. ASSUME NEW p \in Path
        PROVE  /\ Latest(p, head)' = Latest(p, head)
               /\ Latest(p, head + 1)' = IF p \in Posted(plan) THEN plan.post[p] ELSE Latest(p, head)
    <3>1. Latest(p, head)' = Latest(p, head)
      BY <1>1, <2>2, <2>3, LatestFrame DEF Latest, Writers
    <3>2. Latest(p, head + 1)' = IF plan.post[p] # NoEntry THEN plan.post[p] ELSE Latest(p, head)
      <4>1. PICK n \in Nat : n = head
        BY <2>2
      <4>2. /\ receipts'[n + 1] = plan /\ receipts'[n + 1] # NoReceipt /\ n + 1 \in Nat /\ n + 1 <= n + 1
            /\ \A i \in 1..n : receipts'[i] = receipts[i]
            /\ \A i \in (n + 2)..(n + 1) : receipts'[i] = NoReceipt
        BY <2>2, <2>3, <4>1
      <4>3. Latest(p, n + 1)' = IF plan.post[p] # NoEntry THEN plan.post[p] ELSE Latest(p, n)
        BY <4>2, LatestCommitted
      <4> QED BY <1>1, <4>1, <4>3 DEF Latest, Writers
    <3> QED BY <3>1, <3>2 DEF Posted
  <2>5. \A p \in Path : Calm(p) => file[p] = Base(p, head)
    BY <1>3 DEF ContentInv, Following, Pending
  <2>6. Following'
    BY <1>1, <2>4, <2>5 DEF Following, Calm, Base
  <2>7. ASSUME NEW p \in Path \ todo', Calm(p)
        PROVE  file[p] = Latest(p, head + 1)' \/ (p = "barrier" /\ Deletes(plan))
    <3>1. CASE p \in Posted(plan)
      BY <2>1, <2>2, <3>1 DEF WellFormed, Deletes
    <3>2. CASE p \notin Posted(plan)
      <4>1. CASE head = 0
        <5>1. p \notin {"policy", "queue"} /\ Latest(p, head) = NoFile
          BY <2>2, <3>2, <4>1 DEF Genesis, Latest, Writers
        <5> QED BY <2>4, <2>5, <2>7, <3>2, <4>1, <5>1 DEF Base
      <4>2. CASE head # 0
        BY <2>4, <2>5, <2>7, <3>2, <4>2 DEF Base
      <4> QED BY <4>1, <4>2
    <3> QED BY <3>1, <3>2
  <2>8. Publishing'
    BY <1>1, <2>1, <2>2, <2>7 DEF Publishing, Calm, Published, Deletes
  <2> QED BY <2>1, <2>6, <2>8 DEF ContentInv, Deleting, Heading
<1> QED BY <1>2, <1>3

\* A post is settled: its destination holds it now.
LEMMA SettledPost ==
  ASSUME Inv, ContentInv, phase = "posts", todo # {}, plan.post[NextPost] # NoFile,
         file' = [file EXCEPT ![NextPost] = plan.post[NextPost]], todo' = todo \ {NextPost},
         how' = "none", UNCHANGED <<receipts, head, edits, phase, plan, redoing>>
  PROVE  ContentInv'
<1>1. NextPost \in todo /\ todo \subseteq Posted(plan) /\ Present(head + 1) /\ file \in [Path -> Content]
  BY NextPostIsOutstanding DEF Inv, TypeOK, Session, Underway, AfterLink
<1>2. NextPost \in Path /\ plan.post[NextPost] = Latest(NextPost, head + 1)
  BY <1>1, LatestAtPlan DEF Posted, AfterLink
<1>3. \A p \in Path : file'[p] = IF p = NextPost THEN Latest(p, head + 1) ELSE file[p]
  BY <1>1, <1>2
<1>4. /\ \A p, n : Latest(p, n)' = Latest(p, n)
      /\ \A p : Base(p, head)' = Base(p, head) /\ (Calm(p)' <=> Calm(p))
      /\ Pending /\ Pending'
  BY <1>1 DEF Latest, Writers, Base, Calm, Pending, Present
<1>5. Following'
  BY <1>3, <1>4 DEF ContentInv, Following, Published
<1>6. \A p \in Path \ todo' : Calm(p) => file'[p] = Latest(p, head + 1) \/ (p = "barrier" /\ Deletes(plan))
  BY <1>2, <1>3 DEF ContentInv, Publishing, Published
<1>7. redoing /\ Deletes(plan) => "barrier" \in todo'
  BY <1>1 DEF ContentInv, Publishing, Deletes
<1>8. Publishing'
  BY <1>6, <1>7 DEF Publishing, Published, Calm, Deletes, Latest, Writers
<1> QED BY <1>5, <1>8 DEF ContentInv, Deleting, Heading

\* apply and redoPosts: skipping, linking, re-reading and renaming a post.
LEMMA PostContent ==
  ASSUME Inv, ContentInv, SkipPost \/ LinkPost \/ VerifyPost \/ RenamePost
  PROVE  ContentInv'
<1>1. phase = "posts" /\ todo # {} /\ UNCHANGED <<receipts, head, edits>>
  BY DEF SkipPost, Deciding, LinkPost, VerifyPost, RenamePost, Inv, Session, Staging, disk, env
<1>2. plan.post[NextPost] # NoFile
  BY DEF SkipPost, LinkPost, VerifyPost, RenamePost, ContentInv, Publishing
<1>3. NextPost \in Path /\ file \in [Path -> Content]
  BY <1>1, NextPostIsOutstanding DEF Inv, TypeOK
<1>4. CASE phase' = "abort"
  <2>1. UNCHANGED file
    BY <1>1, <1>4 DEF SkipPost, LinkPost, VerifyPost, RenamePost, Settle, Aborting, disk
  <2> QED BY <1>1, <1>4, <2>1, ContentFrame DEF AfterLink
<1>5. CASE phase' # "abort" /\ how' # "verified"
  <2>1. /\ file' = [file EXCEPT ![NextPost] = plan.post[NextPost]]
        /\ todo' = todo \ {NextPost} /\ how' = "none"
        /\ UNCHANGED <<phase, plan, redoing>>
    <3>1. CASE SkipPost
      BY <1>3, <3>1 DEF SkipPost, Deciding, disk
    <3>2. CASE LinkPost
      BY <1>5, <3>2 DEF LinkPost, Settle, Aborting
    <3>3. CASE VerifyPost
      BY <1>3, <1>5, <3>3 DEF VerifyPost, Settle, Aborting, disk
    <3>4. CASE RenamePost
      BY <3>4 DEF RenamePost, Settle
    <3> QED BY <3>1, <3>2, <3>3, <3>4
  <2> QED BY <1>1, <1>2, <2>1, SettledPost
<1>6. CASE how' = "verified"
  <2>1. VerifyPost /\ UNCHANGED <<file, phase, plan, redoing, todo>>
    BY <1>6 DEF SkipPost, Deciding, LinkPost, VerifyPost, RenamePost, Settle, Aborting, disk
  <2>2. Following'
    BY <1>1, <2>1 DEF ContentInv, Following, Calm, Base, Published, Pending, Present, Latest, Writers
  <2>3. Publishing'
    BY <1>1, <1>2, <2>1 DEF ContentInv, Publishing, Published, Calm, Deletes, NextPost, Latest, Writers
  <2> QED BY <1>1, <2>1, <2>2, <2>3 DEF ContentInv, Deleting, Heading
<1> QED BY <1>4, <1>5, <1>6

\* A post is staged unless its destination already holds it; never a deletion.
LEMMA StagePostContent ==
  ASSUME Inv, ContentInv, StagePost
  PROVE  ContentInv'
<1>1. /\ phase = "posts" /\ plan.post[NextPost] # NoFile
      /\ UNCHANGED <<receipts, head, file, edits, phase, plan, redoing, todo>>
  BY DEF StagePost, Deciding, env
<1>2. Following'
  BY <1>1 DEF ContentInv, Following, Calm, Base, Published, Pending, Present, Latest, Writers
<1>3. Publishing'
  BY <1>1 DEF ContentInv, Publishing, Published, Calm, Deletes, NextPost, Latest, Writers
<1> QED BY <1>1, <1>2, <1>3 DEF ContentInv, Deleting, Heading

\* Once nothing is outstanding only a deletion can be left, and not to a redo.
LEMMA PostsDoneContent ==
  ASSUME Inv, ContentInv, PostsDone
  PROVE  ContentInv'
<1>1. /\ phase = "posts" /\ todo = {} /\ phase' = IF ~redoing /\ Deletes(plan) THEN "delete" ELSE "head"
      /\ UNCHANGED <<receipts, head, file, edits, plan, redoing>>
  BY DEF PostsDone, env
<1>2. Following'
  BY <1>1 DEF ContentInv, Following, Calm, Base, Published, Pending, Present, Latest, Writers
<1>3. ~Deletes(plan) \/ ~redoing
  BY <1>1 DEF ContentInv, Publishing
<1>4. Deleting' /\ Heading'
  BY <1>1, <1>3 DEF ContentInv, Publishing, Deleting, Heading, Published, Calm, Deletes, Latest, Writers
<1> QED BY <1>1, <1>2, <1>4 DEF ContentInv, Publishing

\* removeBarrier publishes the last post.
LEMMA DeleteBarrierContent ==
  ASSUME Inv, ContentInv, DeleteBarrier
  PROVE  ContentInv'
<1>1. phase = "delete" /\ UNCHANGED <<receipts, head, edits>>
  BY DEF DeleteBarrier, env
<1>2. CASE phase' = "abort"
  <2>1. UNCHANGED file
    BY <1>1, <1>2 DEF DeleteBarrier, Aborting
  <2> QED BY <1>1, <1>2, <2>1, ContentFrame DEF AfterLink
<1>3. CASE phase' # "abort"
  <2>1. file' = [file EXCEPT !["barrier"] = NoFile] /\ phase' = "head" /\ ~redoing'
    BY <1>1, <1>3 DEF DeleteBarrier, Aborting, ContentInv, Deleting
  <2>2. /\ Present(head + 1) /\ Deletes(plan) /\ "barrier" \in Path /\ "barrier" \in Posted(plan)
        /\ file \in [Path -> Content]
    BY <1>1, ConstantsAssumption
       DEF Inv, TypeOK, Session, Underway, AfterLink, ContentInv, Deleting, Deletes, Posted, Path, Content
  <2>3. Latest("barrier", head + 1) = NoFile
    BY <1>1, <2>2, LatestAtPlan DEF Deletes, AfterLink
  <2>4. \A p \in Path : Calm(p) => file'[p] = Latest(p, head + 1)
    BY <1>1, <2>1, <2>2, <2>3 DEF ContentInv, Deleting, Published
  <2>5. Following' /\ Heading'
    BY <1>1, <2>1, <2>2, <2>4 DEF Following, Heading, Calm, Published, Pending, Present, Latest, Writers
  <2> QED BY <2>1, <2>5 DEF ContentInv, Publishing, Deleting
<1> QED BY <1>2, <1>3

\* The head moves when every post it implies was published.
LEMMA HeadContent ==
  ASSUME Inv, ContentInv, StageHead \/ PublishHead
  PROVE  ContentInv'
<1>1. phase = "head" /\ UNCHANGED <<receipts, file, edits>> /\ head \in Nat
  BY ConstantsAssumption DEF StageHead, PublishHead, env, Inv, TypeOK
<1>2. CASE StageHead
  <2>1. phase' = "head" /\ UNCHANGED <<head, plan, redoing>>
    BY <1>2 DEF StageHead
  <2>2. Following' /\ Heading'
    BY <1>1, <2>1 DEF Deletes, ContentInv, Following, Heading, Calm, Base, Published, Pending, Present, Latest, Writers
  <2> QED BY <2>1, <2>2 DEF ContentInv, Publishing, Deleting
<1>3. CASE PublishHead
  <2>1. head' = head + 1 /\ head' # 0 /\ phase' \notin AfterLink
    BY <1>1, <1>3 DEF PublishHead, AfterLink
  <2>2. \A p \in Path : Latest(p, head)' = Latest(p, head + 1)
    BY <1>1, <2>1 DEF Latest, Writers
  <2>3. Following'
    BY <1>1, <2>1, <2>2 DEF ContentInv, Heading, Following, Calm, Base, Published
  <2> QED BY <2>1, <2>3 DEF ContentInv, Publishing, Deleting, Heading, AfterLink
<1> QED BY <1>2, <1>3

\* An edit makes every path a human may edit uncalm.
LEMMA EditContent ==
  ASSUME Inv, ContentInv, NEW q \in IntentPath, Edit(q)
  PROVE  ContentInv'
<1>1. /\ UNCHANGED <<receipts, head, phase, plan, redoing, todo>>
      /\ how' # "none" => how # "none"
      /\ edits' # 0 /\ \A p \in Path \ IntentPath : file'[p] = file[p]
  BY ConstantsAssumption DEF Edit, Inv, TypeOK
<1>2. \A p \in Path : Calm(p)' => Calm(p) /\ file'[p] = file[p]
  BY <1>1 DEF Calm
<1>3. \A p \in Path : Calm(p)' => (Published(p)' <=> Published(p)) /\ (Base(p, head)' = Base(p, head))
  BY <1>1, <1>2 DEF Published, Base, Latest, Writers
<1>4. Following' /\ Deleting' /\ Heading'
  BY <1>1, <1>2, <1>3 DEF ContentInv, Following, Deleting, Heading, Pending, Present, Deletes
<1>5. Publishing'
  BY <1>1, <1>2, <1>3 DEF ContentInv, Publishing, Deletes, NextPost
<1> QED BY <1>4, <1>5 DEF ContentInv

\* ContentInv is preserved by every step.
LEMMA NextContent == Inv /\ AbstractInv /\ ContentInv /\ [Next]_vars => ContentInv'
<1> SUFFICES ASSUME Inv, AbstractInv, ContentInv, [Next]_vars PROVE ContentInv'
  OBVIOUS
<1>1. CASE \/ \E i \in Requests : BeginInit(i)
           \/ MakeDirectories \/ StageEvidence \/ LinkEvidence \/ StageReceipt \/ RefusePost
           \/ Resume \/ Finish \/ Abort \/ Fault \/ Crash
  <2>1. UNCHANGED <<receipts, head, file, edits>> /\ phase' \notin AfterLink
    BY <1>1 DEF BeginInit, MakeDirectories, StageEvidence, LinkEvidence, StageReceipt, RefusePost,
       Deciding, Resume, Fresh, Applying, Replay, Finish, Abort, Fault, Crash, Aborting, Released,
       disk, env, AfterLink
  <2> QED BY <2>1, ContentFrame
<1>2. CASE \E c \in Invocations : Begin(c)
  <2>1. PICK c \in Invocations : Begin(c)
    BY <1>2
  <2>2. CASE Fresh(c) \/ Replay(c)
    <3>1. UNCHANGED <<receipts, head, file, edits>> /\ phase' \notin AfterLink
      BY <2>2 DEF Fresh, Applying, Replay, Released, disk, env, AfterLink
    <3> QED BY <3>1, ContentFrame
  <2>3. c \in Command
    BY InvocationsAreCommands DEF Inv
  <2> QED BY <2>1, <2>2, <2>3, StartRedoContent DEF Begin, Mutate, PolicyUpdate, Barrier, Reconcile
<1>3. CASE SkipPost \/ LinkPost \/ VerifyPost \/ RenamePost
  BY <1>3, PostContent
<1>4. CASE StageHead \/ PublishHead
  BY <1>4, HeadContent
<1>5. CASE \E p \in IntentPath : Edit(p)
  BY <1>5, EditContent
<1>6. CASE UNCHANGED vars
  <2>1. Following'
    BY <1>6 DEF vars, ContentInv, Following, Calm, Base, Published, Pending, Present, Latest, Writers
  <2>2. Publishing'
    BY <1>6 DEF vars, ContentInv, Publishing, Published, Calm, Deletes, NextPost, Latest, Writers
  <2>3. Deleting' /\ Heading'
    BY <1>6 DEF vars, ContentInv, Deleting, Heading, Published, Calm, Deletes, Latest, Writers
  <2> QED BY <2>1, <2>2, <2>3 DEF ContentInv
<1> QED BY <1>1, <1>2, <1>3, <1>4, <1>5, <1>6, LinkReceiptContent, StagePostContent, PostsDoneContent,
        DeleteBarrierContent DEF Next, Holder

\* The head is published after every post it implies (apply, advanceHead): a
\* projection no human touched is at its canonical content or at the pending
\* receipt's, through every crash, error and redo.
THEOREM HeadImpliesPosts == Spec => []SettledProjections
<1>1. Init => Inv /\ AbstractInv /\ ContentInv
  BY InitInv, InitAbstract, InitContent
<1>2. Inv /\ AbstractInv /\ ContentInv /\ [Next]_vars => Inv' /\ AbstractInv' /\ ContentInv'
  BY NextInv, NextAbstract, NextContent
<1>3. ContentInv => SettledProjections
  BY DEF ContentInv, Following, SettledProjections, Calm, Base, Canon, Published
<1> QED BY <1>1, <1>2, <1>3, PTL DEF Spec

-----------------------------------------------------------------------------
(* What one returned error leaves behind, the next command redoes. *)

\* What a receipt replaces is the content below it; INIT posts what is there.
Anchored(r) ==
  \A p \in Posted(r) : Base(p, head) = r.pre[p] \/ (head = 0 /\ Base(p, head) = r.post[p])

\* While nothing was edited, no destination holds a third value.
Anchors ==
  edits = 0 =>
    /\ phase \in BeforeLink => Anchored(plan)
    /\ Pending => Anchored(receipts[head + 1])

\* What was decided for the next post still holds: nobody else writes it.
Decisions ==
  edits = 0 /\ phase = "posts" =>
    /\ ~redoing => \A p \in todo : plan.post[p] # NoFile
    /\ how = "create" => file[NextPost] = NoFile
    /\ how = "replace" => file[NextPost] = plan.pre[NextPost] /\ file[NextPost] # plan.post[NextPost]

Redos ==
  /\ redoing => head # 0 /\ (phase = "head" /\ how # "none" => how = "replace")
  /\ (phase \in {"idle", "resume"} \/ (redoing /\ phase = "head")) => mine = 0
  /\ phase = "delete" => ~redoing

\* The slot advanceHead occupies on a redo, for which no cleanup is registered.
HeadSlot == IF redoing /\ phase = "head" /\ how # "none" THEN 1 ELSE 0

\* A command fails, and a receipt is left pending, only by an error; and every
\* occupied slot is one the holder will remove, until a second error.
Errors ==
  edits = 0 /\ crashes = 0 =>
    /\ phase = "abort" \/ redoing \/ (Pending /\ phase \notin AfterLink) => faults # 0
    /\ slots = mine + HeadSlot \/ faults \notin {0, 1}

RecoveryInv == Anchors /\ Decisions /\ Redos /\ Errors

\* Every receipt the model plans replaces the files it found.
LEMMA PlansReplaceFiles ==
  ASSUME NEW c, NEW r \in Plans(c), NEW p \in Posted(r)
  PROVE  r.pre[p] = file[p]
<1>1. PICK posts, blobs : r = Receipted(c, posts, blobs)
  BY DEF Plans
<1> QED BY <1>1 DEF Receipted, Posted

LEMMA AnchorsFrame ==
  ASSUME Anchors, UNCHANGED <<receipts, head, edits>>,
         phase' \in BeforeLink => phase \in BeforeLink /\ plan' = plan
  PROVE  Anchors'
<1>1. /\ \A p : Base(p, head)' = Base(p, head)
      /\ Pending' <=> Pending
  BY DEF Base, Latest, Writers, Pending, Present
<1>2. edits = 0 /\ phase' \in BeforeLink => Anchored(plan)'
  BY <1>1 DEF Anchors, Anchored, Posted
<1>3. edits = 0 /\ Pending => Anchored(receipts[head + 1])'
  BY <1>1 DEF Anchors, Anchored, Posted
<1> QED BY <1>1, <1>2, <1>3 DEF Anchors

LEMMA BeginInitAnchors ==
  ASSUME Inv, ContentInv, Anchors, NEW i \in Requests, BeginInit(i)
  PROVE  Anchors'
<1> DEFINE posts == [p \in Path |-> IF p = i THEN 1
                                    ELSE IF p \in {"policy", "queue"} THEN file[p] ELSE NoEntry]
           absent == [p \in Path |-> IF posts[p] = NoEntry THEN NoEntry ELSE NoFile]
<1>1. /\ plan'.pre = absent /\ plan'.post = posts /\ phase' = "mkdir" /\ UNCHANGED <<receipts, head, edits>>
      /\ stateDir = "absent"
  BY DEF BeginInit, env
<1>2. head = 0 /\ ~Pending
  BY <1>1 DEF Inv, Session, Uncommitted, Pending
<1>3. i \in Path /\ i \notin {"policy", "queue"} /\ NoFile # NoEntry
      /\ {"policy", "queue"} \subseteq Path /\ "policy" \in IntentPath /\ "queue" \in IntentPath
  BY ConstantsAssumption DEF Path, IntentPath, Content
<1> HIDE DEF posts, absent
<1>4. Posted(plan') \subseteq {i, "policy", "queue"}
  BY <1>1 DEF Posted, posts
<1>5. ASSUME edits = 0, NEW p \in Posted(plan')
      PROVE  Base(p, head) = plan'.pre[p] \/ Base(p, head) = plan'.post[p]
  <2>1. p \in Path /\ posts[p] # NoEntry
    BY <1>1, <1>5 DEF Posted
  <2>2. CASE p = i
    BY <1>1, <1>2, <1>3, <2>1, <2>2 DEF Base, absent
  <2>3. CASE p # i
    <3>1. p \in {"policy", "queue"} /\ posts[p] = file[p]
      BY <1>4, <2>1, <2>3 DEF posts
    <3>2. file[p] = Base(p, head)
      BY <1>2, <1>5, <2>1 DEF ContentInv, Following, Calm
    <3> QED BY <1>1, <3>1, <3>2
  <2> QED BY <2>2, <2>3
<1>6. \A p : Base(p, head)' = Base(p, head)
  BY <1>1 DEF Base, Latest, Writers
<1>7. edits = 0 => Anchored(plan)'
  BY <1>1, <1>2, <1>5, <1>6 DEF Anchored, Posted
<1> QED BY <1>1, <1>2, <1>7 DEF Anchors, Pending, Present

LEMMA FreshAnchors ==
  ASSUME ContentInv, NEW c, Fresh(c)
  PROVE  Anchors'
<1>1. PICK r \in Plans(c) : Applying(c, r)
  BY DEF Fresh
<1>2. plan' = r /\ ~Pending /\ UNCHANGED <<receipts, head, edits>>
  BY <1>1 DEF Applying, Fresh, Audit, disk, env
<1>3. ASSUME edits = 0, NEW p \in Posted(r) PROVE Base(p, head) = r.pre[p]
  BY <1>1, <1>2, <1>3, PlansReplaceFiles DEF ContentInv, Following, Calm, Posted
<1>4. \A p : Base(p, head)' = Base(p, head)
  BY <1>2 DEF Base, Latest, Writers
<1>5. edits = 0 => Anchored(plan)'
  BY <1>2, <1>3, <1>4 DEF Anchored, Posted
<1> QED BY <1>2, <1>5 DEF Anchors, Pending, Present

LEMMA LinkReceiptAnchors ==
  ASSUME Inv, Anchors, LinkReceipt, ~Present(head + 1)
  PROVE  Anchors'
<1>1. /\ phase = "receipt" /\ phase' = "posts" /\ UNCHANGED <<head, edits>>
      /\ receipts' = [receipts EXCEPT ![head + 1] = plan]
  BY DEF LinkReceipt, env
<1>2. head \in Nat /\ head + 1 \in 1..MaxSeq /\ receipts \in [1..MaxSeq -> Receipt \cup {NoReceipt}]
  BY <1>1, ConstantsAssumption DEF Inv, TypeOK, Session, Planned, BeforeLink
<1>3. receipts'[head + 1] = plan /\ \A j \in 1..head : receipts'[j] = receipts[j]
  BY <1>1, <1>2
<1>4. ASSUME NEW p PROVE Base(p, head)' = Base(p, head)
  <2>1. PICK n \in Nat : n = head /\ \A j \in 1..n : receipts'[j] = receipts[j]
    BY <1>2, <1>3
  <2>2. Latest(p, n)' = Latest(p, n)
    BY <2>1, LatestFrame
  <2>3. Latest(p, head)' = Latest(p, head)
    BY <1>1, <2>1, <2>2 DEF Latest, Writers
  <2> QED BY <1>1, <2>3 DEF Base
<1>5. edits = 0 => Anchored(plan)
  BY <1>1 DEF Anchors, BeforeLink
<1>6. edits = 0 => Anchored(receipts[head + 1])'
  BY <1>1, <1>3, <1>4, <1>5 DEF Anchored, Posted
<1> QED BY <1>1, <1>6 DEF Anchors, BeforeLink

LEMMA AnchorsKept ==
  ASSUME Inv, ContentInv, Anchors, [Next]_vars
  PROVE  Anchors'
<1>1. CASE \E i \in Requests : BeginInit(i)
  BY <1>1, BeginInitAnchors
<1>2. CASE (\E c \in Invocations : Fresh(c)) \/ Fresh(cmd)
  BY <1>2, FreshAnchors
<1>3. CASE LinkReceipt /\ ~Present(head + 1)
  BY <1>3, LinkReceiptAnchors
<1>4. CASE PublishHead
  <2>1. head' = head + 1 /\ phase' \notin BeforeLink /\ UNCHANGED receipts /\ head \in Nat
    BY <1>4, ConstantsAssumption DEF PublishHead, BeforeLink, Inv, TypeOK
  <2>2. ~Pending'
    BY <2>1 DEF Inv, Journal, Chain, ChainOrder, Pending, Present
  <2> QED BY <2>1, <2>2 DEF Anchors
<1>5. CASE \E p \in IntentPath : Edit(p)
  BY <1>5, ConstantsAssumption DEF Edit, Anchors, Inv, TypeOK
<1>6. CASE /\ UNCHANGED <<receipts, head, edits>>
           /\ phase' \in BeforeLink => phase \in BeforeLink /\ plan' = plan
  BY <1>6, AnchorsFrame
<1>7. \/ \E i \in Requests : BeginInit(i)
      \/ (\E c \in Invocations : Fresh(c)) \/ Fresh(cmd)
      \/ (LinkReceipt /\ ~Present(head + 1))
      \/ PublishHead \/ \E p \in IntentPath : Edit(p)
      \/ /\ UNCHANGED <<receipts, head, edits>>
         /\ phase' \in BeforeLink => phase \in BeforeLink /\ plan' = plan
  BY DEF Next, Holder, vars, disk, env, Begin, Mutate, PolicyUpdate, Barrier, Reconcile, Replay, StartRedo, Resume, MakeDirectories, StageEvidence,
     LinkEvidence, StageReceipt, LinkReceipt, SkipPost, StagePost, RefusePost, LinkPost, VerifyPost,
     RenamePost, PostsDone, DeleteBarrier, StageHead, Finish, Abort, Fault, Crash, Deciding, Aborting,
     Settle, Released, BeforeLink
<1> QED BY <1>1, <1>2, <1>3, <1>4, <1>5, <1>6, <1>7

LEMMA RedosKept ==
  ASSUME Inv, Redos, [Next]_vars
  PROVE  Redos'
<1> USE DEF Redos
<1>0. head \in Nat /\ edits \in Nat
  BY ConstantsAssumption DEF Inv, TypeOK
<1>1. CASE \E c \in Invocations : Begin(c)
  BY <1>1 DEF Begin, Mutate, PolicyUpdate, Barrier, Reconcile, Fresh, Applying, Replay, Released, StartRedo, disk
<1>2. CASE Resume \/ Finish \/ Abort \/ Crash
  BY <1>2 DEF Resume, Fresh, Applying, Replay, Released, Finish, Abort, Crash
<1>3. CASE \/ \E i \in Requests : BeginInit(i)
           \/ MakeDirectories \/ StageEvidence \/ LinkEvidence \/ StageReceipt \/ LinkReceipt
  BY <1>3 DEF BeginInit, MakeDirectories, StageEvidence, LinkEvidence, StageReceipt, LinkReceipt, Stage, Aborting,
     Inv, Session, Holding, Planned, BeforeLink
<1>4. CASE SkipPost \/ StagePost \/ RefusePost \/ LinkPost \/ VerifyPost \/ RenamePost
  BY <1>4 DEF SkipPost, StagePost, RefusePost, LinkPost, VerifyPost, RenamePost, Stage, Aborting, Settle, Deciding, disk
<1>5. CASE PostsDone \/ DeleteBarrier
  <2>1. phase \in {"posts", "delete"} /\ UNCHANGED <<redoing, head, how>> /\ phase' # "idle"
        /\ (phase' = "delete" => ~redoing) /\ (redoing => mine' = 0 \/ phase = "delete")
        /\ (phase' = "head" => how' = "none") /\ phase' # "resume"
    BY <1>5 DEF PostsDone, DeleteBarrier, Aborting, Inv, Session, Staging
  <2> QED BY <2>1
<1>6. CASE StageHead \/ PublishHead
  <2>1. phase = "head" /\ UNCHANGED redoing /\ (redoing => mine' = mine) /\ phase' \in {"head", "resume", "finish"}
        /\ (phase' = "resume" => redoing)
        /\ head' \in {head, head + 1} /\ (phase' = "head" => how' = IF head = 0 THEN "create" ELSE "replace")
    BY <1>6 DEF StageHead, PublishHead
  <2> QED BY <1>0, <2>1
<1>7. CASE Fault \/ (\E p \in IntentPath : Edit(p)) \/ UNCHANGED vars
  BY <1>7 DEF Fault, Aborting, Edit, session, disk, vars
<1> QED BY <1>1, <1>2, <1>3, <1>4, <1>5, <1>6, <1>7 DEF Next, Holder

LEMMA DecisionsKept ==
  ASSUME Inv, Decisions, [Next]_vars
  PROVE  Decisions'
<1>1. CASE phase' # "posts" \/ edits' # 0
  BY <1>1 DEF Decisions
<1>2. CASE \E p \in IntentPath : Edit(p)
  BY <1>2, ConstantsAssumption DEF Edit, Decisions, Inv, TypeOK
<1>3. CASE StartRedo(cmd) \/ \E c \in Invocations : Begin(c)
  BY <1>3 DEF Begin, Mutate, PolicyUpdate, Barrier, Reconcile, Fresh, Applying, Replay, Released, StartRedo, Decisions
<1>4. CASE LinkReceipt
  BY <1>4 DEF LinkReceipt, Aborting, Decisions
<1>5. CASE SkipPost \/ LinkPost \/ RenamePost
  BY <1>5 DEF SkipPost, Deciding, LinkPost, RenamePost, Settle, Aborting, Decisions, disk, env
<1>6. CASE StagePost
  <2>1. /\ UNCHANGED <<file, edits, phase, plan, redoing, todo>>
        /\ \/ how' = "create" /\ file[NextPost] = NoFile
           \/ how' = "replace" /\ file[NextPost] = plan.pre[NextPost] /\ file[NextPost] # plan.post[NextPost]
    BY <1>6 DEF StagePost, Stage, env
  <2> QED BY <2>1 DEF Decisions, NextPost
<1>7. CASE VerifyPost
  <2>1. /\ UNCHANGED <<file, edits, plan, redoing>> /\ how' \in {"none", "verified"} /\ todo' \subseteq todo
        /\ phase = "posts"
    BY <1>7 DEF VerifyPost, Settle, Aborting, disk, env
  <2> QED BY <2>1 DEF Decisions
<1>8. CASE UNCHANGED vars
  BY <1>8 DEF vars, Decisions, NextPost
<1> QED BY <1>1, <1>2, <1>3, <1>4, <1>5, <1>6, <1>7, <1>8
   DEF Next, Holder, BeginInit, MakeDirectories, StageEvidence, LinkEvidence, StageReceipt, RefusePost, Aborting, PostsDone,
       DeleteBarrier, StageHead, PublishHead, Finish, Abort, Released, Fault, Crash, Resume, Fresh, Applying, Replay

\* With nothing edited, the destination of an outstanding post holds what the
\* receipt replaces, nothing, or the post.
LEMMA NoThirdValue ==
  ASSUME Inv, ContentInv, Anchors, Decisions, edits = 0, phase \in AfterLink, NEW p \in Posted(plan)
  PROVE  file[p] \in {plan.pre[p], plan.post[p]}
<1>1. Present(head + 1) /\ plan = receipts[head + 1] /\ p \in Path /\ Pending
  BY DEF Inv, Session, Underway, Posted, Pending
<1>2. Latest(p, head + 1) = plan.post[p]
  BY <1>1, LatestAtPlan
<1>3. file[p] = Base(p, head) \/ file[p] = plan.post[p]
  BY <1>1, <1>2 DEF ContentInv, Following, Calm, Published
<1>4. Base(p, head) \in {plan.pre[p], plan.post[p]}
  BY <1>1 DEF Anchors, Anchored
<1> QED BY <1>3, <1>4

\* A command of which no native call failed returns an error only on a redo.
LEMMA NothingRefused ==
  ASSUME Inv, ContentInv, Anchors, Decisions, edits = 0, ~redoing,
         RefusePost \/ LinkPost \/ VerifyPost \/ DeleteBarrier
  PROVE  phase' # "abort"
<1>1. CASE DeleteBarrier
  <2>1. phase = "delete" /\ Deletes(plan) /\ "barrier" \in Path /\ "barrier" \in Posted(plan)
    BY <1>1, ConstantsAssumption DEF DeleteBarrier, ContentInv, Deleting, Deletes, Posted, Path, Content
  <2>2. file["barrier"] \in {plan.pre["barrier"], NoFile}
    BY <2>1, NoThirdValue DEF Deletes, AfterLink
  <2> QED BY <1>1, <2>2 DEF DeleteBarrier
<1>2. CASE RefusePost \/ LinkPost \/ VerifyPost
  <2>1. phase = "posts" /\ todo # {}
    BY <1>2 DEF RefusePost, Deciding, LinkPost, VerifyPost, Inv, Session, Staging
  <2>2. NextPost \in todo /\ NextPost \in Posted(plan)
    BY <2>1, NextPostIsOutstanding DEF Inv, Session, Underway, AfterLink
  <2>3. file[NextPost] \in {plan.pre[NextPost], plan.post[NextPost]} /\ plan.post[NextPost] # NoFile
    BY <2>1, <2>2, NoThirdValue DEF Decisions, AfterLink
  <2> QED BY <1>2, <2>1, <2>3 DEF RefusePost, LinkPost, VerifyPost, Settle, Aborting, Decisions
<1> QED BY <1>1, <1>2

\* A step after which a failed or pending command is one that an error stopped.
LEMMA FailuresAreErrors ==
  ASSUME Inv, ContentInv, RecoveryInv, [Next]_vars, edits' = 0, crashes' = 0
  PROVE  /\ edits = 0 /\ crashes = 0 /\ faults' \in {faults, faults + 1}
         /\ phase' = "abort" \/ redoing' \/ (Pending' /\ phase' \notin AfterLink) => faults' # 0
<1>0. head \in Nat /\ edits \in Nat /\ crashes \in Nat /\ faults \in Nat
  BY ConstantsAssumption DEF Inv, TypeOK
<1>1. edits = 0 /\ crashes = 0 /\ faults' \in {faults, faults + 1}
  BY <1>0 DEF Next, Holder, vars, env, Fault, Crash, Edit, BeginInit, MakeDirectories, Begin, Mutate, PolicyUpdate, Barrier, Reconcile, Fresh, Replay,
       StartRedo, Resume, StageEvidence, LinkEvidence, StageReceipt, LinkReceipt, SkipPost,
       StagePost, RefusePost, LinkPost, VerifyPost, RenamePost, PostsDone, DeleteBarrier, StageHead, PublishHead,
       Finish, Abort
<1>2. phase = "abort" \/ redoing \/ (Pending /\ phase \notin AfterLink) => faults # 0
  BY <1>1 DEF RecoveryInv, Errors
<1>3. CASE Fault
  BY <1>0, <1>3 DEF Fault
<1>4. CASE faults # 0
  BY <1>0, <1>1, <1>4
<1>5. CASE faults = 0 /\ ~Fault
  <2>1. phase # "abort" /\ ~redoing /\ (Pending => phase \in AfterLink)
    BY <1>2, <1>5
  <2>2. CASE RefusePost \/ LinkPost \/ VerifyPost \/ DeleteBarrier
    <3>1. phase' # "abort" /\ UNCHANGED redoing /\ phase \in {"posts", "delete"}
      BY <1>1, <2>1, <2>2, NothingRefused
         DEF RecoveryInv, RefusePost, LinkPost, VerifyPost, DeleteBarrier, Settle, Aborting, Deciding
    <3>2. phase' \in AfterLink
      BY <2>2, <3>1 DEF RefusePost, LinkPost, VerifyPost, DeleteBarrier, Settle, Aborting, AfterLink
    <3> QED BY <1>1, <2>1, <3>1, <3>2 DEF AfterLink
  <2>3. CASE LinkReceipt
    <3>1. ~Present(head + 1)
      BY <2>1, <2>3 DEF LinkReceipt, Pending, AfterLink
    <3> QED BY <1>1, <2>1, <2>3, <3>1 DEF LinkReceipt, AfterLink
  <2>4. CASE PublishHead
    <3>1. head' = head + 1 /\ UNCHANGED <<receipts, redoing>> /\ phase' # "abort"
      BY <2>4 DEF PublishHead
    <3>2. ~Pending'
      BY <1>0, <3>1 DEF Inv, Journal, Chain, ChainOrder, Pending, Present
    <3> QED BY <1>1, <2>1, <3>1, <3>2
  <2>5. CASE SkipPost \/ StagePost \/ RenamePost \/ PostsDone \/ StageHead
    <3>1. phase' \in AfterLink /\ UNCHANGED redoing
      BY <2>5 DEF SkipPost, Deciding, StagePost, RenamePost, Settle, PostsDone, StageHead, AfterLink
    <3> QED BY <1>1, <2>1, <3>1 DEF AfterLink
  <2>6. CASE \E c \in Invocations : StartRedo(c) /\ phase = "idle"
    BY <1>1, <2>1, <2>6 DEF StartRedo, RedoAuthorized, AfterLink
  <2>7. CASE UNCHANGED <<receipts, head>> /\ phase \notin AfterLink /\ ~redoing' /\ phase' # "abort"
    BY <1>1, <2>1, <2>7 DEF Pending, Present
  <2>8. CASE UNCHANGED <<receipts, head, phase, redoing>>
    BY <1>1, <2>1, <2>8 DEF Pending, Present
  <2>9. CASE Crash
    BY <1>0, <2>9 DEF Crash
  <2>10. CASE Next
    BY <1>5, <2>1, <2>2, <2>3, <2>4, <2>5, <2>6, <2>7, <2>8, <2>9, <2>10
       DEF Next, Holder, disk, session, BeginInit, MakeDirectories, Begin, Mutate, PolicyUpdate, Barrier, Reconcile, Fresh, Applying, Replay, Released, Resume,
           StageEvidence, LinkEvidence, StageReceipt, Finish, Abort, Edit, AfterLink
  <2> QED BY <2>8, <2>10 DEF vars
<1> QED BY <1>1, <1>3, <1>4, <1>5

\* A slot no cleanup will remove is left by the second error, of a redo whose
\* head was staged.
LEMMA SlotsAccounted ==
  ASSUME Inv, ContentInv, RecoveryInv, [Next]_vars, edits = 0, crashes = 0, crashes' = 0,
         slots = mine + HeadSlot
  PROVE  slots' = mine' + HeadSlot' \/ faults' \notin {0, 1}
<1>0. slots \in Nat /\ mine \in Nat /\ faults \in Nat /\ HeadSlot \in {0, 1} /\ crashes \in Nat
  BY ConstantsAssumption DEF Inv, TypeOK, HeadSlot
<1>1. /\ phase \in {"idle", "resume"} \/ (redoing /\ phase = "head") => mine = 0
      /\ HeadSlot # 0 <=> redoing /\ phase = "head" /\ how # "none"
      /\ HeadSlot # 0 => how = "replace"
  BY DEF RecoveryInv, Redos, HeadSlot
<1>2. CASE Fault
  <2>1. HeadSlot # 0 => faults # 0
    BY <1>1 DEF RecoveryInv, Errors
  <2>2. faults' = faults + 1 /\ phase' = "abort" /\ UNCHANGED <<slots, mine>>
    BY <1>2 DEF Fault, Aborting, disk
  <2> QED BY <1>0, <2>1, <2>2 DEF HeadSlot
<1>3. CASE (\E c \in Invocations : Begin(c)) \/ Resume
  <2>1. PICK c : Fresh(c) \/ Replay(c) \/ StartRedo(c) \/ (phase = "resume" /\ Released /\ UNCHANGED disk)
    BY <1>3 DEF Begin, Mutate, PolicyUpdate, Barrier, Reconcile, Resume
  <2>2. mine' = 0 /\ slots' = slots /\ phase' # "head"
    BY <2>1 DEF Fresh, Applying, Replay, Released, StartRedo, disk
  <2>3. slots = 0
    <3>1. CASE Fresh(c) \/ Replay(c) \/ StartRedo(c)
      BY <3>1 DEF Fresh, Replay, StartRedo, Audit, RedoAuthorized
    <3>2. CASE phase = "resume"
      BY <1>0, <1>1, <3>2
    <3> QED BY <2>1, <3>1, <3>2
  <2> QED BY <2>2, <2>3 DEF HeadSlot
<1>4. CASE Finish \/ Abort
  BY <1>0, <1>1, <1>4 DEF Finish, Abort, Released, HeadSlot
<1>5. CASE Crash
  BY <1>0, <1>5 DEF Crash
<1>6. CASE \/ MakeDirectories \/ StageEvidence \/ LinkEvidence \/ StageReceipt \/ LinkReceipt
           \/ \E i \in Requests : BeginInit(i)
  <2>1. HeadSlot = 0 /\ phase' \notin {"head", "idle"}
    BY <1>1, <1>6 DEF BeginInit, MakeDirectories, StageEvidence, LinkEvidence, StageReceipt, LinkReceipt, Aborting
  <2>2. \/ slots' = slots /\ mine' = mine
        \/ slots' = slots + 1 /\ mine' = mine + 1
    BY <1>6 DEF BeginInit, MakeDirectories, StageEvidence, LinkEvidence, StageReceipt, LinkReceipt, Stage, Aborting
  <2> QED BY <1>0, <2>1, <2>2 DEF HeadSlot
<1>7. CASE SkipPost \/ StagePost \/ RefusePost \/ LinkPost \/ VerifyPost \/ RenamePost
  <2>1. HeadSlot = 0 /\ phase' \notin {"head", "idle"} /\ phase = "posts"
    BY <1>1, <1>7
       DEF SkipPost, StagePost, RefusePost, LinkPost, VerifyPost, RenamePost, Settle, Aborting, Deciding
  <2>2. VerifyPost => file[NextPost] # plan.post[NextPost]
    BY DEF RecoveryInv, Decisions, VerifyPost
  <2>3. \/ slots' = slots /\ mine' = mine
        \/ slots' = slots + 1 /\ mine' = mine + 1
        \/ slots' = slots - 1 /\ mine' = mine - 1
    <3>1. CASE SkipPost \/ RefusePost \/ LinkPost
      BY <3>1 DEF SkipPost, RefusePost, LinkPost, Settle, Aborting, disk
    <3>2. CASE StagePost
      BY <3>2 DEF StagePost, Stage
    <3>3. CASE VerifyPost
      BY <2>2, <3>3 DEF VerifyPost, Aborting, disk
    <3>4. CASE RenamePost
      BY <3>4 DEF RenamePost
    <3> QED BY <1>7, <3>1, <3>2, <3>3, <3>4
  <2> QED BY <1>0, <2>1, <2>3 DEF HeadSlot
<1>8. CASE PostsDone \/ DeleteBarrier
  <2>1. HeadSlot = 0 /\ HeadSlot' = 0
    BY <1>1, <1>8 DEF PostsDone, DeleteBarrier, Aborting, Inv, Session, Staging, HeadSlot
  <2> QED BY <1>0, <1>8, <2>1 DEF PostsDone, DeleteBarrier, Aborting
<1>9. CASE StageHead
  BY <1>0, <1>1, <1>9 DEF StageHead, HeadSlot
<1>10. CASE PublishHead
  BY <1>0, <1>1, <1>10 DEF PublishHead, HeadSlot
<1>11. CASE (\E p \in IntentPath : Edit(p)) \/ UNCHANGED vars
  BY <1>11 DEF Edit, session, vars, HeadSlot
<1> QED BY <1>2, <1>3, <1>4, <1>5, <1>6, <1>7, <1>8, <1>9, <1>10, <1>11 DEF Next, Holder

\* The initial states.
LEMMA InitRecovery == Init => RecoveryInv
BY DEF Init, RecoveryInv, Anchors, Decisions, Redos, Errors, HeadSlot, Pending, Present, BeforeLink

\* RecoveryInv is preserved by every step.
LEMMA NextRecovery == Inv /\ ContentInv /\ RecoveryInv /\ [Next]_vars => RecoveryInv'
<1> SUFFICES ASSUME Inv, ContentInv, RecoveryInv, [Next]_vars PROVE RecoveryInv'
  OBVIOUS
<1>1. Anchors' /\ Decisions' /\ Redos'
  BY AnchorsKept, DecisionsKept, RedosKept DEF RecoveryInv
<1>2. ASSUME edits' = 0, crashes' = 0
      PROVE  slots' = mine' + HeadSlot' \/ faults' \notin {0, 1}
  <2>1. edits = 0 /\ crashes = 0 /\ faults' \in {faults, faults + 1} /\ faults \in Nat
    BY <1>2, FailuresAreErrors, ConstantsAssumption DEF Inv, TypeOK
  <2>2. slots = mine + HeadSlot \/ faults \notin {0, 1}
    BY <2>1 DEF RecoveryInv, Errors
  <2> QED BY <1>2, <2>1, <2>2, SlotsAccounted
<1>3. Errors'
  BY <1>2, FailuresAreErrors DEF Errors
<1> QED BY <1>1, <1>3 DEF RecoveryInv

LEMMA RecoveryHolds == Spec => [](Inv /\ ContentInv /\ RecoveryInv)
<1>1. Init => Inv /\ AbstractInv /\ ContentInv /\ RecoveryInv
  BY InitInv, InitAbstract, InitContent, InitRecovery
<1>2. Inv /\ AbstractInv /\ ContentInv /\ RecoveryInv /\ [Next]_vars
        => Inv' /\ AbstractInv' /\ ContentInv' /\ RecoveryInv'
  BY NextInv, NextAbstract, NextContent, NextRecovery
<1> QED BY <1>1, <1>2, PTL DEF Spec

\* Whatever errors and crashes interrupted it, a committed receipt whose
\* projections no human touched is one the audit lets redo complete: each of
\* them is at its latest content or at the receipt's pre (audit, settled).
THEOREM UntouchedIsPreOrPost == Spec => [](edits = 0 /\ head # 0 /\ Pending => PreOrPost)
<1>1. ASSUME Inv, ContentInv, RecoveryInv, edits = 0, head # 0, Pending, NEW p \in Path
      PROVE  file[p] = Latest(p, head + 1) \/ file[p] = receipts[head + 1].pre[p]
  <2>1. file[p] = Latest(p, head) \/ file[p] = Latest(p, head + 1)
    BY <1>1 DEF ContentInv, Following, Calm, Base, Published
  <2>2. CASE p \in Posted(receipts[head + 1])
    <3>1. Latest(p, head) = receipts[head + 1].pre[p]
      BY <1>1, <2>2 DEF RecoveryInv, Anchors, Anchored, Base
    <3> QED BY <2>1, <3>1
  <2>3. CASE p \notin Posted(receipts[head + 1])
    <3>1. head \in Nat /\ head + 1 \notin Writers(p, head + 1)
      BY <1>1, <2>3, ConstantsAssumption DEF Inv, TypeOK, Writers, Posted
    <3>2. Latest(p, head + 1) = Latest(p, head)
      BY <3>1, LatestStep
    <3> QED BY <2>1, <3>2
  <2> QED BY <2>2, <2>3
<1>2. Inv /\ ContentInv /\ RecoveryInv => (edits = 0 /\ head # 0 /\ Pending => PreOrPost)
  BY <1>1 DEF PreOrPost
<1> QED BY <1>2, RecoveryHolds, PTL

\* One returned error, and no human: whatever is committed and not settled when
\* the command has returned, the next mutating command may redo, unless it is
\* the receipt of a failed INIT or of a failed UNPAUSE (applyWithFaults' cleanup,
\* RedoPlan).  A second error, of a redo, may leave the slot of a head.
THEOREM OneErrorIsRedone ==
  Spec => [](edits = 0 /\ crashes = 0 /\ faults \in {0, 1} =>
               /\ IdleIsRedoable
               /\ phase = "idle" /\ Pending => NeverRedone \/ RedoAuthorized)
<1>1. ASSUME Inv, RecoveryInv, edits = 0, crashes = 0, faults \in {0, 1}, phase = "idle", head # 0, Pending, PreOrPost
      PROVE  RedoAuthorized
  <2>1. slots = 0
    BY <1>1 DEF RecoveryInv, Errors, Redos, HeadSlot
  <2>2. head \in Nat /\ MaxSeq \in Nat /\ head <= MaxSeq
    BY <1>1, ConstantsAssumption DEF Inv, TypeOK
  <2>3. Chained
    BY <1>1, <2>2 DEF Inv, Journal, Chain, ChainOrder, Chained, Present
  <2>4. BlobsPresent
    BY <1>1 DEF Inv, Journal, Chain, ReceiptsOK, BlobsPresent
  <2> QED BY <1>1, <2>1, <2>3, <2>4 DEF RedoAuthorized
<1>2. Inv /\ RecoveryInv =>
        (edits = 0 /\ crashes = 0 /\ faults \in {0, 1} /\ (edits = 0 /\ head # 0 /\ Pending => PreOrPost) =>
           /\ IdleIsRedoable
           /\ phase = "idle" /\ Pending => NeverRedone \/ RedoAuthorized)
  BY <1>1 DEF IdleIsRedoable, NeverRedone
<1> QED BY <1>2, RecoveryHolds, UntouchedIsPreOrPost, PTL

\* A failed UNPAUSE is guessed at by nobody: whatever was edited, failed or
\* crashed since, no other command moves its receipt, its barrier or the head
\* past it (redoPosts' refusal of a null digest).
THEOREM UnpauseIsNotGuessed == Spec => FailedUnpauseWaits
<1> DEFINE Waits == /\ Pending /\ Deletes(receipts[head + 1]) /\ cmd # receipts[head + 1].cmd
                    => UNCHANGED <<receipts, head>> /\ file'["barrier"] = file["barrier"]
<1>1. ASSUME Inv, ContentInv, RecoveryInv, [Next]_vars, Pending, Deletes(receipts[head + 1]),
             cmd # receipts[head + 1].cmd
      PROVE  UNCHANGED <<receipts, head>> /\ file'["barrier"] = file["barrier"]
  <2>1. phase \in AfterLink => plan = receipts[head + 1] /\ redoing /\ Deletes(plan)
    BY <1>1 DEF Inv, Session, Underway
  <2>2. ~PublishHead /\ ~DeleteBarrier
    BY <1>1, <2>1 DEF PublishHead, DeleteBarrier, ContentInv, Heading, RecoveryInv, Redos, AfterLink
  <2>3. "barrier" \in Path /\ "barrier" \notin IntentPath /\ file \in [Path -> Content]
    BY <1>1, ConstantsAssumption DEF Inv, TypeOK, Path
  <2>4. CASE LinkPost \/ RenamePost
    <3>1. NextPost # "barrier"
      BY <1>1, <2>1, <2>4 DEF LinkPost, RenamePost, ContentInv, Publishing, Deletes, AfterLink
    <3> QED BY <2>3, <2>4, <3>1 DEF LinkPost, RenamePost
  <2>5. CASE LinkReceipt
    BY <1>1, <2>5 DEF LinkReceipt, Pending
  <2>6. CASE \E q \in IntentPath : Edit(q)
    BY <2>3, <2>6 DEF Edit
  <2>7. CASE UNCHANGED <<receipts, head, file>>
    BY <2>7
  <2>8. \/ LinkPost \/ RenamePost \/ LinkReceipt \/ PublishHead \/ DeleteBarrier
        \/ (\E q \in IntentPath : Edit(q)) \/ UNCHANGED <<receipts, head, file>>
    BY <1>1 DEF Next, Holder, vars, disk, BeginInit, MakeDirectories, Begin, Mutate, PolicyUpdate, Barrier, Reconcile, Fresh, Replay,
       StartRedo, Resume, StageEvidence, LinkEvidence, StageReceipt, SkipPost,
       StagePost, RefusePost, VerifyPost, PostsDone, StageHead, Finish, Abort, Fault, Crash
  <2> QED BY <2>2, <2>4, <2>5, <2>6, <2>7, <2>8
<1>2. Inv /\ ContentInv /\ RecoveryInv /\ [Next]_vars => [Waits]_vars
  BY <1>1
<1> QED BY <1>2, RecoveryHolds, PTL DEF Spec, FailedUnpauseWaits
=============================================================================
