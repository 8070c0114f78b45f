----------------------------- MODULE StoreCapacity -----------------------------
(***************************************************************************)
(* The capacity accounting of package transaction: CheckCapacity before a  *)
(* plan is published, the publication itself with a crash at any point,    *)
(* and RedoCapacity and AbortCapacity after one.                           *)
(*                                                                         *)
(* A cost keeps the components of `Cost` that are bounded separately: the  *)
(* journal's count and bytes, evidence bytes, intent bytes and scanned     *)
(* entries, which stand for the file count, the manifest and the archive   *)
(* too, since those grow with the entries.  A blob is one unit of          *)
(* evidence.  A post list is at most one growing and one shrinking         *)
(* projection, the request index and the barrier.                          *)
(***************************************************************************)
EXTENDS Naturals, FiniteSets

CONSTANTS
  JournalCount, JournalBytes, EvidenceBytes, IntentBytes, ScanEntries,  \* limits of hardLimits
  UnpauseReceiptBytes,  \* the codec's maximal UNPAUSE receipt
  Blobs,                \* evidence by digest
  Shapes,               \* what the frozen plans of requests look like
  NoBlob, NoPlan

\* receipt: its bytes; grow, shrink: bytes of the two projections; entries: what
\* the request index adds, one file and perhaps its shard directory.
PlanShape ==
  [receipt : Nat \ {0}, blob : Blobs \cup {NoBlob}, grow : Nat, shrink : Nat, entries : {1, 2},
   barrier : {"keep", "place", "lift"}]

Unpause(receipt, entries) ==
  [receipt |-> receipt, blob |-> NoBlob, grow |-> 0, shrink |-> 0, entries |-> entries, barrier |-> "lift"]

ASSUME CapacityAssumption ==
  /\ {JournalCount, JournalBytes, EvidenceBytes, IntentBytes, ScanEntries, UnpauseReceiptBytes} \subseteq Nat \ {0}
  /\ 2 <= ScanEntries  \* the genesis receipt and the manifest of INIT
  /\ Shapes \subseteq PlanShape /\ \A s \in Shapes : s.barrier # "lift"

VARIABLES
  kept,     \* the retained inventory
  plan,     \* the frozen plan being published
  left,     \* its posts not yet published
  stage     \* how far publication is

capacityVars == <<kept, plan, left, stage>>

CapacityInit ==
  /\ kept \in [count : {1}, bytes : {1}, intent : 0..IntentBytes, other : {1}, blobs : {{}}, barrier : {FALSE}]
  /\ plan = NoPlan /\ left = {} /\ stage = "idle"

-----------------------------------------------------------------------------
(* Measuring. *)

Measure(inv, names) ==
  [count |-> inv.count, bytes |-> inv.bytes, evidence |-> Cardinality(inv.blobs), intent |-> inv.intent,
   entries |-> inv.other + inv.count + Cardinality(inv.blobs) + (IF inv.barrier THEN 1 ELSE 0) + names]

CheckUncounted(c) ==
  /\ c.bytes <= JournalBytes /\ c.evidence <= EvidenceBytes
  /\ c.intent <= IntentBytes /\ c.entries <= ScanEntries
Check(c) ==
  /\ c.count <= JournalCount /\ c.bytes <= JournalBytes
  /\ c.evidence <= EvidenceBytes /\ c.intent <= IntentBytes /\ c.entries <= ScanEntries

\* A barrier keeps one receipt slot and the bytes of one UNPAUSE free.
JournalReserve(inv, barrier) ==
  /\ Check(Measure(inv, 0))
  /\ barrier => inv.count + 1 <= JournalCount /\ inv.bytes + UnpauseReceiptBytes <= JournalBytes

\* The largest UNPAUSE there can be: its receipt, an index in a shard of its own,
\* the barrier still charged, and the names of its staging.
UnpausePeakJournal(inv) == JournalReserve(inv, TRUE)
UnpausePeak(inv) ==
  /\ JournalReserve(inv, TRUE)
  /\ Check(Measure([inv EXCEPT !.count = @ + 1, !.bytes = @ + UnpauseReceiptBytes, !.other = @ + 2], 5))

\* Staging holds the artifacts, the descriptor and its temporary.
Names(p) ==
  5 + Cardinality({x \in {"grow", "shrink"} : p[x] > 0})
    + (IF p.blob = NoBlob THEN 0 ELSE 1) + (IF p.barrier = "place" THEN 1 ELSE 0)

Posts(p) ==
  {"index"} \cup {x \in {"grow", "shrink"} : p[x] > 0} \cup (IF p.barrier = "keep" THEN {} ELSE {p.barrier})

WithBlob(inv, p) == IF p.blob = NoBlob THEN inv ELSE [inv EXCEPT !.blobs = @ \cup {p.blob}]
WithReceipt(inv, p) == [inv EXCEPT !.count = @ + 1, !.bytes = @ + p.receipt]

WithPost(inv, p, post) ==
  CASE post = "index"  -> [inv EXCEPT !.other = @ + p.entries]
    [] post = "grow"   -> [inv EXCEPT !.intent = @ + p.grow]
    [] post = "shrink" -> [inv EXCEPT !.intent = IF @ > p.shrink THEN @ - p.shrink ELSE 0]
    [] post = "place"  -> [inv EXCEPT !.barrier = TRUE]
    [] post = "lift"   -> [inv EXCEPT !.barrier = FALSE]

\* The inventories after each of these posts, published in the order given.
PublishOne(inv, p, post, posts) == IF post \in posts THEN WithPost(inv, p, post) ELSE inv
Prefixes(inv, p, order, posts) ==
  LET after[n \in 0..5] == IF n = 0 THEN inv ELSE PublishOne(after[n - 1], p, order[n], posts)
  IN after

\* checkCapacity: growing posts first, shrinking ones after, the unlink last.
\* Redo: in target order.
TargetOrder == <<"place", "grow", "shrink", "index", "lift">>
ShrinkFirst == <<"shrink", "place", "grow", "index", "lift">>
GrowthFirst == <<"place", "grow", "index", "shrink", "lift">>

-----------------------------------------------------------------------------
(* The three admissions. *)

\* Before the receipt, the plan may be abandoned with its blob linked: each
\* prefix of a paused store must leave the UNPAUSE its room.
PrefixAdmitted(inv, p) == Check(Measure(inv, Names(p))) /\ (inv.barrier => UnpausePeak(inv))

\* After cleanup: a store the plan leaves paused can be un-paused.
FinalJournal(inv) == JournalReserve(inv, inv.barrier)
FinalReserve(inv) == JournalReserve(inv, inv.barrier) /\ (inv.barrier => UnpausePeak(inv))

CheckCapacity(inv, p) ==
  LET linked == WithBlob(inv, p)
      published == Prefixes(WithReceipt(linked, p), p, GrowthFirst, Posts(p))
      final == published[5]
  IN /\ JournalReserve(inv, inv.barrier)
     /\ PrefixAdmitted(inv, p) /\ PrefixAdmitted(linked, p)
     /\ \A n \in DOMAIN published : Check(Measure(published[n], Names(p)))
     /\ FinalReserve(final)

RedoCapacity(inv, p, remaining) ==
  LET published == Prefixes(inv, p, TargetOrder, remaining)
      final == published[5]
  IN /\ \A n \in DOMAIN published : Check(Measure(published[n], Names(p)))
     /\ final.barrier => UnpausePeak(final)

\* A preparation is abandoned: the staged names stay charged, a barrier is required.
AbortCapacity(inv, p) == Check(Measure(inv, Names(p))) /\ inv.barrier /\ UnpausePeak(inv)

-----------------------------------------------------------------------------
(* Publication. *)

\* An already matching PAUSE or absent UNPAUSE is NoChange.
Admissible(p) == p.barrier = "place" => ~kept.barrier
UnpauseShapes == {Unpause(n, e) : n \in 1..UnpauseReceiptBytes, e \in {1, 2}}

Admit(p) ==
  /\ stage = "idle" /\ Admissible(p)
  /\ IF p.barrier = "lift" THEN kept.barrier ELSE p \in Shapes
  /\ CheckCapacity(kept, p)
  /\ plan' = p /\ left' = Posts(p) /\ stage' = "prepared"
  /\ UNCHANGED kept

LinkBlob ==
  /\ stage = "prepared"
  /\ kept' = WithBlob(kept, plan) /\ stage' = "linked"
  /\ UNCHANGED <<plan, left>>

LinkReceipt ==
  /\ stage = "linked"
  /\ kept' = WithReceipt(kept, plan) /\ stage' = "committed"
  /\ UNCHANGED <<plan, left>>

\* The posts in any order: the check must not depend on the publisher's.
PublishPost(post) ==
  /\ stage = "committed" /\ post \in left
  /\ kept' = WithPost(kept, plan, post) /\ left' = left \ {post}
  /\ UNCHANGED <<plan, stage>>

\* The head is replaced, then the staging directory is emptied.
Finish ==
  /\ stage = "committed" /\ left = {}
  /\ stage' = "cleaning"
  /\ UNCHANGED <<kept, plan, left>>

Clean ==
  /\ stage = "cleaning"
  /\ stage' = "idle" /\ plan' = NoPlan /\ left' = {}
  /\ UNCHANGED kept

\* Before the receipt the preparation is abandoned; after it, the redo goes on.
Interrupt ==
  /\ \/ stage \in {"prepared", "linked"} /\ stage' = "cleaning" /\ UNCHANGED left
     \/ stage = "committed" /\ stage' = "pending" /\ UNCHANGED left
  /\ UNCHANGED <<kept, plan>>

Resume ==
  /\ stage = "pending" /\ RedoCapacity(kept, plan, left)
  /\ stage' = "committed"
  /\ UNCHANGED <<kept, plan, left>>

CapacityNext ==
  \/ \E p \in Shapes \cup UnpauseShapes : Admit(p)
  \/ LinkBlob \/ LinkReceipt
  \/ (\E post \in left : PublishPost(post))
  \/ Finish \/ Clean \/ Interrupt \/ Resume

CapacitySpec == CapacityInit /\ [][CapacityNext]_capacityVars

-----------------------------------------------------------------------------
(* Properties. *)

CapacityTypeOK ==
  /\ kept.count \in 1..JournalCount /\ kept.blobs \subseteq Blobs /\ kept.barrier \in BOOLEAN
  /\ stage \in {"idle", "prepared", "linked", "committed", "cleaning", "pending"}
  /\ stage = "idle" <=> plan = NoPlan

\* No order of publication, and no crash in it, takes the store past a limit of
\* the archive that must still export it (the growth-first order of checkCapacity).
NeverBeyondLimits == Check(Measure(kept, IF plan = NoPlan THEN 0 ELSE Names(plan)))

\* Whatever was admitted, published or abandoned while the store was paused, the
\* largest UNPAUSE is still admitted (the reserve of journalReserve and unpausePeak).
PausedCanUnpause ==
  stage = "idle" /\ kept.barrier =>
    \A p \in UnpauseShapes : CheckCapacity(kept, p)

\* A receipt that was linked is never refused its redo, and a preparation
\* abandoned under a barrier passes the abort's own check.
RecoveryNeverRefused ==
  /\ stage = "pending" => RedoCapacity(kept, plan, left)
  /\ stage \in {"prepared", "linked"} /\ kept.barrier => AbortCapacity(kept, plan)
=============================================================================
