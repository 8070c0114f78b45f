----------------------------- MODULE RepoLockProofs -----------------------------
(***************************************************************************)
(* Proofs about RepoLock, for every number of processes, lock files and    *)
(* ticks: what keeps two callers from believing they hold the same lock.   *)
(***************************************************************************)
EXTENDS RepoLock, TLAPS

Granted == {"granted", "recheck", "held"}

\* A call that is under way was begun early enough for its deadline to be a tick.
Started(p) == call[p].at \notin {"idle", "refused"} => call[p].start + Wait <= MaxClock

\* From the open to the end a call keeps a descriptor.
Descriptor(p) == call[p].at \in {"confirm", "poll", "sleep"} \cup Granted => call[p].fd \in 1..MaxInode

\* A lock is held by a call that was granted it on the descriptor it still has,
\* and such a call does hold it.
HolderWasGranted(p) == \A i \in 1..MaxInode : flock[i] = p => call[p].fd = i /\ call[p].at \in Granted
GrantIsHeld(p) == call[p].at \in Granted => flock[call[p].fd] = p

\* After its last look a call's file is the one the name leads to, until someone
\* unlinks or replaces it.
LookedIsCurrent(p) == call[p].at \in {"recheck", "held"} /\ ~call[p].lost => entry = call[p].fd

CallInv(p) == Started(p) /\ Descriptor(p) /\ HolderWasGranted(p) /\ GrantIsHeld(p) /\ LookedIsCurrent(p)

\* The inductive invariant.
LockInv == LockTypeOK /\ \A p \in Procs : CallInv(p)

-----------------------------------------------------------------------------
LEMMA Bounds ==
  /\ MaxInode \in Nat \ {0} /\ Wait \in Nat \ {0} /\ PollEvery \in Nat \ {0} /\ MaxClock \in Nat \ {0}
  /\ Free \notin Procs
BY LockAssumption DEF LockAssumption

LEMMA InitLock == LockInit => LockInv
<1> SUFFICES ASSUME LockInit PROVE LockInv
  OBVIOUS
<1> USE Bounds
<1>1. LockTypeOK
  <2>1. ASSUME NEW p \in Procs PROVE call[p] \in Call
    BY DEF LockInit, Call, Phases
  <2>2. call \in [Procs -> Call]
    BY <2>1 DEF LockInit
  <2>3. flock \in [1..MaxInode -> Procs \cup {Free}]
    BY DEF LockInit
  <2>4. entry \in 0..created /\ created \in 0..MaxInode /\ clock \in 0..MaxClock
    BY DEF LockInit
  <2>5. moved \in BOOLEAN
    BY DEF LockInit
  <2> QED
    BY <2>2, <2>3, <2>4, <2>5 DEF LockTypeOK
<1>2. ASSUME NEW p \in Procs PROVE CallInv(p)
  BY DEF LockInit, CallInv, Started, Descriptor, HolderWasGranted, GrantIsHeld, LookedIsCurrent, Granted
<1> QED
  BY <1>1, <1>2 DEF LockInv

\* The invariant of a call whose state, locks and name a step leaves alone.
LEMMA OthersKeep ==
  ASSUME LockInv, NEW q \in Procs,
         call'[q] = call[q], entry' = entry \/ entry = 0,
         \A i \in 1..MaxInode : flock'[i] = q <=> flock[i] = q
  PROVE  CallInv(q)'
<1> USE Bounds DEF LockInv, LockTypeOK, CallInv
<1>1. CallInv(q) /\ call[q] \in Call
  OBVIOUS
<1>2. Started(q)' /\ Descriptor(q)'
  BY <1>1 DEF Started, Descriptor
<1>3. HolderWasGranted(q)'
  BY <1>1 DEF HolderWasGranted
<1>4. GrantIsHeld(q)'
  BY <1>1 DEF GrantIsHeld, Descriptor, Granted
<1>5. LookedIsCurrent(q)'
  BY <1>1 DEF LookedIsCurrent, Descriptor, Granted
<1> QED
  BY <1>2, <1>3, <1>4, <1>5

\* Refusing, whatever the reason, closes the descriptor and drops its lock.
LEMMA RefuseKeeps ==
  ASSUME LockInv, NEW p \in Procs, Refuse(p)
  PROVE  LockInv'
<1> USE Bounds
<1>1. call[p] \in Call /\ call' = [call EXCEPT ![p] = [@ EXCEPT !.at = "refused", !.fd = 0]]
  BY DEF Refuse, LockInv, LockTypeOK
<1>2. call'[p] \in Call /\ call'[p].at = "refused"
  <2>1. call'[p] = [call[p] EXCEPT !.at = "refused", !.fd = 0]
    BY <1>1 DEF LockInv, LockTypeOK
  <2>2. "refused" \in Phases /\ 0 \in 0..MaxInode
    BY DEF Phases
  <2>3. ASSUME NEW c \in Call, NEW d, d = [c EXCEPT !.at = "refused", !.fd = 0]
        PROVE  d \in Call /\ d.at = "refused"
    BY ONLY <2>2, <2>3 DEF Call
  <2> QED
    BY ONLY <1>1, <2>1, <2>3
<1>3. LockTypeOK'
  BY <1>1, <1>2 DEF LockTypeOK, LockInv, Refuse, Dropped
<1>4. \A i \in 1..MaxInode : flock'[i] # p /\ \A q \in Procs \ {p} : flock'[i] = q <=> flock[i] = q
  BY DEF Refuse, Dropped, LockInv, LockTypeOK
<1>5. CallInv(p)'
  BY <1>2, <1>4 DEF CallInv, Started, Descriptor, HolderWasGranted, GrantIsHeld, LookedIsCurrent, Granted
<1>6. ASSUME NEW q \in Procs, q # p PROVE CallInv(q)'
  BY <1>1, <1>4, <1>6, OthersKeep DEF LockInv, LockTypeOK, Refuse
<1> QED
  BY <1>3, <1>5, <1>6 DEF LockInv

-----------------------------------------------------------------------------
(* The steps of a call that do not refuse. *)

\* A step that changes only this call, closing nothing: what is left to show is
\* about the call itself.
LEMMA OneCallKeeps ==
  ASSUME LockInv, NEW p \in Procs, NEW c \in Call, call' = [call EXCEPT ![p] = c],
         UNCHANGED <<entry, created, flock, moved, clock>>,
         CallInv(p)'
  PROVE  LockInv'
<1>1. LockTypeOK'
  BY DEF LockInv, LockTypeOK
<1>2. ASSUME NEW q \in Procs, q # p PROVE CallInv(q)'
  BY <1>2, OthersKeep DEF LockInv, LockTypeOK
<1> QED
  BY <1>1, <1>2 DEF LockInv

LEMMA AdvanceKeeps ==
  ASSUME LockInv, NEW p \in Procs, NEW phase \in Phases, Advance(p, phase), call[p].at \notin {"idle", "refused"},
         phase \notin {"idle", "refused"},
         phase \in {"confirm", "poll", "sleep"} \cup Granted => call[p].fd \in 1..MaxInode,
         phase \in Granted <=> call[p].at \in Granted,
         phase \in {"recheck", "held"} => call[p].at \in {"recheck", "held"} \/ entry = call[p].fd
  PROVE  LockInv'
<1> USE Bounds
<1> DEFINE c == [call[p] EXCEPT !.at = phase]
<1>1. c \in Call /\ call' = [call EXCEPT ![p] = c] /\ call'[p] = c
  BY DEF Call, LockInv, LockTypeOK, Advance
<1>2. UNCHANGED <<entry, created, flock, moved, clock>>
  BY DEF Advance
<1>3. CallInv(p) /\ call[p] \in Call
  BY DEF LockInv, LockTypeOK
<1> HIDE DEF c
<1>4. c.at = phase /\ c.fd = call[p].fd /\ c.start = call[p].start /\ c.lost = call[p].lost
  BY <1>3 DEF c, Call
<1>5. CallInv(p)'
  BY <1>1, <1>2, <1>3, <1>4 DEF CallInv, Started, Descriptor, HolderWasGranted, GrantIsHeld, LookedIsCurrent, Granted
<1> QED
  BY <1>1, <1>2, <1>5, OneCallKeeps

LEMMA AcquireKeeps ==
  ASSUME LockInv, NEW p \in Procs, Acquire(p)
  PROVE  LockInv'
<1> USE Bounds
<1> DEFINE phase == IF moved \/ call[p].cancelled THEN "refused" ELSE "stat"
           c == [call[p] EXCEPT !.at = phase, !.start = clock]
<1>1. phase \in {"stat", "refused"}
  OBVIOUS
<1>2. CallInv(p) /\ call[p] \in Call /\ call[p].at = "idle" /\ clock + Wait <= MaxClock /\ clock \in 0..MaxClock
  BY DEF LockInv, LockTypeOK, Acquire, At
<1>3. call' = [call EXCEPT ![p] = c] /\ UNCHANGED <<entry, created, flock, moved, clock>>
  BY DEF Acquire
<1> HIDE DEF phase
<1>4. c \in Call /\ c.at = phase /\ c.start = clock /\ c.fd = call[p].fd
  BY <1>1, <1>2 DEF Call, Phases
<1>5. call'[p] = c
  BY <1>3 DEF LockInv, LockTypeOK
<1> HIDE DEF c
<1>6. CallInv(p)'
  BY <1>1, <1>2, <1>3, <1>4, <1>5
     DEF CallInv, Started, Descriptor, HolderWasGranted, GrantIsHeld, LookedIsCurrent, Granted
<1> QED
  BY <1>3, <1>4, <1>6, OneCallKeeps

LEMMA StatKeeps ==
  ASSUME LockInv, NEW p \in Procs, Stat(p)
  PROVE  LockInv'
<1> USE Bounds
<1> DEFINE c == [call[p] EXCEPT !.at = "open", !.seen = entry]
<1>1. CallInv(p) /\ call[p] \in Call /\ call[p].at = "stat" /\ entry \in 0..MaxInode
  BY DEF LockInv, LockTypeOK, Stat, At
<1>2. call' = [call EXCEPT ![p] = c] /\ UNCHANGED <<entry, created, flock, moved, clock>>
  BY DEF Stat
<1>3. c \in Call /\ c.at = "open" /\ c.start = call[p].start /\ c.fd = call[p].fd
  BY <1>1 DEF Call, Phases
<1>4. call'[p] = c
  BY <1>2 DEF LockInv, LockTypeOK
<1> HIDE DEF c
<1>5. CallInv(p)'
  BY <1>1, <1>2, <1>3, <1>4 DEF CallInv, Started, Descriptor, HolderWasGranted, GrantIsHeld, LookedIsCurrent, Granted
<1> QED
  BY <1>2, <1>3, <1>5, OneCallKeeps

\* The opened file exists; a new one takes the next inode and the free name.
LEMMA OpenKeeps ==
  ASSUME LockInv, NEW p \in Procs, Open(p)
  PROVE  LockInv'
<1> USE Bounds
<1> DEFINE same == call[p].seen \in {0, entry'}
           phase == IF same THEN "confirm" ELSE "refused"
           inode == IF same THEN entry' ELSE 0
           c == [call[p] EXCEPT !.at = phase, !.fd = inode]
<1>1. CallInv(p) /\ call[p] \in Call /\ call[p].at = "open" /\ call \in [Procs -> Call]
  BY DEF LockInv, LockTypeOK, Open, At
<1>2. entry' \in 1..created' /\ created' \in 0..MaxInode /\ (entry' = entry \/ entry = 0)
  BY DEF LockInv, LockTypeOK, Open
<1>3. call' = [call EXCEPT ![p] = c] /\ UNCHANGED <<flock, moved, clock>>
  BY DEF Open
<1>4. phase \in {"confirm", "refused"} /\ inode \in 0..MaxInode /\ (phase = "confirm" => inode = entry')
  BY <1>2
<1> HIDE DEF same, phase, inode
<1>9. c \in Call /\ c.at = phase /\ c.fd = inode /\ c.start = call[p].start
  BY <1>1, <1>4 DEF Call, Phases
<1>5. call'[p] = c /\ call' \in [Procs -> Call]
  BY <1>1, <1>3, <1>9
<1> HIDE DEF c
<1>6. LockTypeOK'
  BY <1>2, <1>3, <1>5 DEF LockInv, LockTypeOK
<1>7. CallInv(p)'
  BY <1>1, <1>2, <1>3, <1>4, <1>5, <1>9
     DEF CallInv, Started, Descriptor, HolderWasGranted, GrantIsHeld, LookedIsCurrent, Granted
<1>8. ASSUME NEW q \in Procs, q # p PROVE CallInv(q)'
  BY <1>1, <1>2, <1>3, <1>8, OthersKeep
<1> QED
  BY <1>6, <1>7, <1>8 DEF LockInv

\* The grant: nobody held the inode, and this call now does.
LEMMA GrantKeeps ==
  ASSUME LockInv, NEW p \in Procs, At(p, "poll"), flock[call[p].fd] = Free,
         flock' = [flock EXCEPT ![call[p].fd] = p], call' = [call EXCEPT ![p].at = "granted"],
         UNCHANGED <<entry, created, moved, clock>>
  PROVE  LockInv'
<1> USE Bounds
<1> DEFINE c == [call[p] EXCEPT !.at = "granted"]
<1>1. CallInv(p) /\ call[p] \in Call /\ call[p].at = "poll" /\ call[p].fd \in 1..MaxInode
  BY DEF LockInv, LockTypeOK, At, CallInv, Descriptor
<1>2. call \in [Procs -> Call] /\ flock \in [1..MaxInode -> Procs \cup {Free}]
  BY DEF LockInv, LockTypeOK
<1>3. c \in Call /\ c.at = "granted" /\ c.start = call[p].start /\ c.fd = call[p].fd
  BY <1>1 DEF Call, Phases
<1>4. call'[p] = c /\ call' \in [Procs -> Call]
  BY <1>2, <1>3
<1> HIDE DEF c
<1>5. flock' \in [1..MaxInode -> Procs \cup {Free}]
  BY <1>1, <1>2
<1>6. LockTypeOK'
  BY <1>4, <1>5 DEF LockInv, LockTypeOK
<1>7. CallInv(p)'
  BY <1>1, <1>2, <1>3, <1>4 DEF CallInv, Started, Descriptor, HolderWasGranted, GrantIsHeld, LookedIsCurrent, Granted
<1>8. ASSUME NEW q \in Procs, q # p PROVE CallInv(q)'
  BY <1>1, <1>2, <1>8, OthersKeep
<1> QED
  BY <1>6, <1>7, <1>8 DEF LockInv

LEMMA AttemptKeeps ==
  ASSUME LockInv, NEW p \in Procs, Attempt(p)
  PROVE  LockInv'
<1> USE Bounds
<1>1. CASE Refuse(p)
  BY <1>1, RefuseKeeps
<1>2. CASE flock[call[p].fd] = Free /\ ~Refuse(p) /\ ~GivesUp(p)
  BY <1>2, GrantKeeps DEF Attempt
<1>3. CASE flock[call[p].fd] # Free /\ ~Refuse(p) /\ ~GivesUp(p)
  <2> DEFINE wake == IF clock + PollEvery < Deadline(p) THEN clock + PollEvery ELSE Deadline(p)
             c == [call[p] EXCEPT !.at = "sleep", !.wake = wake]
  <2>1. CallInv(p) /\ call[p] \in Call /\ call[p].at = "poll" /\ clock \in 0..MaxClock
    BY DEF LockInv, LockTypeOK, Attempt, At
  <2>2. wake \in 0..MaxClock
    BY <2>1 DEF Deadline, CallInv, Started, Call
  <2>3. call' = [call EXCEPT ![p] = c] /\ UNCHANGED <<entry, created, flock, moved, clock>>
    BY <1>3 DEF Attempt
  <2> HIDE DEF wake
  <2>4. c \in Call /\ c.at = "sleep" /\ c.start = call[p].start /\ c.fd = call[p].fd
    BY <2>1, <2>2 DEF Call, Phases
  <2>5. call'[p] = c
    BY <2>3 DEF LockInv, LockTypeOK
  <2> HIDE DEF c
  <2>6. CallInv(p)'
    BY <2>1, <2>3, <2>4, <2>5 DEF CallInv, Started, Descriptor, HolderWasGranted, GrantIsHeld, LookedIsCurrent, Granted
  <2> QED
    BY <2>3, <2>4, <2>6, OneCallKeeps
<1>4. GivesUp(p) => Refuse(p)
  BY DEF Attempt
<1> QED
  BY <1>1, <1>2, <1>3, <1>4

\* The phases that only wait, look or return.
LEMMA LooksKeep ==
  ASSUME LockInv, NEW p \in Procs, Confirm(p) \/ Wake(p) \/ Verify(p) \/ Return(p)
  PROVE  LockInv'
<1> USE Bounds
<1>1. CallInv(p) /\ call[p] \in Call
  BY DEF LockInv, LockTypeOK
<1>2. CASE Refuse(p)
  BY <1>2, RefuseKeeps
<1>3. CASE Confirm(p) /\ Advance(p, "poll")
  BY <1>1, <1>3, AdvanceKeeps DEF Confirm, At, Phases, Granted, CallInv, Descriptor
<1>4. CASE Wake(p) /\ Advance(p, "poll")
  BY <1>1, <1>4, AdvanceKeeps DEF Wake, At, Phases, Granted, CallInv, Descriptor
<1>5. CASE Verify(p) /\ StillTheLockFile(p) /\ Advance(p, "recheck")
  BY <1>1, <1>5, AdvanceKeeps DEF Verify, StillTheLockFile, At, Phases, Granted, CallInv, Descriptor
<1>6. CASE Return(p) /\ Advance(p, "held")
  BY <1>1, <1>6, AdvanceKeeps DEF Return, At, Phases, Granted, CallInv, Descriptor
<1> QED
  BY <1>2, <1>3, <1>4, <1>5, <1>6 DEF Confirm, Wake, Verify, Return

LEMMA CloseKeeps ==
  ASSUME LockInv, NEW p \in Procs, Close(p)
  PROVE  LockInv'
<1> USE Bounds
<1> DEFINE c == [call[p] EXCEPT !.at = "idle", !.fd = 0, !.lost = FALSE]
<1>1. call \in [Procs -> Call] /\ flock \in [1..MaxInode -> Procs \cup {Free}] /\ call[p] \in Call
  BY DEF LockInv, LockTypeOK
<1>2. call' = [call EXCEPT ![p] = c] /\ UNCHANGED <<entry, created, moved, clock>>
  BY DEF Close
<1>3. c \in Call /\ c.at = "idle"
  <2> DEFINE closed == [call[p] EXCEPT !.at = "idle", !.fd = 0]
  <2>0. "idle" \in Phases /\ 0 \in 0..MaxInode
    BY DEF Phases
  <2>1. closed \in Call /\ closed.at = "idle"
    BY <1>1, <2>0 DEF Call
  <2>2. c = [closed EXCEPT !.lost = FALSE]
    BY <1>1 DEF Call
  <2> HIDE DEF closed, c
  <2> QED
    BY <2>1, <2>2 DEF Call
<1>4. call'[p] = c /\ call' \in [Procs -> Call]
  BY <1>1, <1>2, <1>3
<1> HIDE DEF c
<1>5. flock' \in [1..MaxInode -> Procs \cup {Free}]
  BY <1>1 DEF Close, Dropped
<1>6. \A i \in 1..MaxInode : flock'[i] # p /\ \A q \in Procs \ {p} : flock'[i] = q <=> flock[i] = q
  BY <1>1 DEF Close, Dropped
<1>7. LockTypeOK'
  BY <1>2, <1>4, <1>5 DEF LockInv, LockTypeOK
<1>8. CallInv(p)'
  BY <1>3, <1>4, <1>6 DEF CallInv, Started, Descriptor, HolderWasGranted, GrantIsHeld, LookedIsCurrent, Granted
<1>9. ASSUME NEW q \in Procs, q # p PROVE CallInv(q)'
  BY <1>1, <1>2, <1>6, <1>9, OthersKeep
<1> QED
  BY <1>7, <1>8, <1>9 DEF LockInv

LEMMA CancelKeeps ==
  ASSUME LockInv, NEW p \in Procs, Cancel(p)
  PROVE  LockInv'
<1> USE Bounds
<1> DEFINE c == [call[p] EXCEPT !.cancelled = TRUE]
<1>1. CallInv(p) /\ call[p] \in Call
  BY DEF LockInv, LockTypeOK
<1>2. call' = [call EXCEPT ![p] = c] /\ UNCHANGED <<entry, created, flock, moved, clock>>
  BY DEF Cancel
<1>3. /\ c \in Call /\ c.at = call[p].at /\ c.start = call[p].start /\ c.fd = call[p].fd
      /\ c.lost = call[p].lost
  BY <1>1 DEF Call
<1>4. call'[p] = c
  BY <1>2 DEF LockInv, LockTypeOK
<1> HIDE DEF c
<1>5. CallInv(p)'
  BY <1>1, <1>2, <1>3, <1>4 DEF CallInv, Started, Descriptor, HolderWasGranted, GrantIsHeld, LookedIsCurrent, Granted
<1> QED
  BY <1>2, <1>3, <1>5, OneCallKeeps

\* A replaced name is no longer what the calls that looked saw: they are lost.
LEMMA ReplaceKeeps ==
  ASSUME LockInv, Replace
  PROVE  LockInv'
<1> USE Bounds
<1>1. entry' \in 0..created' /\ created' \in 0..MaxInode
  BY DEF Replace, LockInv, LockTypeOK
<1>2. UNCHANGED <<flock, moved, clock>>
  BY DEF Replace
<1>3. ASSUME NEW q \in Procs
      PROVE  /\ call'[q] \in Call /\ call'[q].at = call[q].at /\ call'[q].fd = call[q].fd
             /\ call'[q].start = call[q].start
             /\ call[q].at \in {"recheck", "held"} => call'[q].lost
  <2> DEFINE gone == call[q].lost \/ call[q].at \in {"recheck", "held"}
             c == [call[q] EXCEPT !.lost = gone]
  <2>1. call[q] \in Call
    BY DEF LockInv, LockTypeOK
  <2>2. gone \in BOOLEAN /\ (call[q].at \in {"recheck", "held"} => gone)
    BY <2>1 DEF Call
  <2>3. call'[q] = c
    BY DEF Replace
  <2> HIDE DEF gone
  <2>4. c \in Call /\ c.at = call[q].at /\ c.fd = call[q].fd /\ c.start = call[q].start /\ c.lost = gone
    BY <2>1, <2>2 DEF Call
  <2> QED
    BY <2>2, <2>3, <2>4
<1>4. call' \in [Procs -> Call]
  BY <1>3 DEF Replace
<1>5. LockTypeOK'
  BY <1>1, <1>2, <1>4 DEF LockInv, LockTypeOK
<1>6. ASSUME NEW q \in Procs PROVE CallInv(q)'
  BY <1>2, <1>3 DEF LockInv, CallInv, Started, Descriptor, HolderWasGranted, GrantIsHeld, LookedIsCurrent, Granted
<1> QED
  BY <1>5, <1>6 DEF LockInv

\* Time, the directory and stuttering change nothing that the invariant names.
LEMMA QuietKeeps ==
  ASSUME LockInv, MoveDirectory \/ Tick \/ UNCHANGED lockVars
  PROVE  LockInv'
<1> USE Bounds
<1>1. UNCHANGED <<entry, created, flock, call>>
  BY DEF MoveDirectory, Tick, lockVars
<1>2. clock' \in 0..MaxClock
  BY DEF MoveDirectory, Tick, lockVars, LockInv, LockTypeOK
<1>3. moved' \in BOOLEAN
  BY DEF MoveDirectory, Tick, lockVars, LockInv, LockTypeOK
<1>4. LockTypeOK'
  BY <1>1, <1>2, <1>3 DEF LockInv, LockTypeOK
<1>5. ASSUME NEW q \in Procs PROVE CallInv(q)'
  BY <1>1, OthersKeep
<1> QED
  BY <1>4, <1>5 DEF LockInv

LEMMA LockStep ==
  ASSUME LockInv, [LockNext]_lockVars
  PROVE  LockInv'
<1>1. ASSUME NEW p \in Procs, Acquire(p) \/ Proceed(p) \/ AttemptFails(p) \/ Close(p) \/ Die(p) \/ Cancel(p)
      PROVE  LockInv'
  <2>1. Acquire(p) => LockInv'
    BY AcquireKeeps
  <2>2. Proceed(p) => LockInv'
    BY StatKeeps, OpenKeeps, AttemptKeeps, LooksKeep DEF Proceed
  <2>3. AttemptFails(p) \/ Die(p) => LockInv'
    BY RefuseKeeps DEF AttemptFails, Die
  <2>4. Close(p) \/ Cancel(p) => LockInv'
    BY CloseKeeps, CancelKeeps
  <2> QED
    BY <1>1, <2>1, <2>2, <2>3, <2>4
<1> QED
  BY <1>1, ReplaceKeeps, QuietKeeps DEF LockNext

-----------------------------------------------------------------------------
LEMMA LockInvariant == LockSpec => []LockInv
<1>1. LockInit => LockInv
  BY InitLock
<1>2. LockInv /\ [LockNext]_lockVars => LockInv'
  BY LockStep
<1> QED
  BY <1>1, <1>2, PTL DEF LockSpec

\* Whatever processes, replaced files and deaths there are, two callers hold the
\* lock at once only if the name changed after the last look of one of them
\* (AcquireLock's Lstat after the grant): both have what the name leads to, and
\* one file has one holder.
THEOREM MutualExclusion == LockSpec => []OneHolder
<1>1. LockInv => OneHolder
  <2> SUFFICES ASSUME LockInv, NEW p \in Procs, NEW q \in Procs, p # q, At(p, "held"), At(q, "held"),
                      ~call[p].lost, ~call[q].lost
               PROVE  FALSE
    BY DEF OneHolder
  <2>1. entry = call[p].fd /\ entry = call[q].fd
    BY DEF LockInv, CallInv, LookedIsCurrent, At
  <2>2. flock[call[p].fd] = p /\ flock[call[q].fd] = q
    BY DEF LockInv, CallInv, GrantIsHeld, Granted, At
  <2> QED
    BY <2>1, <2>2
<1> QED
  BY <1>1, LockInvariant, PTL

\* No path of AcquireLock that returns an error, no Close and no death leaves a
\* lock behind that another process could wait for.
THEOREM NothingLeftHeld == LockSpec => []FailureHoldsNothing
<1>1. LockInv => FailureHoldsNothing
  BY DEF LockInv, LockTypeOK, FailureHoldsNothing, CallInv, HolderWasGranted, Granted
<1> QED
  BY <1>1, LockInvariant, PTL

\* Whatever file a descriptor is on, it is one that was made: the name, the locks
\* and the calls of AcquireLock stay within the inodes and the clock there are.
THEOREM LockTypeCorrect == LockSpec => []LockTypeOK
<1>1. LockInv => LockTypeOK
  BY DEF LockInv
<1> QED
  BY <1>1, LockInvariant, PTL
=============================================================================
