------------------------------- MODULE RepoLock -------------------------------
(***************************************************************************)
(* authority.AcquireLock and Lock.Close: several processes, one name in    *)
(* the git common directory, and whoever else may unlink or replace it.    *)
(* A flock belongs to the inode the descriptor was opened on, not to the   *)
(* name, so the name is looked up again after the grant.  An inode is a    *)
(* number; 0 is an absent name or a closed descriptor.                     *)
(***************************************************************************)
EXTENDS Naturals, FiniteSets

CONSTANTS
  Procs,
  MaxInode,   \* bound: lock files created in one behaviour
  Wait,       \* EffectiveWait(opts.Wait), in ticks
  PollEvery,  \* opts.Poll, in ticks
  MaxClock,   \* bound: ticks of one behaviour
  Free        \* no process

ASSUME LockAssumption == {MaxInode, Wait, PollEvery, MaxClock} \subseteq Nat \ {0} /\ Free \notin Procs

VARIABLES
  entry,      \* the inode taskman.lock names
  created,    \* inodes made so far
  flock,      \* the process whose descriptor holds an inode's lock, if any
  moved,      \* the common directory is no longer the one that was resolved
  clock,
  call        \* each process's AcquireLock

lockVars == <<entry, created, flock, moved, clock, call>>

Phases == {"idle", "stat", "open", "confirm", "poll", "sleep", "granted", "recheck", "held", "refused"}
Call == [at : Phases, seen : 0..MaxInode, fd : 0..MaxInode, start : 0..MaxClock, wake : 0..MaxClock,
         cancelled : BOOLEAN, lost : BOOLEAN]

LockInit ==
  /\ entry = 0 /\ created = 0 /\ flock = [i \in 1..MaxInode |-> Free] /\ moved = FALSE /\ clock = 0
  /\ call = [p \in Procs |-> [at |-> "idle", seen |-> 0, fd |-> 0, start |-> 0, wake |-> 0,
                              cancelled |-> FALSE, lost |-> FALSE]]

At(p, phase) == call[p].at = phase
Deadline(p) == call[p].start + Wait
Expired(p) == clock >= Deadline(p)

\* f.Close, alone or behind flockRelease: the descriptor goes and its lock with it.
Dropped(p) == [i \in DOMAIN flock |-> IF flock[i] = p THEN Free ELSE flock[i]]

\* ctx.Err and the deadline, asked before every attempt and twice after the grant.
GivesUpLate(p) == call[p].cancelled
GivesUp(p) == call[p].cancelled \/ Expired(p)

Refuse(p) ==
  /\ call' = [call EXCEPT ![p].at = "refused", ![p].fd = 0]
  /\ flock' = Dropped(p)
  /\ UNCHANGED <<entry, created, moved, clock>>

Advance(p, phase) ==
  /\ call' = [call EXCEPT ![p].at = phase]
  /\ UNCHANGED <<entry, created, flock, moved, clock>>

\* ctx, the re-resolved repository and the opened common directory.
Acquire(p) ==
  /\ At(p, "idle") /\ clock + Wait <= MaxClock
  /\ call' = [call EXCEPT ![p].at = IF moved \/ call[p].cancelled THEN "refused" ELSE "stat", ![p].start = clock]
  /\ UNCHANGED <<entry, created, flock, moved, clock>>

Stat(p) ==
  /\ At(p, "stat")
  /\ call' = [call EXCEPT ![p].at = "open", ![p].seen = entry]
  /\ UNCHANGED <<entry, created, flock, moved, clock>>

\* O_RDWR|O_CREATE opens what is there now, or makes it; a file that was there
\* at the stat must be the one that opened.
Open(p) ==
  /\ At(p, "open")
  /\ entry = 0 => created < MaxInode
  /\ created' = IF entry = 0 THEN created + 1 ELSE created
  /\ entry' = IF entry = 0 THEN created' ELSE entry
  /\ call' = [call EXCEPT ![p].at = IF call[p].seen \in {0, entry'} THEN "confirm" ELSE "refused",
                          ![p].fd = IF call[p].seen \in {0, entry'} THEN entry' ELSE 0]
  /\ UNCHANGED <<flock, moved, clock>>

Confirm(p) ==
  /\ At(p, "confirm")
  /\ IF entry = call[p].fd THEN Advance(p, "poll") ELSE Refuse(p)

\* One turn of the loop.  EINTR turns again at once and changes nothing.
Attempt(p) ==
  /\ At(p, "poll")
  /\ IF GivesUp(p) THEN Refuse(p)
     ELSE IF flock[call[p].fd] = Free
     THEN /\ flock' = [flock EXCEPT ![call[p].fd] = p]
          /\ call' = [call EXCEPT ![p].at = "granted"]
          /\ UNCHANGED <<entry, created, moved, clock>>
     ELSE /\ call' = [call EXCEPT ![p].at = "sleep",
                                  ![p].wake = IF clock + PollEvery < Deadline(p) THEN clock + PollEvery ELSE Deadline(p)]
          /\ UNCHANGED <<entry, created, flock, moved, clock>>

\* ENOLCK and its kind: the filesystem cannot lock.
AttemptFails(p) == At(p, "poll") /\ ~GivesUp(p) /\ Refuse(p)

Wake(p) ==
  /\ At(p, "sleep") /\ (call[p].cancelled \/ clock >= call[p].wake)
  /\ IF call[p].cancelled THEN Refuse(p) ELSE Advance(p, "poll")

\* The lock is on the descriptor: is its file still the one the name leads to?
StillALockFile(p) == entry # 0
StillTheLockFile(p) == entry = call[p].fd

Verify(p) ==
  /\ At(p, "granted")
  /\ IF GivesUp(p) \/ ~StillTheLockFile(p) THEN Refuse(p) ELSE Advance(p, "recheck")

Return(p) ==
  /\ At(p, "recheck")
  /\ IF moved \/ GivesUp(p) THEN Refuse(p) ELSE Advance(p, "held")

Close(p) ==
  /\ At(p, "held")
  /\ call' = [call EXCEPT ![p] = [@ EXCEPT !.at = "idle", !.fd = 0, !.lost = FALSE]]
  /\ flock' = Dropped(p)
  /\ UNCHANGED <<entry, created, moved, clock>>

\* The process dies at any instruction; the kernel closes what it had open.
Die(p) == call[p].at \notin {"idle", "refused"} /\ Refuse(p)

Cancel(p) ==
  /\ ~call[p].cancelled /\ call[p].at \notin {"held", "refused"}
  /\ call' = [call EXCEPT ![p].cancelled = TRUE]
  /\ UNCHANGED <<entry, created, flock, moved, clock>>

\* Someone unlinks the name, or renames another file over it.  `lost` remembers
\* the calls that had already looked for the last time.
Replace ==
  /\ \E inode \in {0, created + 1} :
       /\ inode # entry /\ created < MaxInode
       /\ entry' = inode /\ created' = IF inode = 0 THEN created ELSE inode
  /\ call' = [p \in Procs |-> [call[p] EXCEPT !.lost = @ \/ call[p].at \in {"recheck", "held"}]]
  /\ UNCHANGED <<flock, moved, clock>>

MoveDirectory == ~moved /\ moved' = TRUE /\ UNCHANGED <<entry, created, flock, clock, call>>

Tick == clock < MaxClock /\ clock' = clock + 1 /\ UNCHANGED <<entry, created, flock, moved, call>>

Proceed(p) ==
  Stat(p) \/ Open(p) \/ Confirm(p) \/ Attempt(p) \/ Wake(p) \/ Verify(p) \/ Return(p)

LockNext ==
  \/ \E p \in Procs : Acquire(p) \/ Proceed(p) \/ AttemptFails(p) \/ Close(p) \/ Die(p) \/ Cancel(p)
  \/ Replace \/ MoveDirectory \/ Tick

\* A runnable process runs and time passes; nobody has to close, cancel or die.
LockFairness == (\A p \in Procs : WF_lockVars(Proceed(p))) /\ WF_lockVars(Tick)

LockSpec == LockInit /\ [][LockNext]_lockVars /\ LockFairness

-----------------------------------------------------------------------------
(* Properties. *)

LockTypeOK ==
  /\ entry \in 0..created /\ created \in 0..MaxInode /\ clock \in 0..MaxClock /\ moved \in BOOLEAN
  /\ flock \in [1..MaxInode -> Procs \cup {Free}] /\ call \in [Procs -> Call]

\* Two processes have a lock at once only when the file was unlinked or replaced
\* after one of them had looked for the last time: waiting on a file that is
\* replaced meanwhile never ends in a second holder (the Lstat after the grant).
OneHolder ==
  \A p, q \in Procs : p # q /\ At(p, "held") /\ At(q, "held") => call[p].lost \/ call[q].lost

\* A failed call, a closed lock and a dead process hold nothing another process
\* could wait for (f.Close on every path that does not return the lock).
FailureHoldsNothing ==
  \A p \in Procs : call[p].at \in {"idle", "refused"} => \A i \in DOMAIN flock : flock[i] # p

\* Every call returns, held or refused, whoever keeps the lock and for however
\* long: the deadline is asked on every path round the loop.
AcquireReturns == \A p \in Procs : At(p, "stat") ~> call[p].at \in {"held", "refused"}
=============================================================================
