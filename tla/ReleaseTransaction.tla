------------------------- MODULE ReleaseTransaction -------------------------
(***************************************************************************)
(* The journalled replacement of cli/lib/release/engine.py: the flock on   *)
(* ~/.slv/.release.lock, class Transaction (replace, commit), recover()    *)
(* and the exception path of _install_release / _sync_skills.              *)
(*                                                                         *)
(* Every durable mutation of the code (a journal save, a rename, a copy,   *)
(* one part of a tree removal) is a step of its own, and a process can die *)
(* between any two of them.  Each mutation is fsynced before the next, so  *)
(* a power loss is a death before or after the last one.                   *)
(*                                                                         *)
(* A destination, or its backup, holds a version, nothing (None), or what  *)
(* an unfinished remove() of a directory leaves (Torn).                    *)
(***************************************************************************)
EXTENDS Naturals, Sequences, Functions

CONSTANTS
  Proc,        \* release commands that may run at the same time
  Dest,        \* paths a release replaces
  External,    \* those outside ~/.slv: the binary targets
  Privileged,  \* external targets this user cannot write (writable_target)
  Version,     \* contents a release can bring
  None, Torn,
  Jobs         \* [plan : Seq(Dest), version : Version, binary : External or None]

ASSUME ConstantsOK ==
  /\ Privileged \subseteq External
  /\ External \subseteq Dest
  /\ None \notin Version /\ Torn \notin Version /\ None # Torn
  /\ None \notin Proc /\ None \notin Dest /\ None \notin Jobs

\* A command replaces each of its destinations once, and a binary only if it
\* is the one it was authorised for.
ASSUME JobsOK ==
  \A j \in Jobs :
    /\ j.plan \in Seq(Dest) /\ j.plan # << >>
    /\ \A a, b \in 1..Len(j.plan) : j.plan[a] = j.plan[b] => a = b
    /\ j.version \in Version
    /\ j.binary \in External \cup {None}
    /\ \A a \in 1..Len(j.plan) : j.plan[a] \in External => j.plan[a] = j.binary

VARIABLES
  dest,     \* what is at each destination path
  bak,      \* what is at the backup path of its journalled operation
  backups,  \* does <work>/backups, where privileged backups live, exist
  jstatus,  \* journal: "none" (no file), "applying" or "committed"
  jlist,    \* journal: the destinations of its operations, in order
  jop,      \* journal: the operation recorded for a destination
  holder,   \* process that has the flock
  pc, mode, job, k   \* what a process does: see Steps and Modes

files   == <<dest, bak, backups>>
journal == <<jstatus, jlist, jop>>
local   == <<holder, pc, mode, job, k>>
vars    == <<files, journal, local>>

Content  == Version \cup {None, Torn}
OpStates == {"none", "prepared", "backing_up", "backed_up", "installing", "installed"}
Op       == [had : BOOLEAN, ready : BOOLEAN, state : OpStates]
NoOp     == [had |-> FALSE, ready |-> FALSE, state |-> "none"]

\* Steps inside the try block: a failure there is caught and recovered from.
Replacing == {"prepare", "backing_up", "backup", "backed_up", "installing",
              "install", "installed", "commit"}
Closing   == {"drop", "close"}
Recovering == {"load", "undo", "clean", "rm_work", "unlink"}
Steps     == {"idle", "begin", "finally", "release"} \cup Replacing \cup Closing \cup Recovering

\* Why recover() runs: recover_before_release_network, make_work, the except clause.
Modes == {"before_network", "make_work", "unwind"}

TypeOK ==
  /\ dest \in [Dest -> Content]
  /\ bak \in [Dest -> Content]
  /\ backups \in BOOLEAN
  /\ jstatus \in {"none", "applying", "committed"}
  /\ jlist \in Seq(Dest)
  /\ jop \in [Dest -> Op]
  /\ holder \in Proc \cup {None}
  /\ pc \in [Proc -> Steps]
  /\ mode \in [Proc -> Modes]
  /\ job \in [Proc -> Jobs \cup {None}]
  /\ k \in [Proc -> Nat]

Init ==
  /\ dest \in [Dest -> Version \cup {None}]
  /\ bak = [d \in Dest |-> None]
  /\ backups = FALSE
  /\ jstatus = "none" /\ jlist = << >> /\ jop = [d \in Dest |-> NoOp]
  /\ holder = None
  /\ pc = [p \in Proc |-> "idle"]
  /\ mode = [p \in Proc |-> "unwind"]
  /\ job = [p \in Proc |-> None]
  /\ k = [p \in Proc |-> 0]

-----------------------------------------------------------------------------
(* The lock and the control of one process.                                *)

Goto(p, step) == pc' = [pc EXCEPT ![p] = step]
Index(p, n)   == k' = [k EXCEPT ![p] = n]

\* The operation the process is at, going forward through its plan or through the journal.
Current(p) == job[p].plan[k[p]]
Logged(p)  == jlist[k[p]]

\* Mutant: the flock is never taken.
LockFreeAlways == TRUE

\* flock(LOCK_EX | LOCK_NB): only a free lock can be taken.
LockFree == holder = None

Acquire(p, m, j) ==
  /\ pc[p] = "idle" /\ LockFree
  /\ m \in {"before_network", "make_work"}
  /\ holder' = p
  /\ Goto(p, "load")
  /\ mode' = [mode EXCEPT ![p] = m]
  /\ job' = [job EXCEPT ![p] = j]
  /\ UNCHANGED <<files, journal, k>>

\* The command ends; what it kept in memory is gone, the journal is not.
Leave(p) ==
  /\ holder' = None
  /\ Goto(p, "idle")
  /\ mode' = [mode EXCEPT ![p] = "unwind"]
  /\ job' = [job EXCEPT ![p] = None]
  /\ Index(p, 0)

Release(p) ==
  /\ pc[p] = "release"
  /\ Leave(p)
  /\ UNCHANGED <<files, journal>>

-----------------------------------------------------------------------------
(* recover(): undo an applying journal, finish a committed one.             *)

\* Mutant: recovery trusts the target the journal names.
AuthorizedByJournal(p) == TRUE

\* An operation on an external binary needs this command's exact target.
Authorized(p) ==
  \A i \in 1..Len(jlist) : jlist[i] \in External => jlist[i] = job[p].binary

AfterRecover(p) ==
  Goto(p, CASE mode[p] = "before_network" -> "release"
            [] mode[p] = "make_work"      -> "begin"
            [] mode[p] = "unwind"         -> "finally")

LoadNothing(p) ==
  /\ pc[p] = "load" /\ jstatus = "none"
  /\ AfterRecover(p)
  /\ UNCHANGED <<files, journal, holder, mode, job, k>>

LoadApplying(p) ==
  /\ pc[p] = "load" /\ jstatus = "applying" /\ Authorized(p)
  /\ Goto(p, "undo") /\ Index(p, Len(jlist))
  /\ UNCHANGED <<files, journal, holder, mode, job>>

\* Mutant: a committed journal is undone like an applying one.
LoadCommittedUndo(p) ==
  /\ pc[p] = "load" /\ jstatus = "committed" /\ Authorized(p)
  /\ Goto(p, "undo") /\ Index(p, Len(jlist))
  /\ UNCHANGED <<files, journal, holder, mode, job>>

LoadCommitted(p) ==
  /\ pc[p] = "load" /\ jstatus = "committed" /\ Authorized(p)
  /\ Goto(p, "clean") /\ Index(p, 1)
  /\ UNCHANGED <<files, journal, holder, mode, job>>

\* die(): the journal stays for a command with the right --install-path.
LoadRefused(p) ==
  /\ pc[p] = "load" /\ jstatus # "none" /\ ~Authorized(p)
  /\ Leave(p)
  /\ UNCHANGED <<files, journal>>

\* A privileged copy counts only once the journal says it is complete.
Usable(d) == bak[d] # None /\ (d \in Privileged => jop[d].ready)

\* Mutant: the install is undone only once its journal save is done.
CreatedLate(d) == bak[d] = None /\ ~jop[d].had /\ jop[d].state = "installed"

\* The operation created the destination: undoing it means deleting it.
Created(d) == bak[d] = None /\ ~jop[d].had /\ jop[d].state \in {"installing", "installed"}

Undoing(p) == pc[p] = "undo" /\ k[p] > 0

UndoDiscardCopy(p) ==
  LET d == Logged(p) IN
  /\ Undoing(p) /\ bak[d] # None /\ ~Usable(d)
  /\ bak' = [bak EXCEPT ![d] = None]
  /\ Index(p, k[p] - 1)
  /\ UNCHANGED <<dest, backups, journal, holder, pc, mode, job>>

\* restore_privileged: an atomic swap that leaves the backup where it is.
UndoRestoreCopy(p) ==
  LET d == Logged(p) IN
  /\ Undoing(p) /\ d \in Privileged /\ Usable(d)
  /\ dest' = [dest EXCEPT ![d] = bak[d]]
  /\ Index(p, k[p] - 1)
  /\ UNCHANGED <<bak, backups, journal, holder, pc, mode, job>>

\* remove(destination), of a backed-up or of a newly created destination; a
\* directory goes entry by entry.
UndoRemove(p) ==
  LET d == Logged(p) IN
  /\ Undoing(p) /\ dest[d] # None
  /\ Created(d) \/ (d \notin Privileged /\ Usable(d))
  /\ \E left \in IF d \in External THEN {None} ELSE {None, Torn} :
       dest' = [dest EXCEPT ![d] = left]
  /\ UNCHANGED <<bak, backups, journal, local>>

UndoRename(p) ==
  LET d == Logged(p) IN
  /\ Undoing(p) /\ d \notin Privileged /\ Usable(d) /\ dest[d] = None
  /\ dest' = [dest EXCEPT ![d] = bak[d]]
  /\ bak' = [bak EXCEPT ![d] = None]
  /\ Index(p, k[p] - 1)
  /\ UNCHANGED <<backups, journal, holder, pc, mode, job>>

\* Mutant: a path that was empty is never skipped.
UndoSkipExisting(p) ==
  LET d == Logged(p) IN
  /\ Undoing(p) /\ bak[d] = None /\ jop[d].had
  /\ Index(p, k[p] - 1)
  /\ UNCHANGED <<files, journal, holder, pc, mode, job>>

\* Nothing was done yet, or everything is undone already.
UndoSkip(p) ==
  LET d == Logged(p) IN
  /\ Undoing(p) /\ bak[d] = None /\ (Created(d) => dest[d] = None)
  /\ Index(p, k[p] - 1)
  /\ UNCHANGED <<files, journal, holder, pc, mode, job>>

UndoDone(p) ==
  /\ pc[p] = "undo" /\ k[p] = 0
  /\ Goto(p, "rm_work")
  /\ UNCHANGED <<files, journal, holder, mode, job, k>>

Undo(p) ==
  \/ UndoDiscardCopy(p) \/ UndoRestoreCopy(p) \/ UndoRemove(p)
  \/ UndoRename(p) \/ UndoSkip(p) \/ UndoDone(p)

\* remove(backup), the loop body shared by commit() and by the recovery of a
\* committed journal.
Dropping(p) == pc[p] \in {"drop", "clean"} /\ k[p] <= Len(jlist)

DropBackup(p) ==
  LET d == Logged(p) IN
  /\ Dropping(p) /\ bak[d] # None
  /\ \E left \in IF d \in External THEN {None} ELSE {None, Torn} :
       bak' = [bak EXCEPT ![d] = left]
  /\ UNCHANGED <<dest, backups, journal, local>>

\* fsync_dir_required(backup.parent) needs the parent to exist.
ParentExists(d) == d \in Privileged => backups

DropSynced(p) ==
  /\ Dropping(p) /\ bak[Logged(p)] = None /\ ParentExists(Logged(p))
  /\ Index(p, k[p] + 1)
  /\ UNCHANGED <<files, journal, holder, pc, mode, job>>

\* The fsync dies and so does the command.  Only recover() meets it: commit()
\* still has its own work directory (CommitNotRefused below).
DropRefused(p) ==
  /\ Dropping(p) /\ bak[Logged(p)] = None /\ ~ParentExists(Logged(p))
  /\ pc[p] = "clean"
  /\ Leave(p)
  /\ UNCHANGED <<files, journal>>

DropDone(p) ==
  /\ pc[p] \in {"drop", "clean"} /\ k[p] > Len(jlist)
  /\ Goto(p, IF pc[p] = "drop" THEN "close" ELSE "rm_work")
  /\ UNCHANGED <<files, journal, holder, mode, job, k>>

Drop(p) == DropBackup(p) \/ DropSynced(p) \/ DropRefused(p) \/ DropDone(p)

\* remove(work): first what is in work/backups, then the directories.
RemoveWork(p) ==
  /\ pc[p] = "rm_work"
  /\ \/ \E d \in Privileged :
          /\ bak[d] # None
          /\ bak' = [bak EXCEPT ![d] = None]
          /\ UNCHANGED <<backups, pc>>
     \/ /\ \A d \in Privileged : bak[d] = None
        /\ backups' = FALSE
        /\ Goto(p, "unlink")
        /\ UNCHANGED bak
  /\ UNCHANGED <<dest, journal, holder, mode, job, k>>

NoJournal == jstatus' = "none" /\ jlist' = << >> /\ jop' = [d \in Dest |-> NoOp]

Unlink(p) ==
  /\ pc[p] = "unlink"
  /\ NoJournal
  /\ AfterRecover(p)
  /\ UNCHANGED <<files, holder, mode, job, k>>

-----------------------------------------------------------------------------
(* class Transaction: __init__, replace() once per destination, commit().   *)

\* make_work made a fresh work directory, the journal opens with no operation.
Begin(p) ==
  /\ pc[p] = "begin"
  /\ jstatus' = "applying" /\ jlist' = << >> /\ jop' = [d \in Dest |-> NoOp]
  /\ backups' = FALSE
  /\ Goto(p, "prepare") /\ Index(p, 1)
  /\ UNCHANGED <<dest, bak, holder, mode, job>>

\* Mutant: the directory for a privileged backup is not made.
PrepareNoDirectory(p) ==
  LET d == Current(p) IN
  /\ pc[p] = "prepare"
  /\ jlist' = Append(jlist, d)
  /\ jop' = [jop EXCEPT ![d] = [had |-> dest[d] # None, ready |-> FALSE, state |-> "prepared"]]
  /\ Goto(p, IF dest[d] # None THEN "backing_up" ELSE "installing")
  /\ UNCHANGED <<files, jstatus, holder, mode, job, k>>

Prepare(p) ==
  LET d == Current(p) IN
  /\ pc[p] = "prepare"
  /\ jlist' = Append(jlist, d)
  /\ jop' = [jop EXCEPT ![d] = [had |-> dest[d] # None, ready |-> FALSE, state |-> "prepared"]]
  /\ backups' = (backups \/ d \in Privileged)
  /\ Goto(p, IF dest[d] # None THEN "backing_up" ELSE "installing")
  /\ UNCHANGED <<dest, bak, jstatus, holder, mode, job, k>>

\* A journal save that moves the current operation from one state to the next.
Mark(p, from, to, next) ==
  /\ pc[p] = from
  /\ jop' = [jop EXCEPT ![Current(p)].state = to]
  /\ Goto(p, next)
  /\ UNCHANGED <<files, jstatus, jlist, holder, mode, job>>

\* Mutant: the journal names a state recover() does not know.
MarkBackingUpMisspelt(p) == Mark(p, "backing_up", "backup", "backup") /\ UNCHANGED k

\* Mutant: the journal does not say that the backup starts.
MarkBackingUpSilent(p) == Mark(p, "backing_up", "prepared", "backup") /\ UNCHANGED k

MarkBackingUp(p) == Mark(p, "backing_up", "backing_up", "backup") /\ UNCHANGED k

\* A privileged target is copied to work/backups, any other renamed beside itself.
Backup(p) ==
  LET d == Current(p) IN
  /\ pc[p] = "backup"
  /\ bak' = [bak EXCEPT ![d] = dest[d]]
  /\ dest' = IF d \in Privileged THEN dest ELSE [dest EXCEPT ![d] = None]
  /\ Goto(p, "backed_up")
  /\ UNCHANGED <<backups, journal, holder, mode, job, k>>

MarkBackedUp(p) ==
  /\ pc[p] = "backed_up"
  /\ jop' = [jop EXCEPT ![Current(p)].state = "backed_up", ![Current(p)].ready = TRUE]
  /\ Goto(p, "installing")
  /\ UNCHANGED <<files, jstatus, jlist, holder, mode, job, k>>

MarkInstalling(p) == Mark(p, "installing", "installing", "install") /\ UNCHANGED k

\* rename, copy-then-rename across devices, or the sudo swap: atomic at the path.
Install(p) ==
  /\ pc[p] = "install"
  /\ dest' = [dest EXCEPT ![Current(p)] = job[p].version]
  /\ Goto(p, "installed")
  /\ UNCHANGED <<bak, backups, journal, holder, mode, job, k>>

MarkInstalled(p) ==
  LET last == k[p] = Len(job[p].plan) IN
  /\ Mark(p, "installed", "installed", IF last THEN "commit" ELSE "prepare")
  /\ Index(p, IF last THEN k[p] ELSE k[p] + 1)

\* Mutant: the backups are not dropped.
CommitKeepingBackups(p) ==
  /\ pc[p] = "commit"
  /\ jstatus' = "committed"
  /\ Goto(p, "close") /\ Index(p, 1)
  /\ UNCHANGED <<files, jlist, jop, holder, mode, job>>

\* Mutant: the backups are dropped before the commit is on disk.
CommitUnsaved(p) ==
  /\ pc[p] = "commit"
  /\ Goto(p, "drop") /\ Index(p, 1)
  /\ UNCHANGED <<files, journal, holder, mode, job>>

Commit(p) ==
  /\ pc[p] = "commit"
  /\ jstatus' = "committed"
  /\ Goto(p, "drop") /\ Index(p, 1)
  /\ UNCHANGED <<files, jlist, jop, holder, mode, job>>

Close(p) ==
  /\ pc[p] = "close"
  /\ NoJournal
  /\ Goto(p, "finally")
  /\ UNCHANGED <<files, holder, mode, job, k>>

\* except Exception: recover(root, target); raise.
Unwind(p) ==
  /\ pc[p] \in Replacing \cup Closing
  /\ Goto(p, "load")
  /\ mode' = [mode EXCEPT ![p] = "unwind"]
  /\ UNCHANGED <<files, journal, holder, job, k>>

\* finally: remove(work), unless a journal still needs it.
Finally(p) ==
  /\ pc[p] = "finally"
  /\ backups' = (backups /\ jstatus # "none")
  /\ Goto(p, "release")
  /\ UNCHANGED <<dest, bak, journal, holder, mode, job, k>>

-----------------------------------------------------------------------------
\* A kill, a power loss, Ctrl-C, or an error raised inside recover(): the process
\* ends where it is and the kernel drops its flock.
Crash(p) ==
  /\ pc[p] # "idle"
  /\ Leave(p)
  /\ UNCHANGED <<files, journal>>

Recover(p) ==
  \/ LoadNothing(p) \/ LoadApplying(p) \/ LoadCommitted(p) \/ LoadRefused(p)
  \/ Undo(p) \/ Drop(p) \/ RemoveWork(p) \/ Unlink(p)

Transact(p) ==
  \/ Begin(p) \/ Prepare(p) \/ MarkBackingUp(p) \/ Backup(p) \/ MarkBackedUp(p)
  \/ MarkInstalling(p) \/ Install(p) \/ MarkInstalled(p) \/ Commit(p) \/ Close(p)
  \/ Finally(p) \/ Release(p)

Next ==
  \E p \in Proc :
    \/ \E m \in Modes, j \in Jobs : Acquire(p, m, j)
    \/ Recover(p) \/ Transact(p) \/ Unwind(p) \/ Crash(p)

Spec == Init /\ [][Next]_vars

\* A running command keeps running, and its operator retries until it gets in.
Fairness ==
  /\ \A p \in Proc : WF_vars(Recover(p)) /\ WF_vars(Transact(p))
  /\ \A p \in Proc, j \in Jobs : SF_vars(Acquire(p, "before_network", j))

FairSpec == Spec /\ Fairness
-----------------------------------------------------------------------------
(* Properties.                                                              *)

\* What recovery would leave at a destination if it ran to its end now: a
\* committed journal keeps it, an applying one puts the original back.
Settled(d) ==
  IF jstatus # "applying" \/ jop[d].state = "none" THEN dest[d]
  ELSE IF Usable(d) THEN bak[d]
  ELSE IF Created(d) THEN None
  ELSE dest[d]

Abstract == INSTANCE AtomicReplacement WITH content <- [d \in Dest |-> Settled(d)]

\* However commands, failures, deaths and recoveries interleave, what is installed
\* changes only by a whole command taking effect: the journal save of `committed`.
AtomicallyReplaced == Abstract!ASpec

\* Two commands are never inside the locked region at once, so no command meets
\* a journal another one is writing (acquire_lock / release_lock).
Serialized ==
  \A p, q \in Proc : pc[p] # "idle" /\ pc[q] # "idle" => p = q

\* Once no journal is left nothing is half done: no backup waits to be put back
\* and no destination is the remains of an interrupted directory removal.
NothingHalfDone ==
  jstatus = "none" => \A d \in Dest : dest[d] # Torn /\ bak[d] = None

\* A partly removed backup can only belong to a committed journal, so recovery
\* never puts one back; and the original of an operation it would undo still
\* exists whole, at its path or at its backup's.
OriginalSurvives ==
  jstatus = "applying" =>
    \A d \in Dest :
      /\ bak[d] # Torn
      /\ jop[d].had => Settled(d) \in Version

\* A commit() is never refused by the fsync that can refuse recover(): the directory
\* of its privileged backups is there until the last of them has been dropped.
CommitNotRefused ==
  \A p \in Proc : pc[p] = "drop" /\ k[p] <= Len(jlist) => ParentExists(Logged(p))

\* recover() never touches the destinations of a committed journal.
CommittedIsKept == [][jstatus = "committed" => dest' = dest]_vars

\* An external binary is changed only by a command authorised for that exact
\* path, whoever started the transaction (recover's authorized_binary).
OnlyAuthorizedBinary ==
  [][\A d \in External :
       dest'[d] # dest[d] => \E p \in Proc : holder = p /\ job[p].binary = d]_vars

\* A death that is not the end of a command on its own account.
Dies(p) == Crash(p) /\ ~Recover(p) /\ ~Transact(p)

\* An interrupted transaction is always resolved, if processes do not die for
\* ever and the command is retried (docs/secure-delivery.md:80-82).
JournalResolved ==
  <>[][\A p \in Proc : ~Dies(p)]_vars => (jstatus # "none" ~> jstatus = "none")

-----------------------------------------------------------------------------
(* The inductive invariant: what is true between any two steps.             *)

InJournal(d) == \E i \in 1..Len(jlist) : jlist[i] = d

\* A command at work holds the flock.
LockInv == \A p \in Proc : pc[p] # "idle" => holder = p /\ job[p] \in Jobs

StatusInv == \A p \in Proc :
  /\ pc[p] = "begin" => jstatus = "none"
  /\ pc[p] \in Replacing \cup {"undo"} => jstatus = "applying"
  /\ pc[p] \in Closing \cup {"clean"} => jstatus = "committed"

IndexInv == \A p \in Proc :
  /\ pc[p] \in Replacing => k[p] \in 1..Len(job[p].plan)
  /\ pc[p] = "undo" => k[p] \in 0..Len(jlist)
  /\ pc[p] \in {"drop", "clean"} => k[p] \in 1..(Len(jlist) + 1)

JournalInv ==
  /\ jstatus = "none" => jlist = << >>
  /\ \A d \in Dest : jop[d].state # "none" <=> InJournal(d)

\* Whatever the journal says, the original of an operation it would undo exists whole.
DestInv == \A d \in Dest :
  /\ jop[d].state = "none" => bak[d] = None /\ dest[d] # Torn
  /\ jstatus = "committed" => dest[d] # Torn
  /\ jstatus = "applying" =>
       /\ bak[d] # Torn
       /\ Settled(d) # Torn
       /\ jop[d].had => Settled(d) # None
       /\ bak[d] # None => jop[d].had

\* How far the plan has come: installed before k, untouched from k on.
PlanInv == \A p \in Proc : pc[p] \in Replacing =>
  /\ \A i \in 1..Len(job[p].plan) : i < k[p] \/ pc[p] = "commit" =>
       jop[job[p].plan[i]].state = "installed" /\ dest[job[p].plan[i]] = job[p].version
  /\ \A i \in 1..Len(job[p].plan) : i > k[p] \/ (i = k[p] /\ pc[p] = "prepare") =>
       jop[job[p].plan[i]].state = "none"
  /\ \A d \in Dest : jop[d].state # "none" => \E i \in 1..k[p] : job[p].plan[i] = d

\* The operation in progress, by the step its command is at.
CurrentInv == \A p \in Proc :
  /\ pc[p] \in {"backing_up", "backup"} =>
       /\ jop[Current(p)].had /\ ~jop[Current(p)].ready
       /\ jop[Current(p)].state = (IF pc[p] = "backup" THEN "backing_up" ELSE "prepared")
       /\ dest[Current(p)] # None /\ bak[Current(p)] = None
  /\ pc[p] = "backed_up" =>
       /\ jop[Current(p)].had /\ ~jop[Current(p)].ready
       /\ jop[Current(p)].state = "backing_up"
       /\ bak[Current(p)] # None
       /\ Current(p) \in Privileged => bak[Current(p)] = dest[Current(p)]
  /\ pc[p] \in {"installing", "install", "installed"} =>
       /\ jop[Current(p)].had => bak[Current(p)] # None /\ jop[Current(p)].ready
       /\ ~jop[Current(p)].had => bak[Current(p)] = None
       /\ pc[p] = "installing" =>
            /\ jop[Current(p)].state \in {"prepared", "backed_up"}
            /\ ~jop[Current(p)].had => dest[Current(p)] = None
       /\ pc[p] # "installing" => jop[Current(p)].state = "installing"
       /\ pc[p] = "installed" => dest[Current(p)] = job[p].version

\* How far recovery has come.
Undone(d) == dest[d] = Settled(d) /\ (d \notin Privileged => bak[d] = None)

RecoverInv == \A p \in Proc :
  /\ pc[p] = "undo" => \A i \in 1..Len(jlist) : i > k[p] => Undone(jlist[i])
  /\ pc[p] \in {"drop", "clean"} => \A i \in 1..Len(jlist) : i < k[p] => bak[jlist[i]] = None
  /\ pc[p] = "close" => \A d \in Dest : bak[d] = None
  /\ pc[p] = "rm_work" => \A d \in Dest : Undone(d)
  /\ pc[p] = "unlink" => \A d \in Dest : bak[d] = None /\ dest[d] = Settled(d)

IInv ==
  /\ TypeOK /\ LockInv /\ StatusInv /\ IndexInv /\ JournalInv
  /\ DestInv /\ PlanInv /\ CurrentInv /\ RecoverInv

\* While a command works on its journal, what it made for privileged backups stays.
DirectoryInv == \A p \in Proc :
  pc[p] \in Replacing \cup {"drop"} => \A d \in Privileged : InJournal(d) => backups
=============================================================================
