---------------------- MODULE ReleaseTransactionProofs ----------------------
(***************************************************************************)
(* Proofs about ReleaseTransaction for any processes, destinations,        *)
(* versions and commands: its invariant IInv is inductive, and from it     *)
(* follow the safety invariants, the action properties and the refinement  *)
(* of AtomicReplacement.                                                   *)
(***************************************************************************)
EXTENDS ReleaseTransaction, TLAPS

\* A step after which recovery would leave the same destinations as before it.
Stable == \A d \in Dest : Settled(d)' = Settled(d)

\* A command at work is alone in the locked region.
LEMMA Others ==
  ASSUME LockInv, NEW p \in Proc, pc[p] # "idle"
  PROVE  \A q \in Proc : q # p => pc[q] = "idle"
BY DEF LockInv

\* What is known of a command inside the try block, and of its current destination.
LEMMA Here ==
  ASSUME IInv, NEW p \in Proc, pc[p] \in Replacing
  PROVE  /\ job[p] \in Jobs /\ job[p].plan \in Seq(Dest) /\ job[p].version \in Version
         /\ k[p] \in 1..Len(job[p].plan) /\ k[p] \in Nat /\ Len(job[p].plan) \in Nat
         /\ Current(p) \in Dest /\ Current(p) = job[p].plan[k[p]]
         /\ \A i \in 1..Len(job[p].plan) : job[p].plan[i] = Current(p) => i = k[p]
         /\ jstatus = "applying"
         /\ \A q \in Proc : q # p => pc[q] = "idle"
<1>1. pc[p] # "idle" BY DEF Replacing
<1>2. job[p] \in Jobs BY <1>1 DEF IInv, LockInv
<1>3. k[p] \in 1..Len(job[p].plan) BY DEF IInv, IndexInv
<1>4. job[p].plan \in Seq(Dest) /\ job[p].version \in Version BY <1>2, JobsOK
<1>5. Current(p) \in Dest BY <1>3, <1>4 DEF Current
<1>6. \A i \in 1..Len(job[p].plan) : job[p].plan[i] = Current(p) => i = k[p]
  BY <1>2, <1>3, JobsOK DEF Current
<1>7. jstatus = "applying" BY DEF IInv, StatusInv
<1>8. \A q \in Proc : q # p => pc[q] = "idle" BY <1>1, Others DEF IInv
<1>9. QED BY <1>2, <1>3, <1>4, <1>5, <1>6, <1>7, <1>8 DEF Current

\* A journal save that changes the state field of one operation.
LEMMA Marked ==
  ASSUME TypeOK, NEW d \in Dest, NEW st \in OpStates, jop' = [jop EXCEPT ![d].state = st]
  PROVE  /\ jop' \in [Dest -> Op]
         /\ \A e \in Dest : jop'[e].had = jop[e].had /\ jop'[e].ready = jop[e].ready
         /\ \A e \in Dest : e # d => jop'[e].state = jop[e].state
         /\ jop'[d].state = st
BY DEF TypeOK, Op

\* The journal save that also declares the backup complete.
LEMMA MarkedReady ==
  ASSUME TypeOK, NEW d \in Dest,
         jop' = [jop EXCEPT ![d].state = "backed_up", ![d].ready = TRUE]
  PROVE  /\ jop' \in [Dest -> Op]
         /\ \A e \in Dest : jop'[e].had = jop[e].had
         /\ \A e \in Dest : e # d => jop'[e].state = jop[e].state /\ jop'[e].ready = jop[e].ready
         /\ jop'[d].state = "backed_up" /\ jop'[d].ready = TRUE
BY DEF TypeOK, Op, OpStates

\* Where a command goes on after recover().
LEMMA Resumed ==
  ASSUME TypeOK, NEW p \in Proc, AfterRecover(p)
  PROVE  /\ pc' \in [Proc -> Steps]
         /\ \A q \in Proc : q # p => pc'[q] = pc[q]
         /\ pc'[p] \in {"release", "begin", "finally"}
BY DEF AfterRecover, Goto, TypeOK, Modes, Steps

\* How far the plan has come, while operations are in progress.
LEMMA PlanAt ==
  ASSUME IInv, NEW p \in Proc, pc[p] \in Replacing \ {"commit"}
  PROVE  /\ \A i \in 1..Len(job[p].plan) : i < k[p] =>
              jop[job[p].plan[i]].state = "installed" /\ dest[job[p].plan[i]] = job[p].version
         /\ \A i \in 1..Len(job[p].plan) : i > k[p] => jop[job[p].plan[i]].state = "none"
         /\ \A e \in Dest : jop[e].state # "none" => \E i \in 1..k[p] : job[p].plan[i] = e
BY DEF IInv, PlanInv

\* Everything a journal save of a state change leaves true, for any such save.
LEMMA MarkEffect ==
  ASSUME IInv, NEW p \in Proc, NEW from \in {"backing_up", "installing", "installed"},
         NEW to \in OpStates \ {"none"}, NEW next \in Replacing,
          Mark(p, from, to, next)
  PROVE  \E d \in Dest :
         /\ d = Current(p) /\ d = job[p].plan[k[p]] /\ pc[p] = from
         /\ job[p] \in Jobs /\ job[p].plan \in Seq(Dest) /\ job[p].version \in Version
         /\ k[p] \in 1..Len(job[p].plan) /\ k[p] \in Nat /\ Len(job[p].plan) \in Nat
         /\ \A i \in 1..Len(job[p].plan) : job[p].plan[i] \in Dest
         /\ \A i \in 1..Len(job[p].plan) : job[p].plan[i] = d => i = k[p]
         /\ jop[d].state # "none"
         /\ jop' \in [Dest -> Op] /\ jop'[d].state = to
         /\ \A e \in Dest : jop'[e].had = jop[e].had /\ jop'[e].ready = jop[e].ready
         /\ \A e \in Dest : e # d => jop'[e].state = jop[e].state
         /\ jstatus = "applying"
         /\ UNCHANGED <<dest, bak, backups, jstatus, jlist, holder, mode, job>>
         /\ pc' \in [Proc -> Steps] /\ pc'[p] = next
         /\ \A q \in Proc : q # p => pc'[q] = "idle"
         /\ LockInv' /\ StatusInv' /\ JournalInv' /\ RecoverInv'
<1>1. PICK d \in Dest : d = Current(p) BY Here DEF Mark, Replacing
<1>2. /\ pc[p] = from /\ jop' = [jop EXCEPT ![d].state = to] /\ pc' = [pc EXCEPT ![p] = next]
      /\ UNCHANGED <<dest, bak, backups, jstatus, jlist, holder, mode, job>>
  BY <1>1 DEF Mark, Goto, files
<1>3. /\ job[p] \in Jobs /\ job[p].plan \in Seq(Dest) /\ job[p].version \in Version
      /\ k[p] \in 1..Len(job[p].plan) /\ k[p] \in Nat /\ Len(job[p].plan) \in Nat
      /\ d = job[p].plan[k[p]]
      /\ \A i \in 1..Len(job[p].plan) : job[p].plan[i] = d => i = k[p]
      /\ jstatus = "applying"
      /\ \A q \in Proc : q # p => pc[q] = "idle"
  BY <1>1, <1>2, Here DEF Replacing
<1>4. /\ jop' \in [Dest -> Op] /\ jop'[d].state = to
      /\ \A e \in Dest : jop'[e].had = jop[e].had /\ jop'[e].ready = jop[e].ready
      /\ \A e \in Dest : e # d => jop'[e].state = jop[e].state
  BY <1>2, Marked DEF IInv
<1>5. /\ pc' \in [Proc -> Steps] /\ pc'[p] = next /\ \A q \in Proc : q # p => pc'[q] = "idle"
  BY <1>2, <1>3 DEF IInv, TypeOK, Steps
<1>6. jop[d].state # "none" BY <1>1, <1>2 DEF IInv, CurrentInv
<1>7. LockInv' BY <1>2, <1>3, <1>5 DEF IInv, LockInv, Replacing
<1>8. StatusInv' BY <1>2, <1>3, <1>5 DEF StatusInv, Replacing, Closing
<1>9. \A e \in Dest : InJournal(e)' = InJournal(e) BY <1>2 DEF InJournal
<1>10. JournalInv' BY <1>2, <1>3, <1>4, <1>6, <1>9 DEF IInv, JournalInv
<1>11. RecoverInv' BY <1>5 DEF RecoverInv, Replacing
<1>12. \A i \in 1..Len(job[p].plan) : job[p].plan[i] \in Dest BY <1>3
<1>13. QED BY <1>1, <1>2, <1>3, <1>4, <1>5, <1>6, <1>7, <1>8, <1>10, <1>11, <1>12

\* When the journal goes, nothing is half done.
LEMMA UnlinkDest == ASSUME IInv, NEW p \in Proc, pc[p] = "unlink" PROVE \A d \in Dest : bak[d] = None /\ dest[d] # Torn
<1>1. \A d \in Dest : bak[d] = None /\ dest[d] = Settled(d) BY DEF IInv, RecoverInv
<1>2. CASE jstatus = "applying" BY <1>1, <1>2 DEF IInv, DestInv
<1>3. CASE jstatus = "committed" BY <1>1, <1>3 DEF IInv, DestInv
<1>4. CASE jstatus = "none"
  <2>1. \A d \in Dest : jop[d].state = "none" BY <1>4 DEF IInv, JournalInv, InJournal
  <2>2. QED BY <1>1, <2>1 DEF IInv, DestInv
<1>5. QED BY <1>2, <1>3, <1>4 DEF IInv, TypeOK

\* When the backups are dropped, none is left anywhere.
LEMMA DropDoneRecover == ASSUME IInv, NEW p \in Proc, DropDone(p) PROVE RecoverInv'
<1>1. \A q \in Proc : q # p => pc[q] = "idle" BY Others DEF IInv, DropDone
<1>2. jstatus = "committed" /\ k[p] = Len(jlist) + 1
  BY DEF DropDone, IInv, StatusInv, IndexInv, Closing, TypeOK
<1>3. \A i \in 1..Len(jlist) : bak[jlist[i]] = None
  BY <1>2 DEF DropDone, IInv, RecoverInv, TypeOK
<1>4. \A d \in Dest : bak[d] = None
  BY <1>3 DEF IInv, JournalInv, DestInv, InJournal
<1>5. \A d \in Dest : Undone(d)
  BY <1>2, <1>4 DEF Undone, Settled
<1>6. UNCHANGED <<files, journal>> /\ pc' = [pc EXCEPT ![p] = pc'[p]] /\ pc'[p] \in {"close", "rm_work"}
  BY DEF DropDone, Goto, IInv, TypeOK
<1>7. \A q \in Proc : pc'[q] \in {"idle", "close", "rm_work"} BY <1>1, <1>6 DEF IInv, TypeOK
<1>8. \A d \in Dest : bak'[d] = None /\ Undone(d)'
  BY <1>4, <1>5, <1>6 DEF Undone, Settled, Usable, Created, files, journal
<1>9. QED BY <1>7, <1>8 DEF RecoverInv

\* The backup step moves or copies the original, and recovery would still find it.
LEMMA BackupEffect == ASSUME IInv, NEW p \in Proc, Backup(p) PROVE DestInv' /\ CurrentInv' /\ Stable
<1>1. PICK d \in Dest : d = Current(p) BY Here DEF Backup, Replacing
<1>2. /\ pc[p] = "backup" /\ pc' = [pc EXCEPT ![p] = "backed_up"]
      /\ bak' = [bak EXCEPT ![d] = dest[d]]
      /\ dest' = IF d \in Privileged THEN dest ELSE [dest EXCEPT ![d] = None]
      /\ UNCHANGED <<backups, jstatus, jlist, jop, holder, mode, job, k>>
  BY <1>1 DEF Backup, Goto, journal
<1>3. jstatus = "applying" /\ \A q \in Proc : q # p => pc[q] = "idle"
  BY <1>2, Here DEF Replacing
<1>4. pc'[p] = "backed_up" /\ \A q \in Proc : q # p => pc'[q] = "idle"
  BY <1>2, <1>3 DEF IInv, TypeOK
<1>5. /\ bak'[d] = dest[d] /\ \A e \in Dest : e # d => bak'[e] = bak[e] /\ dest'[e] = dest[e]
      /\ d \in Privileged => dest'[d] = dest[d]
  BY <1>2 DEF IInv, TypeOK
<1>6. /\ jop[d].had = TRUE /\ jop[d].ready = FALSE
      /\ dest[d] # None /\ bak[d] = None
  BY <1>1, <1>2 DEF IInv, CurrentInv, TypeOK, Op
<1>7. jop[d].state = "backing_up"
  BY <1>1, <1>2 DEF IInv, CurrentInv
<1>8. \A e \in Dest : Settled(e)' = Settled(e)
  <2>1. \A e \in Dest : e # d => Settled(e)' = Settled(e) BY <1>2, <1>5 DEF Settled, Usable, Created
  <2>2. Settled(d) = dest[d] BY <1>6 DEF Settled, Usable, Created
  <2>3. Settled(d)' = dest[d] BY <1>2, <1>3, <1>5, <1>6, <1>7 DEF Settled, Usable, Created
  <2>4. QED BY <2>1, <2>2, <2>3
<1>9. dest[d] # Torn
  <2>1. Settled(d) = dest[d] BY <1>6 DEF Settled, Usable, Created
  <2>2. QED BY <1>3, <2>1 DEF IInv, DestInv
<1>10. DestInv' 
  <2>1. jop'[d].state # "none" /\ jop'[d].had = TRUE /\ bak'[d] # Torn BY <1>2, <1>5, <1>6, <1>7, <1>9
  <2>2. UNCHANGED <<jstatus, jop>> BY <1>2
  <2>3. QED BY <1>3, <1>5, <1>8, <2>1, <2>2 DEF IInv, DestInv
<1>11. Current(p)' = d BY <1>1, <1>2 DEF Current
<1>12. CurrentInv'
  <2>1. /\ jop'[d].had = TRUE /\ jop'[d].ready = FALSE /\ jop'[d].state = "backing_up" /\ bak'[d] # None
        /\ d \in Privileged => bak'[d] = dest'[d]
    BY <1>2, <1>5, <1>6, <1>7
  <2>2. QED BY <1>4, <1>11, <2>1 DEF CurrentInv
<1>13. QED BY <1>8, <1>10, <1>12 DEF Stable

\* The install step puts the new version at the current destination.
LEMMA InstallEffect == ASSUME IInv, NEW p \in Proc, Install(p) PROVE CurrentInv'
<1>1. PICK d \in Dest : d = Current(p) BY Here DEF Install, Replacing
<1>2. /\ pc[p] = "install" /\ pc' = [pc EXCEPT ![p] = "installed"]
      /\ dest' = [dest EXCEPT ![d] = job[p].version]
      /\ UNCHANGED <<bak, backups, jstatus, jlist, jop, holder, mode, job, k>>
  BY <1>1 DEF Install, Goto, journal
<1>3. \A q \in Proc : q # p => pc[q] = "idle" BY <1>2, Here DEF Replacing
<1>4. pc'[p] = "installed" /\ \A q \in Proc : q # p => pc'[q] = "idle"
  BY <1>2, <1>3 DEF IInv, TypeOK
<1>5. dest'[d] = job'[p].version BY <1>2 DEF IInv, TypeOK
<1>6. /\ jop'[d].had => bak'[d] # None /\ jop'[d].ready
      /\ ~jop'[d].had => bak'[d] = None
      /\ jop'[d].state = "installing"
  BY <1>1, <1>2 DEF IInv, CurrentInv
<1>7. Current(p)' = d BY <1>1, <1>2 DEF Current
<1>8. QED BY <1>4, <1>5, <1>6, <1>7 DEF CurrentInv

\* At commit every journalled destination holds the new version.
LEMMA CommitEffect == ASSUME IInv, NEW p \in Proc, Commit(p) PROVE DestInv'
<1>1. job[p] \in Jobs /\ job[p].plan \in Seq(Dest) /\ job[p].version \in Version
      /\ k[p] \in 1..Len(job[p].plan)
  BY Here DEF Commit, Replacing
<1>2. pc[p] = "commit" /\ jstatus' = "committed" /\ UNCHANGED <<dest, bak, jop>>
  BY DEF Commit, files
<1>3. \A d \in Dest : jop[d].state # "none" => dest[d] = job[p].version
  BY <1>1, <1>2 DEF IInv, PlanInv, Replacing
<1>4. \A d \in Dest : dest[d] # Torn BY <1>1, <1>3, ConstantsOK DEF IInv, DestInv
<1>5. QED BY <1>2, <1>4 DEF IInv, DestInv

\* The except clause runs under the lock.
LEMMA UnwindEffect == ASSUME IInv, NEW p \in Proc, Unwind(p) PROVE LockInv'
<1>1. pc[p] # "idle" /\ UNCHANGED <<holder, job>> BY DEF Unwind, Replacing, Closing
<1>2. pc' = [pc EXCEPT ![p] = "load"] BY DEF Unwind, Goto
<1>3. QED BY <1>1, <1>2 DEF IInv, TypeOK, LockInv

\* From here, one lemma per action. A home without a journal needs no recovery.
LEMMA LoadNothingStep == ASSUME IInv, NEW p \in Proc, LoadNothing(p) PROVE IInv'
<1>1. \A q \in Proc : q # p => pc[q] = "idle" BY Others DEF IInv, LoadNothing
<1>2. /\ \A q \in Proc : q # p => pc'[q] = "idle"
      /\ pc' \in [Proc -> Steps]
      /\ pc'[p] \in {"release", "begin", "finally"}
  BY <1>1, Resumed DEF LoadNothing, IInv
<1>3. UNCHANGED <<files, journal, holder, mode, job, k>> /\ jstatus = "none" /\ pc[p] # "idle" BY DEF LoadNothing
<1>4. TypeOK' BY <1>2, <1>3 DEF IInv, TypeOK, files, journal
<1>5. LockInv' BY <1>2, <1>3 DEF IInv, LockInv
<1>6. StatusInv' BY <1>2, <1>3 DEF StatusInv, journal, Replacing, Closing
<1>7. IndexInv' BY <1>2, <1>3 DEF IndexInv, Replacing
<1>8. JournalInv' BY <1>3 DEF IInv, JournalInv, InJournal, journal
<1>9. DestInv' BY <1>3 DEF IInv, DestInv, Settled, Usable, Created, journal, files
<1>10. PlanInv' /\ CurrentInv' BY <1>2 DEF PlanInv, CurrentInv, Replacing
<1>11. RecoverInv' BY <1>2 DEF RecoverInv
<1>12. QED BY <1>4, <1>5, <1>6, <1>7, <1>8, <1>9, <1>10, <1>11 DEF IInv

\* The end of recover(): the journal is deleted when nothing it names is left to do.
LEMMA UnlinkStep == ASSUME IInv, NEW p \in Proc, Unlink(p) PROVE IInv'
<1>1. \A q \in Proc : q # p => pc[q] = "idle" BY Others DEF IInv, Unlink
<1>2. /\ \A q \in Proc : q # p => pc'[q] = "idle"
      /\ pc' \in [Proc -> Steps]
      /\ pc'[p] \in {"release", "begin", "finally"}
  BY <1>1, Resumed DEF Unlink, IInv
<1>3. /\ UNCHANGED <<files, holder, mode, job, k>> /\ pc[p] = "unlink"
      /\ jstatus' = "none" /\ jlist' = << >> /\ jop' = [d \in Dest |-> NoOp]
  BY DEF Unlink, NoJournal
<1>4. TypeOK' BY <1>2, <1>3 DEF IInv, TypeOK, files, Op, OpStates, NoOp
<1>5. LockInv' BY <1>2, <1>3 DEF IInv, LockInv
<1>6. StatusInv' BY <1>2, <1>3 DEF StatusInv, Replacing, Closing
<1>7. IndexInv' BY <1>2 DEF IndexInv, Replacing
<1>8. JournalInv' BY <1>3 DEF JournalInv, InJournal, NoOp
<1>9. \A d \in Dest : bak[d] = None /\ dest[d] # Torn
  BY <1>3, UnlinkDest
<1>10. DestInv' BY <1>3, <1>9 DEF DestInv, files
<1>11. PlanInv' /\ CurrentInv' BY <1>2 DEF PlanInv, CurrentInv, Replacing
<1>12. RecoverInv' BY <1>2 DEF RecoverInv
<1>13. QED BY <1>4, <1>5, <1>6, <1>7, <1>8, <1>10, <1>11, <1>12 DEF IInv

\* A new journal opens over a home in which nothing is half done.
LEMMA BeginStep == ASSUME IInv, NEW p \in Proc, Begin(p) PROVE IInv'
<1>1. pc[p] = "begin" /\ \A q \in Proc : q # p => pc[q] = "idle" BY Others DEF IInv, Begin
<1>2. /\ jstatus' = "applying" /\ jlist' = << >> /\ jop' = [d \in Dest |-> NoOp] /\ backups' = FALSE
      /\ pc' = [pc EXCEPT ![p] = "prepare"] /\ k' = [k EXCEPT ![p] = 1]
      /\ UNCHANGED <<dest, bak, holder, mode, job>>
  BY DEF Begin, Goto, Index
<1>3. jstatus = "none" BY <1>1 DEF IInv, StatusInv
<1>4. job[p] \in Jobs /\ holder = p BY <1>1 DEF IInv, LockInv
<1>5. \A d \in Dest : bak[d] = None /\ dest[d] # Torn
  BY <1>3 DEF IInv, JournalInv, InJournal, DestInv
<1>6. TypeOK'
  <2>1. jop' \in [Dest -> Op] BY <1>2 DEF Op, NoOp, OpStates
  <2>2. pc' \in [Proc -> Steps] BY <1>2 DEF IInv, TypeOK, Steps, Replacing
  <2>3. k' \in [Proc -> Nat] BY <1>2 DEF IInv, TypeOK
  <2>4. jlist' \in Seq(Dest) BY <1>2
  <2>5. QED BY <1>2, <2>1, <2>2, <2>3, <2>4 DEF IInv, TypeOK
<1>7. \A q \in Proc : q # p => pc'[q] = "idle" BY <1>1, <1>2 DEF IInv, TypeOK
<1>8. pc'[p] = "prepare" /\ k'[p] = 1 BY <1>2 DEF IInv, TypeOK
<1>9. LockInv' BY <1>2, <1>4, <1>7 DEF LockInv
<1>10. StatusInv' BY <1>2, <1>7, <1>8 DEF StatusInv, Replacing, Closing
<1>11. job[p].plan \in Seq(Dest) /\ Len(job[p].plan) >= 1
  <2>1. job[p].plan \in Seq(Dest) /\ job[p].plan # << >> BY <1>4, JobsOK
  <2>2. QED BY <2>1
<1>12. IndexInv' BY <1>2, <1>7, <1>8, <1>11 DEF IndexInv, Replacing
<1>13. JournalInv' BY <1>2 DEF JournalInv, InJournal, NoOp
<1>14. DestInv'
  <2>1. \A d \in Dest : jop'[d].state = "none" /\ jop'[d].had = FALSE BY <1>2 DEF NoOp
  <2>2. \A d \in Dest : Settled(d)' = dest[d] BY <1>2, <2>1 DEF Settled
  <2>3. QED BY <1>2, <1>5, <2>1, <2>2, ConstantsOK DEF DestInv
<1>15. PlanInv' 
  <2>1. \A d \in Dest : jop'[d].state = "none" BY <1>2 DEF NoOp
  <2>2. \A i \in 1..Len(job[p].plan) : job[p].plan[i] \in Dest /\ ~(i < 1) BY <1>11
  <2>3. QED BY <1>2, <1>7, <1>8, <2>1, <2>2 DEF PlanInv, Replacing
<1>16. CurrentInv' BY <1>7, <1>8 DEF CurrentInv
<1>17. RecoverInv' BY <1>7, <1>8 DEF RecoverInv
<1>18. QED BY <1>6, <1>9, <1>10, <1>12, <1>13, <1>14, <1>15, <1>16, <1>17 DEF IInv

\* A new operation enters the journal with the destination untouched.
LEMMA PrepareStep == ASSUME IInv, NEW p \in Proc, Prepare(p) PROVE IInv' /\ Stable
<1>0. PICK d \in Dest : d = Current(p) BY Here DEF Prepare, Replacing
<1>1. /\ pc[p] = "prepare" /\ pc[p] \in Replacing
      /\ jlist' = Append(jlist, d)
      /\ jop' = [jop EXCEPT ![d] = [had |-> dest[d] # None, ready |-> FALSE, state |-> "prepared"]]
      /\ backups' = (backups \/ d \in Privileged)
      /\ pc' = [pc EXCEPT ![p] = IF dest[d] # None THEN "backing_up" ELSE "installing"]
      /\ UNCHANGED <<dest, bak, jstatus, holder, mode, job, k>>
  BY <1>0 DEF Prepare, Goto, Replacing
<1>2. /\ job[p] \in Jobs /\ job[p].plan \in Seq(Dest) /\ job[p].version \in Version
      /\ k[p] \in 1..Len(job[p].plan) /\ k[p] \in Nat /\ Len(job[p].plan) \in Nat
      /\ d \in Dest /\ d = job[p].plan[k[p]]
      /\ \A i \in 1..Len(job[p].plan) : job[p].plan[i] = d => i = k[p]
      /\ jstatus = "applying"
      /\ \A q \in Proc : q # p => pc[q] = "idle"
  BY <1>0, <1>1, Here
<1>3. jop[d].state = "none" BY <1>1, <1>2 DEF IInv, PlanInv
<1>4. bak[d] = None /\ dest[d] # Torn BY <1>2, <1>3 DEF IInv, DestInv
<1>5. /\ jop'[d].had <=> dest[d] # None
      /\ jop'[d].ready = FALSE /\ jop'[d].state = "prepared"
      /\ \A e \in Dest : e # d => jop'[e] = jop[e]
      /\ jop' \in [Dest -> Op]
  BY <1>1, <1>2 DEF IInv, TypeOK, Op, OpStates
<1>6. \A q \in Proc : q # p => pc'[q] = "idle" BY <1>1, <1>2 DEF IInv, TypeOK
<1>7. pc'[p] = IF dest[d] # None THEN "backing_up" ELSE "installing" BY <1>1 DEF IInv, TypeOK
<1>8. TypeOK'
  <2>1. jlist' \in Seq(Dest) BY <1>1, <1>2 DEF IInv, TypeOK
  <2>2. pc' \in [Proc -> Steps] BY <1>1 DEF IInv, TypeOK, Steps, Replacing
  <2>3. backups' \in BOOLEAN BY <1>1 
  <2>4. QED BY <1>1, <1>5, <2>1, <2>2, <2>3 DEF IInv, TypeOK
<1>9. LockInv' BY <1>1, <1>2, <1>6 DEF IInv, LockInv
<1>10. StatusInv' BY <1>1, <1>2, <1>6, <1>7 DEF StatusInv, Replacing, Closing
<1>11. IndexInv' BY <1>1, <1>2, <1>6, <1>7 DEF IndexInv, Replacing
<1>12. JournalInv'
  <2>1. Len(jlist') = Len(jlist) + 1 /\ jlist'[Len(jlist) + 1] = d /\ Len(jlist) \in Nat
        /\ \A i \in 1..Len(jlist) : jlist'[i] = jlist[i]
    BY <1>1, <1>2 DEF IInv, TypeOK
  <2>2. \A e \in Dest : InJournal(e)' <=> InJournal(e) \/ e = d
    BY <2>1 DEF InJournal
  <2>3. QED BY <1>1, <1>2, <1>3, <1>5, <2>2 DEF IInv, JournalInv
<1>13. DestInv' /\ Stable
  <2>1. \A e \in Dest : e # d => Settled(e)' = Settled(e) /\ dest'[e] = dest[e] /\ bak'[e] = bak[e]
    BY <1>1, <1>5 DEF Settled, Usable, Created
  <2>2. Settled(d)' = dest[d] BY <1>1, <1>2, <1>4, <1>5 DEF Settled, Usable, Created
  <2>3. jop'[d].state # "none" /\ (jop'[d].had => Settled(d)' # None)
        /\ Settled(d)' # Torn /\ bak'[d] = None /\ dest'[d] # Torn
    BY <1>1, <1>4, <1>5, <2>2
  <2>4. DestInv' BY <1>1, <1>2, <1>5, <2>1, <2>3, ConstantsOK DEF IInv, DestInv
  <2>5. Settled(d) = dest[d] BY <1>3 DEF Settled
  <2>6. QED BY <2>1, <2>2, <2>4, <2>5 DEF Stable
<1>14. PlanInv'
  <2>1. \A i \in 1..Len(job[p].plan) : job[p].plan[i] \in Dest BY <1>2
  <2>2. \A i \in 1..Len(job[p].plan) : i < k[p] => jop'[job[p].plan[i]].state = "installed" /\ dest[job[p].plan[i]] = job[p].version
    BY <1>1, <1>2, <1>5, <2>1 DEF IInv, PlanInv
  <2>3. \A i \in 1..Len(job[p].plan) : i > k[p] => jop'[job[p].plan[i]].state = "none"
    BY <1>1, <1>2, <1>5, <2>1 DEF IInv, PlanInv
  <2>4. \A e \in Dest : jop'[e].state # "none" => \E i \in 1..k[p] : job[p].plan[i] = e
    BY <1>1, <1>2, <1>5 DEF IInv, PlanInv
  <2>5. QED BY <1>1, <1>6, <1>7, <2>2, <2>3, <2>4 DEF PlanInv, Replacing
<1>15. Current(p)' = d BY <1>0, <1>1 DEF Current
<1>16. CurrentInv'
  <2>1. CASE dest[d] = None
    <3>1. pc'[p] = "installing" /\ jop'[d].had = FALSE /\ dest'[d] = None /\ bak'[d] = None
      BY <1>1, <1>4, <1>5, <1>7, <2>1
    <3>2. QED BY <1>5, <1>6, <1>15, <3>1 DEF CurrentInv
  <2>2. CASE dest[d] # None
    <3>1. pc'[p] = "backing_up" /\ jop'[d].had = TRUE /\ dest'[d] # None /\ bak'[d] = None
      BY <1>1, <1>4, <1>5, <1>7, <2>2
    <3>2. QED BY <1>5, <1>6, <1>15, <3>1 DEF CurrentInv
  <2>3. QED BY <2>1, <2>2
<1>17. RecoverInv' BY <1>6, <1>7 DEF RecoverInv
<1>18. QED BY <1>8, <1>9, <1>10, <1>11, <1>12, <1>13, <1>14, <1>16, <1>17 DEF IInv

\* The journal announces the backup before it starts.
LEMMA MarkBackingUpStep == ASSUME IInv, NEW p \in Proc, MarkBackingUp(p) PROVE IInv' /\ Stable
<1>1. PICK d \in Dest :
         /\ d = Current(p) /\ d = job[p].plan[k[p]] /\ pc[p] = "backing_up"
         /\ job[p] \in Jobs /\ job[p].plan \in Seq(Dest) /\ job[p].version \in Version
         /\ k[p] \in 1..Len(job[p].plan) /\ k[p] \in Nat /\ Len(job[p].plan) \in Nat
         /\ \A i \in 1..Len(job[p].plan) : job[p].plan[i] \in Dest
         /\ \A i \in 1..Len(job[p].plan) : job[p].plan[i] = d => i = k[p]
         /\ jop[d].state # "none"
         /\ jop' \in [Dest -> Op] /\ jop'[d].state = "backing_up"
         /\ \A e \in Dest : jop'[e].had = jop[e].had /\ jop'[e].ready = jop[e].ready
         /\ \A e \in Dest : e # d => jop'[e].state = jop[e].state
         /\ jstatus = "applying"
         /\ UNCHANGED <<dest, bak, backups, jstatus, jlist, holder, mode, job>>
         /\ pc' \in [Proc -> Steps] /\ pc'[p] = "backup"
         /\ \A q \in Proc : q # p => pc'[q] = "idle"
         /\ LockInv' /\ StatusInv' /\ JournalInv' /\ RecoverInv'
  BY MarkEffect DEF MarkBackingUp, Replacing, OpStates
<1>2. k' = k BY DEF MarkBackingUp
<1>3. TypeOK' BY <1>1, <1>2 DEF IInv, TypeOK
<1>4. IndexInv' BY <1>1, <1>2 DEF IInv, IndexInv, Replacing
<1>5. jop[d].had = TRUE /\ jop[d].ready = FALSE /\ dest[d] # None /\ bak[d] = None
  BY <1>1 DEF IInv, CurrentInv, TypeOK, Op
<1>6. \A e \in Dest : Settled(e)' = Settled(e)
  <2>1. \A e \in Dest : e # d => Settled(e)' = Settled(e) BY <1>1 DEF Settled, Usable, Created
  <2>2. Settled(d)' = dest[d] /\ Settled(d) = dest[d] BY <1>1, <1>5 DEF Settled, Usable, Created
  <2>3. QED BY <2>1, <2>2
<1>7. DestInv' BY <1>1, <1>6 DEF IInv, DestInv
<1>8. PlanInv'
  <2>1. \A i \in 1..Len(job[p].plan) : i < k[p] =>
          jop'[job[p].plan[i]].state = "installed" /\ dest[job[p].plan[i]] = job[p].version
    BY <1>1, PlanAt DEF Replacing
  <2>2. \A i \in 1..Len(job[p].plan) : i > k[p] => jop'[job[p].plan[i]].state = "none"
    BY <1>1, PlanAt DEF Replacing
  <2>3. \A e \in Dest : jop'[e].state # "none" => \E i \in 1..k[p] : job[p].plan[i] = e
    BY <1>1, PlanAt DEF Replacing
  <2>4. QED BY <1>1, <1>2, <2>1, <2>2, <2>3 DEF PlanInv, Replacing
<1>9. Current(p)' = d BY <1>1, <1>2 DEF Current
<1>10. CurrentInv' BY <1>1, <1>5, <1>9 DEF CurrentInv
<1>11. QED BY <1>1, <1>3, <1>4, <1>7, <1>8, <1>10, <1>6 DEF IInv, Stable

\* The journal declares the backup usable once it is complete.
LEMMA MarkBackedUpStep == ASSUME IInv, NEW p \in Proc, MarkBackedUp(p) PROVE IInv' /\ Stable
<1>1. PICK d \in Dest : d = Current(p) BY Here DEF MarkBackedUp, Replacing
<1>2. /\ pc[p] = "backed_up" /\ pc' = [pc EXCEPT ![p] = "installing"]
      /\ jop' = [jop EXCEPT ![d].state = "backed_up", ![d].ready = TRUE]
      /\ UNCHANGED <<dest, bak, backups, jstatus, jlist, holder, mode, job, k>>
  BY <1>1 DEF MarkBackedUp, Goto, files
<1>3. /\ job[p] \in Jobs /\ job[p].plan \in Seq(Dest) /\ job[p].version \in Version
      /\ k[p] \in 1..Len(job[p].plan) /\ k[p] \in Nat /\ Len(job[p].plan) \in Nat
      /\ d = job[p].plan[k[p]]
      /\ \A i \in 1..Len(job[p].plan) : job[p].plan[i] = d => i = k[p]
      /\ jstatus = "applying"
      /\ \A q \in Proc : q # p => pc[q] = "idle"
  BY <1>1, <1>2, Here DEF Replacing
<1>4. /\ jop' \in [Dest -> Op]
      /\ \A e \in Dest : jop'[e].had = jop[e].had
      /\ \A e \in Dest : e # d => jop'[e].state = jop[e].state /\ jop'[e].ready = jop[e].ready
      /\ jop'[d].state = "backed_up" /\ jop'[d].ready = TRUE
  BY <1>2, MarkedReady DEF IInv
<1>5. /\ pc' \in [Proc -> Steps] /\ pc'[p] = "installing"
      /\ \A q \in Proc : q # p => pc'[q] = "idle"
  BY <1>2, <1>3 DEF IInv, TypeOK, Steps, Replacing
<1>6. /\ jop[d].had = TRUE /\ jop[d].ready = FALSE /\ jop[d].state = "backing_up"
      /\ bak[d] # None /\ (d \in Privileged => bak[d] = dest[d])
  BY <1>1, <1>2 DEF IInv, CurrentInv, TypeOK, Op
<1>7. TypeOK' BY <1>2, <1>4, <1>5 DEF IInv, TypeOK
<1>8. LockInv' BY <1>2, <1>3, <1>5 DEF IInv, LockInv
<1>9. StatusInv' BY <1>2, <1>3, <1>5 DEF StatusInv, Replacing, Closing
<1>10. IndexInv' BY <1>2, <1>3, <1>5 DEF IndexInv, Replacing
<1>11. JournalInv'
  <2>1. \A e \in Dest : InJournal(e)' = InJournal(e) BY <1>2 DEF InJournal
  <2>2. QED BY <1>2, <1>3, <1>4, <1>6, <2>1 DEF IInv, JournalInv
<1>12. \A e \in Dest : Settled(e)' = Settled(e)
  <2>1. \A e \in Dest : e # d => Settled(e)' = Settled(e) BY <1>2, <1>4 DEF Settled, Usable, Created
  <2>2. Settled(d)' = bak[d] BY <1>2, <1>3, <1>4, <1>6 DEF Settled, Usable
  <2>3. Settled(d) = bak[d] BY <1>3, <1>6 DEF Settled, Usable, Created
  <2>4. QED BY <2>1, <2>2, <2>3
<1>13. DestInv'
  <2>1. \A e \in Dest : jop'[e].state = "none" => jop[e].state = "none" BY <1>4
  <2>2. \A e \in Dest : jop'[e].had = jop[e].had BY <1>4
  <2>3. UNCHANGED <<dest, bak, jstatus>> BY <1>2
  <2>4. QED BY <1>12, <2>1, <2>2, <2>3 DEF IInv, DestInv
<1>14. PlanInv'
  <2>1. \A i \in 1..Len(job[p].plan) : job[p].plan[i] \in Dest BY <1>3
  <2>6. /\ \A i \in 1..Len(job[p].plan) : i < k[p] =>
              jop[job[p].plan[i]].state = "installed" /\ dest[job[p].plan[i]] = job[p].version
        /\ \A i \in 1..Len(job[p].plan) : i > k[p] => jop[job[p].plan[i]].state = "none"
        /\ \A e \in Dest : jop[e].state # "none" => \E i \in 1..k[p] : job[p].plan[i] = e
    BY <1>2, PlanAt DEF Replacing
  <2>2. \A i \in 1..Len(job[p].plan) : i < k[p] =>
          jop'[job[p].plan[i]].state = "installed" /\ dest[job[p].plan[i]] = job[p].version
    BY <1>3, <1>4, <2>1, <2>6
  <2>3. \A i \in 1..Len(job[p].plan) : i > k[p] => jop'[job[p].plan[i]].state = "none"
    BY <1>3, <1>4, <2>1, <2>6
  <2>4. \A e \in Dest : jop'[e].state # "none" => \E i \in 1..k[p] : job[p].plan[i] = e
    BY <1>3, <1>4, <1>6, <2>6
  <2>5. \A q \in Proc : pc'[q] \in Replacing => q = p /\ pc'[q] = "installing"
    BY <1>5 DEF Replacing
  <2>7. UNCHANGED <<dest, job, k>> BY <1>2
  <2>8. QED BY <2>2, <2>3, <2>4, <2>5, <2>7 DEF PlanInv
<1>15. Current(p)' = d BY <1>1, <1>2 DEF Current
<1>16. CurrentInv' BY <1>2, <1>4, <1>5, <1>6, <1>15 DEF CurrentInv
<1>17. RecoverInv' BY <1>5 DEF RecoverInv
<1>18. QED BY <1>7, <1>8, <1>9, <1>10, <1>11, <1>13, <1>14, <1>16, <1>17, <1>12 DEF IInv, Stable

\* The journal announces the install before it starts.
LEMMA MarkInstallingStep == ASSUME IInv, NEW p \in Proc, MarkInstalling(p) PROVE IInv' /\ Stable
<1>1. PICK d \in Dest :
         /\ d = Current(p) /\ d = job[p].plan[k[p]] /\ pc[p] = "installing"
         /\ job[p] \in Jobs /\ job[p].plan \in Seq(Dest) /\ job[p].version \in Version
         /\ k[p] \in 1..Len(job[p].plan) /\ k[p] \in Nat /\ Len(job[p].plan) \in Nat
         /\ \A i \in 1..Len(job[p].plan) : job[p].plan[i] \in Dest
         /\ \A i \in 1..Len(job[p].plan) : job[p].plan[i] = d => i = k[p]
         /\ jop[d].state # "none"
         /\ jop' \in [Dest -> Op] /\ jop'[d].state = "installing"
         /\ \A e \in Dest : jop'[e].had = jop[e].had /\ jop'[e].ready = jop[e].ready
         /\ \A e \in Dest : e # d => jop'[e].state = jop[e].state
         /\ jstatus = "applying"
         /\ UNCHANGED <<dest, bak, backups, jstatus, jlist, holder, mode, job>>
         /\ pc' \in [Proc -> Steps] /\ pc'[p] = "install"
         /\ \A q \in Proc : q # p => pc'[q] = "idle"
         /\ LockInv' /\ StatusInv' /\ JournalInv' /\ RecoverInv'
  BY MarkEffect DEF MarkInstalling, Replacing, OpStates
<1>2. k' = k BY DEF MarkInstalling
<1>3. TypeOK' BY <1>1, <1>2 DEF IInv, TypeOK
<1>4. IndexInv' BY <1>1, <1>2 DEF IInv, IndexInv, Replacing
<1>5. /\ jop[d].had => bak[d] # None /\ jop[d].ready
      /\ ~jop[d].had => bak[d] = None /\ dest[d] = None
      /\ jop[d].state \in {"prepared", "backed_up"}
  BY <1>1 DEF IInv, CurrentInv
<1>6. \A e \in Dest : Settled(e)' = Settled(e)
  <2>1. \A e \in Dest : e # d => Settled(e)' = Settled(e) BY <1>1 DEF Settled, Usable, Created
  <2>2. CASE jop[d].had BY <1>1, <1>5, <2>1, <2>2 DEF Settled, Usable
  <2>3. CASE ~jop[d].had
    <3>1. Settled(d)' = None BY <1>1, <1>5, <2>3 DEF Settled, Usable, Created
    <3>2. Settled(d) = None BY <1>1, <1>5, <2>3 DEF Settled, Usable, Created
    <3>3. QED BY <2>1, <3>1, <3>2
  <2>4. QED BY <2>2, <2>3
<1>7. DestInv' BY <1>1, <1>6 DEF IInv, DestInv
<1>8. PlanInv'
  <2>1. \A i \in 1..Len(job[p].plan) : i < k[p] =>
          jop'[job[p].plan[i]].state = "installed" /\ dest[job[p].plan[i]] = job[p].version
    BY <1>1, PlanAt DEF Replacing
  <2>2. \A i \in 1..Len(job[p].plan) : i > k[p] => jop'[job[p].plan[i]].state = "none"
    BY <1>1, PlanAt DEF Replacing
  <2>3. \A e \in Dest : jop'[e].state # "none" => \E i \in 1..k[p] : job[p].plan[i] = e
    BY <1>1, PlanAt DEF Replacing
  <2>4. QED BY <1>1, <1>2, <2>1, <2>2, <2>3 DEF PlanInv, Replacing
<1>9. Current(p)' = d BY <1>1, <1>2 DEF Current
<1>10. CurrentInv' BY <1>1, <1>5, <1>9 DEF CurrentInv
<1>11. QED BY <1>1, <1>3, <1>4, <1>7, <1>8, <1>10, <1>6 DEF IInv, Stable

\* The journal records the install, and the plan moves on.
LEMMA MarkInstalledStep == ASSUME IInv, NEW p \in Proc, MarkInstalled(p) PROVE IInv' /\ Stable
<1>1. PICK d \in Dest :
         /\ d = Current(p) /\ d = job[p].plan[k[p]] /\ pc[p] = "installed"
         /\ job[p] \in Jobs /\ job[p].plan \in Seq(Dest) /\ job[p].version \in Version
         /\ k[p] \in 1..Len(job[p].plan) /\ k[p] \in Nat /\ Len(job[p].plan) \in Nat
         /\ \A i \in 1..Len(job[p].plan) : job[p].plan[i] \in Dest
         /\ \A i \in 1..Len(job[p].plan) : job[p].plan[i] = d => i = k[p]
         /\ jop[d].state # "none"
         /\ jop' \in [Dest -> Op] /\ jop'[d].state = "installed"
         /\ \A e \in Dest : jop'[e].had = jop[e].had /\ jop'[e].ready = jop[e].ready
         /\ \A e \in Dest : e # d => jop'[e].state = jop[e].state
         /\ jstatus = "applying"
         /\ UNCHANGED <<dest, bak, backups, jstatus, jlist, holder, mode, job>>
         /\ pc' \in [Proc -> Steps] /\ pc'[p] = (IF k[p] = Len(job[p].plan) THEN "commit" ELSE "prepare")
         /\ \A q \in Proc : q # p => pc'[q] = "idle"
         /\ LockInv' /\ StatusInv' /\ JournalInv' /\ RecoverInv'
  BY MarkEffect DEF MarkInstalled, Replacing, OpStates
<1>2. k' = [k EXCEPT ![p] = IF k[p] = Len(job[p].plan) THEN k[p] ELSE k[p] + 1]
  BY DEF MarkInstalled, Index
<1>3. k'[p] = (IF k[p] = Len(job[p].plan) THEN k[p] ELSE k[p] + 1) /\ k' \in [Proc -> Nat]
  BY <1>1, <1>2 DEF IInv, TypeOK
<1>4. TypeOK' BY <1>1, <1>3 DEF IInv, TypeOK
<1>5. k'[p] \in 1..Len(job[p].plan) BY <1>1, <1>3
<1>6. IndexInv' BY <1>1, <1>5 DEF IndexInv, Replacing
<1>7. /\ jop[d].had => bak[d] # None /\ jop[d].ready
      /\ ~jop[d].had => bak[d] = None
      /\ jop[d].state = "installing" /\ dest[d] = job[p].version
  <2>1. d = Current(p) /\ pc[p] = "installed" BY <1>1
  <2>2. QED BY <2>1 DEF IInv, CurrentInv
<1>8. \A e \in Dest : Settled(e)' = Settled(e)
  <2>1. \A e \in Dest : e # d => Settled(e)' = Settled(e) BY <1>1 DEF Settled, Usable, Created
  <2>2. Settled(d)' = Settled(d) BY <1>1, <1>7 DEF Settled, Usable, Created
  <2>3. QED BY <2>1, <2>2
<1>9. DestInv' BY <1>1, <1>8 DEF IInv, DestInv
<1>10. PlanInv'
  <2>1. \A i \in 1..Len(job[p].plan) : i <= k[p] =>
          jop'[job[p].plan[i]].state = "installed" /\ dest[job[p].plan[i]] = job[p].version
    <3>1. \A i \in 1..Len(job[p].plan) : i < k[p] =>
            jop[job[p].plan[i]].state = "installed" /\ dest[job[p].plan[i]] = job[p].version
      BY <1>1 DEF IInv, PlanInv, Replacing
    <3>2. QED BY <1>1, <1>7, <3>1
  <2>2. \A i \in 1..Len(job[p].plan) : i > k[p] => jop'[job[p].plan[i]].state = "none"
    BY <1>1 DEF IInv, PlanInv, Replacing
  <2>3. \A e \in Dest : jop'[e].state # "none" => \E i \in 1..k[p] : job[p].plan[i] = e
    BY <1>1 DEF IInv, PlanInv, Replacing
  <2>4. CASE k[p] = Len(job[p].plan)
    <3>1. k'[p] = k[p] /\ pc'[p] = "commit" BY <1>1, <1>3, <2>4
    <3>2. \A i \in 1..Len(job[p].plan) : i <= k[p] /\ ~(i > k[p]) BY <1>1, <2>4
    <3>3. UNCHANGED <<dest, job>> /\ \A q \in Proc : q # p => pc'[q] = "idle" BY <1>1
    <3>4. \A q \in Proc : pc'[q] \in Replacing => q = p /\ pc'[q] = "commit"
      BY <3>1, <3>3 DEF Replacing
    <3>5. QED BY <2>1, <2>3, <3>1, <3>2, <3>3, <3>4 DEF PlanInv
  <2>5. CASE k[p] # Len(job[p].plan)
    <3>1. k'[p] = k[p] + 1 /\ pc'[p] = "prepare" BY <1>1, <1>3, <2>5
    <3>2. \A i \in 1..Len(job[p].plan) : (i < k'[p] => i <= k[p]) /\ (i >= k'[p] => i > k[p])
      BY <1>1, <3>1
    <3>3. \A i \in 1..k[p] : i \in 1..k'[p] BY <1>1, <3>1
    <3>4. \A e \in Dest : jop'[e].state # "none" => \E i \in 1..k'[p] : job'[p].plan[i] = e
      BY <1>1, <2>3, <3>3
    <3>5. \A i \in 1..Len(job'[p].plan) : i < k'[p] =>
            jop'[job'[p].plan[i]].state = "installed" /\ dest'[job'[p].plan[i]] = job'[p].version
      BY <1>1, <2>1, <3>2
    <3>6. \A i \in 1..Len(job'[p].plan) : i > k'[p] \/ i = k'[p] => jop'[job'[p].plan[i]].state = "none"
      BY <1>1, <1>3, <2>2, <3>1, <3>2
    <3>7. \A q \in Proc : q # p => pc'[q] = "idle" BY <1>1
    <3>8. \A q \in Proc : pc'[q] \in Replacing => q = p /\ pc'[q] = "prepare"
      BY <3>1, <3>7 DEF Replacing
    <3>9. QED BY <3>4, <3>5, <3>6, <3>8 DEF PlanInv
  <2>6. QED BY <2>4, <2>5
<1>11. CurrentInv' BY <1>1 DEF CurrentInv
<1>12. QED BY <1>1, <1>4, <1>6, <1>9, <1>10, <1>11, <1>8 DEF IInv, Stable

\* Recovery starts on the last operation of an applying journal.
LEMMA LoadApplyingStep == ASSUME IInv, NEW p \in Proc, LoadApplying(p) PROVE IInv'
<1>1. pc[p] # "idle" BY DEF LoadApplying
<1>2. \A q \in Proc : q # p => pc[q] = "idle" BY <1>1, Others DEF IInv
<1>3. TypeOK' BY <1>2 DEF IInv, TypeOK, Steps, Replacing, Closing, Recovering, Modes,
     Content, Op, OpStates, LoadApplying, Goto, Index, files, journal
<1>4. LockInv' BY <1>2 DEF IInv, TypeOK, LockInv, LoadApplying, Goto, Index, files, journal
<1>5. StatusInv' BY <1>2 DEF IInv, TypeOK, StatusInv, Replacing, Closing, LoadApplying,
     Goto, Index, files, journal
<1>6. IndexInv' BY <1>2 DEF IInv, TypeOK, IndexInv, Replacing, LoadApplying, Goto, Index,
     files, journal
<1>7. JournalInv' BY <1>2 DEF IInv, TypeOK, JournalInv, InJournal, LoadApplying, Goto,
     Index, files, journal
<1>8. DestInv' BY <1>2 DEF IInv, TypeOK, DestInv, Settled, Usable, Created, LoadApplying,
     Goto, Index, files, journal
<1>9. PlanInv' BY <1>2 DEF IInv, TypeOK, PlanInv, Replacing, LoadApplying, Goto, Index,
     files, journal
<1>10. CurrentInv' BY <1>2 DEF IInv, TypeOK, CurrentInv, Current, LoadApplying, Goto, Index,
     files, journal
<1>11. RecoverInv' BY <1>2 DEF IInv, TypeOK, RecoverInv, Undone, Settled, Usable, Created,
     LoadApplying, Goto, Index, files, journal
<1>12. QED BY <1>3, <1>4, <1>5, <1>6, <1>7, <1>8, <1>9, <1>10, <1>11 DEF IInv

\* Recovery starts on the first backup of a committed journal.
LEMMA LoadCommittedStep == ASSUME IInv, NEW p \in Proc, LoadCommitted(p) PROVE IInv'
<1>1. pc[p] # "idle" BY DEF LoadCommitted
<1>2. \A q \in Proc : q # p => pc[q] = "idle" BY <1>1, Others DEF IInv
<1>3. TypeOK' BY <1>2 DEF IInv, TypeOK, Steps, Replacing, Closing, Recovering, Modes,
     Content, Op, OpStates, LoadCommitted, Goto, Index, files, journal
<1>4. LockInv' BY <1>2 DEF IInv, TypeOK, LockInv, LoadCommitted, Goto, Index, files, journal
<1>5. StatusInv' BY <1>2 DEF IInv, TypeOK, StatusInv, Replacing, Closing, LoadCommitted,
     Goto, Index, files, journal
<1>6. IndexInv' BY <1>2 DEF IInv, TypeOK, IndexInv, Replacing, LoadCommitted, Goto, Index,
     files, journal
<1>7. JournalInv' BY <1>2 DEF IInv, TypeOK, JournalInv, InJournal, LoadCommitted, Goto,
     Index, files, journal
<1>8. DestInv' BY <1>2 DEF IInv, TypeOK, DestInv, Settled, Usable, Created, LoadCommitted,
     Goto, Index, files, journal
<1>9. PlanInv' BY <1>2 DEF IInv, TypeOK, PlanInv, Replacing, LoadCommitted, Goto, Index,
     files, journal
<1>10. CurrentInv' BY <1>2 DEF IInv, TypeOK, CurrentInv, Current, LoadCommitted, Goto,
     Index, files, journal
<1>11. RecoverInv' BY <1>2 DEF IInv, TypeOK, RecoverInv, Undone, Settled, Usable, Created,
     LoadCommitted, Goto, Index, files, journal
<1>12. QED BY <1>3, <1>4, <1>5, <1>6, <1>7, <1>8, <1>9, <1>10, <1>11 DEF IInv

\* A command that is not authorised leaves the journal as it is.
LEMMA LoadRefusedStep == ASSUME IInv, NEW p \in Proc, LoadRefused(p) PROVE IInv'
<1>1. pc[p] # "idle" BY DEF LoadRefused
<1>2. \A q \in Proc : q # p => pc[q] = "idle" BY <1>1, Others DEF IInv
<1>3. TypeOK' BY <1>2 DEF IInv, TypeOK, Steps, Replacing, Closing, Recovering, Modes,
     Content, Op, OpStates, LoadRefused, Leave, Goto, Index, files, journal
<1>4. LockInv' BY <1>2 DEF IInv, TypeOK, LockInv, LoadRefused, Leave, Goto, Index, files,
     journal
<1>5. StatusInv' BY <1>2 DEF IInv, TypeOK, StatusInv, Replacing, Closing, LoadRefused,
     Leave, Goto, Index, files, journal
<1>6. IndexInv' BY <1>2 DEF IInv, TypeOK, IndexInv, Replacing, LoadRefused, Leave, Goto,
     Index, files, journal
<1>7. JournalInv' BY <1>2 DEF IInv, TypeOK, JournalInv, InJournal, LoadRefused, Leave, Goto,
     Index, files, journal
<1>8. DestInv' BY <1>2 DEF IInv, TypeOK, DestInv, Settled, Usable, Created, LoadRefused,
     Leave, Goto, Index, files, journal
<1>9. PlanInv' BY <1>2 DEF IInv, TypeOK, PlanInv, Replacing, LoadRefused, Leave, Goto,
     Index, files, journal
<1>10. CurrentInv' BY <1>2 DEF IInv, TypeOK, CurrentInv, Current, LoadRefused, Leave, Goto,
     Index, files, journal
<1>11. RecoverInv' BY <1>2 DEF IInv, TypeOK, RecoverInv, Undone, Settled, Usable, Created,
     LoadRefused, Leave, Goto, Index, files, journal
<1>12. QED BY <1>3, <1>4, <1>5, <1>6, <1>7, <1>8, <1>9, <1>10, <1>11 DEF IInv

\* An incomplete privileged copy is discarded; the original is still in place.
LEMMA UndoDiscardCopyStep == ASSUME IInv, NEW p \in Proc, UndoDiscardCopy(p) PROVE IInv'
<1>1. pc[p] # "idle" BY DEF UndoDiscardCopy, Undoing
<1>2. \A q \in Proc : q # p => pc[q] = "idle" BY <1>1, Others DEF IInv
<1>3. TypeOK' BY <1>2 DEF IInv, TypeOK, Steps, Replacing, Closing, Recovering, Modes,
     Content, Op, OpStates, UndoDiscardCopy, Undoing, Logged, Goto, Index, journal, IndexInv
<1>4. LockInv' BY <1>2 DEF IInv, TypeOK, LockInv, UndoDiscardCopy, Undoing, Logged, Goto,
     Index, journal
<1>5. StatusInv' BY <1>2 DEF IInv, TypeOK, StatusInv, Replacing, Closing, UndoDiscardCopy,
     Undoing, Logged, Goto, Index, journal
<1>6. IndexInv' BY <1>2 DEF IInv, TypeOK, IndexInv, Replacing, UndoDiscardCopy, Undoing,
     Logged, Goto, Index, journal
<1>7. JournalInv' BY <1>2 DEF IInv, TypeOK, JournalInv, InJournal, UndoDiscardCopy, Undoing,
     Logged, Goto, Index, journal
<1>8. DestInv' BY <1>2, ConstantsOK DEF IInv, TypeOK, DestInv, Settled, Usable, Created,
     UndoDiscardCopy, Undoing, Logged, Goto, Index, journal, StatusInv, Replacing, Closing,
     IndexInv, JournalInv, InJournal
<1>9. PlanInv' BY <1>2 DEF IInv, TypeOK, PlanInv, Replacing, UndoDiscardCopy, Undoing,
     Logged, Goto, Index, journal
<1>10. CurrentInv' BY <1>2 DEF IInv, TypeOK, CurrentInv, Current, UndoDiscardCopy, Undoing,
     Logged, Goto, Index, journal
<1>11. RecoverInv' BY <1>2 DEF IInv, TypeOK, RecoverInv, Undone, Settled, Usable, Created,
     UndoDiscardCopy, Undoing, Logged, Goto, Index, journal, StatusInv, Replacing, Closing,
     IndexInv, JournalInv, InJournal, DestInv
<1>12. QED BY <1>3, <1>4, <1>5, <1>6, <1>7, <1>8, <1>9, <1>10, <1>11 DEF IInv

\* A privileged original is swapped back and its copy stays.
LEMMA UndoRestoreCopyStep == ASSUME IInv, NEW p \in Proc, UndoRestoreCopy(p) PROVE IInv'
<1>1. pc[p] # "idle" BY DEF UndoRestoreCopy, Undoing
<1>2. \A q \in Proc : q # p => pc[q] = "idle" BY <1>1, Others DEF IInv
<1>3. TypeOK' BY <1>2 DEF IInv, TypeOK, Steps, Replacing, Closing, Recovering, Modes,
     Content, Op, OpStates, UndoRestoreCopy, Undoing, Logged, Goto, Index, journal, IndexInv
<1>4. LockInv' BY <1>2 DEF IInv, TypeOK, LockInv, UndoRestoreCopy, Undoing, Logged, Goto,
     Index, journal
<1>5. StatusInv' BY <1>2 DEF IInv, TypeOK, StatusInv, Replacing, Closing, UndoRestoreCopy,
     Undoing, Logged, Goto, Index, journal
<1>6. IndexInv' BY <1>2 DEF IInv, TypeOK, IndexInv, Replacing, UndoRestoreCopy, Undoing,
     Logged, Goto, Index, journal
<1>7. JournalInv' BY <1>2 DEF IInv, TypeOK, JournalInv, InJournal, UndoRestoreCopy, Undoing,
     Logged, Goto, Index, journal
<1>8. DestInv' BY <1>2 DEF IInv, TypeOK, DestInv, Settled, Usable, Created, UndoRestoreCopy,
     Undoing, Logged, Goto, Index, journal, StatusInv, Replacing, Closing, IndexInv,
     JournalInv, InJournal
<1>9. PlanInv' BY <1>2 DEF IInv, TypeOK, PlanInv, Replacing, UndoRestoreCopy, Undoing,
     Logged, Goto, Index, journal
<1>10. CurrentInv' BY <1>2 DEF IInv, TypeOK, CurrentInv, Current, UndoRestoreCopy, Undoing,
     Logged, Goto, Index, journal
<1>11. RecoverInv' BY <1>2 DEF IInv, TypeOK, RecoverInv, Undone, Settled, Usable, Created,
     UndoRestoreCopy, Undoing, Logged, Goto, Index, journal, StatusInv, Replacing, Closing,
     IndexInv, JournalInv, InJournal, DestInv
<1>12. QED BY <1>3, <1>4, <1>5, <1>6, <1>7, <1>8, <1>9, <1>10, <1>11 DEF IInv

\* The destination to be undone is taken away; its backup is untouched.
LEMMA UndoRemoveStep == ASSUME IInv, NEW p \in Proc, UndoRemove(p) PROVE IInv'
<1>1. pc[p] # "idle" BY DEF UndoRemove, Undoing
<1>2. \A q \in Proc : q # p => pc[q] = "idle" BY <1>1, Others DEF IInv
<1>3. TypeOK' BY <1>2 DEF IInv, TypeOK, Steps, Replacing, Closing, Recovering, Modes,
     Content, Op, OpStates, UndoRemove, Undoing, Logged, Goto, Index, journal, local,
     IndexInv
<1>4. LockInv' BY <1>2 DEF IInv, TypeOK, LockInv, UndoRemove, Undoing, Logged, Goto, Index,
     journal, local
<1>5. StatusInv' BY <1>2 DEF IInv, TypeOK, StatusInv, Replacing, Closing, UndoRemove,
     Undoing, Logged, Goto, Index, journal, local
<1>6. IndexInv' BY <1>2 DEF IInv, TypeOK, IndexInv, Replacing, UndoRemove, Undoing, Logged,
     Goto, Index, journal, local
<1>7. JournalInv' BY <1>2 DEF IInv, TypeOK, JournalInv, InJournal, UndoRemove, Undoing,
     Logged, Goto, Index, journal, local
<1>8. DestInv' BY <1>2 DEF IInv, TypeOK, DestInv, Settled, Usable, Created, UndoRemove,
     Undoing, Logged, Goto, Index, journal, local, StatusInv, Replacing, Closing, IndexInv,
     JournalInv, InJournal
<1>9. PlanInv' BY <1>2 DEF IInv, TypeOK, PlanInv, Replacing, UndoRemove, Undoing, Logged,
     Goto, Index, journal, local
<1>10. CurrentInv' BY <1>2 DEF IInv, TypeOK, CurrentInv, Current, UndoRemove, Undoing,
     Logged, Goto, Index, journal, local
<1>11. RecoverInv' BY <1>2 DEF IInv, TypeOK, RecoverInv, Undone, Settled, Usable, Created,
     UndoRemove, Undoing, Logged, Goto, Index, journal, local, StatusInv, Replacing,
     Closing, IndexInv, JournalInv, InJournal, DestInv
<1>12. QED BY <1>3, <1>4, <1>5, <1>6, <1>7, <1>8, <1>9, <1>10, <1>11 DEF IInv

\* The original goes back from the backup in one rename.
LEMMA UndoRenameStep == ASSUME IInv, NEW p \in Proc, UndoRename(p) PROVE IInv'
<1>1. pc[p] # "idle" BY DEF UndoRename, Undoing
<1>2. \A q \in Proc : q # p => pc[q] = "idle" BY <1>1, Others DEF IInv
<1>3. TypeOK' BY <1>2 DEF IInv, TypeOK, Steps, Replacing, Closing, Recovering, Modes,
     Content, Op, OpStates, UndoRename, Undoing, Logged, Goto, Index, journal, IndexInv
<1>4. LockInv' BY <1>2 DEF IInv, TypeOK, LockInv, UndoRename, Undoing, Logged, Goto, Index,
     journal
<1>5. StatusInv' BY <1>2 DEF IInv, TypeOK, StatusInv, Replacing, Closing, UndoRename,
     Undoing, Logged, Goto, Index, journal
<1>6. IndexInv' BY <1>2 DEF IInv, TypeOK, IndexInv, Replacing, UndoRename, Undoing, Logged,
     Goto, Index, journal
<1>7. JournalInv' BY <1>2 DEF IInv, TypeOK, JournalInv, InJournal, UndoRename, Undoing,
     Logged, Goto, Index, journal
<1>8. DestInv' BY <1>2, ConstantsOK DEF IInv, TypeOK, DestInv, Settled, Usable, Created,
     UndoRename, Undoing, Logged, Goto, Index, journal, StatusInv, Replacing, Closing,
     IndexInv, JournalInv, InJournal
<1>9. PlanInv' BY <1>2 DEF IInv, TypeOK, PlanInv, Replacing, UndoRename, Undoing, Logged,
     Goto, Index, journal
<1>10. CurrentInv' BY <1>2 DEF IInv, TypeOK, CurrentInv, Current, UndoRename, Undoing,
     Logged, Goto, Index, journal
<1>11. RecoverInv' BY <1>2 DEF IInv, TypeOK, RecoverInv, Undone, Settled, Usable, Created,
     UndoRename, Undoing, Logged, Goto, Index, journal, StatusInv, Replacing, Closing,
     IndexInv, JournalInv, InJournal, DestInv
<1>12. QED BY <1>3, <1>4, <1>5, <1>6, <1>7, <1>8, <1>9, <1>10, <1>11 DEF IInv

\* An operation that changed nothing, or is already undone, is passed over.
LEMMA UndoSkipStep == ASSUME IInv, NEW p \in Proc, UndoSkip(p) PROVE IInv'
<1>1. pc[p] # "idle" BY DEF UndoSkip, Undoing
<1>2. \A q \in Proc : q # p => pc[q] = "idle" BY <1>1, Others DEF IInv
<1>3. TypeOK' BY <1>2 DEF IInv, TypeOK, Steps, Replacing, Closing, Recovering, Modes,
     Content, Op, OpStates, UndoSkip, Undoing, Logged, Goto, Index, files, journal, IndexInv
<1>4. LockInv' BY <1>2 DEF IInv, TypeOK, LockInv, UndoSkip, Undoing, Logged, Goto, Index,
     files, journal
<1>5. StatusInv' BY <1>2 DEF IInv, TypeOK, StatusInv, Replacing, Closing, UndoSkip, Undoing,
     Logged, Goto, Index, files, journal
<1>6. IndexInv' BY <1>2 DEF IInv, TypeOK, IndexInv, Replacing, UndoSkip, Undoing, Logged,
     Goto, Index, files, journal
<1>7. JournalInv' BY <1>2 DEF IInv, TypeOK, JournalInv, InJournal, UndoSkip, Undoing,
     Logged, Goto, Index, files, journal
<1>8. DestInv' BY <1>2 DEF IInv, TypeOK, DestInv, Settled, Usable, Created, UndoSkip,
     Undoing, Logged, Goto, Index, files, journal, StatusInv, Replacing, Closing, IndexInv,
     JournalInv, InJournal
<1>9. PlanInv' BY <1>2 DEF IInv, TypeOK, PlanInv, Replacing, UndoSkip, Undoing, Logged,
     Goto, Index, files, journal
<1>10. CurrentInv' BY <1>2 DEF IInv, TypeOK, CurrentInv, Current, UndoSkip, Undoing, Logged,
     Goto, Index, files, journal
<1>11. RecoverInv' BY <1>2 DEF IInv, TypeOK, RecoverInv, Undone, Settled, Usable, Created,
     UndoSkip, Undoing, Logged, Goto, Index, files, journal, StatusInv, Replacing, Closing,
     IndexInv, JournalInv, InJournal, DestInv
<1>12. QED BY <1>3, <1>4, <1>5, <1>6, <1>7, <1>8, <1>9, <1>10, <1>11 DEF IInv

\* Every operation of the journal is undone.
LEMMA UndoDoneStep == ASSUME IInv, NEW p \in Proc, UndoDone(p) PROVE IInv'
<1>1. pc[p] # "idle" BY DEF UndoDone
<1>2. \A q \in Proc : q # p => pc[q] = "idle" BY <1>1, Others DEF IInv
<1>3. TypeOK' BY <1>2 DEF IInv, TypeOK, Steps, Replacing, Closing, Recovering, Modes,
     Content, Op, OpStates, UndoDone, Goto, files, journal
<1>4. LockInv' BY <1>2 DEF IInv, TypeOK, LockInv, UndoDone, Goto, files, journal
<1>5. StatusInv' BY <1>2 DEF IInv, TypeOK, StatusInv, Replacing, Closing, UndoDone, Goto,
     files, journal
<1>6. IndexInv' BY <1>2 DEF IInv, TypeOK, IndexInv, Replacing, UndoDone, Goto, files,
     journal
<1>7. JournalInv' BY <1>2 DEF IInv, TypeOK, JournalInv, InJournal, UndoDone, Goto, files,
     journal
<1>8. DestInv' BY <1>2 DEF IInv, TypeOK, DestInv, Settled, Usable, Created, UndoDone, Goto,
     files, journal
<1>9. PlanInv' BY <1>2 DEF IInv, TypeOK, PlanInv, Replacing, UndoDone, Goto, files, journal
<1>10. CurrentInv' BY <1>2 DEF IInv, TypeOK, CurrentInv, Current, UndoDone, Goto, files,
     journal
<1>11. RecoverInv' BY <1>2 DEF IInv, TypeOK, RecoverInv, Undone, Settled, Usable, Created,
     UndoDone, Goto, files, journal, StatusInv, Replacing, Closing, JournalInv, InJournal,
     DestInv
<1>12. QED BY <1>3, <1>4, <1>5, <1>6, <1>7, <1>8, <1>9, <1>10, <1>11 DEF IInv

\* A backup, or a part of it, goes; only a committed journal allows it.
LEMMA DropBackupStep == ASSUME IInv, NEW p \in Proc, DropBackup(p) PROVE IInv'
<1>1. pc[p] # "idle" BY DEF DropBackup, Dropping
<1>2. \A q \in Proc : q # p => pc[q] = "idle" BY <1>1, Others DEF IInv
<1>3. TypeOK' BY <1>2 DEF IInv, TypeOK, Steps, Replacing, Closing, Recovering, Modes,
     Content, Op, OpStates, DropBackup, Dropping, Logged, journal, local, IndexInv
<1>4. LockInv' BY <1>2 DEF IInv, TypeOK, LockInv, DropBackup, Dropping, Logged, journal,
     local
<1>5. StatusInv' BY <1>2 DEF IInv, TypeOK, StatusInv, Replacing, Closing, DropBackup,
     Dropping, Logged, journal, local
<1>6. IndexInv' BY <1>2 DEF IInv, TypeOK, IndexInv, Replacing, DropBackup, Dropping, Logged,
     journal, local
<1>7. JournalInv' BY <1>2 DEF IInv, TypeOK, JournalInv, InJournal, DropBackup, Dropping,
     Logged, journal, local
<1>8. DestInv' BY <1>2 DEF IInv, TypeOK, DestInv, Settled, Usable, Created, DropBackup,
     Dropping, Logged, journal, local, StatusInv, Replacing, Closing, IndexInv, JournalInv,
     InJournal
<1>9. PlanInv' BY <1>2 DEF IInv, TypeOK, PlanInv, Replacing, DropBackup, Dropping, Logged,
     journal, local
<1>10. CurrentInv' BY <1>2 DEF IInv, TypeOK, CurrentInv, Current, DropBackup, Dropping,
     Logged, journal, local
<1>11. RecoverInv' BY <1>2 DEF IInv, TypeOK, RecoverInv, Undone, Settled, Usable, Created,
     DropBackup, Dropping, Logged, journal, local, StatusInv, Replacing, Closing, IndexInv,
     JournalInv, InJournal, DestInv
<1>12. QED BY <1>3, <1>4, <1>5, <1>6, <1>7, <1>8, <1>9, <1>10, <1>11 DEF IInv

\* A dropped backup is behind the index for good.
LEMMA DropSyncedStep == ASSUME IInv, NEW p \in Proc, DropSynced(p) PROVE IInv'
<1>1. pc[p] # "idle" BY DEF DropSynced, Dropping
<1>2. \A q \in Proc : q # p => pc[q] = "idle" BY <1>1, Others DEF IInv
<1>3. TypeOK' BY <1>2 DEF IInv, TypeOK, Steps, Replacing, Closing, Recovering, Modes,
     Content, Op, OpStates, DropSynced, Dropping, Logged, Index, files, journal, IndexInv
<1>4. LockInv' BY <1>2 DEF IInv, TypeOK, LockInv, DropSynced, Dropping, Logged, Index,
     files, journal
<1>5. StatusInv' BY <1>2 DEF IInv, TypeOK, StatusInv, Replacing, Closing, DropSynced,
     Dropping, Logged, Index, files, journal
<1>6. IndexInv' BY <1>2 DEF IInv, TypeOK, IndexInv, Replacing, DropSynced, Dropping, Logged,
     Index, files, journal
<1>7. JournalInv' BY <1>2 DEF IInv, TypeOK, JournalInv, InJournal, DropSynced, Dropping,
     Logged, Index, files, journal
<1>8. DestInv' BY <1>2 DEF IInv, TypeOK, DestInv, Settled, Usable, Created, DropSynced,
     Dropping, Logged, Index, files, journal, StatusInv, Replacing, Closing, IndexInv,
     JournalInv, InJournal
<1>9. PlanInv' BY <1>2 DEF IInv, TypeOK, PlanInv, Replacing, DropSynced, Dropping, Logged,
     Index, files, journal
<1>10. CurrentInv' BY <1>2 DEF IInv, TypeOK, CurrentInv, Current, DropSynced, Dropping,
     Logged, Index, files, journal
<1>11. RecoverInv' BY <1>2 DEF IInv, TypeOK, RecoverInv, Undone, Settled, Usable, Created,
     DropSynced, Dropping, Logged, Index, files, journal, StatusInv, Replacing, Closing,
     IndexInv, JournalInv, InJournal, DestInv
<1>12. QED BY <1>3, <1>4, <1>5, <1>6, <1>7, <1>8, <1>9, <1>10, <1>11 DEF IInv

\* The command that cannot sync a backup's directory leaves everything as it is.
LEMMA DropRefusedStep == ASSUME IInv, NEW p \in Proc, DropRefused(p) PROVE IInv'
<1>1. pc[p] # "idle" BY DEF DropRefused, Dropping
<1>2. \A q \in Proc : q # p => pc[q] = "idle" BY <1>1, Others DEF IInv
<1>3. TypeOK' BY <1>2 DEF IInv, TypeOK, Steps, Replacing, Closing, Recovering, Modes,
     Content, Op, OpStates, DropRefused, Dropping, Logged, Leave, Goto, Index, files,
     journal
<1>4. LockInv' BY <1>2 DEF IInv, TypeOK, LockInv, DropRefused, Dropping, Logged, Leave,
     Goto, Index, files, journal
<1>5. StatusInv' BY <1>2 DEF IInv, TypeOK, StatusInv, Replacing, Closing, DropRefused,
     Dropping, Logged, Leave, Goto, Index, files, journal
<1>6. IndexInv' BY <1>2 DEF IInv, TypeOK, IndexInv, Replacing, DropRefused, Dropping,
     Logged, Leave, Goto, Index, files, journal
<1>7. JournalInv' BY <1>2 DEF IInv, TypeOK, JournalInv, InJournal, DropRefused, Dropping,
     Logged, Leave, Goto, Index, files, journal
<1>8. DestInv' BY <1>2 DEF IInv, TypeOK, DestInv, Settled, Usable, Created, DropRefused,
     Dropping, Logged, Leave, Goto, Index, files, journal
<1>9. PlanInv' BY <1>2 DEF IInv, TypeOK, PlanInv, Replacing, DropRefused, Dropping, Logged,
     Leave, Goto, Index, files, journal
<1>10. CurrentInv' BY <1>2 DEF IInv, TypeOK, CurrentInv, Current, DropRefused, Dropping,
     Logged, Leave, Goto, Index, files, journal
<1>11. RecoverInv' BY <1>2 DEF IInv, TypeOK, RecoverInv, Undone, Settled, Usable, Created,
     DropRefused, Dropping, Logged, Leave, Goto, Index, files, journal
<1>12. QED BY <1>3, <1>4, <1>5, <1>6, <1>7, <1>8, <1>9, <1>10, <1>11 DEF IInv

\* All backups are dropped.
LEMMA DropDoneStep == ASSUME IInv, NEW p \in Proc, DropDone(p) PROVE IInv'
<1>1. pc[p] # "idle" BY DEF DropDone
<1>2. \A q \in Proc : q # p => pc[q] = "idle" BY <1>1, Others DEF IInv
<1>3. TypeOK' BY <1>2 DEF IInv, TypeOK, Steps, Replacing, Closing, Recovering, Modes,
     Content, Op, OpStates, DropDone, Goto, files, journal
<1>4. LockInv' BY <1>2 DEF IInv, TypeOK, LockInv, DropDone, Goto, files, journal
<1>5. StatusInv' BY <1>2 DEF IInv, TypeOK, StatusInv, Replacing, Closing, DropDone, Goto,
     files, journal
<1>6. IndexInv' BY <1>2 DEF IInv, TypeOK, IndexInv, Replacing, DropDone, Goto, files,
     journal
<1>7. JournalInv' BY <1>2 DEF IInv, TypeOK, JournalInv, InJournal, DropDone, Goto, files,
     journal
<1>8. DestInv' BY <1>2 DEF IInv, TypeOK, DestInv, Settled, Usable, Created, DropDone, Goto,
     files, journal
<1>9. PlanInv' BY <1>2 DEF IInv, TypeOK, PlanInv, Replacing, DropDone, Goto, files, journal
<1>10. CurrentInv' BY <1>2 DEF IInv, TypeOK, CurrentInv, Current, DropDone, Goto, files,
     journal
<1>11. RecoverInv' BY DropDoneRecover
<1>12. QED BY <1>3, <1>4, <1>5, <1>6, <1>7, <1>8, <1>9, <1>10, <1>11 DEF IInv

\* The work directory goes with the privileged copies in it.
LEMMA RemoveWorkStep == ASSUME IInv, NEW p \in Proc, RemoveWork(p) PROVE IInv'
<1>1. pc[p] # "idle" BY DEF RemoveWork
<1>2. \A q \in Proc : q # p => pc[q] = "idle" BY <1>1, Others DEF IInv
<1>3. TypeOK' BY <1>2 DEF IInv, TypeOK, Steps, Replacing, Closing, Recovering, Modes,
     Content, Op, OpStates, RemoveWork, Goto, journal
<1>4. LockInv' BY <1>2 DEF IInv, TypeOK, LockInv, RemoveWork, Goto, journal
<1>5. StatusInv' BY <1>2 DEF IInv, TypeOK, StatusInv, Replacing, Closing, RemoveWork, Goto,
     journal
<1>6. IndexInv' BY <1>2 DEF IInv, TypeOK, IndexInv, Replacing, RemoveWork, Goto, journal
<1>7. JournalInv' BY <1>2 DEF IInv, TypeOK, JournalInv, InJournal, RemoveWork, Goto, journal
<1>8. DestInv' BY <1>2, ConstantsOK DEF IInv, TypeOK, DestInv, Settled, Usable, Created,
     RemoveWork, Goto, journal, RecoverInv, Undone
<1>9. PlanInv' BY <1>2 DEF IInv, TypeOK, PlanInv, Replacing, RemoveWork, Goto, journal
<1>10. CurrentInv' BY <1>2 DEF IInv, TypeOK, CurrentInv, Current, RemoveWork, Goto, journal
<1>11. RecoverInv' BY <1>2 DEF IInv, TypeOK, RecoverInv, Undone, Settled, Usable, Created,
     RemoveWork, Goto, journal, DestInv
<1>12. QED BY <1>3, <1>4, <1>5, <1>6, <1>7, <1>8, <1>9, <1>10, <1>11 DEF IInv

\* Transaction.replace moves or copies the original.
LEMMA BackupStep == ASSUME IInv, NEW p \in Proc, Backup(p) PROVE IInv'
<1>1. pc[p] # "idle" BY DEF Backup, Replacing
<1>2. \A q \in Proc : q # p => pc[q] = "idle" BY <1>1, Others DEF IInv
<1>3. TypeOK' BY <1>2 DEF IInv, TypeOK, Steps, Replacing, Closing, Recovering, Modes,
     Content, Op, OpStates, Backup, Current, Goto, journal, IndexInv, LockInv
<1>4. LockInv' BY <1>2 DEF IInv, TypeOK, LockInv, Backup, Current, Goto, journal
<1>5. StatusInv' BY <1>2 DEF IInv, TypeOK, StatusInv, Replacing, Closing, Backup, Current,
     Goto, journal
<1>6. IndexInv' BY <1>2 DEF IInv, TypeOK, IndexInv, Replacing, Backup, Current, Goto,
     journal, LockInv
<1>7. JournalInv' BY <1>2 DEF IInv, TypeOK, JournalInv, InJournal, Backup, Current, Goto,
     journal, PlanInv, Replacing, StatusInv, Closing, CurrentInv, LockInv, IndexInv
<1>8. DestInv' BY BackupEffect
<1>9. PlanInv' BY <1>2 DEF IInv, TypeOK, PlanInv, Replacing, Backup, Current, Goto, journal,
     LockInv, IndexInv, CurrentInv
<1>10. CurrentInv' BY BackupEffect
<1>11. RecoverInv' BY <1>2 DEF IInv, TypeOK, RecoverInv, Undone, Settled, Usable, Created,
     Backup, Current, Goto, journal
<1>12. QED BY <1>3, <1>4, <1>5, <1>6, <1>7, <1>8, <1>9, <1>10, <1>11 DEF IInv

\* Transaction.replace puts the new version in place.
LEMMA InstallStep == ASSUME IInv, NEW p \in Proc, Install(p) PROVE IInv'
<1>1. pc[p] # "idle" BY DEF Install, Replacing
<1>2. \A q \in Proc : q # p => pc[q] = "idle" BY <1>1, Others DEF IInv
<1>3. TypeOK' BY <1>2, ConstantsOK, JobsOK DEF IInv, TypeOK, Steps, Replacing, Closing,
     Recovering, Modes, Content, Op, OpStates, Install, Current, Goto, journal, IndexInv,
     LockInv
<1>4. LockInv' BY <1>2 DEF IInv, TypeOK, LockInv, Install, Current, Goto, journal
<1>5. StatusInv' BY <1>2 DEF IInv, TypeOK, StatusInv, Replacing, Closing, Install, Current,
     Goto, journal
<1>6. IndexInv' BY <1>2 DEF IInv, TypeOK, IndexInv, Replacing, Install, Current, Goto,
     journal, LockInv
<1>7. JournalInv' BY <1>2 DEF IInv, TypeOK, JournalInv, InJournal, Install, Current, Goto,
     journal, PlanInv, Replacing, StatusInv, Closing, CurrentInv, LockInv, IndexInv
<1>8. DestInv' BY <1>2 DEF IInv, TypeOK, DestInv, Settled, Usable, Created, Install,
     Current, Goto, journal, CurrentInv, PlanInv, Replacing, StatusInv, Closing, LockInv,
     IndexInv
<1>9. PlanInv' BY <1>2 DEF IInv, TypeOK, PlanInv, Replacing, Install, Current, Goto,
     journal, LockInv, IndexInv, CurrentInv
<1>10. CurrentInv' BY InstallEffect
<1>11. RecoverInv' BY <1>2 DEF IInv, TypeOK, RecoverInv, Undone, Settled, Usable, Created,
     Install, Current, Goto, journal
<1>12. QED BY <1>3, <1>4, <1>5, <1>6, <1>7, <1>8, <1>9, <1>10, <1>11 DEF IInv

\* Transaction.commit saves the one word that makes the release permanent.
LEMMA CommitStep == ASSUME IInv, NEW p \in Proc, Commit(p) PROVE IInv'
<1>1. pc[p] # "idle" BY DEF Commit, Replacing
<1>2. \A q \in Proc : q # p => pc[q] = "idle" BY <1>1, Others DEF IInv
<1>3. TypeOK' BY <1>2 DEF IInv, TypeOK, Steps, Replacing, Closing, Recovering, Modes,
     Content, Op, OpStates, Commit, Goto, Index, files
<1>4. LockInv' BY <1>2 DEF IInv, TypeOK, LockInv, Commit, Goto, Index, files
<1>5. StatusInv' BY <1>2 DEF IInv, TypeOK, StatusInv, Replacing, Closing, Commit, Goto,
     Index, files
<1>6. IndexInv' BY <1>2 DEF IInv, TypeOK, IndexInv, Replacing, Commit, Goto, Index, files
<1>7. JournalInv' BY <1>2 DEF IInv, TypeOK, JournalInv, InJournal, Commit, Goto, Index,
     files
<1>8. DestInv' BY CommitEffect
<1>9. PlanInv' BY <1>2 DEF IInv, TypeOK, PlanInv, Replacing, Commit, Goto, Index, files
<1>10. CurrentInv' BY <1>2 DEF IInv, TypeOK, CurrentInv, Current, Commit, Goto, Index, files
<1>11. RecoverInv' BY <1>2 DEF IInv, TypeOK, RecoverInv, Undone, Settled, Usable, Created,
     Commit, Goto, Index, files
<1>12. QED BY <1>3, <1>4, <1>5, <1>6, <1>7, <1>8, <1>9, <1>10, <1>11 DEF IInv

\* Transaction.commit deletes the journal after the last backup.
LEMMA CloseStep == ASSUME IInv, NEW p \in Proc, Close(p) PROVE IInv'
<1>1. pc[p] # "idle" BY DEF Close
<1>2. \A q \in Proc : q # p => pc[q] = "idle" BY <1>1, Others DEF IInv
<1>3. TypeOK'
  <2>1. jop' \in [Dest -> Op] BY DEF Close, NoJournal, Op, OpStates, NoOp
  <2>2. pc' \in [Proc -> Steps] BY DEF Close, Goto, IInv, TypeOK, Steps
  <2>3. jlist' \in Seq(Dest) /\ jstatus' = "none" BY DEF Close, NoJournal
  <2>4. QED BY <2>1, <2>2, <2>3 DEF IInv, TypeOK, Close, files
<1>4. LockInv' BY <1>2 DEF IInv, TypeOK, LockInv, Close, NoJournal, NoOp, Goto, files
<1>5. StatusInv' BY <1>2 DEF IInv, TypeOK, StatusInv, Replacing, Closing, Close, NoJournal,
     NoOp, Goto, files
<1>6. IndexInv' BY <1>2 DEF IInv, TypeOK, IndexInv, Replacing, Close, NoJournal, NoOp, Goto,
     files
<1>7. JournalInv' BY <1>2 DEF IInv, TypeOK, JournalInv, InJournal, Close, NoJournal, NoOp,
     Goto, files
<1>8. DestInv' BY <1>2 DEF IInv, TypeOK, DestInv, Settled, Usable, Created, Close,
     NoJournal, NoOp, Goto, files, RecoverInv, Undone, StatusInv, Replacing, Closing
<1>9. PlanInv' BY <1>2 DEF IInv, TypeOK, PlanInv, Replacing, Close, NoJournal, NoOp, Goto,
     files
<1>10. CurrentInv' BY <1>2 DEF IInv, TypeOK, CurrentInv, Current, Close, NoJournal, NoOp,
     Goto, files
<1>11. RecoverInv' BY <1>2 DEF IInv, TypeOK, RecoverInv, Undone, Settled, Usable, Created,
     Close, NoJournal, NoOp, Goto, files
<1>12. QED BY <1>3, <1>4, <1>5, <1>6, <1>7, <1>8, <1>9, <1>10, <1>11 DEF IInv

\* The except clause hands over to recover() with the journal as it is.
LEMMA UnwindStep == ASSUME IInv, NEW p \in Proc, Unwind(p) PROVE IInv'
<1>1. pc[p] # "idle" BY DEF Unwind, Replacing, Closing
<1>2. \A q \in Proc : q # p => pc[q] = "idle" BY <1>1, Others DEF IInv
<1>3. TypeOK' BY <1>2 DEF IInv, TypeOK, Steps, Replacing, Closing, Recovering, Modes,
     Content, Op, OpStates, Unwind, Goto, files, journal
<1>4. LockInv' BY UnwindEffect
<1>5. StatusInv' BY <1>2 DEF IInv, TypeOK, StatusInv, Replacing, Closing, Unwind, Goto,
     files, journal
<1>6. IndexInv' BY <1>2 DEF IInv, TypeOK, IndexInv, Replacing, Unwind, Goto, files, journal
<1>7. JournalInv' BY <1>2 DEF IInv, TypeOK, JournalInv, InJournal, Unwind, Goto, files,
     journal
<1>8. DestInv' BY <1>2 DEF IInv, TypeOK, DestInv, Settled, Usable, Created, Unwind, Goto,
     files, journal
<1>9. PlanInv' BY <1>2 DEF IInv, TypeOK, PlanInv, Replacing, Unwind, Goto, files, journal
<1>10. CurrentInv' BY <1>2 DEF IInv, TypeOK, CurrentInv, Current, Unwind, Goto, files,
     journal
<1>11. RecoverInv' BY <1>2 DEF IInv, TypeOK, RecoverInv, Undone, Settled, Usable, Created,
     Unwind, Goto, files, journal
<1>12. QED BY <1>3, <1>4, <1>5, <1>6, <1>7, <1>8, <1>9, <1>10, <1>11 DEF IInv

\* The finally clause removes the work directory only without a journal.
LEMMA FinallyStep == ASSUME IInv, NEW p \in Proc, Finally(p) PROVE IInv'
<1>1. pc[p] # "idle" BY DEF Finally
<1>2. \A q \in Proc : q # p => pc[q] = "idle" BY <1>1, Others DEF IInv
<1>3. TypeOK' BY <1>2 DEF IInv, TypeOK, Steps, Replacing, Closing, Recovering, Modes,
     Content, Op, OpStates, Finally, Goto, journal
<1>4. LockInv' BY <1>2 DEF IInv, TypeOK, LockInv, Finally, Goto, journal
<1>5. StatusInv' BY <1>2 DEF IInv, TypeOK, StatusInv, Replacing, Closing, Finally, Goto,
     journal
<1>6. IndexInv' BY <1>2 DEF IInv, TypeOK, IndexInv, Replacing, Finally, Goto, journal
<1>7. JournalInv' BY <1>2 DEF IInv, TypeOK, JournalInv, InJournal, Finally, Goto, journal
<1>8. DestInv' BY <1>2 DEF IInv, TypeOK, DestInv, Settled, Usable, Created, Finally, Goto,
     journal
<1>9. PlanInv' BY <1>2 DEF IInv, TypeOK, PlanInv, Replacing, Finally, Goto, journal
<1>10. CurrentInv' BY <1>2 DEF IInv, TypeOK, CurrentInv, Current, Finally, Goto, journal
<1>11. RecoverInv' BY <1>2 DEF IInv, TypeOK, RecoverInv, Undone, Settled, Usable, Created,
     Finally, Goto, journal
<1>12. QED BY <1>3, <1>4, <1>5, <1>6, <1>7, <1>8, <1>9, <1>10, <1>11 DEF IInv

\* The command ends and gives the lock back.
LEMMA ReleaseStep == ASSUME IInv, NEW p \in Proc, Release(p) PROVE IInv'
<1>1. pc[p] # "idle" BY DEF Release
<1>2. \A q \in Proc : q # p => pc[q] = "idle" BY <1>1, Others DEF IInv
<1>3. TypeOK' BY <1>2 DEF IInv, TypeOK, Steps, Replacing, Closing, Recovering, Modes,
     Content, Op, OpStates, Release, Leave, Goto, Index, files, journal
<1>4. LockInv' BY <1>2 DEF IInv, TypeOK, LockInv, Release, Leave, Goto, Index, files,
     journal
<1>5. StatusInv' BY <1>2 DEF IInv, TypeOK, StatusInv, Replacing, Closing, Release, Leave,
     Goto, Index, files, journal
<1>6. IndexInv' BY <1>2 DEF IInv, TypeOK, IndexInv, Replacing, Release, Leave, Goto, Index,
     files, journal
<1>7. JournalInv' BY <1>2 DEF IInv, TypeOK, JournalInv, InJournal, Release, Leave, Goto,
     Index, files, journal
<1>8. DestInv' BY <1>2 DEF IInv, TypeOK, DestInv, Settled, Usable, Created, Release, Leave,
     Goto, Index, files, journal
<1>9. PlanInv' BY <1>2 DEF IInv, TypeOK, PlanInv, Replacing, Release, Leave, Goto, Index,
     files, journal
<1>10. CurrentInv' BY <1>2 DEF IInv, TypeOK, CurrentInv, Current, Release, Leave, Goto,
     Index, files, journal
<1>11. RecoverInv' BY <1>2 DEF IInv, TypeOK, RecoverInv, Undone, Settled, Usable, Created,
     Release, Leave, Goto, Index, files, journal
<1>12. QED BY <1>3, <1>4, <1>5, <1>6, <1>7, <1>8, <1>9, <1>10, <1>11 DEF IInv

\* A death changes nothing on disk and frees the lock.
LEMMA CrashStep == ASSUME IInv, NEW p \in Proc, Crash(p) PROVE IInv'
<1>1. pc[p] # "idle" BY DEF Crash
<1>2. \A q \in Proc : q # p => pc[q] = "idle" BY <1>1, Others DEF IInv
<1>3. TypeOK' BY <1>2 DEF IInv, TypeOK, Steps, Replacing, Closing, Recovering, Modes,
     Content, Op, OpStates, Crash, Leave, Goto, Index, files, journal
<1>4. LockInv' BY <1>2 DEF IInv, TypeOK, LockInv, Crash, Leave, Goto, Index, files, journal
<1>5. StatusInv' BY <1>2 DEF IInv, TypeOK, StatusInv, Replacing, Closing, Crash, Leave,
     Goto, Index, files, journal
<1>6. IndexInv' BY <1>2 DEF IInv, TypeOK, IndexInv, Replacing, Crash, Leave, Goto, Index,
     files, journal
<1>7. JournalInv' BY <1>2 DEF IInv, TypeOK, JournalInv, InJournal, Crash, Leave, Goto,
     Index, files, journal
<1>8. DestInv' BY <1>2 DEF IInv, TypeOK, DestInv, Settled, Usable, Created, Crash, Leave,
     Goto, Index, files, journal
<1>9. PlanInv' BY <1>2 DEF IInv, TypeOK, PlanInv, Replacing, Crash, Leave, Goto, Index,
     files, journal
<1>10. CurrentInv' BY <1>2 DEF IInv, TypeOK, CurrentInv, Current, Crash, Leave, Goto, Index,
     files, journal
<1>11. RecoverInv' BY <1>2 DEF IInv, TypeOK, RecoverInv, Undone, Settled, Usable, Created,
     Crash, Leave, Goto, Index, files, journal
<1>12. QED BY <1>3, <1>4, <1>5, <1>6, <1>7, <1>8, <1>9, <1>10, <1>11 DEF IInv

-----------------------------------------------------------------------------
\* A home without a journal satisfies the invariant.
LEMMA InitInv == Init => IInv
<1> SUFFICES ASSUME Init PROVE IInv OBVIOUS
<1> USE ConstantsOK DEF Init
<1>1. TypeOK
  <2>1. jop \in [Dest -> Op] BY DEF Op, OpStates, NoOp
  <2>2. dest \in [Dest -> Content] /\ bak \in [Dest -> Content] BY DEF Content
  <2>3. pc \in [Proc -> Steps] /\ mode \in [Proc -> Modes] BY DEF Steps, Modes
  <2>4. k \in [Proc -> Nat] /\ job \in [Proc -> Jobs \cup {None}] OBVIOUS
  <2>5. jlist \in Seq(Dest) OBVIOUS
  <2>6. QED BY <2>1, <2>2, <2>3, <2>4, <2>5 DEF TypeOK
<1>2. LockInv BY DEF LockInv
<1>3. StatusInv BY DEF StatusInv, Replacing, Closing
<1>4. IndexInv BY DEF IndexInv, Replacing
<1>5. JournalInv BY DEF JournalInv, InJournal, NoOp
<1>6. DestInv BY DEF DestInv, NoOp
<1>7. PlanInv BY DEF PlanInv, Replacing
<1>8. CurrentInv BY DEF CurrentInv
<1>9. RecoverInv BY DEF RecoverInv
<1>10. QED BY <1>1, <1>2, <1>3, <1>4, <1>5, <1>6, <1>7, <1>8, <1>9 DEF IInv

\* A command that takes the free lock finds the home between two steps of nobody.
LEMMA AcquireStep ==
  ASSUME IInv, NEW p \in Proc, NEW m \in Modes, NEW j \in Jobs, Acquire(p, m, j)
  PROVE  IInv'
<1>1. pc[p] = "idle" /\ holder = None BY DEF Acquire, LockFree
<1>2. \A q \in Proc : pc[q] = "idle" BY <1>1, ConstantsOK DEF IInv, LockInv
<1>3. /\ holder' = p /\ job' = [job EXCEPT ![p] = j] /\ mode' = [mode EXCEPT ![p] = m]
      /\ pc' = [pc EXCEPT ![p] = "load"] /\ UNCHANGED <<files, journal, k>>
  BY DEF Acquire, Goto
<1>4. \A q \in Proc : pc'[q] = (IF q = p THEN "load" ELSE "idle")
  BY <1>2, <1>3 DEF IInv, TypeOK
<1>5. TypeOK' BY <1>3 DEF IInv, TypeOK, Steps, Recovering, files, journal
<1>6. LockInv' BY <1>3, <1>4 DEF IInv, TypeOK, LockInv
<1>7. StatusInv' /\ IndexInv' BY <1>4 DEF StatusInv, IndexInv, Replacing, Closing
<1>8. JournalInv' BY <1>3 DEF IInv, JournalInv, InJournal, journal
<1>9. DestInv' BY <1>3 DEF IInv, DestInv, Settled, Usable, Created, files, journal
<1>10. PlanInv' /\ CurrentInv' BY <1>4 DEF PlanInv, CurrentInv, Replacing
<1>11. RecoverInv' BY <1>4 DEF RecoverInv
<1>12. QED BY <1>5, <1>6, <1>7, <1>8, <1>9, <1>10, <1>11 DEF IInv

\* The invariant is about the variables only.
LEMMA StutterStep == IInv /\ UNCHANGED vars => IInv'
<1> SUFFICES ASSUME IInv, UNCHANGED vars PROVE IInv' OBVIOUS
<1> USE DEF vars, files, journal, local
<1>1. TypeOK' BY DEF IInv, TypeOK
<1>2. LockInv' /\ StatusInv' BY DEF IInv, LockInv, StatusInv
<1>3. IndexInv' BY DEF IInv, IndexInv
<1>4. JournalInv' BY DEF IInv, JournalInv, InJournal
<1>5. DestInv' BY DEF IInv, DestInv, Settled, Usable, Created
<1>6. PlanInv' BY DEF IInv, PlanInv
<1>7. CurrentInv' BY DEF IInv, CurrentInv, Current
<1>8. RecoverInv' BY DEF IInv, RecoverInv, Undone, Settled, Usable, Created
<1>9. QED BY <1>1, <1>2, <1>3, <1>4, <1>5, <1>6, <1>7, <1>8 DEF IInv

\* Every step of every command, every failure and every death preserves IInv.
LEMMA NextInv == IInv /\ [Next]_vars => IInv'
<1> SUFFICES ASSUME IInv, [Next]_vars PROVE IInv' OBVIOUS
<1>1. CASE UNCHANGED vars BY <1>1, StutterStep
<1>2. ASSUME NEW p \in Proc, NEW m \in Modes, NEW j \in Jobs, Acquire(p, m, j) PROVE IInv'
  BY <1>2, AcquireStep
<1>3. ASSUME NEW p \in Proc, Recover(p) PROVE IInv'
  <2>1. CASE LoadNothing(p) \/ LoadApplying(p) \/ LoadCommitted(p) \/ LoadRefused(p)
    BY <2>1, LoadNothingStep, LoadApplyingStep, LoadCommittedStep, LoadRefusedStep
  <2>2. CASE Undo(p)
    BY <2>2, UndoDiscardCopyStep, UndoRestoreCopyStep, UndoRemoveStep, UndoRenameStep,
       UndoSkipStep, UndoDoneStep DEF Undo
  <2>3. CASE Drop(p)
    BY <2>3, DropBackupStep, DropSyncedStep, DropRefusedStep, DropDoneStep DEF Drop
  <2>4. CASE RemoveWork(p) \/ Unlink(p) BY <2>4, RemoveWorkStep, UnlinkStep
  <2>5. QED BY <1>3, <2>1, <2>2, <2>3, <2>4 DEF Recover
<1>4. ASSUME NEW p \in Proc, Transact(p) PROVE IInv'
  <2>1. CASE Begin(p) \/ Prepare(p) \/ MarkBackingUp(p) \/ Backup(p) \/ MarkBackedUp(p)
    BY <2>1, BeginStep, PrepareStep, MarkBackingUpStep, BackupStep, MarkBackedUpStep
  <2>2. CASE MarkInstalling(p) \/ Install(p) \/ MarkInstalled(p) \/ Commit(p)
    BY <2>2, MarkInstallingStep, InstallStep, MarkInstalledStep, CommitStep
  <2>3. CASE Close(p) \/ Finally(p) \/ Release(p)
    BY <2>3, CloseStep, FinallyStep, ReleaseStep
  <2>4. QED BY <1>4, <2>1, <2>2, <2>3 DEF Transact
<1>5. ASSUME NEW p \in Proc, Unwind(p) \/ Crash(p) PROVE IInv'
  BY <1>5, UnwindStep, CrashStep
<1>6. QED BY <1>1, <1>2, <1>3, <1>4, <1>5 DEF Next

\* The invariant holds in every behaviour.
THEOREM Invariant == Spec => []IInv
BY InitInv, NextInv, PTL DEF Spec

\* Every variable keeps its type, whatever is interrupted.
THEOREM TypeCorrect == Spec => []TypeOK
<1>1. IInv => TypeOK BY DEF IInv
<1>2. QED BY <1>1, Invariant, PTL

\* Two commands are never inside the locked region at once.
THEOREM LockExcludes == Spec => []Serialized
<1>1. IInv => Serialized BY DEF IInv, LockInv, Serialized
<1>2. QED BY <1>1, Invariant, PTL

\* Without a journal, no backup is waiting and no destination is torn.
THEOREM NothingIsHalfDone == Spec => []NothingHalfDone
<1>1. IInv => NothingHalfDone
  BY DEF IInv, NothingHalfDone, JournalInv, InJournal, DestInv
<1>2. QED BY <1>1, Invariant, PTL

\* What an applying journal would undo still exists whole.
THEOREM OriginalIsKept == Spec => []OriginalSurvives
<1>1. IInv => OriginalSurvives
  <2> SUFFICES ASSUME IInv, jstatus = "applying", NEW d \in Dest
      PROVE bak[d] # Torn /\ (jop[d].had => Settled(d) \in Version)
    BY DEF OriginalSurvives
  <2>1. Settled(d) \in Content BY DEF IInv, TypeOK, Settled, Content
  <2>2. QED BY <2>1 DEF IInv, DestInv, Content
<1>2. QED BY <1>1, Invariant, PTL


-----------------------------------------------------------------------------
\* A destination changes only while a journal is applying, and only the one the
\* command is at.
LEMMA DestChange ==
  ASSUME NEW p \in Proc, Recover(p) \/ Transact(p) \/ Unwind(p) \/ Crash(p),
         TypeOK, NEW d \in Dest, dest'[d] # dest[d]
  PROVE  \/ pc[p] = "undo" /\ k[p] > 0 /\ d = Logged(p)
         \/ pc[p] \in {"backup", "install"} /\ d = Current(p)
<1> USE DEF TypeOK
<1>1. CASE LoadNothing(p) \/ LoadApplying(p) \/ LoadCommitted(p) \/ LoadRefused(p)
  BY <1>1 DEF LoadNothing, LoadApplying, LoadCommitted, LoadRefused, files
<1>2. CASE Undo(p)
  BY <1>2 DEF Undo, Undoing, UndoDiscardCopy, UndoRestoreCopy, UndoRemove, UndoRename,
     UndoSkip, UndoDone, files
<1>3. CASE Drop(p)
  BY <1>3 DEF Drop, DropBackup, DropSynced, DropRefused, DropDone, files
<1>4. CASE RemoveWork(p) \/ Unlink(p) BY <1>4 DEF RemoveWork, Unlink, files
<1>5. CASE Begin(p) \/ Prepare(p) \/ MarkBackingUp(p) \/ Backup(p) \/ MarkBackedUp(p)
  BY <1>5 DEF Begin, Prepare, MarkBackingUp, Backup, MarkBackedUp, Mark, files
<1>6. CASE MarkInstalling(p) \/ Install(p) \/ MarkInstalled(p) \/ Commit(p)
  BY <1>6 DEF MarkInstalling, Install, MarkInstalled, Commit, Mark, files
<1>7. CASE Close(p) \/ Finally(p) \/ Release(p) \/ Unwind(p) \/ Crash(p)
  BY <1>7 DEF Close, Finally, Release, Unwind, Crash, files
<1>8. QED
  BY <1>1, <1>2, <1>3, <1>4, <1>5, <1>6, <1>7 DEF Recover, Transact

\* Acquiring the lock changes no file.
LEMMA AcquireKeeps ==
  ASSUME NEW p \in Proc, NEW m, NEW j, Acquire(p, m, j)
  PROVE  UNCHANGED <<dest, bak, jstatus, jlist, jop>>
BY DEF Acquire, files, journal

\* Recovery never touches the destinations of a committed journal.
THEOREM CommittedStays == Spec => CommittedIsKept
<1>1. IInv /\ IInv' /\ [Next]_vars => [jstatus = "committed" => dest' = dest]_vars
  <2> SUFFICES ASSUME IInv, IInv', Next, jstatus = "committed" PROVE dest' = dest
    BY DEF vars
  <2>1. CASE \E p \in Proc, m \in Modes, j \in Jobs : Acquire(p, m, j)
    BY <2>1, AcquireKeeps
  <2>2. ASSUME NEW p \in Proc, Recover(p) \/ Transact(p) \/ Unwind(p) \/ Crash(p),
               NEW d \in Dest
        PROVE  dest'[d] = dest[d]
    <3>1. pc[p] \notin {"undo", "backup", "install"} BY DEF IInv, StatusInv, Replacing
    <3>2. QED BY <2>2, <3>1, DestChange DEF IInv
  <2>3. QED BY <2>1, <2>2 DEF Next, IInv, TypeOK
<1>2. QED BY <1>1, Invariant, PTL DEF Spec, CommittedIsKept

\* A command undoes only a journal it is authorised for.
AuthInv == \A p \in Proc : pc[p] = "undo" => Authorized(p)

\* An undo step is a step of a command that passed the authorisation check.
LEMMA UndoAuthorized ==
  ASSUME IInv, NEW p \in Proc, Recover(p) \/ Transact(p) \/ Unwind(p) \/ Crash(p),
         pc'[p] = "undo"
  PROVE  /\ pc[p] = "undo" \/ Authorized(p)
         /\ UNCHANGED <<jlist, job>>
<1> USE DEF IInv, TypeOK, Goto
<1>1. CASE LoadNothing(p) \/ LoadCommitted(p) \/ LoadRefused(p)
  BY <1>1 DEF LoadNothing, LoadCommitted, LoadRefused, AfterRecover, Leave, Modes
<1>2. CASE LoadApplying(p) BY <1>2 DEF LoadApplying, journal
<1>3. CASE Undo(p)
  BY <1>3 DEF Undo, Undoing, UndoDiscardCopy, UndoRestoreCopy, UndoRemove, UndoRename,
     UndoSkip, UndoDone, journal, local
<1>4. CASE Drop(p)
  BY <1>4 DEF Drop, Dropping, DropBackup, DropSynced, DropRefused, DropDone, Leave, local
<1>5. CASE RemoveWork(p) BY <1>5 DEF RemoveWork
<1>6. CASE Unlink(p) BY <1>6 DEF Unlink, AfterRecover, Modes
<1>7. CASE Begin(p) \/ Prepare(p) \/ MarkBackingUp(p) \/ Backup(p) \/ MarkBackedUp(p)
  BY <1>7 DEF Begin, Prepare, MarkBackingUp, Backup, MarkBackedUp, Mark
<1>8. CASE MarkInstalling(p) \/ Install(p) \/ MarkInstalled(p) \/ Commit(p)
  BY <1>8 DEF MarkInstalling, Install, MarkInstalled, Commit, Mark
<1>9. CASE Close(p) \/ Finally(p) \/ Release(p) \/ Unwind(p) \/ Crash(p)
  BY <1>9 DEF Close, Finally, Release, Unwind, Crash, Leave
<1>10. QED
  BY <1>1, <1>2, <1>3, <1>4, <1>5, <1>6, <1>7, <1>8, <1>9 DEF Recover, Transact

\* While one command steps, no other is anywhere.
LEMMA Alone ==
  ASSUME IInv, NEW p \in Proc, Recover(p) \/ Transact(p) \/ Unwind(p) \/ Crash(p)
  PROVE  pc[p] # "idle" /\ holder = p /\ job[p] \in Jobs
         /\ \A q \in Proc : q # p => pc[q] = "idle"
<1>1. CASE Recover(p)
  <2>1. pc[p] # "idle"
    BY <1>1 DEF Recover, LoadNothing, LoadApplying, LoadCommitted, LoadRefused, Undo, Undoing,
       UndoDiscardCopy, UndoRestoreCopy, UndoRemove, UndoRename, UndoSkip, UndoDone, Drop,
       Dropping, DropBackup, DropSynced, DropRefused, DropDone, RemoveWork, Unlink
  <2>2. QED BY <2>1, Others DEF IInv, LockInv
<1>2. CASE Transact(p)
  <2>1. pc[p] # "idle"
    BY <1>2 DEF Transact, Begin, Prepare, MarkBackingUp, Backup, MarkBackedUp, MarkInstalling,
       Install, MarkInstalled, Commit, Close, Finally, Release, Mark
  <2>2. QED BY <2>1, Others DEF IInv, LockInv
<1>3. CASE Unwind(p) \/ Crash(p)
  <2>1. pc[p] # "idle" BY <1>3 DEF Unwind, Crash, Replacing, Closing
  <2>2. QED BY <2>1, Others DEF IInv, LockInv
<1>4. QED BY <1>1, <1>2, <1>3

\* A command moves no control but its own.
LEMMA OthersStay ==
  ASSUME IInv, NEW p \in Proc, Recover(p) \/ Transact(p) \/ Unwind(p) \/ Crash(p)
  PROVE  \A q \in Proc : q # p => pc'[q] = pc[q]
<1> USE DEF IInv, TypeOK, Goto, local
<1>1. CASE Recover(p)
  BY <1>1 DEF Recover, LoadNothing, LoadApplying, LoadCommitted, LoadRefused, Leave, Undo,
     UndoDiscardCopy, UndoRestoreCopy, UndoRemove, UndoRename, UndoSkip, UndoDone, Drop,
     DropBackup, DropSynced, DropRefused, DropDone, RemoveWork, Unlink, AfterRecover
<1>2. CASE Transact(p)
  BY <1>2 DEF Transact, Begin, Prepare, MarkBackingUp, Backup, MarkBackedUp, MarkInstalling,
     Install, MarkInstalled, Commit, Close, Finally, Release, Mark, Leave
<1>3. CASE Unwind(p) \/ Crash(p) BY <1>3 DEF Unwind, Crash, Leave
<1>4. QED BY <1>1, <1>2, <1>3

\* The check made when recovery starts holds to its end: the journal does not change.
LEMMA AuthStep == IInv /\ AuthInv /\ [Next]_vars => AuthInv'
<1> SUFFICES ASSUME IInv, AuthInv, [Next]_vars PROVE AuthInv' OBVIOUS
<1>1. CASE UNCHANGED vars BY <1>1 DEF AuthInv, Authorized, vars, journal, local
<1>2. ASSUME NEW p \in Proc, NEW m \in Modes, NEW j \in Jobs, Acquire(p, m, j) PROVE AuthInv'
  <2>1. \A q \in Proc : pc[q] = "idle"
    BY <1>2, ConstantsOK DEF Acquire, LockFree, IInv, LockInv
  <2>2. \A q \in Proc : pc'[q] # "undo" BY <1>2, <2>1 DEF Acquire, Goto, IInv, TypeOK
  <2>3. QED BY <2>2 DEF AuthInv
<1>3. ASSUME NEW p \in Proc, Recover(p) \/ Transact(p) \/ Unwind(p) \/ Crash(p) PROVE AuthInv'
  <2>1. \A q \in Proc : q # p => pc[q] = "idle" BY <1>3, Alone
  <2>2. \A q \in Proc : q # p => pc'[q] = pc[q] BY <1>3, OthersStay
  <2>3. \A q \in Proc : pc'[q] = "undo" => q = p BY <2>1, <2>2
  <2>4. pc'[p] = "undo" => Authorized(p)'
    <3>1. pc'[p] = "undo" => Authorized(p) /\ UNCHANGED <<jlist, job>>
      BY <1>3, UndoAuthorized DEF AuthInv
    <3>2. QED BY <3>1 DEF Authorized
  <2>5. QED BY <2>3, <2>4 DEF AuthInv
<1>4. QED BY <1>1, <1>2, <1>3 DEF Next

\* An external binary is changed only by a command authorised for that exact path.
THEOREM BinaryAuthorized == Spec => OnlyAuthorizedBinary
<1>1. Init => AuthInv BY DEF Init, AuthInv
<1>2. Spec => []AuthInv BY <1>1, AuthStep, Invariant, PTL DEF Spec
<1>3. IInv /\ AuthInv /\ [Next]_vars =>
        [\A d \in External : dest'[d] # dest[d] => \E p \in Proc : holder = p /\ job[p].binary = d]_vars
  <2> SUFFICES ASSUME IInv, AuthInv, Next, NEW d \in External, dest'[d] # dest[d]
      PROVE  \E p \in Proc : holder = p /\ job[p].binary = d
    BY DEF vars
  <2>1. PICK p \in Proc : Recover(p) \/ Transact(p) \/ Unwind(p) \/ Crash(p)
    BY AcquireKeeps DEF Next
  <2>2. holder = p /\ job[p] \in Jobs BY <2>1, Alone
  <2>3. \/ pc[p] = "undo" /\ k[p] > 0 /\ d = Logged(p)
        \/ pc[p] \in {"backup", "install"} /\ d = Current(p)
    BY <2>1, DestChange, ConstantsOK DEF IInv
  <2>4. CASE pc[p] = "undo" /\ k[p] > 0 /\ d = Logged(p)
    <3>1. Authorized(p) /\ k[p] \in 1..Len(jlist)
      BY <2>4 DEF AuthInv, IInv, IndexInv, TypeOK
    <3>2. job[p].binary = d BY <2>4, <3>1 DEF Authorized, Logged
    <3>3. QED BY <2>2, <3>2
  <2>5. CASE pc[p] \in {"backup", "install"} /\ d = Current(p)
    <3>1. k[p] \in 1..Len(job[p].plan) BY <2>5 DEF IInv, IndexInv, Replacing
    <3>2. job[p].binary = d BY <2>2, <2>5, <3>1, JobsOK DEF Current
    <3>3. QED BY <2>2, <3>2
  <2>6. QED BY <2>3, <2>4, <2>5
<1>4. QED BY <1>2, <1>3, Invariant, PTL DEF Spec, OnlyAuthorizedBinary

-----------------------------------------------------------------------------
(* The transaction implements AtomicReplacement.                            *)

\* A step that touches neither files nor journal changes nothing recovery would do.
LEMMA Untouched == UNCHANGED <<dest, bak, jstatus, jop>> => Stable
BY DEF Stable, Settled, Usable, Created

\* Undoing one operation is invisible at the abstract level.
LEMMA UndoStable == ASSUME IInv, NEW p \in Proc, Undo(p) PROVE Stable
<1>1. PICK d : d = Logged(p) OBVIOUS
<1>2. pc[p] = "undo" /\ UNCHANGED <<jstatus, jop>> 
  BY DEF Undo, Undoing, UndoDiscardCopy, UndoRestoreCopy, UndoRemove, UndoRename, UndoSkip,
     UndoDone, journal
<1>3. jstatus = "applying" BY <1>2 DEF IInv, StatusInv
<1>4. CASE UndoSkip(p) \/ UndoDone(p) BY <1>4, Untouched DEF UndoSkip, UndoDone, files, journal
<1>5. CASE k[p] > 0
  <2>1. d \in Dest /\ jop[d].state # "none"
    <3>1. k[p] \in 1..Len(jlist) BY <1>2, <1>5 DEF IInv, IndexInv, TypeOK
    <3>2. QED BY <1>1, <3>1 DEF Logged, IInv, JournalInv, InJournal, TypeOK
  <2>2. \A e \in Dest : e # d /\ dest'[e] = dest[e] /\ bak'[e] = bak[e] => Settled(e)' = Settled(e)
    BY <1>2 DEF Settled, Usable, Created
  <2>3. CASE UndoDiscardCopy(p)
    <3>1. /\ bak[d] # None /\ ~Usable(d) /\ bak'[d] = None
          /\ dest' = dest /\ \A e \in Dest : e # d => bak'[e] = bak[e]
      BY <1>1, <2>1, <2>3 DEF UndoDiscardCopy, IInv, TypeOK
    <3>2. jop[d].had BY <1>3, <2>1, <3>1 DEF IInv, DestInv
    <3>3. Settled(d) = dest[d] BY <3>1, <3>2 DEF Settled, Created
    <3>4. Settled(d)' = dest[d] BY <1>2, <3>1, <3>2 DEF Settled, Usable, Created
    <3>5. QED BY <2>2, <3>1, <3>3, <3>4 DEF Stable
  <2>4. CASE UndoRestoreCopy(p)
    <3>1. /\ Usable(d) /\ bak' = bak /\ \A e \in Dest : e # d => dest'[e] = dest[e]
      BY <1>1, <2>4 DEF UndoRestoreCopy, IInv, TypeOK
    <3>2. Settled(d)' = bak[d] /\ Settled(d) = bak[d]
      BY <1>2, <1>3, <2>1, <3>1 DEF Settled, Usable
    <3>3. QED BY <2>2, <3>1, <3>2 DEF Stable
  <2>5. CASE UndoRemove(p)
    <3>1. /\ Created(d) \/ Usable(d) 
          /\ bak' = bak /\ \A e \in Dest : e # d => dest'[e] = dest[e]
      BY <1>1, <2>5 DEF UndoRemove, IInv, TypeOK
    <3>2. Settled(d)' = Settled(d)
      BY <1>2, <1>3, <2>1, <3>1 DEF Settled, Usable, Created
    <3>3. QED BY <2>2, <3>1, <3>2 DEF Stable
  <2>6. CASE UndoRename(p)
    <3>1. /\ Usable(d) /\ bak'[d] = None /\ dest'[d] = bak[d] /\ bak[d] # None
          /\ \A e \in Dest : e # d => dest'[e] = dest[e] /\ bak'[e] = bak[e]
      BY <1>1, <2>1, <2>6 DEF UndoRename, Usable, IInv, TypeOK
    <3>2. jop[d].had BY <1>3, <2>1, <3>1 DEF IInv, DestInv
    <3>3. Settled(d) = bak[d] BY <1>3, <2>1, <3>1 DEF Settled
    <3>4. Settled(d)' = bak[d] BY <1>2, <3>1, <3>2 DEF Settled, Usable, Created
    <3>5. QED BY <2>2, <3>1, <3>3, <3>4 DEF Stable
  <2>7. QED BY <1>4, <2>3, <2>4, <2>5, <2>6 DEF Undo
<1>6. QED BY <1>4, <1>5 DEF Undo, Undoing, UndoDiscardCopy, UndoRestoreCopy, UndoRemove, UndoRename

\* Dropping a backup of a committed journal is invisible.
LEMMA DropStable == ASSUME IInv, NEW p \in Proc, Drop(p) PROVE Stable
<1>1. UNCHANGED <<dest, jstatus, jop>> BY DEF Drop, DropBackup, DropSynced, DropRefused, DropDone, files, journal
<1>2. jstatus = "committed"
  BY DEF Drop, Dropping, DropBackup, DropSynced, DropRefused, DropDone, IInv, StatusInv, Closing
<1>3. QED BY <1>1, <1>2 DEF Stable, Settled

\* Removing the work directory is invisible.
LEMMA RemoveWorkStable == ASSUME IInv, NEW p \in Proc, RemoveWork(p) PROVE Stable
<1>1. pc[p] = "rm_work" /\ UNCHANGED <<dest, jstatus, jop>>
      /\ \A d \in Dest : bak'[d] = bak[d] \/ bak'[d] = None
  BY ConstantsOK DEF RemoveWork, journal, IInv, TypeOK
<1>2. \A d \in Dest : Undone(d) BY <1>1 DEF IInv, RecoverInv
<1>3. ASSUME NEW d \in Dest PROVE Settled(d)' = Settled(d)
  <2>1. CASE bak'[d] = bak[d] BY <1>1, <2>1 DEF Settled, Usable, Created
  <2>2. CASE bak[d] # None /\ bak'[d] = None
    <3>1. CASE jstatus = "applying"
      <4>1. jop[d].had BY <2>2, <3>1 DEF IInv, DestInv
      <4>2. Settled(d)' = dest[d] BY <1>1, <2>2, <4>1 DEF Settled, Usable, Created
      <4>3. QED BY <1>2, <4>2 DEF Undone
    <3>2. CASE jstatus # "applying" BY <1>1, <3>2 DEF Settled
    <3>3. QED BY <3>1, <3>2
  <2>3. QED BY <1>1, <2>1, <2>2
<1>4. QED BY <1>3 DEF Stable

\* Deleting the journal is invisible: nothing is left for recovery to do.
LEMMA NoJournalStable ==
  ASSUME IInv, NEW p \in Proc, Unlink(p) \/ Close(p) \/ Begin(p)
  PROVE  Stable
<1>1. dest' = dest /\ \A d \in Dest : Settled(d)' = dest'[d]
  <2>1. \A d \in Dest : jop'[d].state = "none" BY DEF Unlink, Close, Begin, NoJournal, NoOp
  <2>2. QED BY <2>1 DEF Unlink, Close, Begin, files, Settled
<1>2. \A d \in Dest : Settled(d) = dest[d]
  <2>1. CASE Unlink(p) BY <2>1 DEF Unlink, IInv, RecoverInv
  <2>2. CASE Close(p) BY <2>2 DEF Close, Closing, IInv, StatusInv, Settled
  <2>3. CASE Begin(p) BY <2>3 DEF Begin, IInv, StatusInv, Settled
  <2>4. QED BY <2>1, <2>2, <2>3
<1>3. QED BY <1>1, <1>2 DEF Stable

\* The rename that installs is invisible: until the commit recovery would undo it.
LEMMA InstallStable == ASSUME IInv, NEW p \in Proc, Install(p) PROVE Stable
<1>1. PICK d \in Dest : d = Current(p) BY Here DEF Install, Replacing
<1>2. /\ pc[p] = "install" /\ UNCHANGED <<bak, jstatus, jop>>
      /\ \A e \in Dest : e # d => dest'[e] = dest[e]
  BY <1>1 DEF Install, journal, IInv, TypeOK
<1>3. /\ jop[d].had => bak[d] # None /\ jop[d].ready
      /\ ~jop[d].had => bak[d] = None
      /\ jop[d].state = "installing"
  BY <1>1, <1>2 DEF IInv, CurrentInv
<1>4. jstatus = "applying" BY <1>2 DEF IInv, StatusInv, Replacing
<1>5. Settled(d)' = Settled(d) BY <1>2, <1>3, <1>4 DEF Settled, Usable, Created
<1>6. \A e \in Dest : e # d => Settled(e)' = Settled(e) BY <1>2 DEF Settled, Usable, Created
<1>7. QED BY <1>5, <1>6 DEF Stable

\* The one step that changes what is installed: `committed` is saved.
LEMMA CommitReplaces ==
  ASSUME IInv, NEW p \in Proc, Commit(p)
  PROVE  /\ job[p] \in Jobs
         /\ \A d \in Dest : Settled(d)' = IF d \in Range(job[p].plan) THEN job[p].version ELSE Settled(d)
<1>1. /\ job[p] \in Jobs /\ job[p].plan \in Seq(Dest) /\ k[p] \in 1..Len(job[p].plan)
      /\ jstatus = "applying"
  BY Here DEF Commit, Replacing
<1>2. pc[p] = "commit" /\ jstatus' = "committed" /\ UNCHANGED <<dest, bak, jop>>
  BY DEF Commit, files
<1>3. \A d \in Dest : Settled(d)' = dest[d] BY <1>2 DEF Settled
<1>4. \A d \in Dest : d \in Range(job[p].plan) <=> \E i \in 1..Len(job[p].plan) : job[p].plan[i] = d
  BY <1>1 DEF Range
<1>5. \A i \in 1..Len(job[p].plan) : dest[job[p].plan[i]] = job[p].version
  BY <1>2 DEF IInv, PlanInv, Replacing
<1>6. \A d \in Dest : jop[d].state # "none" => \E i \in 1..Len(job[p].plan) : job[p].plan[i] = d
  BY <1>1, <1>2 DEF IInv, PlanInv, Replacing
<1>7. \A d \in Dest : d \notin Range(job[p].plan) => Settled(d) = dest[d]
  BY <1>4, <1>6 DEF Settled
<1>8. QED BY <1>1, <1>3, <1>4, <1>5, <1>7

\* Every step but the commit is invisible at the abstract level.
LEMMA StepStable ==
  ASSUME IInv, Next, \A p \in Proc : ~Commit(p)
  PROVE  Stable
<1>1. ASSUME NEW p \in Proc, NEW m \in Modes, NEW j \in Jobs, Acquire(p, m, j) PROVE Stable
  BY <1>1, AcquireKeeps, Untouched
<1>2. ASSUME NEW p \in Proc, Recover(p) PROVE Stable
  <2>1. CASE LoadNothing(p) \/ LoadApplying(p) \/ LoadCommitted(p) \/ LoadRefused(p)
    BY <2>1, Untouched DEF LoadNothing, LoadApplying, LoadCommitted, LoadRefused, files, journal
  <2>2. QED BY <1>2, <2>1, UndoStable, DropStable, RemoveWorkStable, NoJournalStable DEF Recover
<1>3. ASSUME NEW p \in Proc, Transact(p) PROVE Stable
  <2>1. CASE Begin(p) \/ Close(p) BY <2>1, NoJournalStable
  <2>2. CASE Prepare(p) \/ MarkBackingUp(p) \/ MarkBackedUp(p) \/ MarkInstalling(p) \/ MarkInstalled(p)
    BY <2>2, PrepareStep, MarkBackingUpStep, MarkBackedUpStep, MarkInstallingStep, MarkInstalledStep
  <2>3. CASE Backup(p) \/ Install(p) BY <2>3, BackupEffect, InstallStable
  <2>4. CASE Finally(p) \/ Release(p)
    BY <2>4, Untouched DEF Finally, Release, files, journal
  <2>5. QED BY <1>3, <2>1, <2>2, <2>3, <2>4 DEF Transact
<1>4. ASSUME NEW p \in Proc, Unwind(p) \/ Crash(p) PROVE Stable
  BY <1>4, Untouched DEF Unwind, Crash, files, journal
<1>5. QED BY <1>1, <1>2, <1>3, <1>4 DEF Next

\* Whatever is interrupted, what is installed changes only by whole commands.
THEOREM Refinement == Spec => AtomicallyReplaced
<1> DEFINE installed == [d \in Dest |-> Settled(d)]
<1>1. Init => Abstract!AInit
  <2> SUFFICES ASSUME Init PROVE Abstract!AInit OBVIOUS
  <2>1. \A d \in Dest : Settled(d) = dest[d] BY DEF Init, Settled
  <2>2. QED BY <2>1 DEF Init, Abstract!AInit
<1>2. IInv /\ [Next]_vars => [Abstract!ANext]_installed
  <2> SUFFICES ASSUME IInv, [Next]_vars PROVE Abstract!ANext \/ installed' = installed
    OBVIOUS
  <2>1. CASE UNCHANGED vars
    <3>1. Stable BY <2>1, Untouched DEF vars, files, journal
    <3>2. QED BY <3>1 DEF Stable
  <2>2. ASSUME NEW p \in Proc, Commit(p) PROVE Abstract!ANext
    <3>1. job[p] \in Jobs
          /\ installed' = [d \in Dest |-> IF d \in Range(job[p].plan) THEN job[p].version ELSE Settled(d)]
      BY <2>2, CommitReplaces
    <3>2. installed' = [d \in Dest |-> IF d \in Range(job[p].plan) THEN job[p].version ELSE installed[d]]
      BY <3>1
    <3>3. Abstract!Replace(job[p]) BY <3>2 DEF Abstract!Replace, Abstract!Range, Range
    <3>4. QED BY <3>1, <3>3 DEF Abstract!ANext
  <2>3. CASE Next /\ \A p \in Proc : ~Commit(p)
    <3>1. Stable BY <2>3, StepStable
    <3>2. QED BY <3>1 DEF Stable
  <2>4. QED BY <2>1, <2>2, <2>3
<1>3. QED BY <1>1, <1>2, Invariant, PTL DEF Spec, AtomicallyReplaced, Abstract!ASpec

-----------------------------------------------------------------------------
(* The directory of the privileged backups                                  *)

\* Only Prepare adds to the journal a command works on, and it makes the directory first;
\* the steps that remove it belong to a recovery or to the end of a command.
LEMMA DirectoryStep == ASSUME IInv, DirectoryInv, [Next]_vars PROVE DirectoryInv'
<1>1. CASE UNCHANGED <<pc, backups, jlist>>
  BY <1>1 DEF DirectoryInv, InJournal
<1>2. ASSUME NEW p \in Proc, \A q \in Proc : q # p => pc'[q] = pc[q] /\ pc[q] = "idle",
             pc'[p] \in Replacing \cup {"drop"} =>
               \A d \in Privileged : InJournal(d)' => backups'
      PROVE  DirectoryInv'
  BY <1>2 DEF DirectoryInv, Replacing
<1>3. ASSUME NEW p \in Proc, pc[p] \in Replacing \cup {"drop"}, UNCHANGED <<backups, jlist>>
      PROVE  \A d \in Privileged : InJournal(d)' => backups'
  BY <1>3 DEF DirectoryInv, InJournal
<1>4. ASSUME NEW p \in Proc, NEW m \in Modes, NEW j \in Jobs, Acquire(p, m, j) PROVE DirectoryInv'
  <2>1. pc' = [pc EXCEPT ![p] = "load"] /\ UNCHANGED <<backups, jlist>>
    BY <1>4 DEF Acquire, Goto, files, journal
  <2> QED BY <2>1 DEF IInv, TypeOK, DirectoryInv, InJournal, Replacing
<1>5. ASSUME NEW p \in Proc, Recover(p) \/ Transact(p) \/ Unwind(p) \/ Crash(p)
      PROVE  \A q \in Proc : q # p => pc'[q] = pc[q] /\ pc[q] = "idle"
  <2>1. pc[p] # "idle"
    BY <1>5 DEF Recover, LoadNothing, LoadApplying, LoadCommitted, LoadRefused, Undo, UndoDiscardCopy,
         UndoRestoreCopy, UndoRemove, UndoRename, UndoSkip, UndoDone, Undoing, Drop, DropBackup,
         DropSynced, DropRefused, DropDone, Dropping, RemoveWork, Unlink, Transact, Begin, Prepare,
         MarkBackingUp, Backup, MarkBackedUp, MarkInstalling, Install, MarkInstalled, Mark, Commit, Close,
         Finally, Release, Unwind, Crash, Replacing, Closing
  <2>2. pc' = pc \/ \E s : pc' = [pc EXCEPT ![p] = s]
    BY <1>5 DEF Recover, LoadNothing, LoadApplying, LoadCommitted, LoadRefused, Undo, UndoDiscardCopy,
         UndoRestoreCopy, UndoRemove, UndoRename, UndoSkip, UndoDone, Drop, DropBackup,
         DropSynced, DropRefused, DropDone, RemoveWork, Unlink, Transact, Begin, Prepare,
         MarkBackingUp, Backup, MarkBackedUp, MarkInstalling, Install, MarkInstalled, Mark, Commit, Close,
         Finally, Release, Unwind, Crash, AfterRecover, Leave, Goto, local
  <2> QED BY <2>1, <2>2, Others DEF IInv, TypeOK
<1>6. ASSUME NEW p \in Proc, Recover(p) PROVE DirectoryInv'
  <2>1. CASE Drop(p) /\ pc[p] = "drop"
    <3>1. UNCHANGED <<backups, jlist>>
      BY <2>1 DEF Drop, DropBackup, DropSynced, DropRefused, DropDone, files, journal
    <3> QED BY <1>2, <1>3, <1>5, <1>6, <2>1, <3>1
  <2>2. CASE ~(Drop(p) /\ pc[p] = "drop")
    <3>1. pc'[p] \notin Replacing \cup {"drop"}
      BY <1>6, <2>2, Resumed DEF IInv, TypeOK, Recover, LoadNothing, LoadApplying, LoadCommitted, LoadRefused,
           Undo, UndoDiscardCopy, UndoRestoreCopy, UndoRemove, UndoRename, UndoSkip, UndoDone, Undoing,
           Drop, DropBackup, DropSynced, DropRefused, DropDone, Dropping, RemoveWork, Unlink, Leave, Goto,
           local, Replacing
    <3> QED BY <1>2, <1>5, <1>6, <3>1
  <2> QED BY <2>1, <2>2
<1>7. ASSUME NEW p \in Proc, Transact(p) PROVE DirectoryInv'
  <2>1. CASE Begin(p)
    <3>1. jlist' = << >>
      BY <2>1 DEF Begin
    <3>2. \A d \in Privileged : ~InJournal(d)'
      BY <3>1 DEF InJournal
    <3> QED BY <1>2, <1>5, <1>7, <3>2
  <2>2. CASE Prepare(p)
    <3>1. PICK e \in Dest : e = Current(p)
      BY <2>2, Here DEF Prepare, Replacing
    <3>2. /\ jlist \in Seq(Dest) /\ pc[p] \in Replacing
          /\ jlist' = Append(jlist, e) /\ backups' = (backups \/ e \in Privileged)
      BY <2>2, <3>1 DEF Prepare, IInv, TypeOK, Replacing
    <3>3. \A d \in Dest : InJournal(d)' => InJournal(d) \/ d = e
      BY <3>2 DEF InJournal
    <3>4. \A d \in Privileged : InJournal(d)' => backups'
      BY <3>2, <3>3, ConstantsOK DEF DirectoryInv
    <3> QED BY <1>2, <1>5, <1>7, <3>4
  <2>3. CASE \/ MarkBackingUp(p) \/ Backup(p) \/ MarkBackedUp(p) \/ MarkInstalling(p) \/ Install(p)
             \/ MarkInstalled(p) \/ Commit(p)
    <3>1. pc[p] \in Replacing /\ UNCHANGED <<backups, jlist>>
      BY <2>3 DEF MarkBackingUp, Backup, MarkBackedUp, MarkInstalling, Install, MarkInstalled, Commit, Mark,
           Replacing, files, journal
    <3> QED BY <1>2, <1>3, <1>5, <1>7, <3>1
  <2>4. CASE Close(p) \/ Finally(p) \/ Release(p)
    <3>1. pc'[p] \notin Replacing \cup {"drop"}
      BY <2>4 DEF Close, Finally, Release, Leave, Goto, Replacing, IInv, TypeOK
    <3> QED BY <1>2, <1>5, <1>7, <3>1
  <2> QED BY <1>7, <2>1, <2>2, <2>3, <2>4 DEF Transact
<1>8. ASSUME NEW p \in Proc, Unwind(p) \/ Crash(p) PROVE DirectoryInv'
  <2>1. pc'[p] \notin Replacing \cup {"drop"}
    BY <1>8 DEF Unwind, Crash, Leave, Goto, Replacing, IInv, TypeOK
  <2> QED BY <1>2, <1>5, <1>8, <2>1
<1> QED BY <1>1, <1>4, <1>6, <1>7, <1>8 DEF Next, vars, files, journal, local

\* A commit never stops at a missing directory: whatever other commands, failures and
\* crashes came before, it can drop every backup and take its journal away.
THEOREM CommitGoesThrough == Spec => []CommitNotRefused
<1>1. Init => DirectoryInv
  BY DEF Init, DirectoryInv, Replacing
<1>2. IInv /\ DirectoryInv => CommitNotRefused
  <2> SUFFICES ASSUME IInv, DirectoryInv, NEW p \in Proc, pc[p] = "drop", k[p] <= Len(jlist)
               PROVE  ParentExists(Logged(p))
    BY DEF CommitNotRefused
  <2>1. k[p] \in 1..Len(jlist)
    BY DEF IInv, IndexInv, TypeOK
  <2>2. InJournal(Logged(p))
    BY <2>1 DEF InJournal, Logged
  <2> QED BY <2>2 DEF DirectoryInv, ParentExists
<1>3. QED BY <1>1, <1>2, DirectoryStep, Invariant, PTL DEF Spec
====
