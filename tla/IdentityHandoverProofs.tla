----------------------- MODULE IdentityHandoverProofs -----------------------
(***************************************************************************)
(* What holds of the identity hand-over for every set of hosts, every      *)
(* window and every genesis slot.                                          *)
(***************************************************************************)
EXTENDS IdentityHandover, TLAPS

\* Every step of the hosts and of the cluster keeps the types: among them that a Votor, a
\* voter and an unanswered request belong to a host that runs.
LEMMA EnvironmentKeepsTypes == TypeOK /\ Environment => TypeOK'
<1> SUFFICES ASSUME TypeOK, Environment PROVE TypeOK'
  OBVIOUS
<1> USE ParametersOK DEF Slot
<1>1. ASSUME NEW h \in Host, Decide(h) PROVE TypeOK'
  BY <1>1 DEF TypeOK, Decide, cluster, commands
<1>2. ASSUME NEW h \in Host, Cast(h) PROVE TypeOK'
  BY <1>2 DEF TypeOK, Cast, commands
<1>3. ASSUME NEW h \in Host, VotorFollows(h) PROVE TypeOK'
  BY <1>3 DEF TypeOK, VotorFollows, cluster
<1>4. ASSUME NEW h \in Host, Stop(h) PROVE TypeOK'
  BY <1>4 DEF TypeOK, Stop, cluster, commands
<1>5. ASSUME NEW h \in Host, Boot(h) PROVE TypeOK'
  BY <1>5 DEF TypeOK, Boot, cluster, commands
<1>6. ASSUME NEW h \in Host, Advertise(h) PROVE TypeOK'
  BY <1>6 DEF TypeOK, Advertise, hosts, commands
<1>7. ASSUME NEW h \in Host, LateAnswer(h) PROVE TypeOK'
  <2>1. PICK what \in Requests : /\ <<h, what>> \in pending
                                /\ pending' = pending \ {<<h, what>>}
    BY <1>7, Zenon DEF LateAnswer
  <2>2. h \in up
    BY <2>1 DEF TypeOK
  <2>3. pending' \subseteq up \X Requests
    BY <2>1 DEF TypeOK
  <2>4. ident' \subseteq ident \cup {h} /\ voter' \subseteq voter \cup {h}
    BY <1>7, SMT DEF LateAnswer
  <2>5. rested' = FALSE /\ UNCHANGED <<cluster, up, votor, file, queue, copy, pc, cmd, line, got, gap, stale>>
    BY <1>7, Zenon DEF LateAnswer
  <2> QED
    BY <2>2, <2>3, <2>4, <2>5 DEF TypeOK, cluster
<1>8. CASE Tick
  BY <1>8 DEF TypeOK, Tick, hosts
<1>9. CASE Purge
  BY <1>9 DEF TypeOK, Purge, hosts, commands
<1> QED
  BY <1>1, <1>2, <1>3, <1>4, <1>5, <1>6, <1>7, <1>8, <1>9 DEF Environment

\* A command that ends leaves nothing behind but well-typed empty values.
LEMMA FinishTypes ==
  Finish => /\ pc' \in Steps /\ cmd' \in Command \cup {None}
            /\ line' \in BOOLEAN /\ gap' \in BOOLEAN /\ rested' \in BOOLEAN
            /\ got' \in Slot /\ stale' \in Host \cup {None}
<1> SUFFICES ASSUME Finish
             PROVE  /\ pc' \in Steps /\ cmd' \in Command \cup {None}
                    /\ line' \in BOOLEAN /\ gap' \in BOOLEAN /\ rested' \in BOOLEAN
                    /\ got' \in Slot /\ stale' \in Host \cup {None}
  OBVIOUS
<1>1. pc' \in Steps
  BY Zenon DEF Finish, Goto, Steps
<1>2. cmd' \in Command \cup {None} /\ stale' \in Host \cup {None}
  BY Zenon DEF Finish
<1>3. line' \in BOOLEAN /\ gap' \in BOOLEAN /\ rested' \in BOOLEAN
  BY Zenon DEF Finish
<1>4. got' \in Slot
  BY ParametersOK DEF Finish, Slot
<1> QED
  BY <1>1, <1>2, <1>3, <1>4

\* Every step of a command keeps the types.
LEMMA CommandKeepsTypes ==
  ASSUME TypeOK, Start \/ Fail \/ SwitchOff \/ Promote
  PROVE  TypeOK'
<1> USE ParametersOK DEF Slot, Steps, OffSteps, OnSteps, CheckSteps, LastSteps, Goto, From, To
<1>1. CASE Start
  BY <1>1 DEF TypeOK, Start, cluster, hosts
<1>2. CASE Fail
  BY <1>2, FinishTypes DEF TypeOK, Fail, cluster, hosts
<1>3. CASE CheckSource
  BY <1>3 DEF TypeOK, CheckSource, cluster, hosts
<1>4. CASE NoteLog
  BY <1>4 DEF TypeOK, NoteLog, cluster, hosts
<1>5. CASE Demote
  BY <1>5 DEF TypeOK, Demote, cluster
<1>6. CASE RemoveOlderCopy
  BY <1>6 DEF TypeOK, RemoveOlderCopy, cluster, hosts
<1>7. CASE WaitForVotorLine
  BY <1>7 DEF TypeOK, WaitForVotorLine, cluster, hosts
<1>8. CASE ReadFile
  BY <1>8 DEF TypeOK, ReadFile, cluster, hosts
<1>9. CASE ReadFileAgain
  BY <1>9 DEF TypeOK, ReadFileAgain, cluster, hosts
<1>10. CASE Fetch
  BY <1>10 DEF TypeOK, Fetch, cluster, hosts
<1>11. CASE CompareCopy
  BY <1>11, FinishTypes DEF TypeOK, CompareCopy, cluster, hosts
<1>12. CASE VerifyCopy
  BY <1>12 DEF TypeOK, VerifyCopy, cluster, hosts
<1>13. CASE Upload
  BY <1>13 DEF TypeOK, Upload, cluster
<1>14. CASE Precheck
  BY <1>14 DEF TypeOK, Precheck, cluster, hosts
<1>15. CASE CheckFiles
  BY <1>15 DEF TypeOK, CheckFiles, cluster, hosts
<1>16. CASE CheckDeadPrimary
  BY <1>16 DEF TypeOK, CheckDeadPrimary, cluster, hosts
<1>17. CASE SetIdentity
  BY <1>17 DEF TypeOK, SetIdentity, cluster
<1>18. CASE SetIdentityTimesOut
  BY <1>18, FinishTypes DEF TypeOK, SetIdentityTimesOut, cluster, Requests
<1>19. CASE AddVoter
  BY <1>19 DEF TypeOK, AddVoter, cluster
<1>20. CASE AddVoterTimesOut
  BY <1>20, FinishTypes DEF TypeOK, AddVoterTimesOut, cluster, Requests
<1>21. CASE Confirm
  BY <1>21, FinishTypes DEF TypeOK, Confirm, cluster, hosts
<1>22. CASE RemoveCopy
  BY <1>22, FinishTypes DEF TypeOK, RemoveCopy, cluster, hosts
<1> QED
  BY <1>1, <1>2, <1>3, <1>4, <1>5, <1>6, <1>7, <1>8, <1>9, <1>10, <1>11, <1>12, <1>13, <1>14,
     <1>15, <1>16, <1>17, <1>18, <1>19, <1>20, <1>21, <1>22 DEF SwitchOff, Promote

\* So do the commands of one task and what the operator does by hand.
LEMMA OperatorKeepsTypes ==
  ASSUME TypeOK, NEW h \in Host, SetUnstaked(h) \/ CopyByHand(h)
  PROVE  TypeOK'
<1>1. CASE SetUnstaked(h)
  <2>1. ident' \subseteq ident
    BY <1>1 DEF SetUnstaked
  <2>2. pending' \subseteq up \X Requests
    <3>1. h \in up
      BY <1>1 DEF TypeOK, SetUnstaked
    <3> QED
      BY <1>1, <3>1 DEF TypeOK, SetUnstaked, Requests
  <2>3. rested' = FALSE /\ UNCHANGED <<cluster, up, votor, voter, file, queue, copy, pc, cmd, line, got, gap, stale>>
    BY <1>1, Zenon DEF SetUnstaked
  <2> QED
    BY <2>1, <2>2, <2>3 DEF TypeOK, cluster
<1>2. CASE CopyByHand(h)
  BY <1>2 DEF TypeOK, CopyByHand, cluster, commands
<1> QED
  BY <1>1, <1>2

\* The types hold at first.
LEMMA TypesAtFirst == Init => TypeOK
<1> SUFFICES ASSUME Init PROVE TypeOK
  OBVIOUS
<1> USE ParametersOK DEF Slot
<1>1. slot \in Slot /\ 0 \in Slot /\ Genesis \in Slot
  BY DEF Init
<1>2. /\ pc \in Steps /\ cmd \in Command \cup {None} /\ copy \in Slot /\ got \in Slot
      /\ line \in BOOLEAN /\ gap \in BOOLEAN /\ rested \in BOOLEAN
      /\ stale \in Host \cup {None} /\ pending \subseteq up \X Requests
  BY <1>1 DEF Init, Steps
<1>3. queue \in [Host -> Slot] /\ up = Host
  BY <1>1 DEF Init
<1>4. CASE \E h \in Host :
             /\ ident = {h} /\ votor = {h} /\ voter = {h} /\ gossip = h
             /\ lastVote = slot
             /\ file = [g \in Host |-> IF g = h THEN slot ELSE 0]
  BY <1>1, <1>2, <1>3, <1>4 DEF TypeOK
<1>5. CASE /\ ident = {} /\ votor = {} /\ voter = {} /\ gossip = None
           /\ lastVote \in {0, Genesis}
           /\ file = [g \in Host |-> 0]
  BY <1>1, <1>2, <1>3, <1>5 DEF TypeOK
<1> QED
  BY <1>4, <1>5, Zenon DEF Init

\* Every step keeps them.
LEMMA TypesStay == TypeOK /\ [Next]_vars => TypeOK'
<1>1. ASSUME TypeOK, Next PROVE TypeOK'
  BY <1>1, EnvironmentKeepsTypes, CommandKeepsTypes, OperatorKeepsTypes DEF Next
<1>2. ASSUME TypeOK, UNCHANGED vars PROVE TypeOK'
  BY <1>2 DEF TypeOK, vars, cluster, hosts, commands
<1> QED
  BY <1>1, <1>2

\* The variables keep their types; in particular nothing but a running host holds the
\* identity, its voter or an unanswered request, whatever is stopped or booted in between.
THEOREM TypeCorrect == Spec => []TypeOK
  BY TypesAtFirst, TypesStay, PTL DEF Spec
-----------------------------------------------------------------------------
(* The inductive invariant: at most one host has to do with the identity, its   *)
(* history covers the last vote, and each step of a command has established     *)
(* what the next one counts on.                                                 *)

\* A voter, or a Votor that has not let go yet.
Votes(h) == h \in votor /\ (h \in voter \/ h \notin ident)

\* No vote is on its way.
Drained == \A h \in Host : queue[h] = 0
NoCandidate == ident = {} /\ votor = {}
\* The last vote can still land again.
Recent == slot <= lastVote + Window
\* A history that keeps its host from voting again on the last vote.
Fits(f) == f >= lastVote \/ Quiet

\* Which command is at which step; an unanswered request ends its command.
InCommand ==
  /\ pending # {} => pc = "idle"
  /\ pc # "idle" => cmd \in Command
  /\ (pc \in OffSteps \cup OnSteps \cup {"clean"} => IsSwitch)
  /\ pc \in CheckSteps => ~IsSwitch
  /\ pc # "idle" => (IF IsSwitch THEN From # To /\ cmd.confirmed = {} ELSE From = To)

\* At most one host votes, or will.
OneCandidate == \A g, h \in Host : Active(g) /\ Active(h) => g = h
\* What is decided on is after the last vote.
Ahead == \A h \in Host : queue[h] # 0 => queue[h] > lastVote
\* Whoever may vote has a history that fits.
CandidatesFit == \A h \in Host : Candidate(h) => Fits(file[h])

\* When a command starts and while set:identity checks, Votor has taken the identity up
\* wherever it runs, and a host that votes has done so lately.
Settled ==
  (pc = "idle" /\ rested) \/ pc \in CheckSteps =>
    /\ ident \subseteq votor
    /\ (\E h \in Host : Votes(h) \/ queue[h] # 0) => Recent

\* What the checks of set:identity leave behind.
Checked ==
  /\ pc \in CheckSteps => \A h \in cmd.confirmed : ~SilentHolder(h)
  /\ pc \in {"files", "quiet"} => \A h \in ident \ {To} : h \in cmd.confirmed
  /\ pc = "set" /\ ~IsSwitch =>
       /\ Quiet /\ Drained /\ ident \subseteq votor /\ ident \cup votor \subseteq {To}
       /\ \A h \in Host : ~Votes(h)

\* Votor of the source has let go since its log was noted.
LetGo ==
  \/ pc \in {"demote", "forget", "line"} /\ line
  \/ pc \in {"read", "reread", "fetch", "compare"}
\* ... and its file has not changed since, for the gap.
Still ==
  \/ pc = "reread" /\ gap
  \/ pc \in {"fetch", "compare"} \cup OnSteps
  \/ pc = "set" /\ IsSwitch

\* What a switch knows while the identity is nowhere.
HandedOver ==
  /\ LetGo => NoCandidate /\ Fits(file[From]) /\ \A h \in Host \ {From} : queue[h] = 0
  /\ Still => NoCandidate /\ Drained
  /\ pc \in OnSteps => Fits(copy)
  /\ pc = "set" /\ IsSwitch => Fits(file[To])

Inv == InCommand /\ OneCandidate /\ Ahead /\ CandidatesFit /\ Settled /\ Checked /\ HandedOver
IInv == TypeOK /\ Inv

LEMMA Numbers ==
  ASSUME TypeOK
  PROVE  /\ slot \in Nat /\ lastVote \in Nat /\ copy \in Nat /\ Window \in Nat
         /\ \A h \in Host : file[h] \in Nat /\ queue[h] \in Nat
  BY ParametersOK DEF TypeOK, Slot

\* With nothing of what it is about changed, an invariant stays.
LEMMA SameHosts ==
  ASSUME UNCHANGED <<ident, votor, pending, queue>>
  PROVE  \A h \in Host : (Candidate(h)' <=> Candidate(h)) /\ (Active(h)' <=> Active(h))
  BY DEF Candidate, Active

\* A vote is decided on only past the history of its host, which covers the last vote or
\* could not be followed by a vote that still lands.
LEMMA DecideStep == ASSUME IInv, NEW h \in Host, Decide(h) PROVE Inv'
<1>1. PICK v \in Slot : v > file[h] /\ v + Window >= slot /\ queue' = [queue EXCEPT ![h] = v]
  BY DEF Decide
<1>2. /\ UNCHANGED <<slot, lastVote, gossip, ident, votor, voter, file, pending, copy>>
      /\ UNCHANGED <<pc, cmd, line, got, gap, stale, rested>>
      /\ h \in votor /\ h \in voter /\ queue[h] = 0
  BY DEF Decide, cluster, commands, Voting
<1>3. \A g \in Host : queue'[g] = IF g = h THEN v ELSE queue[g]
  BY <1>1 DEF IInv, TypeOK
<1>4. v > lastVote
  <2>1. Fits(file[h])
    BY <1>2 DEF IInv, Inv, CandidatesFit, Candidate
  <2>2. v \in Nat
    BY DEF Slot
  <2>3. QED
    BY <1>1, <2>1, <2>2, Numbers DEF Fits, Quiet, IInv
<1>5. Active(h) /\ \A g \in Host : Active(g)' => Active(g)
  BY <1>2, <1>3 DEF Active, Candidate
<1>6. InCommand' /\ CandidatesFit'
  BY <1>2 DEF IInv, Inv, InCommand, CandidatesFit, Candidate, Fits, Quiet, IsSwitch, From, To
<1>7. OneCandidate'
  BY <1>5 DEF IInv, Inv, OneCandidate
<1>8. Ahead'
  BY <1>2, <1>3, <1>4 DEF IInv, Inv, Ahead
<1>9. Settled'
  BY <1>2, <1>3 DEF IInv, Inv, Settled, Recent, Votes
<1>10. Votes(h)
  BY <1>2 DEF Votes
<1>11. Checked'
  BY <1>2, <1>10 DEF IInv, Inv, Checked, SilentHolder, Voting, To, IsSwitch
<1>12. HandedOver'
  BY <1>2 DEF IInv, Inv, HandedOver, LetGo, Still, NoCandidate, Fits, Quiet, From, To, IsSwitch
<1>13. QED
  BY <1>6, <1>7, <1>8, <1>9, <1>11, <1>12 DEF Inv

\* A vote that is sent becomes the last vote, and the history of its host covers it.
LEMMA CastStep == ASSUME IInv, NEW h \in Host, Cast(h) PROVE Inv'
<1>1. /\ UNCHANGED <<slot, gossip, up, ident, votor, voter, pending, copy>>
      /\ UNCHANGED <<pc, cmd, line, got, gap, stale, rested>>
      /\ queue[h] # 0 /\ lastVote' = IF queue[h] > lastVote THEN queue[h] ELSE lastVote
  BY DEF Cast, commands
<1>2. queue[h] > lastVote /\ lastVote' = queue[h]
  BY <1>1 DEF IInv, Inv, Ahead
<1>3. /\ \A g \in Host : queue'[g] = IF g = h THEN 0 ELSE queue[g]
      /\ \A g \in Host : file'[g] = IF g = h THEN queue[h] ELSE file[g]
  BY DEF Cast, IInv, TypeOK
<1>4. \A g \in Host : g # h => ~Active(g)
  BY <1>1 DEF IInv, Inv, OneCandidate, Active
<1>5. InCommand' /\ OneCandidate'
  BY <1>1, <1>3, <1>4 DEF IInv, Inv, InCommand, OneCandidate, Active, Candidate, IsSwitch, From, To
<1>6. Ahead'
  BY <1>3, <1>4 DEF Ahead, Active
<1>7. CandidatesFit'
  <2>1. SUFFICES ASSUME NEW g \in Host, Candidate(g)' PROVE Fits(file[g])'
    BY DEF CandidatesFit
  <2>2. g = h
    BY <1>1, <1>4, <2>1 DEF Active, Candidate
  <2>3. QED
    BY <1>2, <1>3, <2>2, Numbers DEF Fits, IInv
<1>8. Settled'
  BY <1>1, <1>2, <1>3, Numbers DEF IInv, Inv, Settled, Recent, Votes
<1>9. Checked'
  BY <1>1 DEF IInv, Inv, Checked, Drained, SilentHolder, Voting, Votes, To, IsSwitch
<1>10. ~Still
  BY <1>1 DEF IInv, Inv, HandedOver, Drained
<1>11. LetGo => h = From /\ Fits(file[From])'
  BY <1>1, <1>2, <1>3, Numbers DEF IInv, Inv, HandedOver, Fits, From
<1>12. HandedOver'
  BY <1>1, <1>3, <1>10, <1>11 DEF IInv, Inv, HandedOver, LetGo, Still, NoCandidate, From, To, IsSwitch
<1>13. QED
  BY <1>5, <1>6, <1>7, <1>8, <1>9, <1>12 DEF Inv

\* A Votor that lets go while the line is waited for was the source's: nobody else is left.
LEMMA FollowsStep == ASSUME IInv, NEW h \in Host, VotorFollows(h) PROVE Inv'
<1>1. /\ UNCHANGED <<slot, lastVote, gossip, up, ident, voter, file, queue, pending, copy>>
      /\ UNCHANGED <<pc, cmd, got, gap, stale, rested>>
      /\ votor' = (IF h \in ident THEN votor \cup {h} ELSE votor \ {h})
      /\ line' = (line \/ (h \in votor /\ pc \in OffSteps /\ From = h))
      /\ (h \in votor) # (h \in ident)
  BY DEF VotorFollows, cluster, From
<1>2. \A g \in Host : (Active(g)' => Active(g)) /\ (Candidate(g)' => Candidate(g))
  BY <1>1 DEF Active, Candidate
<1>3. InCommand' /\ Ahead' /\ OneCandidate' /\ CandidatesFit'
  BY <1>1, <1>2 DEF IInv, Inv, InCommand, Ahead, OneCandidate, CandidatesFit, Fits, Quiet, IsSwitch, From, To
<1>4. ident \subseteq votor => votor' \subseteq votor /\ ident \subseteq votor'
  BY <1>1
<1>5. Settled'
  BY <1>1, <1>4 DEF IInv, Inv, Settled, Recent, Votes
<1>6. Checked'
  <2>1. pc \in CheckSteps => \A g \in cmd.confirmed : ~SilentHolder(g)'
    <3>1. SUFFICES ASSUME pc \in CheckSteps, NEW g \in cmd.confirmed PROVE ~SilentHolder(g)'
      OBVIOUS
    <3>2. ident \subseteq votor /\ h \in votor /\ h \notin ident /\ votor' = votor \ {h}
      BY <1>1, <3>1 DEF IInv, Inv, Settled
    <3>3. ~SilentHolder(g)
      BY <3>1 DEF IInv, Inv, Checked
    <3>4. QED
      BY <1>1, <3>2, <3>3 DEF SilentHolder, Voting
  <2>2. QED
    BY <1>1, <1>4, <2>1 DEF IInv, Inv, Checked, Drained, Quiet, Votes, To, IsSwitch
<1>7. LetGo' => NoCandidate' /\ Fits(file[From]) /\ \A g \in Host \ {From} : queue[g] = 0
  <2>1. CASE LetGo
    BY <1>1, <2>1 DEF IInv, Inv, HandedOver, NoCandidate
  <2>2. CASE ~LetGo /\ LetGo'
    <3>1. pc' = pc
      BY <1>1
    <3>2. ~line /\ line'
      BY <3>1, <2>2, Zenon DEF LetGo
    <3>3. line' = (line \/ (h \in votor /\ pc \in OffSteps /\ From = h))
      BY <1>1, Zenon
    <3>4. h \in votor /\ From = h
      BY <3>2, <3>3, Zenon
    <3>5. h \notin ident /\ votor' = votor \ {h}
      BY <1>1, <3>4
    <3>6. \A g \in Host : g # h => ~Active(g)
      BY <3>4 DEF IInv, Inv, OneCandidate, Active, Candidate
    <3>7. Fits(file[h])
      BY <3>4 DEF IInv, Inv, CandidatesFit, Candidate
    <3>8. NoCandidate'
      BY <1>1, <3>5, <3>6 DEF NoCandidate, Active, Candidate, IInv, TypeOK
    <3>9. QED
      BY <3>4, <3>6, <3>7, <3>8 DEF Active
  <2>3. QED
    BY <2>1, <2>2
<1>8. HandedOver'
  BY <1>1, <1>7 DEF IInv, Inv, HandedOver, Still, NoCandidate, Drained, Fits, Quiet, From, To, IsSwitch
<1>9. QED
  BY <1>3, <1>5, <1>6, <1>8 DEF Inv

\* A host that stops can no longer vote; its history stays.
LEMMA StopStep == ASSUME IInv, NEW h \in Host, Stop(h) PROVE Inv'
<1>1. /\ UNCHANGED <<slot, lastVote, gossip, file, copy, pc, cmd, line, got, gap, stale, rested>>
      /\ ident' = ident \ {h} /\ votor' = votor \ {h} /\ voter' = voter \ {h}
      /\ pending' \subseteq pending
  BY DEF Stop, cluster, commands
<1>2. \A g \in Host : queue'[g] = IF g = h THEN 0 ELSE queue[g]
  BY DEF Stop, IInv, TypeOK
<1>3. \A g \in Host : (Active(g)' => Active(g)) /\ (Candidate(g)' => Candidate(g))
  BY <1>1, <1>2 DEF Active, Candidate
<1>4. InCommand' /\ Ahead' /\ OneCandidate' /\ CandidatesFit'
  BY <1>1, <1>2, <1>3 DEF IInv, Inv, InCommand, Ahead, OneCandidate, CandidatesFit, Fits, Quiet, IsSwitch, From, To
<1>5. Settled'
  BY <1>1, <1>2 DEF IInv, Inv, Settled, Recent, Votes
<1>6. Checked'
  BY <1>1, <1>2 DEF IInv, Inv, Checked, Drained, Quiet, SilentHolder, Voting, Votes, To, IsSwitch
<1>7. HandedOver'
  BY <1>1, <1>2 DEF IInv, Inv, HandedOver, LetGo, Still, NoCandidate, Drained, Fits, Quiet, From, To, IsSwitch
<1>8. QED
  BY <1>4, <1>5, <1>6, <1>7 DEF Inv

\* A late answer gives the identity only to a host that was counted as a candidate.
LEMMA LateAnswerStep == ASSUME IInv, NEW h \in Host, LateAnswer(h) PROVE Inv'
<1>1. PICK what \in Requests :
        /\ <<h, what>> \in pending /\ pending' = pending \ {<<h, what>>}
        /\ \/ what = "set-identity" /\ ident' = ident \cup {h}
           \/ ident' \in {ident, ident \ {h}}
  BY SMT DEF LateAnswer
<1>2. rested' = FALSE /\ UNCHANGED <<slot, lastVote, votor, file, queue, copy, pc, cmd, line, gap>>
  BY Zenon DEF LateAnswer, cluster
<1>3. pc = "idle"
  BY <1>1 DEF IInv, Inv, InCommand
<1>4. \A g \in Host : (Active(g)' => Active(g)) /\ (Candidate(g)' => Candidate(g))
  BY <1>1, <1>2 DEF Active, Candidate
<1>5. InCommand' /\ Ahead' /\ OneCandidate' /\ CandidatesFit'
  BY <1>2, <1>3, <1>4 DEF IInv, Inv, InCommand, Ahead, OneCandidate, CandidatesFit, Fits, Quiet, CheckSteps, OffSteps, OnSteps
<1>6. Settled' /\ Checked'
  BY <1>2, <1>3 DEF Settled, Checked, CheckSteps
<1>7. HandedOver'
  BY <1>2, <1>3 DEF HandedOver, LetGo, Still, OnSteps
<1>8. QED
  BY <1>5, <1>6, <1>7 DEF Inv

\* A slot passes: a history that was good enough stays so, and who may vote has voted.
LEMMA TickStep == ASSUME IInv, Tick PROVE Inv'
<1>1. /\ slot' = slot + 1 /\ gap' = TRUE /\ rested' = TRUE
      /\ UNCHANGED <<lastVote, ident, votor, voter, file, queue, pending, copy, pc, cmd, line>>
      /\ Drained /\ ident \subseteq votor
      /\ (\E h \in votor : Voting(h) \/ h \notin ident) => lastVote + Window > slot
  BY DEF Tick, hosts, Drained
<1>2. \A f \in Nat : Fits(f) => Fits(f)'
  BY <1>1, Numbers DEF Fits, Quiet, IInv
<1>3. InCommand' /\ Ahead' /\ OneCandidate'
  BY <1>1 DEF IInv, Inv, InCommand, Ahead, OneCandidate, Active, Candidate, IsSwitch, From, To
<1>4. CandidatesFit'
  BY <1>1, <1>2, Numbers DEF IInv, Inv, CandidatesFit, Candidate
<1>5. Settled'
  <2>1. (\E h \in Host : Votes(h)' \/ queue'[h] # 0) => Recent'
    BY <1>1, Numbers DEF Votes, Voting, Drained, Recent, IInv
  <2>2. QED
    BY <1>1, <2>1 DEF Settled
<1>6. Quiet => Quiet'
  BY <1>1, Numbers DEF Quiet, IInv
<1>7. Checked'
  BY <1>1, <1>6 DEF IInv, Inv, Checked, Drained, SilentHolder, Voting, Votes, To, IsSwitch
<1>8. (LetGo' => LetGo) /\ (Still' => Still \/ LetGo)
  BY <1>1 DEF LetGo, Still, IsSwitch
<1>9. pc # "idle" => From \in Host /\ To \in Host
  BY DEF IInv, Inv, InCommand, Command, From, To
<1>10. HandedOver'
  <2>1. (LetGo => Fits(file[From])') /\ (pc = "set" /\ IsSwitch => Fits(file[To])')
    BY <1>1, <1>2, <1>9, Numbers DEF IInv, Inv, HandedOver, LetGo, From, To
  <2>2. pc \in OnSteps => Fits(copy)'
    BY <1>1, <1>2, Numbers DEF IInv, Inv, HandedOver
  <2>3. QED
    BY <1>1, <1>8, <2>1, <2>2 DEF IInv, Inv, HandedOver, NoCandidate, Drained, From, To, IsSwitch
<1>11. QED
  BY <1>3, <1>4, <1>5, <1>7, <1>10 DEF Inv

\* Nothing the hosts and the cluster do breaks the invariant.
LEMMA EnvironmentStep == ASSUME IInv, Environment PROVE Inv'
<1>1. ASSUME NEW h \in Host, Boot(h) \/ Advertise(h) PROVE Inv'
  BY <1>1 DEF Boot, Advertise, cluster, hosts, commands, IInv, Inv, InCommand, OneCandidate, Ahead, CandidatesFit,
     Settled, Checked, HandedOver, Active, Candidate, Votes, Drained, NoCandidate, Recent, Fits, Quiet, LetGo, Still,
     SilentHolder, Voting, IsSwitch, From, To
<1>2. CASE Purge
  BY <1>2 DEF Purge, cluster, hosts, commands, IInv, Inv, InCommand, OneCandidate, Ahead, CandidatesFit,
     Settled, Checked, HandedOver, Active, Candidate, Votes, Drained, NoCandidate, Recent, Fits, Quiet, LetGo, Still,
     SilentHolder, Voting, IsSwitch, From, To
<1>3. QED
  BY <1>1, <1>2, DecideStep, CastStep, FollowsStep, StopStep, LateAnswerStep, TickStep DEF Environment

\* While the hosts and the cluster stay as they are, so does what is said of them alone.
LEMMA HostsStay ==
  ASSUME IInv, UNCHANGED <<slot, lastVote, ident, votor, file, queue, pending>>
  PROVE  OneCandidate' /\ Ahead' /\ CandidatesFit'
  BY DEF IInv, Inv, OneCandidate, Ahead, CandidatesFit, Active, Candidate, Fits, Quiet

\* A command that has just ended leaves nothing to show but what holds of the hosts.
LEMMA Ended ==
  ASSUME pc' = "idle", rested' = FALSE, OneCandidate', Ahead', CandidatesFit'
  PROVE  Inv'
<1>1. InCommand' /\ Settled' /\ Checked'
  BY DEF InCommand, Settled, Checked, OffSteps, OnSteps, CheckSteps
<1>2. HandedOver'
  BY DEF HandedOver, LetGo, Still, OnSteps
<1>3. QED
  BY <1>1, <1>2 DEF Inv

\* A command starts when what the operator knows of the hosts is settled.
LEMMA StartStep == ASSUME IInv, Start PROVE Inv'
<1>1. PICK c \in Command :
        /\ IF c.kind = "switch" THEN c.from # c.to /\ c.confirmed = {} ELSE c.from = c.to
        /\ \A h \in c.confirmed : ~SilentHolder(h)
        /\ cmd' = c
        /\ pc' = IF c.kind = "switch" THEN "check" ELSE "precheck"
  BY DEF Start, Goto
<1>2. /\ UNCHANGED <<slot, lastVote, gossip, up, ident, votor, voter, file, queue, pending, copy, line, gap, rested>>
      /\ pc = "idle" /\ rested /\ pending = {}
  BY DEF Start, cluster, hosts
<1>3. InCommand'
  BY <1>1, <1>2 DEF InCommand, OffSteps, OnSteps, CheckSteps, IsSwitch, From, To
<1>4. Settled'
  BY <1>2 DEF IInv, Inv, Settled, Recent, Votes
<1>5. Checked'
  BY <1>1, <1>2 DEF Checked, CheckSteps, SilentHolder, Voting
<1>6. HandedOver'
  BY <1>1 DEF HandedOver, LetGo, Still, OnSteps
<1>7. QED
  BY <1>2, <1>3, <1>4, <1>5, <1>6, HostsStay DEF Inv

\* A command that fails, and the end of a switch, leave the hosts as they are.
LEMMA EndStep == ASSUME IInv, Fail \/ RemoveCopy PROVE Inv'
<1>1. UNCHANGED <<slot, lastVote, ident, votor, file, queue, pending>> /\ Finish
  BY DEF Fail, RemoveCopy, cluster, hosts
<1>2. QED
  BY <1>1, HostsStay, Ended DEF Finish, Goto

\* Taking the identity off the source: once Votor's line is in the log nobody is left that
\* could vote but the source itself, with a vote it had decided on; once its file has not
\* changed for the gap, nobody at all.
LEMMA SwitchOffStep == ASSUME IInv, SwitchOff PROVE Inv'
<1> DEFINE Same == UNCHANGED <<slot, lastVote, gossip, up, votor, voter, file, queue, pending, cmd, rested>>
<1> USE DEF Goto, OffSteps, OnSteps, CheckSteps
<1>1. ASSUME Same, UNCHANGED ident, pc \in OffSteps, pc' \in OffSteps \cup OnSteps, HandedOver' PROVE Inv'
  <2>1. InCommand'
    BY <1>1 DEF IInv, Inv, InCommand, IsSwitch, From, To
  <2>2. Settled' /\ Checked'
    BY <1>1 DEF Settled, Checked
  <2>3. QED
    BY <1>1, <2>1, <2>2, HostsStay DEF Inv
<1>2. ASSUME Same, UNCHANGED <<ident, copy>>, pc \in OffSteps, pc' \in OffSteps, LetGo' => LetGo, Still' => Still
      PROVE  Inv'
  <2>1. HandedOver'
    BY <1>2 DEF IInv, Inv, HandedOver, NoCandidate, Drained, Fits, Quiet, From
  <2>2. QED
    BY <1>1, <1>2, <2>1
<1>3. CASE CheckSource
  BY <1>2, <1>3 DEF CheckSource, cluster, hosts, LetGo, Still
<1>4. CASE NoteLog
  BY <1>2, <1>4 DEF NoteLog, cluster, hosts, LetGo, Still
<1>5. CASE Demote
  <2>1. /\ UNCHANGED <<slot, lastVote, votor, voter, file, queue, pending, cmd, copy, line>>
        /\ ident' = ident \ {From} /\ pc = "demote" /\ pc' = "forget"
    BY <1>5 DEF Demote, cluster
  <2>2. \A g \in Host : (Active(g)' => Active(g)) /\ (Candidate(g)' => Candidate(g))
    BY <2>1 DEF Active, Candidate
  <2>3. InCommand' /\ OneCandidate' /\ Ahead' /\ CandidatesFit'
    BY <2>1, <2>2 DEF IInv, Inv, InCommand, OneCandidate, Ahead, CandidatesFit, Fits, Quiet, IsSwitch, From, To
  <2>4. Settled' /\ Checked'
    BY <2>1 DEF Settled, Checked
  <2>5. HandedOver'
    BY <2>1 DEF IInv, Inv, HandedOver, LetGo, Still, NoCandidate, Fits, Quiet, From
  <2>6. QED
    BY <2>3, <2>4, <2>5 DEF Inv
<1>6. CASE RemoveOlderCopy
  <2>1. Same /\ UNCHANGED <<ident, line>> /\ pc = "forget" /\ pc' = "line"
    BY <1>6 DEF RemoveOlderCopy, cluster, hosts
  <2>2. HandedOver'
    BY <2>1 DEF IInv, Inv, HandedOver, LetGo, Still, NoCandidate, Fits, Quiet, From
  <2>3. QED
    BY <1>1, <2>1, <2>2
<1>7. CASE WaitForVotorLine
  BY <1>2, <1>7 DEF WaitForVotorLine, cluster, hosts, LetGo, Still
<1>8. CASE ReadFile
  BY <1>2, <1>8 DEF ReadFile, cluster, hosts, LetGo, Still
<1>9. CASE ReadFileAgain
  BY <1>2, <1>9 DEF ReadFileAgain, cluster, hosts, LetGo, Still
<1>10. CASE Fetch
  <2>1. Same /\ UNCHANGED ident /\ pc = "fetch" /\ pc' = "compare"
    BY <1>10 DEF Fetch, cluster, hosts
  <2>2. HandedOver'
    BY <2>1 DEF IInv, Inv, HandedOver, LetGo, Still, NoCandidate, Drained, Fits, Quiet, From
  <2>3. QED
    BY <1>1, <2>1, <2>2
<1>11. CASE CompareCopy
  <2>1. /\ UNCHANGED <<slot, lastVote, gossip, up, ident, votor, voter, file, queue, pending>>
        /\ pc = "compare"
    BY <1>11 DEF CompareCopy, cluster, hosts
  <2>2. CASE Finish
    BY <2>1, <2>2, HostsStay, Ended DEF Finish
  <2>3. CASE ~Finish
    <3>1. copy = got /\ file[From] = got /\ pc' = "verify" /\ UNCHANGED <<copy, cmd, line, gap, rested>>
      BY <1>11, <2>3 DEF CompareCopy
    <3>2. HandedOver'
      BY <2>1, <3>1 DEF IInv, Inv, HandedOver, LetGo, Still, NoCandidate, Drained, Fits, Quiet, From
    <3>3. QED
      BY <1>1, <2>1, <3>1, <3>2
  <2>4. QED
    BY <2>2, <2>3
<1>12. QED
  BY <1>3, <1>4, <1>5, <1>6, <1>7, <1>8, <1>9, <1>10, <1>11 DEF SwitchOff

\* The last checks of set:identity: when the last vote is too old to be repeated, no host
\* votes, and one that holds the identity besides the target would be a voter.
LEMMA NobodyVotes ==
  ASSUME IInv, pc = "quiet", Quiet
  PROVE  /\ Drained /\ ident \subseteq votor /\ ident \cup votor \subseteq {To}
         /\ \A h \in Host : ~Votes(h)
<1>1. ~Recent
  BY Numbers DEF Quiet, Recent, IInv
<1>2. Drained /\ ident \subseteq votor /\ \A h \in Host : ~Votes(h)
  BY <1>1 DEF IInv, Inv, Settled, CheckSteps, Drained
<1>3. votor \subseteq ident
  BY <1>2 DEF Votes, IInv, TypeOK
<1>4. ASSUME NEW h \in ident \ {To} PROVE FALSE
  <2>1. h \in Host /\ h \in cmd.confirmed
    BY <1>4 DEF IInv, Inv, Checked, TypeOK
  <2>2. ~SilentHolder(h)
    BY <2>1 DEF IInv, Inv, Checked, CheckSteps
  <2>3. Votes(h)
    BY <1>4, <2>1, <2>2 DEF SilentHolder, Voting, Votes
  <2>4. QED
    BY <1>2, <2>1, <2>3
<1>5. QED
  BY <1>2, <1>3, <1>4

\* The checks of set:identity change no host.
LEMMA CheckStep == ASSUME IInv, Precheck \/ CheckFiles \/ CheckDeadPrimary PROVE Inv'
<1>1. /\ UNCHANGED <<slot, lastVote, gossip, up, ident, votor, voter, file, queue, pending>>
      /\ UNCHANGED <<copy, cmd, line, gap, rested>> /\ pc \in CheckSteps
      /\ pc' \in {"files", "quiet", "set"}
  BY DEF Precheck, CheckFiles, CheckDeadPrimary, cluster, hosts, Goto, CheckSteps
<1>2. ~IsSwitch
  BY <1>1 DEF IInv, Inv, InCommand
<1>3. InCommand'
  BY <1>1, <1>2 DEF IInv, Inv, InCommand, OffSteps, OnSteps, CheckSteps, IsSwitch, From, To
<1>4. Settled'
  BY <1>1 DEF IInv, Inv, Settled, Recent, Votes, CheckSteps
<1>5. HandedOver'
  BY <1>1, <1>2 DEF HandedOver, LetGo, Still, OnSteps, IsSwitch
<1>6. Checked'
  <2>1. pc' \in CheckSteps => \A h \in cmd.confirmed : ~SilentHolder(h)'
    BY <1>1 DEF IInv, Inv, Checked, SilentHolder, Voting
  <2>2. pc' \in {"files", "quiet"} => \A h \in ident \ {To} : h \in cmd.confirmed
    <3>1. CASE Precheck
      BY <3>1 DEF Precheck, PeerOK, IInv, TypeOK
    <3>2. CASE CheckFiles
      BY <3>2 DEF CheckFiles, IInv, Inv, Checked
    <3>3. CASE CheckDeadPrimary
      BY <3>3 DEF CheckDeadPrimary, Goto
    <3>4. QED
      BY <3>1, <3>2, <3>3
  <2>3. pc' = "set" => pc = "quiet" /\ Quiet
    BY DEF Precheck, CheckFiles, CheckDeadPrimary, Goto
  <2>4. QED
    BY <1>1, <2>1, <2>2, <2>3, NobodyVotes DEF Checked, Quiet, Drained, Votes, To, IsSwitch, SilentHolder, Voting
<1>7. QED
  BY <1>1, <1>3, <1>4, <1>5, <1>6, HostsStay DEF Inv

\* When a command is about to give the identity to its target, the target alone may hold it
\* already, and its history, or the age of the last vote, keeps it from a second vote.
LEMMA OnlyTheTarget ==
  ASSUME IInv, pc = "set"
  PROVE  /\ To \in Host /\ pending = {} /\ Drained
         /\ ident \cup votor \subseteq {To}
         /\ Fits(file[To])
<1>1. To \in Host /\ pending = {}
  BY DEF IInv, Inv, InCommand, Command, To
<1>2. CASE IsSwitch
  BY <1>1, <1>2 DEF IInv, Inv, HandedOver, Still, NoCandidate
<1>3. CASE ~IsSwitch
  BY <1>1, <1>3 DEF IInv, Inv, Checked, Fits
<1>4. QED
  BY <1>2, <1>3

\* set-identity, answered or not.
LEMMA SetStep == ASSUME IInv, SetIdentity \/ SetIdentityTimesOut PROVE Inv'
<1>1. /\ UNCHANGED <<slot, lastVote, votor, voter, file, queue>> /\ pc = "set"
      /\ ident' \subseteq ident \cup {To}
      /\ pending' \subseteq pending \cup {<<To, "set-identity">>}
  BY DEF SetIdentity, SetIdentityTimesOut, cluster
<1>2. \A g \in Host : Active(g)' => g = To
  BY <1>1, OnlyTheTarget DEF Active, Candidate, Drained
<1>3. OneCandidate' /\ CandidatesFit'
  BY <1>1, <1>2, OnlyTheTarget DEF OneCandidate, CandidatesFit, Active, Fits, Quiet
<1>4. Ahead'
  BY <1>1 DEF IInv, Inv, Ahead
<1>5. CASE SetIdentity
  <2>1. pc' = "voter" /\ UNCHANGED <<cmd, pending>>
    BY <1>5 DEF SetIdentity, Goto
  <2>2. InCommand'
    BY <1>1, <2>1 DEF IInv, Inv, InCommand, OffSteps, OnSteps, CheckSteps, IsSwitch, From, To
  <2>3. Settled' /\ Checked' /\ HandedOver'
    BY <2>1 DEF Settled, Checked, HandedOver, LetGo, Still, OnSteps, CheckSteps
  <2>4. QED
    BY <1>3, <1>4, <2>2, <2>3 DEF Inv
<1>6. CASE SetIdentityTimesOut
  BY <1>3, <1>4, <1>6, Ended DEF SetIdentityTimesOut, Finish, Goto
<1>7. QED
  BY <1>5, <1>6

\* authorized-voter, answered or not.
LEMMA VoterStep == ASSUME IInv, AddVoter \/ AddVoterTimesOut PROVE Inv'
<1>1. /\ UNCHANGED <<slot, lastVote, ident, votor, file, queue>> /\ pc = "voter"
      /\ pending' \subseteq pending \cup {<<To, "authorized-voter">>}
  BY DEF AddVoter, AddVoterTimesOut, cluster
<1>2. \A g \in Host : (Active(g)' => Active(g)) /\ (Candidate(g)' => Candidate(g))
  BY <1>1 DEF Active, Candidate
<1>3. OneCandidate' /\ Ahead' /\ CandidatesFit'
  BY <1>1, <1>2 DEF IInv, Inv, OneCandidate, Ahead, CandidatesFit, Fits, Quiet
<1>4. CASE AddVoter
  <2>1. pc' = "confirm" /\ UNCHANGED <<cmd, pending>>
    BY <1>4 DEF AddVoter, Goto
  <2>2. InCommand'
    BY <1>1, <2>1 DEF IInv, Inv, InCommand, OffSteps, OnSteps, CheckSteps, IsSwitch, From, To
  <2>3. Settled' /\ Checked' /\ HandedOver'
    BY <2>1 DEF Settled, Checked, HandedOver, LetGo, Still, OnSteps, CheckSteps
  <2>4. QED
    BY <1>3, <2>2, <2>3 DEF Inv
<1>5. CASE AddVoterTimesOut
  BY <1>3, <1>5, Ended DEF AddVoterTimesOut, Finish, Goto
<1>6. QED
  BY <1>4, <1>5

\* The confirmation changes no host.
LEMMA ConfirmStep == ASSUME IInv, Confirm PROVE Inv'
<1>1. UNCHANGED <<slot, lastVote, ident, votor, file, queue, pending>> /\ pc = "confirm"
  BY DEF Confirm, cluster, hosts
<1>2. CASE Finish
  BY <1>1, <1>2, HostsStay, Ended DEF Finish, Goto
<1>3. CASE ~Finish
  <2>1. IsSwitch /\ pc' = "clean" /\ UNCHANGED cmd
    BY <1>3 DEF Confirm, Goto
  <2>2. InCommand'
    BY <1>1, <2>1 DEF IInv, Inv, InCommand, OffSteps, OnSteps, CheckSteps, IsSwitch, From, To
  <2>3. Settled' /\ Checked' /\ HandedOver'
    BY <2>1 DEF Settled, Checked, HandedOver, LetGo, Still, OnSteps, CheckSteps
  <2>4. QED
    BY <1>1, <2>2, <2>3, HostsStay DEF Inv
<1>4. QED
  BY <1>2, <1>3

\* The copy is put on the target while no host is a candidate.
LEMMA UploadStep == ASSUME IInv, VerifyCopy \/ Upload PROVE Inv'
<1>1. /\ UNCHANGED <<slot, lastVote, ident, votor, voter, queue, pending, copy, cmd>>
      /\ pc \in OnSteps
  BY DEF VerifyCopy, Upload, cluster, hosts, OnSteps
<1>2. IsSwitch /\ cmd \in Command /\ pending = {} /\ To \in Host
  BY <1>1 DEF IInv, Inv, InCommand, OnSteps, Command, To
<1>3. NoCandidate /\ Drained /\ Fits(copy)
  BY <1>1 DEF IInv, Inv, HandedOver, Still
<1>4. \A g \in Host : ~Active(g)'
  BY <1>1, <1>2, <1>3 DEF Active, Candidate, NoCandidate, Drained
<1>5. pc' \in {"upload", "set"}
  BY DEF VerifyCopy, Upload, Goto
<1>6. InCommand'
  BY <1>1, <1>2, <1>5 DEF IInv, Inv, InCommand, OffSteps, OnSteps, CheckSteps, IsSwitch, From, To
<1>7. OneCandidate' /\ Ahead' /\ CandidatesFit'
  BY <1>4 DEF OneCandidate, Ahead, CandidatesFit, Active
<1>8. Settled' /\ Checked'
  BY <1>1, <1>2, <1>5 DEF Settled, Checked, CheckSteps, IsSwitch
<1>9. pc' = "set" => Fits(file[To])'
  BY <1>1, <1>2, <1>3 DEF VerifyCopy, Upload, Goto, Fits, Quiet, To, IInv, TypeOK
<1>10. HandedOver'
  BY <1>1, <1>3, <1>5, <1>9 DEF HandedOver, LetGo, Still, NoCandidate, Drained, Fits, Quiet, OnSteps
<1>11. QED
  BY <1>6, <1>7, <1>8, <1>10 DEF Inv

\* What the operator does between two commands.
LEMMA OperatorStep == ASSUME IInv, NEW h \in Host, SetUnstaked(h) \/ CopyByHand(h) PROVE Inv'
<1>1. CASE SetUnstaked(h)
  <2>1. /\ UNCHANGED <<slot, lastVote, votor, file, queue, pc>> /\ pc = "idle" /\ rested' = FALSE
        /\ ident' \subseteq ident /\ pending' \subseteq pending \cup {<<h, "set-unstaked">>}
    BY <1>1, SMT DEF SetUnstaked, cluster
  <2>2. \A g \in Host : (Active(g)' => Active(g)) /\ (Candidate(g)' => Candidate(g))
    BY <2>1 DEF Active, Candidate
  <2>3. OneCandidate' /\ Ahead' /\ CandidatesFit'
    BY <2>1, <2>2 DEF IInv, Inv, OneCandidate, Ahead, CandidatesFit, Fits, Quiet
  <2>4. QED
    BY <2>1, <2>3, Ended
<1>2. CASE CopyByHand(h)
  <2>1. /\ UNCHANGED <<slot, lastVote, ident, votor, voter, queue, pending, pc, rested>>
        /\ pc = "idle" /\ ~Candidate(h)
        /\ \A g \in Host \ {h} : file'[g] = file[g]
    BY <1>2 DEF CopyByHand, cluster, commands, Candidate, IInv, TypeOK
  <2>2. OneCandidate' /\ Ahead' /\ CandidatesFit'
    BY <2>1 DEF IInv, Inv, OneCandidate, Ahead, CandidatesFit, Active, Candidate, Fits, Quiet
  <2>3. Settled'
    BY <2>1 DEF IInv, Inv, Settled, Recent, Votes
  <2>4. InCommand' /\ Checked' /\ HandedOver'
    BY <2>1 DEF InCommand, Checked, HandedOver, LetGo, Still, OffSteps, OnSteps, CheckSteps
  <2>5. QED
    BY <2>2, <2>3, <2>4 DEF Inv
<1>3. QED
  BY <1>1, <1>2

\* Whoever has the identity at first, its history covers the last vote.
LEMMA InitHolds == Init => IInv
<1> SUFFICES ASSUME Init PROVE IInv
  OBVIOUS
<1>1. TypeOK
  BY TypesAtFirst
<1>2. pc = "idle" /\ pending = {} /\ Drained
  BY DEF Init, Drained
<1>3. InCommand /\ Checked /\ HandedOver /\ Ahead
  BY <1>2 DEF InCommand, Checked, HandedOver, LetGo, Still, OffSteps, OnSteps, CheckSteps, Ahead, Drained
<1>4. CASE ident = {} /\ votor = {}
  <2>1. OneCandidate /\ CandidatesFit /\ Settled
    BY <1>2, <1>4 DEF OneCandidate, CandidatesFit, Settled, Active, Candidate, Drained, Votes
  <2>2. QED
    BY <1>1, <1>3, <2>1 DEF IInv, Inv
<1>5. CASE \E h \in Host : /\ ident = {h} /\ votor = {h} /\ lastVote = slot
                           /\ file = [g \in Host |-> IF g = h THEN slot ELSE 0]
  <2>1. OneCandidate /\ CandidatesFit /\ Settled
    BY <1>1, <1>2, <1>5, Numbers
    DEF OneCandidate, CandidatesFit, Settled, Active, Candidate, Drained, Fits, Recent
  <2>2. QED
    BY <1>1, <1>3, <2>1 DEF IInv, Inv
<1>6. QED
  BY <1>4, <1>5, Zenon DEF Init

\* Every step keeps the invariant.
LEMMA NextHolds == IInv /\ [Next]_vars => IInv'
<1>1. TypeOK /\ [Next]_vars => TypeOK'
  BY TypesStay
<1>2. ASSUME IInv, Next PROVE Inv'
  BY <1>2, EnvironmentStep, StartStep, EndStep, SwitchOffStep, CheckStep, SetStep, VoterStep,
     ConfirmStep, UploadStep, OperatorStep DEF Next, Promote
<1>3. ASSUME IInv, UNCHANGED vars PROVE Inv'
  BY <1>3 DEF vars, cluster, hosts, commands, IInv, Inv, InCommand, OneCandidate, Ahead, CandidatesFit,
     Settled, Checked, HandedOver, Active, Candidate, Votes, Drained, NoCandidate, Recent, Fits, Quiet, LetGo, Still,
     SilentHolder, Voting, IsSwitch, From, To
<1>4. QED
  BY <1>1, <1>2, <1>3 DEF IInv

\* So it holds in every reachable state.
LEMMA Invariant == Spec => []IInv
  BY InitHolds, NextHolds, PTL DEF Spec

\* At no time do two hosts vote with the identity, however switches, set:identity, late
\* answers, crashes and copies by hand follow each other.
THEOREM OneVoterCorrect == Spec => []OneVoter
<1>1. IInv => OneVoter
  BY DEF IInv, Inv, OneCandidate, OneVoter, Voting, Active, Candidate
<1>2. QED
  BY <1>1, Invariant, PTL

\* Every vote that is sent is for a slot after the last vote of the identity.
THEOREM VotesOnce == Spec => NeverVotesTwice
<1>1. IInv /\ [Next]_vars => [\A h \in Host : Cast(h) => queue[h] > lastVote]_vars
  BY DEF IInv, Inv, Ahead, Cast
<1>2. QED
  BY <1>1, Invariant, PTL DEF Spec, NeverVotesTwice
-----------------------------------------------------------------------------
(* The commands implement one voting identity (VotingIdentity).                 *)

\* The hosts that have to do with the identity.
Has == {h \in Host : Active(h)}

\* No vote is for a slot that the cluster has not reached.
NotAhead == lastVote <= slot /\ \A h \in Host : queue[h] <= slot

\* The hosts vote only up to the slot of the cluster, and that only goes forward.
LEMMA EnvironmentNotAhead == ASSUME TypeOK, NotAhead, Environment PROVE NotAhead'
<1> USE DEF NotAhead
<1>1. ASSUME NEW h \in Host, Decide(h) PROVE NotAhead'
  <2>1. PICK v \in Slot : v <= slot /\ queue' = [queue EXCEPT ![h] = v]
    BY <1>1 DEF Decide
  <2>2. UNCHANGED <<slot, lastVote>>
    BY <1>1 DEF Decide, cluster
  <2>3. QED
    BY <2>1, <2>2 DEF TypeOK
<1>2. ASSUME NEW h \in Host, Cast(h) PROVE NotAhead'
  <2>1. UNCHANGED slot /\ lastVote' \in {queue[h], lastVote} /\ queue' = [queue EXCEPT ![h] = 0]
    BY <1>2 DEF Cast
  <2>2. QED
    BY <2>1, Numbers DEF TypeOK
<1>3. ASSUME NEW h \in Host, Stop(h) PROVE NotAhead'
  BY <1>3, Numbers DEF Stop, cluster, TypeOK
<1>4. ASSUME NEW h \in Host, VotorFollows(h) \/ Boot(h) \/ Advertise(h) \/ LateAnswer(h) PROVE NotAhead'
  <2>1. UNCHANGED <<slot, lastVote, queue>>
    BY <1>4, Zenon DEF VotorFollows, Boot, Advertise, LateAnswer, cluster, hosts
  <2>2. QED
    BY <2>1
<1>5. CASE Tick
  BY <1>5, Numbers DEF Tick, hosts
<1>6. CASE Purge
  BY <1>6 DEF Purge, hosts
<1>7. QED
  BY <1>1, <1>2, <1>3, <1>4, <1>5, <1>6 DEF Environment

\* What a command or the operator does changes neither the votes nor the slot, and but for
\* set-identity it gives the identity to no host.
LEMMA CommandFewer ==
  ASSUME Start \/ Fail \/ SwitchOff \/ VerifyCopy \/ Upload \/ Precheck \/ CheckFiles
           \/ CheckDeadPrimary \/ AddVoter \/ AddVoterTimesOut \/ Confirm \/ RemoveCopy
  PROVE  UNCHANGED <<slot, lastVote, queue>> /\ \A g \in Host : Active(g)' => Active(g)
<1>1. CASE Demote \/ AddVoter \/ AddVoterTimesOut
  BY <1>1 DEF Demote, AddVoter, AddVoterTimesOut, cluster, Active, Candidate
<1>2. CASE ~(Demote \/ AddVoter \/ AddVoterTimesOut)
  <2>1. UNCHANGED <<slot, lastVote, queue, ident, votor, pending>>
    BY <1>2, Zenon DEF Start, Fail, SwitchOff, CheckSource, NoteLog, RemoveOlderCopy, WaitForVotorLine, ReadFile,
       ReadFileAgain, Fetch, CompareCopy, VerifyCopy, Upload, Precheck, CheckFiles, CheckDeadPrimary, Confirm,
       RemoveCopy, cluster, hosts
  <2>2. QED
    BY <2>1 DEF Active, Candidate
<1>3. QED
  BY <1>1, <1>2

LEMMA OperatorFewer ==
  ASSUME NEW h \in Host, SetUnstaked(h) \/ CopyByHand(h)
  PROVE  UNCHANGED <<slot, lastVote, queue>> /\ \A g \in Host : Active(g)' => Active(g)
<1>1. UNCHANGED <<slot, lastVote, votor, queue>>
  BY Zenon DEF SetUnstaked, CopyByHand, cluster
<1>2. ident' \subseteq ident /\ pending' \subseteq pending \cup {<<h, "set-unstaked">>}
  BY SMT DEF SetUnstaked, CopyByHand
<1>3. QED
  BY <1>1, <1>2 DEF Active, Candidate

\* Neither do the hosts, in every step but the passing of a slot and a vote: only one that
\* is counted already takes the identity up.
LEMMA HostsFewer ==
  ASSUME IInv, NEW h \in Host,
         Decide(h) \/ VotorFollows(h) \/ Stop(h) \/ Boot(h) \/ Advertise(h) \/ LateAnswer(h)
  PROVE  UNCHANGED <<slot, lastVote>> /\ \A g \in Host : Active(g)' => Active(g)
<1>1. UNCHANGED <<slot, lastVote>>
  BY Zenon DEF Decide, VotorFollows, Stop, Boot, Advertise, LateAnswer, cluster
<1>2. CASE Decide(h)
  <2>1. PICK v \in Slot : queue' = [queue EXCEPT ![h] = v]
    BY <1>2 DEF Decide
  <2>2. h \in votor /\ UNCHANGED <<ident, votor, pending>>
    BY <1>2 DEF Decide, Voting
  <2>3. \A g \in Host \ {h} : queue'[g] = queue[g]
    BY <2>1 DEF IInv, TypeOK
  <2>4. QED
    BY <1>1, <2>2, <2>3 DEF Active, Candidate
<1>3. CASE VotorFollows(h)
  BY <1>1, <1>3 DEF VotorFollows, Active, Candidate
<1>4. CASE Stop(h)
  <2>1. \A g \in Host : queue'[g] = IF g = h THEN 0 ELSE queue[g]
    BY <1>4 DEF Stop, IInv, TypeOK
  <2>2. ident' \subseteq ident /\ votor' \subseteq votor /\ pending' \subseteq pending
    BY <1>4 DEF Stop
  <2>3. QED
    BY <1>1, <2>1, <2>2 DEF Active, Candidate
<1>5. CASE LateAnswer(h)
  <2>1. PICK what \in Requests :
          /\ <<h, what>> \in pending /\ pending' = pending \ {<<h, what>>}
          /\ \/ what = "set-identity" /\ ident' = ident \cup {h}
             \/ ident' \in {ident, ident \ {h}}
    BY <1>5, SMT DEF LateAnswer
  <2>2. UNCHANGED <<votor, queue>>
    BY <1>5, Zenon DEF LateAnswer
  <2>3. QED
    BY <1>1, <2>1, <2>2 DEF Active, Candidate
<1>6. CASE Boot(h) \/ Advertise(h)
  BY <1>1, <1>6 DEF Boot, Advertise, hosts, Active, Candidate
<1>7. QED
  BY <1>2, <1>3, <1>4, <1>5, <1>6

\* set-identity changes no vote and no slot.
LEMMA SetKeepsVotes == SetIdentity \/ SetIdentityTimesOut => UNCHANGED <<slot, lastVote, queue>>
  BY DEF SetIdentity, SetIdentityTimesOut, cluster

LEMMA NotAheadStays == TypeOK /\ NotAhead /\ [Next]_vars => NotAhead'
<1>1. ASSUME NotAhead, UNCHANGED <<slot, lastVote, queue>> PROVE NotAhead'
  BY <1>1 DEF NotAhead
<1>2. ASSUME UNCHANGED vars PROVE UNCHANGED <<slot, lastVote, queue>>
  BY <1>2 DEF vars, cluster, hosts
<1>3. QED
  BY <1>1, <1>2, EnvironmentNotAhead, CommandFewer, OperatorFewer, SetKeepsVotes DEF Next, Promote

LEMMA NeverAhead == Spec => []NotAhead
<1>1. Init => NotAhead
  BY ParametersOK DEF Init, NotAhead
<1>2. QED
  BY <1>1, NotAheadStays, TypeCorrect, PTL DEF Spec

\* One host has the identity, or none.
LEMMA OneHas == ASSUME IInv PROVE Has = {} \/ \E h \in Host : Has = {h}
  BY DEF IInv, Inv, OneCandidate, Has

\* When no host comes to have the identity, that is a stutter or a letting go.
LEMMA FewerMaps ==
  ASSUME IInv, UNCHANGED <<slot, lastVote>>, \A g \in Host : Active(g)' => Active(g)
  PROVE  [Identity!Next]_<<Has, lastVote, slot>>
<1>1. Has' \subseteq Has
  BY DEF Has
<1>2. Has' = Has \/ (Has # {} /\ Has' = {})
  BY <1>1, OneHas
<1>3. QED
  BY <1>2 DEF Has, Identity!Next, Identity!LetGo

\* set-identity gives it to a host that has it already, or that takes it from nobody.
LEMMA SetMaps ==
  ASSUME IInv, SetIdentity \/ SetIdentityTimesOut
  PROVE  [Identity!Next]_<<Has, lastVote, slot>>
<1>1. /\ UNCHANGED <<slot, lastVote, votor, queue>> /\ pc = "set"
      /\ ident' \subseteq ident \cup {To}
      /\ pending' \subseteq pending \cup {<<To, "set-identity">>}
      /\ ident \subseteq ident' /\ pending \subseteq pending'
  BY DEF SetIdentity, SetIdentityTimesOut, cluster
<1>2. To \in Host /\ Has \subseteq {To} /\ Has' \subseteq {To}
  BY <1>1, OnlyTheTarget DEF Has, Active, Candidate, Drained
<1>3. Has \subseteq Has'
  BY <1>1 DEF Has, Active, Candidate
<1>4. Has' = Has \/ (Has = {} /\ Has' = {To})
  BY <1>2, <1>3
<1>5. QED
  BY <1>1, <1>2, <1>4 DEF Has, Identity!Next, Identity!Take

\* A vote that is sent is one of the host that has the identity, for a later slot that the
\* cluster has reached.
LEMMA CastMaps ==
  ASSUME IInv, NotAhead, NEW h \in Host, Cast(h)
  PROVE  [Identity!Next]_<<Has, lastVote, slot>>
<1>1. /\ UNCHANGED <<slot, ident, votor, pending>>
      /\ queue[h] # 0 /\ queue[h] > lastVote /\ lastVote' = queue[h]
  BY DEF Cast, IInv, Inv, Ahead
<1>2. \A g \in Host : queue'[g] = IF g = h THEN 0 ELSE queue[g]
  BY DEF Cast, IInv, TypeOK
<1>3. h \in Has /\ Has' \subseteq Has
  BY <1>1, <1>2 DEF Has, Active, Candidate
<1>4. Has' \in {Has, {}}
  BY <1>3, OneHas
<1>5. queue[h] \in 1..slot
  BY <1>1, Numbers DEF NotAhead, IInv
<1>6. Identity!Vote(queue[h])
  BY <1>1, <1>3, <1>4, <1>5 DEF Has, Identity!Vote
<1>7. QED
  BY <1>5, <1>6 DEF Identity!Next

LEMMA TickMaps == ASSUME Tick PROVE Identity!Next
<1>1. slot' = slot + 1 /\ UNCHANGED <<lastVote, ident, votor, queue, pending>>
  BY DEF Tick, hosts
<1>2. QED
  BY <1>1 DEF Active, Candidate, Identity!Next, Identity!Pass

LEMMA StepMaps == ASSUME IInv, NotAhead, [Next]_vars PROVE [Identity!Next]_<<Has, lastVote, slot>>
<1>1. CASE UNCHANGED vars
  BY <1>1, FewerMaps DEF vars, cluster, hosts, Active, Candidate
<1>2. CASE Environment
  <2>1. ASSUME Purge PROVE UNCHANGED <<slot, lastVote>> /\ \A g \in Host : Active(g)' => Active(g)
    BY <2>1 DEF Purge, hosts, Active, Candidate
  <2>2. QED
    BY <1>2, <2>1, HostsFewer, FewerMaps, CastMaps, TickMaps DEF Environment
<1>3. CASE Start \/ Fail \/ SwitchOff \/ Promote
  BY <1>3, CommandFewer, FewerMaps, SetMaps DEF Promote
<1>4. CASE \E h \in Host : SetUnstaked(h) \/ CopyByHand(h)
  BY <1>4, OperatorFewer, FewerMaps
<1>5. QED
  BY <1>1, <1>2, <1>3, <1>4 DEF Next

LEMMA InitMaps == Init => Identity!Init
<1> SUFFICES ASSUME Init PROVE Identity!Init
  OBVIOUS
<1>1. IInv
  BY InitHolds
<1>2. lastVote \in Nat /\ slot \in Nat /\ lastVote <= slot
  BY <1>1, Numbers, ParametersOK DEF Init, IInv
<1>3. QED
  BY <1>1, <1>2, OneHas DEF Has, Identity!Init

\* Whatever commands run, fail, time out and are answered late, whichever hosts stop and
\* boot, and whatever the operator copies by hand: the hosts together behave as one voting
\* identity, which is let go everywhere before it is taken and votes forward.
THEOREM OneIdentityCorrect == Spec => OneIdentity
<1>1. Spec => [](IInv /\ NotAhead)
  BY Invariant, NeverAhead, PTL
<1>2. IInv /\ NotAhead /\ [Next]_vars => [Identity!Next]_<<Has, lastVote, slot>>
  BY StepMaps
<1>3. QED
  BY <1>1, <1>2, InitMaps, PTL DEF Spec, OneIdentity, Identity!Spec, Has
=============================================================================
