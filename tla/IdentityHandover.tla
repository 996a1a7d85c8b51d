-------------------------- MODULE IdentityHandover --------------------------
(***************************************************************************)
(* Moving one staked validator identity between hosts on Alpenglow:        *)
(* `slv v switch` (nodowntime_migrate.yml: switch_off_identity.yml,        *)
(* vote_history_take.yml, switch_on_identity.yml), `slv v set:identity`    *)
(* (identityPrecheck.ts, set_identity_key.yml, vote_history_dead_primary)  *)
(* and `slv v set:unstaked`.                                               *)
(*                                                                         *)
(* The playbooks are sequences of tasks on a controller; each task that    *)
(* reads or changes something outside is a step, and between two steps     *)
(* hosts vote, stop and boot, and Votor (agave's voting loop, external)    *)
(* takes up identity changes in its own time.                              *)
(*                                                                         *)
(* A vote history file is the last slot it covers.  0: no file, no vote.   *)
(***************************************************************************)
EXTENDS Naturals, FiniteSets

CONSTANTS
  Host,
  None,
  Window,    \* slots after which a vote can no longer land (slv_dp_window, 270)
  Genesis,   \* slot of the Alpenglow genesis certificate
  MaxSlot    \* bound of the exploration

ASSUME ParametersOK ==
  /\ None \notin Host
  /\ Window \in Nat \ {0} /\ Genesis \in Nat /\ MaxSlot \in Nat
  /\ Genesis < MaxSlot

Slot == 0..MaxSlot

Kinds == {"switch", "set", "first_activation", "primary_down"}

\* confirmed: the hosts the operator says are stopped (--primary-down, --peer-down-confirmed).
Command == [kind : Kinds, from : Host, to : Host, confirmed : SUBSET Host]

OffSteps   == {"check", "note", "demote", "forget", "line", "read", "reread", "fetch", "compare"}
OnSteps    == {"verify", "upload"}
CheckSteps == {"precheck", "files", "quiet"}
LastSteps  == {"set", "voter", "confirm", "clean"}
Steps      == {"idle"} \cup OffSteps \cup OnSteps \cup CheckSteps \cup LastSteps

Requests == {"set-identity", "set-unstaked", "authorized-voter"}

VARIABLES
  slot,      \* current slot of the cluster
  lastVote,  \* last vote of the vote account
  gossip,    \* host the cluster lists the identity at, or None
  up,        \* hosts that run
  ident,     \* hosts that run the identity (contact-info, the admin RPC)
  votor,     \* hosts whose Votor holds it
  voter,     \* hosts with its authorized voter
  file,      \* vote_history-<identity>.bin in /mnt/ledger of a host
  queue,     \* vote Votor has decided on and not cast yet
  pending,   \* requests to the admin RPC of a host that were not answered
  copy,      \* vote_history-<identity>.bin on the controller
  pc, cmd,   \* the step the operator's command is at, and the command
  line,      \* Votor's line is in the log, past the noted offset
  got,       \* sha256 it read: of the file that stopped changing, of the file before set-identity
  gap,       \* the time between the two reads has passed
  stale,     \* primary_down_address
  rested     \* a slot has passed since the operator's last command

cluster  == <<slot, lastVote, gossip>>
hosts    == <<up, ident, votor, voter, file, queue, pending>>
commands == <<pc, cmd, line, got, gap, stale, rested>>
vars     == <<cluster, hosts, copy, commands>>

TypeOK ==
  /\ slot \in Slot /\ lastVote \in Slot /\ copy \in Slot
  /\ gossip \in Host \cup {None}
  /\ up \subseteq Host /\ ident \subseteq up /\ votor \subseteq up /\ voter \subseteq up
  /\ pending \subseteq up \X Requests
  /\ file \in [Host -> Slot] /\ queue \in [Host -> Slot]
  /\ pc \in Steps
  /\ cmd \in Command \cup {None}
  /\ line \in BOOLEAN /\ gap \in BOOLEAN /\ rested \in BOOLEAN
  /\ got \in Slot
  /\ stale \in Host \cup {None}

\* Either one host votes with the identity, or it has not voted since the genesis.
Init ==
  /\ slot = Genesis + 1
  /\ up = Host
  /\ \/ \E h \in Host :
          /\ ident = {h} /\ votor = {h} /\ voter = {h} /\ gossip = h
          /\ lastVote = slot
          /\ file = [g \in Host |-> IF g = h THEN slot ELSE 0]
     \/ /\ ident = {} /\ votor = {} /\ voter = {} /\ gossip = None
        /\ lastVote \in {0, Genesis}
        /\ file = [g \in Host |-> 0]
  /\ queue = [h \in Host |-> 0]
  /\ pending = {} /\ copy = 0
  /\ pc = "idle" /\ cmd = None
  /\ line = FALSE /\ gap = FALSE /\ rested = TRUE
  /\ got = 0 /\ stale = None

-----------------------------------------------------------------------------
(* The hosts and the cluster (external).                                    *)

Voting(h) == h \in votor /\ h \in voter

\* Votor decides on a slot that can still be voted on and that its history does not cover.
Decide(h) ==
  /\ Voting(h) /\ queue[h] = 0
  /\ \E v \in Slot :
       /\ v > file[h] /\ v + Window >= slot /\ v <= slot
       /\ queue' = [queue EXCEPT ![h] = v]
  /\ UNCHANGED <<cluster, up, ident, votor, voter, file, pending, copy, commands>>

\* The history is written, then the vote is sent; also just after Votor has let go.
\* A Votor that holds the identity keeps the history in memory as it is in its file.
Cast(h) ==
  /\ queue[h] # 0
  /\ file' = [file EXCEPT ![h] = queue[h]]
  /\ lastVote' = IF queue[h] > lastVote THEN queue[h] ELSE lastVote
  /\ queue' = [queue EXCEPT ![h] = 0]
  /\ UNCHANGED <<slot, gossip, up, ident, votor, voter, pending, copy, commands>>

\* The admin RPC has returned; Votor handles the change when it gets to it, and logs
\* "set-identity: from <identity> to ..." when it lets go.
VotorFollows(h) ==
  /\ h \in up /\ (h \in votor) # (h \in ident)
  /\ votor' = IF h \in ident THEN votor \cup {h} ELSE votor \ {h}
  /\ line' = (line \/ (h \in votor /\ pc \in OffSteps /\ cmd.from = h))
  /\ UNCHANGED <<cluster, up, ident, voter, file, queue, pending, copy,
                 pc, cmd, got, gap, stale, rested>>

\* A slot passes.  The timing the playbooks count on: a decided vote is out within a
\* slot, so is the start of a new voter, the last vote of an identity that votes
\* follows the slot (vote_history_last_vote.yml:4), and a Votor lets go before it is
\* too old.
Tick ==
  /\ slot < MaxSlot
  /\ \A h \in Host : queue[h] = 0
  /\ ident \subseteq votor
  /\ (\E h \in votor : Voting(h) \/ h \notin ident) => lastVote + Window > slot
  /\ slot' = slot + 1
  /\ gap' = TRUE /\ rested' = TRUE
  /\ UNCHANGED <<lastVote, gossip, hosts, copy, pc, cmd, line, got, stale>>

\* Mutant: the answer of a process that is gone is still waited for.
StopKeepingAnswer(h) ==
  /\ h \in up
  /\ up' = up \ {h} /\ ident' = ident \ {h} /\ votor' = votor \ {h} /\ voter' = voter \ {h}
  /\ queue' = [queue EXCEPT ![h] = 0]
  /\ UNCHANGED <<cluster, file, pending, copy, commands>>

\* A crash, a power-off or a restart: the start script names the unstaked identity
\* (assert_unstaked_identity.yml), the ledger directory stays.
Stop(h) ==
  /\ h \in up
  /\ up' = up \ {h} /\ ident' = ident \ {h} /\ votor' = votor \ {h} /\ voter' = voter \ {h}
  /\ queue' = [queue EXCEPT ![h] = 0]
  /\ pending' = pending \ ({h} \X Requests)
  /\ UNCHANGED <<cluster, file, copy, commands>>

Boot(h) ==
  /\ h \in Host \ up
  /\ up' = up \cup {h}
  /\ UNCHANGED <<cluster, ident, votor, voter, file, queue, pending, copy, commands>>

Advertise(h) ==
  /\ h \in ident /\ gossip # h
  /\ gossip' = h
  /\ UNCHANGED <<slot, lastVote, hosts, copy, commands>>

\* A stale entry stays for long, and goes at some time.
Purge ==
  /\ ident = {} /\ gossip # None
  /\ gossip' = None
  /\ UNCHANGED <<slot, lastVote, hosts, copy, commands>>

\* An unanswered request is carried out after all, or never will be.  The operator
\* takes at least a slot to act on it.
LateAnswer(h) ==
  /\ \E what \in Requests :
       /\ <<h, what>> \in pending
       /\ pending' = pending \ {<<h, what>>}
       /\ \/ what = "set-identity"     /\ ident' = ident \cup {h} /\ UNCHANGED voter
          \/ what = "set-unstaked"     /\ ident' = ident \ {h}    /\ UNCHANGED voter
          \/ what = "authorized-voter" /\ voter' = voter \cup {h} /\ UNCHANGED ident
          \/ UNCHANGED <<ident, voter>>
  /\ rested' = FALSE
  /\ UNCHANGED <<cluster, up, votor, file, queue, copy, pc, cmd, line, got, gap, stale>>

-----------------------------------------------------------------------------
(* One command.                                                             *)

Goto(step) == pc' = step

From == cmd.from
To   == cmd.to
IsSwitch == cmd.kind = "switch"

\* A host of which only the operator can know that it holds the identity.
SilentHolder(h) == h \in ident \cup votor /\ ~Voting(h)

\* The operator waits until the outcome of an unanswered set-identity is known
\* (switch_on_identity.yml:249) and confirms no silent holder as stopped.
Start ==
  /\ pc = "idle" /\ rested /\ pending = {}
  /\ \E c \in Command :
       /\ IF c.kind = "switch" THEN c.from # c.to /\ c.confirmed = {}
                               ELSE c.from = c.to /\ c.to \notin c.confirmed
       /\ c.kind = "primary_down" => c.confirmed # {}
       /\ \A h \in c.confirmed : ~SilentHolder(h)
       /\ cmd' = c
       /\ Goto(IF c.kind = "switch" THEN "check" ELSE "precheck")
  /\ UNCHANGED <<cluster, hosts, copy, line, got, gap, stale, rested>>

Finish ==
  /\ Goto("idle")
  /\ cmd' = None
  /\ line' = FALSE /\ gap' = FALSE
  /\ got' = 0
  /\ stale' = None
  /\ rested' = FALSE

\* A task fails, a wait times out, a check refuses, or the operator interrupts.  A
\* copy that was not compared is removed, unless the controller is interrupted.
Fail ==
  /\ pc # "idle"
  /\ Finish
  /\ copy' = copy \/ (pc = "compare" /\ copy' = 0)
  /\ UNCHANGED <<cluster, hosts>>

\* What the playbook tells the operator to do when it stops between two hosts: look
\* which host runs the identity, and put the kept copy on one that does not.
CopyByHand(h) ==
  /\ pc = "idle" /\ pending = {}
  /\ h \in up \ (ident \cup votor)
  /\ copy # 0
  /\ file' = [file EXCEPT ![h] = copy]
  /\ UNCHANGED <<cluster, up, ident, votor, voter, queue, pending, copy, commands>>

\* slv v set:unstaked, a command of one task that waits 20 seconds.
SetUnstaked(h) ==
  /\ pc = "idle" /\ rested /\ h \in ident
  /\ \/ ident' = ident \ {h} /\ UNCHANGED pending
     \/ pending' = pending \cup {<<h, "set-unstaked">>} /\ UNCHANGED ident
  /\ rested' = FALSE
  /\ UNCHANGED <<cluster, up, votor, voter, file, queue, copy, pc, cmd, line, got, gap, stale>>

-----------------------------------------------------------------------------
(* switch_off_identity.yml on the source, vote_history_take.yml.            *)

CheckSource ==
  /\ pc = "check" /\ From \in up /\ To \in up
  /\ file[From] # 0
  /\ Goto("note")
  /\ UNCHANGED <<cluster, hosts, copy, cmd, line, got, gap, stale, rested>>

\* Where the log of the source ends now.
NoteLog ==
  /\ pc = "note" /\ From \in up
  /\ line' = FALSE
  /\ Goto("demote")
  /\ UNCHANGED <<cluster, hosts, copy, cmd, got, gap, stale, rested>>

Demote ==
  /\ pc = "demote" /\ From \in up
  /\ ident' = ident \ {From}
  /\ Goto("forget")
  /\ UNCHANGED <<cluster, up, votor, voter, file, queue, pending, copy,
                 cmd, line, got, gap, stale, rested>>

RemoveOlderCopy ==
  /\ pc = "forget"
  /\ copy' = 0
  /\ Goto("line")
  /\ UNCHANGED <<cluster, hosts, cmd, line, got, gap, stale, rested>>

\* Mutant: the file is taken once set-identity has returned.
WaitForNothing ==
  /\ pc = "line" /\ From \in up
  /\ Goto("read")
  /\ UNCHANGED <<cluster, hosts, copy, cmd, line, got, gap, stale, rested>>

WaitForVotorLine ==
  /\ pc = "line" /\ From \in up
  /\ line
  /\ Goto("read")
  /\ UNCHANGED <<cluster, hosts, copy, cmd, line, got, gap, stale, rested>>

ReadFile ==
  /\ pc = "read" /\ From \in up
  /\ got' = file[From]
  /\ gap' = FALSE
  /\ Goto("reread")
  /\ UNCHANGED <<cluster, hosts, copy, cmd, line, stale, rested>>

\* Mutant: the two reads follow each other at once.
ReadFileTwice ==
  /\ pc = "reread" /\ From \in up
  /\ Goto(IF file[From] = got THEN "fetch" ELSE "read")
  /\ UNCHANGED <<cluster, hosts, copy, cmd, line, got, gap, stale, rested>>

\* slv_vote_history_gap_seconds later.
ReadFileAgain ==
  /\ pc = "reread" /\ From \in up /\ gap
  /\ Goto(IF file[From] = got THEN "fetch" ELSE "read")
  /\ UNCHANGED <<cluster, hosts, copy, cmd, line, got, gap, stale, rested>>

Fetch ==
  /\ pc = "fetch" /\ From \in up
  /\ copy' = file[From]
  /\ Goto("compare")
  /\ UNCHANGED <<cluster, hosts, cmd, line, got, gap, stale, rested>>

\* The copy is the file that stopped changing, or the rescue removes it.
CompareCopy ==
  /\ pc = "compare" /\ From \in up
  /\ IF copy = got /\ file[From] = got
       THEN Goto("verify") /\ UNCHANGED <<copy, cmd, line, got, gap, stale, rested>>
       ELSE Finish /\ copy' = 0
  /\ UNCHANGED <<cluster, hosts>>

-----------------------------------------------------------------------------
(* switch_on_identity.yml on the target.                                    *)

\* Only the file that this run took off the source is put on a host.
VerifyCopy ==
  /\ pc = "verify"
  /\ copy # 0 /\ copy = got
  /\ Goto("upload")
  /\ UNCHANGED <<cluster, hosts, copy, cmd, line, got, gap, stale, rested>>

Upload ==
  /\ pc = "upload" /\ To \in up
  /\ copy # 0
  /\ file' = [file EXCEPT ![To] = copy]
  /\ got' = copy
  /\ Goto("set")
  /\ UNCHANGED <<cluster, up, ident, votor, voter, queue, pending, copy,
                 cmd, line, gap, stale, rested>>

-----------------------------------------------------------------------------
(* set:identity: the precheck of the CLI, then set_identity_key.yml.        *)

\* Mutant: off by one.
QuietTooSoon == slot >= lastVote + Window

Quiet == slot > lastVote + Window

\* checkPeers: a peer answers that it runs another identity, or does not answer and
\* is confirmed stopped.
PeerOK(h) == h \in up \ ident \/ h \in cmd.confirmed

FirstActivationOK == cmd.kind = "first_activation" => lastVote <= Genesis

\* runIdentityPrecheck: peers, gossip (judgeForeignEntry) and the last vote.  The reads
\* of several hosts are taken at one moment: only a command gives a host the identity, and
\* one command runs at a time.
Precheck ==
  /\ pc = "precheck"
  /\ \A h \in Host \ {To} : PeerOK(h)
  /\ gossip \notin {None, To} => lastVote # 0 /\ Quiet
  /\ lastVote = 0 \/ Quiet \/ gossip = To
  /\ FirstActivationOK
  /\ stale' = IF gossip = To THEN None ELSE gossip
  /\ Goto("files")
  /\ UNCHANGED <<cluster, hosts, copy, cmd, line, got, gap, rested>>

MayLackFile == cmd.kind \in {"first_activation", "primary_down"}

CheckFiles ==
  /\ pc = "files" /\ To \in up
  /\ file[To] # 0 \/ MayLackFile
  /\ got' = file[To]
  /\ Goto("quiet")
  /\ UNCHANGED <<cluster, hosts, copy, cmd, line, gap, stale, rested>>

\* Mutant: the playbook trusts what the CLI saw before.
CheckNothingAgain ==
  /\ pc = "quiet" /\ To \in up
  /\ Goto("set")
  /\ UNCHANGED <<cluster, hosts, copy, cmd, line, got, gap, stale, rested>>

\* vote_history_dead_primary.yml, then the rule for a first activation.  Its reads too
\* are taken at one moment.
CheckDeadPrimary ==
  /\ pc = "quiet" /\ To \in up
  /\ Quiet
  /\ gossip \in {None, To, stale}
  /\ FirstActivationOK
  /\ Goto("set")
  /\ UNCHANGED <<cluster, hosts, copy, cmd, line, got, gap, stale, rested>>

-----------------------------------------------------------------------------
(* The last tasks, of both playbooks.                                       *)

\* agave wants the history file, unless it is told not to or nothing was voted since
\* the genesis.
SetIdentity ==
  /\ pc = "set" /\ To \in up
  /\ file[To] # 0 \/ MayLackFile
  /\ ident' = ident \cup {To}
  /\ Goto("voter")
  /\ UNCHANGED <<cluster, up, votor, voter, file, queue, pending, copy,
                 cmd, line, got, gap, stale, rested>>

\* No answer within 20 seconds: the playbook fails, agave may still apply it.
SetIdentityTimesOut ==
  /\ pc = "set" /\ To \in up
  /\ file[To] # 0 \/ MayLackFile
  /\ pending' = pending \cup {<<To, "set-identity">>}
  /\ Finish
  /\ UNCHANGED <<cluster, up, ident, votor, voter, file, queue, copy>>

AddVoter ==
  /\ pc = "voter" /\ To \in up
  /\ voter' = voter \cup {To}
  /\ Goto("confirm")
  /\ UNCHANGED <<cluster, up, ident, votor, file, queue, pending, copy,
                 cmd, line, got, gap, stale, rested>>

AddVoterTimesOut ==
  /\ pc = "voter" /\ To \in up
  /\ pending' = pending \cup {<<To, "authorized-voter">>}
  /\ Finish
  /\ UNCHANGED <<cluster, up, ident, votor, voter, file, queue, copy>>

\* vote_history_confirm.yml: the file of the host changes.  Then the cluster is asked,
\* and the play stops (Fail) when it shows that the last vote did not move.
Confirm ==
  /\ pc = "confirm" /\ To \in up
  /\ file[To] # got
  /\ IF IsSwitch
       THEN Goto("clean") /\ UNCHANGED <<cmd, line, got, gap, stale, rested>>
       ELSE Finish
  /\ UNCHANGED <<cluster, hosts, copy>>

RemoveCopy ==
  /\ pc = "clean"
  /\ copy' = 0
  /\ Finish
  /\ UNCHANGED <<cluster, hosts>>

-----------------------------------------------------------------------------
Environment ==
  \/ \E h \in Host :
       \/ Decide(h) \/ Cast(h) \/ VotorFollows(h) \/ Stop(h) \/ Boot(h)
       \/ Advertise(h) \/ LateAnswer(h)
  \/ Tick \/ Purge

SwitchOff ==
  \/ CheckSource \/ NoteLog \/ Demote \/ RemoveOlderCopy \/ WaitForVotorLine
  \/ ReadFile \/ ReadFileAgain \/ Fetch \/ CompareCopy

Promote ==
  \/ VerifyCopy \/ Upload
  \/ Precheck \/ CheckFiles \/ CheckDeadPrimary
  \/ SetIdentity \/ SetIdentityTimesOut \/ AddVoter \/ AddVoterTimesOut
  \/ Confirm \/ RemoveCopy

Next ==
  \/ Environment
  \/ Start \/ Fail \/ SwitchOff \/ Promote
  \/ \E h \in Host : SetUnstaked(h) \/ CopyByHand(h)

Spec == Init /\ [][Next]_vars
-----------------------------------------------------------------------------
(* Properties.                                                              *)

\* Two hosts never vote with the identity at the same time: what the order of the
\* switch (let go, take, put on) and the checks of set:identity are for.
OneVoter == \A g, h \in Host : Voting(g) /\ Voting(h) => g = h

\* Whatever is stopped, interrupted, retried or moved back, the identity never votes
\* on a slot that is not after its last vote: the vote history a host starts from
\* covers that vote, or the vote is too old to be repeated ("Votor needs it to keep
\* from voting twice in a slot", oss-skills/slv-validator/SKILL.md).
NeverVotesTwice == [][\A h \in Host : Cast(h) => queue[h] > lastVote]_vars

\* A host that runs the identity, whose Votor holds it, or that may still be given it.
Candidate(h) == h \in ident \cup votor \/ <<h, "set-identity">> \in pending

\* ... or that has a vote to cast.
Active(h) == Candidate(h) \/ queue[h] # 0

Identity == INSTANCE VotingIdentity
              WITH has <- {h \in Host : Active(h)}, last <- lastVote, now <- slot

\* The commands implement one voting identity: a host is given it only when no other host
\* runs it, is still let go by Votor, waits for an unanswered set-identity or has a vote
\* to cast, and votes go forward.  What a set:identity or the second half of a switch does
\* can so be judged without knowing which commands and faults came before.
OneIdentity == Identity!Spec
=============================================================================
