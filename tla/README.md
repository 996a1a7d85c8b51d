# SLV: a TLA+ model of its core protocols

SLV (`slv`) is a command line tool that deploys and operates Solana validators: a
Deno/TypeScript CLI, a Python release engine that installs and upgrades it, Ansible
playbooks that act on the hosts, a local gateway daemon for its AI console, and two
Rust plugin families. Most of it is request and answer. This directory models six
parts that are not: where processes die half-way, race, share a file or a connection,
or hand something over that must exist exactly once.

    cd tla
    tlc -workers 2 -config ReleaseTransaction.cfg MCReleaseTransaction
    tlapm ReleaseTransactionProofs.tla

## 1. Inventory

Modelled (fully or in part):

| component | code | state | operations | what makes it hard | what makes it correct |
|---|---|---|---|---|---|
| Release transaction | `cli/lib/release/engine.py` | `~/.slv/.release.lock` (flock), `~/.slv/.release-transaction.json` (journal), a work directory with new trees and backups, the replaced trees and binaries | install, upgrade, skills sync; `recover()` at three places | a kill or power loss between any two durable steps, also inside recovery; two commands on one home; a binary target that needs sudo | every release is applied to all destinations or to none; the old content is never lost; recovery ends |
| Gateway lock | `cli/src/gateway/lock.ts`, `runForeground.ts` | pidfile, listening port | acquire (three attempts), serve, graceful shutdown, release | create and write are two steps; stale decision and removal are two steps; pids are recycled; a crash leaves any file | one gateway holds it; a start on a quiet machine gets in |
| Identity hand-over | `template/2026.10.19.1053/ansible/mainnet-validator/{nodowntime_migrate, switch_off_identity, switch_on_identity, set_identity_key, set_unstaked_key}.yml`, `cmn/tasks/vote_history_*.yml` | which hosts run the identity, what their Votor holds, vote history files on hosts and controller, the cluster's view (last vote, gossip) | `slv v switch`, `slv v set:identity`, `slv v set:unstaked` | the admin RPC answers before Votor acts, or not in time and Votor acts later; hosts stop and boot; stale files and gossip; the operator retries | at most one host votes; no slot is voted on twice |
| Identity precheck | `cli/lib/identityPrecheck.ts` | none (reads peers, gossip, last vote) | the verdict before `set:identity` | what it read is old when the playbook acts | part of the hand-over |
| Gateway WebSocket sessions | `cli/src/gateway/ws/{router,server}.ts`, `cli/src/ai/core/{session,sessionClient}.ts`, `drivers/provider.ts`, `cli/src/ai/console/tools.ts` | connections, the store entry of a token and model with its listener, Session, the process-wide abort flag; in a console, the chat in flight | `session.send` (three awaits), `session.abort`, socket close, collection of idle entries; the provider's loop of requests and tools; the console's chat | all clients share one Session and one abort flag; handlers interleave at their awaits; connections are cut on one side only; the gateway restarts; an abort races the end of a turn | turns are serial and end once; an abort ends its turn; who asked hears the end; the prompt comes back |
| User API session and login | `cli/lib/userApi/session.ts`, `cli/lib/getApiKeyFromYml.ts`, `cli/src/login/{index,logout}.ts` | `~/.slv/api.yml` under its lock; the tokens and keys the server has issued | refresh, storage access key, login, logout, other sections of the file | a refresh token works once; processes share the file; an answer may be lost after the server acted; kill between the answer and the write; logout reads before it locks | a token is sent once; the stored login works; nothing valid is left behind unknown; no writer loses another's change |
| Release publication | `.github/workflows/slv-remote-build.yml`, `scripts/release/{application-draft,workflow}.ts` | the draft release and its assets, the tag, packages and artifacts of the runs | the publish job step by step, its re-runs, verify-existing | the job stops anywhere, also inside an upload; a re-run has another package; two commits carry one version; other writers | what is published is attested, of one attempt, at its tag; running again completes it |

Not modelled:

| component | code | why |
|---|---|---|
| Inventory swap | `cli/lib/swapValidatorHosts.ts` | a file rewritten after the play; on Alpenglow both entries carry the same identity. Planned as a small module |
| Gateway lifecycle commands | `cli/src/gateway/ensureRunning.ts`, `install.ts` | launchd, systemd or a child process do the work |
| Alpenglow state probe | `cli/lib/alpenglowState.ts` | planned: a decision table |
| Version floor, AI command gate | `cli/lib/versionFloor.ts`, `cli/src/ai/console/commandGate.ts` | pure; string processing |
| Backup, secrets, inventory commands | `cli/src/backup/`, `cli/lib/secret/`, `cli/lib/runAnsible.ts` | drive restic, 1Password, ansible-playbook in sequence |
| RPC gateway plugin, Geyser plugins | `slv-plugins/` | separate Rust products; per-message filters, a proxy |
| Release scripts, templates, skills, docs | `scripts/` (other than publication), `source-rebuild/`, `template/`, `oss-skills/`, `docs/` | linear: each checks what the step before it wrote and stops at the first difference; or generated |

The modelled parts do not share state: a release replaces the templates the hand-over
plays are read from, but a play reads them at its start; a gateway holds its lock for as
long as it serves sessions, and a restart is the only thing a session sees of it; what
is published reaches the release engine as bytes whose digests it checks. They are
therefore separate specifications.

## 2. Modules

    AtomicReplacement            what a release promises (abstract)
      ^ implemented by
    ReleaseTransaction           flock, journal, replace/commit, recover
      ^ MCReleaseTransaction     jobs for TLC
      ^ ReleaseTransactionProofs theorems
      ^ ReleaseOrphanSwap        ... and a sudo child that outlives its command
          ^ MCReleaseOrphanSwap
    GatewayLock                  pidfile lock inside the life of a gateway run
      ^ GatewayLoneStart         ... and a history variable: who has been alone
          ^ MCGatewayLock        runs, pids, ports
          ^ GatewayLockProofs
    VotingIdentity               what moving an identity promises (abstract)
      ^ implemented by
    IdentityHandover             switch, set:identity, set:unstaked
      ^ MCIdentityHandover       symmetry
      ^ IdentityHandoverProofs
    SessionTurns                 what a Session promises of its turns (abstract)
      ^ implemented by
    GatewaySession               connections, session.send, the tool loop, consoles, pages
      ^ MCGatewaySession         who opens which connection; a bound on faults
      ^ GatewaySessionProofs
          ^ GatewayChatProofs    no console waits for nothing
    CredentialFile               what the writers of api.yml promise (abstract)
      ^ implemented by
    UserApiLogin                 commands on one api.yml, the server's tokens and keys
      ^ MCUserApiLogin           order of commands; a bound on faults
      ^ UserApiLoginProofs
          ^ UserApiCleanupProofs what is left behind at the server
    ReleasePublication           the publish job, the draft, the tag
      ^ MCReleasePublication     bounds on attempts, faults and writes of others
      ^ ReleasePublicationProofs

`PROJECT.json` names, for every definition that models code, the file and lines. The
definitions marked `Mutant:` in the modules are deliberately wrong variants of the
definition that follows them: put in its place, TLC finds the property violated that
guards against that mistake. No specification uses them.

### ReleaseTransaction

| state | code |
|---|---|
| `dest`, `bak` | what is at `operation.destination` and `operation.backup`: a version, nothing, or `Torn` (a tree `remove()` has begun to take apart) |
| `backups` | `<work>/backups`, where the backups of privileged binaries live |
| `jstatus`, `jlist`, `jop` | the journal file: status, operations in order, and `had_original`, `backup_ready`, `state` of each |
| `holder` | who has the flock |
| `pc`, `mode`, `job`, `k` | where a command is; which of the three callers `recover()` runs for; what it installs; the index of its loop |

`Acquire` is the `LOCK_EX|LOCK_NB` of a command with its job. `Begin`, `Prepare`,
`MarkBackingUp`, `Backup`, `MarkBackedUp`, `MarkInstalling`, `Install`,
`MarkInstalled`, `Commit`, `DropBackup`..`Close` are the lines of
`Transaction.replace` and `commit` in order, one durable mutation each (the code
fsyncs each before it goes on, so a power loss is a kill before or after it).
`Unwind` is the `except` clause; `Load*`, `Undo*`, `Drop*`, `RemoveWork`, `Unlink` are
`recover()`. `Crash` is possible everywhere and frees the lock, as the kernel does.
Downloading, verification of digests and signatures and archive validation come
before all this and write only into the work directory: a job carries the version
they end with. `Crash` lets the privileged sudo child die with its parent;
`ReleaseOrphanSwap` lets it live on (`Land`, `Fizzle`).

### GatewayLock

| state | code |
|---|---|
| `file` | the pidfile as an inode: creator, and whether the record is written |
| `attempt`, `seen` | the `for` counter and the record `existing` |
| `bound` | the listener of `Deno.serve` per port |
| `aliens` | pids that unrelated processes have (external) |
| `pc` | a run from exec to exit |

`Create`/`WriteRecord`/`WriteFails` are `writeLock`, `Read`/`Probe`/`CompareStamp`/
`Remove` the loop of `acquireGatewayLock`, `Bind` the server start, `Shutdown`,
`ReleaseRead`, `ReleaseRemove` the graceful end, `Crash` a kill, `Recycle` the reuse
of a pid by another program. A run that could read its own start time
(`readProcStartTime`) is in `Stamped`.

### IdentityHandover

| state | code |
|---|---|
| `slot`, `lastVote`, `gossip` | what `getSlot`, `getVoteAccounts` and `getClusterNodes` answer |
| `up`, `ident` | hosts that run; hosts whose `contact-info` shows the identity |
| `votor`, `voter` | hosts whose Votor holds the identity, and whose authorized voter is there (external: agave) |
| `file`, `copy` | `/mnt/ledger/vote_history-<identity>.bin` per host, and the one on the controller; a file is the last slot it covers |
| `queue` | a vote decided on and not yet written and sent |
| `pending` | admin RPC requests the playbook gave up on after 20 s |
| `pc`, `cmd`, `line`, `got`, `gap`, `stale` | the task a command is at, and its facts: Votor's log line past the offset, the sha256 it read, the time between two reads, `primary_down_address` |

`CheckSource`..`CompareCopy` are `switch_off_identity.yml` with
`vote_history_take.yml`, `VerifyCopy`, `Upload` the beginning of
`switch_on_identity.yml`; `Precheck`, `CheckFiles`, `CheckDeadPrimary` are
`runIdentityPrecheck` and the checks of `set_identity_key.yml`; `SetIdentity`..
`RemoveCopy` end both. `Fail` is possible at every task. `CopyByHand` is what the
rescue text tells the operator to do. A restart brings a host up unstaked
(`assert_unstaked_identity.yml`), with its old file.

Assumptions, each a guard with a comment at its place:

1. One command runs at a time, and the operator takes at least a slot between two
   (`rested`). Two commands at once are not protected by the code (see the hazard at
   `switchValidator.ts:50`).
2. After a request without an answer the operator waits for its outcome before the
   next command (the rescue text, `switch_on_identity.yml:248-249`), and never
   confirms as stopped a host that holds the identity and does not vote
   (`SilentHolder`): nothing the code reads could contradict that.
3. Timing (`Tick`): a decided vote is out, and a promoted Votor has started, within a
   slot; a voting host's last vote stays within the window
   (`vote_history_last_vote.yml:4-6`), and a demoted Votor lets go within it. How late
   Votor acts inside these bounds is free.
4. Of the two answers for the last vote (cluster, own RPC) at least one is current:
   the playbook takes the larger, and the check that the host has caught up adds
   nothing then. Gossip lists the identity once.
5. `votor`'s history in memory is what is in its file: TLC confirms that no upload
   meets a host whose Votor holds the identity within the bounds below.

Each of `Precheck` and `CheckDeadPrimary` reads several hosts, gossip and the last vote in
one step: only a command gives a host the identity, and by 1 there is one. Between the
two, and between the second and `SetIdentity`, everything may change.

Not in the module: TowerBFT (tower files), Firedancer plays, the migration freeze
(`alpenglow_state.yml`), key files.

### GatewaySession

| state | code |
|---|---|
| `link`, `inbox`, `outbox` | a WebSocket: open, cut without either end knowing, left by the client, dropped by the gateway, closed; frames under way in each direction |
| `attached` | `state.session` of a connection (router.ts) |
| `entry`, `hears` | the entry of the session store with its listener and age; the listeners of each Session |
| `turn` | a message from `session.send` to its end: being handled, with the model, in its tools, closing; the abort signal its request was given; whether its Session was told to abort; the terminal event |
| `flag` | `abortRequested` of tools.ts, one for the process |
| `chat` | `GatewaySessionProvider`: the chat in flight, its promise `terminal`, Ctrl+C |

`ReceiveSend`, `RefuseSend`, `StartTurn` are the parts of `session.send` between its
awaits; `Heard`, `TellBusy`, `Begin` the store, the listener and `Session.send`.
`ModelAnswers`..`ToolsDone` are the provider's loop, `AbortSession` is `Session.abort`
with `killActiveProcess`, `ServerCloses` is `onclose`, `Restart` the death of the
gateway. `Accepted`..`ClientCloses` are the console's handlers. What the model and the
tools answer is external and free. A page's own display, the `echo` method, a change
of model (a second store key), `gateway.upgrade`, frames before authentication and a
page's abort button are left out; hello and authentication are part of `Connect`. A
close event of an old socket that comes after the console has reconnected is left out.

### UserApiLogin

| state | code |
|---|---|
| `yml` | `api.yml`: the access and refresh token as a generation of a login, the storage access key, other sections |
| `holder` | the lock on `api.yml.lock` |
| `me` | a command: where it is and what it read or got |
| `cur`, `dead`, `keys` | the server (external): each login's valid refresh token, revoked logins, issued keys |
| `old` | which access tokens are within the margin of expiry |
| `loose` | requests nobody waits for and that may still arrive |
| `tried`, `doubtful`, `missed` | history: tokens that were sent; logins and keys the program knows it may have lost; those a logout removed without revoking |

`Look`, `HeldRefresh`, `Serve`, `Receive`, `GiveUp`, `ReadForWrite`, `Rename` are
`ensureFreshAccessToken` with `requestRefresh` and `rewriteApiYmlLocked`; `Find`,
`HeldIssue`, `Post` the storage access key; `Device`, `Account` the login; `Record`,
`Delete`, `ReadBack`, `Revoke` the logout. `Kill` is possible everywhere and frees the
lock. Not in the module: the map that joins refreshes inside one process, `api_key`
(a write like any other section), ownership under sudo, creation of the directory,
sign-up. A file that cannot be read reads as `{}` in the code (`session.ts:83-92`), so
the key issuance goes on to its POST; here the read works, and such a file is one whose
write fails. After a refresh without an answer the next holder of the lock sends the same
token again, although `session.ts:25-28` says it is never sent twice:
`PresentedOnce` excepts a login with a lost answer.

### ReleasePublication

| state | code |
|---|---|
| `release` | the GitHub release of the tag: absent, draft, published; target commit; assets by name |
| `tag` | the commit of the tag |
| `pkg`, `retained` | the package of each run's last attempt; whether its artifact is still kept (seven days) |
| `pc`, `me`, `snap`, `existing`, `todo`, `got` | the publish job and its files |
| `late`, `touched` | history: what others wrote since the job last checked it, or ever |

`Find`..`AssertImmutable` are the steps of the job in the workflow's order, with the
guards of `application-draft.ts` (`Check`, `Complete`, `Guard`) and `workflow.ts`
(`Verified`, `VerifyExisting`). `Attempt` builds and packages, `RerunPublish` runs the
failed job again, `Stop` and `StopInUpload` end it, `Others` are people with write
access. A bundle or manifest is of one attempt, a payload of one build (`In`). GitHub
is external: an interrupted upload leaves a name without a digest, and every later
`Find` refuses it until somebody deletes it. Not in the module: a second draft of one
tag, a lost runner that goes on beside its re-run, publishing by hand, the revocation
policy and the promotion of a runtime qualification, a repository without immutable
releases, the legacy bootstrap object.

## 3. Runs

| run | question | bounds | states |
|---|---|---|---|
| `ReleaseTransaction` | all or nothing, whatever dies; refines `AtomicReplacement` | 2 commands; a template, a user-owned binary, a root-owned binary, another binary target; 2 versions; 3 jobs | 0.2 M |
| `ReleaseRecovery` | is the journal resolved without a privileged target? (liveness) | 2 commands, 2 jobs, 3 destinations | 65 k |
| `ReleaseRecoverySudo` | and with one? **No**: violation | 1 command | - |
| `ReleaseOrphanSwap` | does what recovery settled stay? **No**: violation | 1 command at a time, 2 destinations | - |
| `GatewayLock` | is an established lock kept; does a lone start get in? | 3 runs, 2 pids (two runs share one), 2 ports, one run without a start time | 17 k |
| `GatewayOneHolder` | is there one holder? **No**: violation | as above | - |
| `IdentityHandover` | one voter, no slot voted on twice; refines `VotingIdentity` | 3 hosts, 6 slots, window 2, genesis 1 | 2.0 M |
| `GatewaySession` | serial turns, one listener, aborts and chats that end; refines `SessionTurns` | a console that opens 2 connections, a page with 1; 2 messages; 2 faults (cut, quit, expiry, restart) | 0.18 M |
| `GatewayReachesCaller` | does a started turn report to who asked? **No**: violation | 2 consoles, 3 messages, no fault | - |
| `GatewayFailedChat` | does a failure always give the prompt back? **No**: violation | a console and a page, 1 message, 1 fault | - |
| `UserApiLogin` | token rotation, logins, keys; refines `CredentialFile` | 3 commands of any kind, 2 faults (kill, failed write) | 0.35 M |
| `ReleasePublication` | attested, at its tag, of one attempt; a re-run completes it | 2 commits, 2 builds, 1 payload, 2 attempts in all, any number of re-runs; 2 faults, one of them a write of others | 0.20 M |

*Why these bounds.* A transaction acts on one destination at a time and undoes them in
reverse: two replaced destinations show the order, the third and fourth the three
kinds of target (inside the home, writable outside, not writable). Two commands are
enough for a lock of one holder; crash and retry make any number of them in
sequence. Contents may be absent at the start. For the gateway, three runs are the
least in which one holds, one races and one comes later with a reused pid. For the
hand-over, a third host is the least that can be neither source nor target; six
slots cover a hand-over, an outage of the window and a take-over after it. Two hosts over
nine slots, enough for a second one (2.6 M states), showed nothing else. The window of
270 slots is 2: only the comparison with it matters.
For the sessions, a second client and a second message are what a turn can collide
with, and a second connection of the console is its reconnect after a cut; the
listener that is lost for the third turn needs a third message. For the login, two
commands race and the third finds what they left behind; commands differ only in
what they do, so they are ordered by it. For the publication, a second attempt, of
the same commit or another one, is what a draft can be mixed with; commits and builds
are numbered as they come (`InOrder`). Three attempts with one write of others (0.59 M
states) and two payloads (0.49 M) showed nothing else.

`CHECK_DEADLOCK FALSE` stands where the system may stop: commands end and are not run
again (`UserApiLogin`), an artifact expires or the operator gives up
(`ReleasePublication`), every client has quit (`GatewaySession`).

Properties:

- `AtomicallyReplaced`: what recovery would leave now (`Settled`) changes only when
  the journal commits, for all destinations at once: `ReleaseTransaction` implements
  `AtomicReplacement`.
- `OriginalSurvives`, `NothingHalfDone`, `CommittedIsKept`: the old content is at its
  place or in a usable backup until the commit; without a journal nothing is torn and
  no backup is left; a committed release is not undone.
- `CommitNotRefused`: the fsync that can refuse `recover()` for want of the directory of
  the privileged backups never refuses `commit()`, whatever was killed before.
- `OnlyAuthorizedBinary`: a command, also when it recovers another's journal, changes
  no binary target other than its own.
- `Serialized`: transactions and recoveries do not overlap.
- `JournalResolved`: if commands stop dying, the journal goes.
- `KeptByItsHolder`: an established lock stays so while its holder runs. `LoneStartGetsIn`,
  `LoneStartUnhindered`: a start with nobody else alive gets the lock whatever dead runs
  left, in two attempts at most, refused only for a record without a start time whose
  pid is in use. `OneGateway`: what lock.ts says of two concurrent starts (finding 3).
- `OneVoter`, `NeverVotesTwice`: never two hosts voting; a vote is always on a slot
  after the last vote of the identity.
- `OneIdentity`: a host gets the identity only when no other host runs it, is still let
  go by its Votor, waits for an unanswered request or has a vote to cast (refinement of
  `VotingIdentity`).
- `OneListener`, `SerialTurns`: one connection at most hears a Session; its turns
  follow each other, each told to have ended once (refinement of `SessionTurns`).
- `AbortEndsTurn`: an abort that no new turn undoes ends the turn, also during its
  tools. `ChatReturns`: whatever the network and the gateway do, a console that asked is
  not left waiting, with three exceptions, each named in the property: its turn still runs,
  another client took the Session's only listener (finding 4), or the turn failed before
  the answer of `session.send` was read and the console's process ended (finding 5). Once
  it has read that it is accepted, only the first two remain. `FailedChatReturns` is the
  first part without the third exception, as `sessionClient.ts` has it: as `ChatReturns`
  holds, what violates it is that. `NoChatIsLost`, what both rest on: a console that waits
  on an open connection is still to be answered, or its answer and an end of its turn are
  on their way or to come.
- `StoredLoginWorks`, `PresentedOnce`: the stored refresh token is the one the server
  accepts, and none is sent twice, except after an answer was lost or a revocation.
- `NoLoginLeftBehind`, `NoKeyLeftBehind`: what is valid at the server is in the file,
  in the hands of a command, known to be in doubt, or `missed`: removed by a logout that
  did not try to revoke it. That is a login or key other than the one it read before it
  took the lock, and a key when it found no stored login (`logout.ts:23-27`).
- `OnePartAtATime`: the file changes one part at a time (refinement of
  `CredentialFile`). `LockComesFree`.
- `PublishedVerified`, `PublishedAtTag`: a published release consists of the attested
  files of one commit, at its tag; what others write between the last check and the
  publication is excepted, because nothing could see it.
- `OneAttempt`: a draft nobody else writes to never mixes two packages.
- `RetryPublishes`: a publication that its kept package can complete is completed.
- `TypeOK` per module, `IInv` the inductive invariant of the proof.

## 4. Fairness

`ReleaseTransaction!FairSpec`: weak fairness of a command's own steps (a process that
is not killed goes on), strong fairness of `Acquire` for every job: users retry, and
a non-blocking lock is free again and again. Nothing is assumed about `Crash`; the
property excuses behaviours in which commands crash for ever.
`GatewayLock!Fairness`: weak fairness of a run's own steps; starts, shutdowns and
kills are free. `LoneStartGetsIn` is about a start during which nobody else starts,
dies or takes a pid (`undisturbed` records that), and excuses a record without a start
time whose pid is in use: the code cannot tell (comment at `lock.ts:174`).
`IdentityHandover` states safety only: nothing obliges an operator to go on.
`GatewaySession!Fairness`: weak fairness of each event loop's own steps (a handler whose
promise has settled runs, a frame that arrived is handled). Nothing is assumed of the
network or of users; a request to the model ends, as the driver gives it up after 120
seconds, and so do tools (`tools.ts:764-785`).
`UserApiLogin!Fairness`: weak fairness of the lock holder's steps, the 30 second
timeout of a request included; nothing is assumed of the server.
`ReleasePublication!Fairness`: weak fairness of the job and strong fairness of running
the failed publish job again: an operator who keeps doing so while the package is
kept. `RetryPublishes` is what that operator can count on, not that there is one. Faults
and writes of others are never fair.

## 5. Findings

1. `engine.py:1572`: with a privileged target, a kill between the removal of the work
   directory and of a committed journal leaves a journal every later command dies on
   (`ReleaseRecoverySudo`).
2. `engine.py:1418`: the privileged swap runs in a child that does not hold the lock
   and survives its parent; it can install its binary after another command has
   rolled everything back (`ReleaseOrphanSwap`).
3. `lock.ts:165`: a pidfile created and not yet written counts as stale, so two
   starts can both acquire (`GatewayOneHolder`).
4. `router.ts:326`: a connection that used the shared Session before another one is
   not attached again, so the events of its next turn go to the other and its console
   waits for good (`GatewayReachesCaller`).
5. `sessionClient.ts:238`: a connection that closes, or an error event that comes, before
   `session.send` is answered rejects a promise that is never awaited, and the runtime
   ends the console, where the comments promise a clean error (`GatewayFailedChat`).

## 6. What is proved

With TLAPS, for every value of the constants under the named assumptions:

- `ReleaseTransactionProofs` (from `ConstantsOK`, `JobsOK`: versions, `None`, `Torn`
  distinct; a job replaces a destination once and an external one only if it is its
  authorised binary): `Invariant`, `TypeCorrect`, `LockExcludes`, `NothingIsHalfDone`,
  `OriginalIsKept`, `CommittedStays`, `BinaryAuthorized`, `CommitGoesThrough`,
  `Refinement`.
  The safety properties are not inductive. `IInv` adds: who has the lock is the only
  one inside (`LockInv`); what the journal's status says about where its owner is
  (`StatusInv`); indices stay in the plan and in the journal (`IndexInv`); the journal
  lists exactly the destinations with a recorded operation (`JournalInv`); for each
  destination, what its recorded state says about `dest` and `bak` (`DestInv`); how far
  the plan has come, what is known of the destination in progress between two journal
  saves, and how far a recovery has come (`PlanInv`, `CurrentInv`, `RecoverInv`). Each action has its lemma;
  `Refinement` shows that every step but `Commit` leaves `Settled` alone (`Stable`) and `Commit`
  is the abstract replacement. `CommittedStays` and `BinaryAuthorized` are action
  properties from the same invariant; the second adds `AuthInv`, that a process that
  undoes has checked the journal's binaries against its own target. `CommitGoesThrough`
  adds `DirectoryInv`: from the first privileged operation in the journal to the last
  backup dropped, a command at work keeps the directory that holds them.
- `GatewayLockProofs` (from `RunsOK`): `TypeCorrect`, `LockIsKept`,
  `LoneStartSucceeds`. `IInv` (lemma `Invariant`) adds the loop bound and that live processes have distinct pids, without which the
  probe of an established holder could mistake it for another run. `LoneInv` adds that
  the creator of the pidfile never goes back to before it (`OwnerInv`: so a record with
  the starter's own pid is seen to be another run's), that a bound port has a run that
  serves (`BoundInv`), and where a run alone stands at each step (`Alone`). With it
  `LoneStartSucceeds` is the safety half of `LoneStartGetsIn`; that
  the run gets on is left to TLC.
- `IdentityHandoverProofs` (from `ParametersOK`): `TypeCorrect`, `OneVoterCorrect`,
  `VotesOnce`, `OneIdentityCorrect`. The invariant (`IInv`): at most one host is `Active`, that is runs the
  identity, is held by a Votor, has an unanswered set-identity or a vote under way
  (`OneCandidate`); a vote under way is after the last vote (`Ahead`); the history of
  a host that may vote covers the last vote, or that vote is out of the window
  (`CandidatesFit`). What commands need to keep that: at their start Votor agrees with
  the admin RPC and a voter has voted lately (`Settled`, from `Tick`); each check of
  `set:identity` leaves its fact behind (`Checked`), and the last of them, that the
  last vote is old, then excludes that anybody votes (`NobodyVotes`); from Votor's
  line in the log on nobody but the source has to do with the identity, and from the
  second read on nobody at all (`HandedOver`). `OneIdentityCorrect` is the refinement of
  `VotingIdentity`: only set-identity adds to the hosts that are `Active`
  (`CommandFewer`, `HostsFewer`, `OperatorFewer`), and when it does, there is no other
  (`OnlyTheTarget`). The proofs use the timing and operator assumptions of section 2,
  which are guards of the module.
- `GatewaySessionProofs` (from `ClientsOK`): `TypeCorrect`, `ListenerCorrect`, `Serial`
  (the refinement). `IInv` adds that a message is on its way once and that a turn that
  runs has not been told its end, without which a refused turn could start.
- `GatewayChatProofs`, on top of it: `NoChatLost`. `ChatInv` adds that a client has one
  connection and a new one starts empty (`OneConnection`), that a message not answered yet
  is the one its console waits for (`OneQuestion`), that a console is answered once, when
  its message has been handled, and has read the answer when it waits for the end
  (`OneAnswer`), and that the end of an accepted turn reached it, is on its way or is to
  come unless it is `Unheard` (`Accounted`). Without `OneAnswer` an old answer could be
  taken for the one of the next message. Consoles that a step does not concern are one
  lemma (`Bystander`); liveness then needs only that the event loops run.
- `UserApiLoginProofs`: `TypeCorrect`, `LoginStaysUsable`, `TokenSentOnce`, `OnePart`
  (the refinement). `IInv` adds what each step under the lock has in memory (`InHand`),
  that the file is what the lock holder takes it for (`Undisturbed`), that a login not
  saved yet is known to its command only (`Private`), and what became of each token
  that was sent (`Spent`).
- `UserApiCleanupProofs`, on top of it: `NoLoginIsLost`, `NoKeyIsLost`. `KnownInv` sharpens
  both properties to who exactly has what is not in the file: the command that signed in,
  or one about to revoke it *with its last refresh token* (`InHands`), and the command that
  made the key (`KeysKnown`). That takes that no token in memory is ahead of the server
  (`NotAhead`), that a key is nobody's before its command asked for it (`OwnKey`), and what
  a logout about to clear the file has done: the login it read is revoked, in doubt or has
  been refreshed since (`Cleared`), and the key it read is deleted or in doubt (`Deleted`).
- `ReleasePublicationProofs`: `TypeCorrect`, `PublishedIsVerified`, `PublishedIsAtTag`,
  `OneAttemptCorrect`. The invariant says what each step of the job knows: the draft is
  complete and its assets were downloaded by number (`Whole`, `Downloaded`), and proved
  of the commit (`Proven`), and the tag was fitting (`Tagged`); for `OneAttempt`, that
  an asset's number never comes back while the job compares with it (`Numbered`), and
  that what is in the draft and not yet compared is of the job's own package (`Mine`,
  `Compared`, `Staged`).

Only model-checked: liveness (`JournalResolved`, `LoneStartGetsIn`, `AbortEndsTurn`,
`ChatReturns`, `LockComesFree`, `RetryPublishes`), which is out of the prover's reach,
and the five violations.

## 7. Plan

1. `upgrade` over `ReleaseTransaction`: version comparison before the lock, skills
   sync by an older running CLI, settings migration after the commit.
2. `IdentityHandover`: a run that lets two commands go at once.
3. `GatewaySession`: several models (store keys), so that Sessions run side by side
   under the one abort flag; the state of a page.
4. Alpenglow state probe: the decision table of `alpenglowState.ts` against the
   cluster's real state; the migration freeze added to the hand-over.
5. Inventory swap: two records rewritten in place, with a kill inside.
