---------------------------- MODULE UserApiLogin ----------------------------
(***************************************************************************)
(* The ERPC login of the CLI (cli/lib/userApi/session.ts): slv processes   *)
(* that share ~/.slv/api.yml under the lock on api.yml.lock, refresh the   *)
(* login with a refresh token the server replaces on every use, sign in,   *)
(* sign out, create the storage access key of the machine and change other *)
(* sections of the file.  Any of them can be killed, may wait 30 seconds   *)
(* for an answer that does not come, and may fail to write.                *)
(*                                                                         *)
(* A command is one of these, run by a process of its own; the logins and  *)
(* storage access keys are named after the command that got them.          *)
(***************************************************************************)
EXTENDS Naturals

CONSTANTS
  Command,   \* the commands that are ever run
  Before,    \* the login the machine may have from earlier
  None

Login == Command \cup {Before}
Token == [login : Login, gen : Nat]   \* an access token and its refresh token

VARIABLES
  yml,       \* api.yml: the login, the storage access key, the other sections
  holder,    \* the command that holds the lock
  me,        \* where each command is, and what it has in memory
  cur,       \* the server: the generation of each login's valid refresh token, 0: none
  dead,      \*   the logins that are revoked
  keys,      \*   the storage access keys
  old,       \* access tokens up to this generation of a login have (almost) expired
  loose,     \* refresh tokens in requests that nobody waits for any more
  tried,     \* history: refresh tokens that were sent to the server
  doubtful,  \* history: logins and keys the program knows it may have lost
  missed     \* history: logins and keys a logout removed without revoking them

client  == <<yml, holder, me>>
server  == <<cur, dead, keys, old, loose>>
history == <<tried, doubtful, missed>>
vars == <<client, server, history>>

Op  == {"token", "key", "login", "logout", "config"}
Job == {"refresh", "issue", "save", "clear", "config"}

ASSUME NamesOK ==
  Before \notin Command /\ None \notin Login /\ None \notin Token /\ None \notin Op \cup Job

Locked == {"held", "asking", "answered", "posting", "write", "rename"}
Steps  == {"find", "record", "look", "lock", "device", "account", "delete",
           "readback", "revoke", "done"} \cup Locked

File == [login : Token \cup {None}, key : Command \cup {None}, notes : SUBSET Command]
Self == [op : Op \cup {None}, pc : Steps, job : Job \cup {None}, tok : Token \cup {None},
         got : Token \cup {None}, key : Command \cup {None}, snap : File]

NoFile  == [login |-> None, key |-> None, notes |-> {}]
Ended   == [op |-> None, pc |-> "done", job |-> None, tok |-> None, got |-> None,
            key |-> None, snap |-> NoFile]

\* A command that is about to begin, whenever that is
FirstStep == [token |-> "look", key |-> "find", login |-> "device", logout |-> "record",
              config |-> "lock"]
Starting(op) == [Ended EXCEPT !.op = op, !.pc = FirstStep[op],
                              !.job = IF op = "config" THEN "config" ELSE None]

TypeOK ==
  /\ yml \in File
  /\ holder \in Command \cup {None}
  /\ me \in [Command -> Self]
  /\ \A p \in Command : me[p].pc \in Locked <=> holder = p
  /\ cur \in [Login -> Nat] /\ old \in [Login -> Nat]
  /\ dead \subseteq Login /\ keys \subseteq Command
  /\ loose \subseteq Token /\ tried \subseteq Token
  /\ doubtful \subseteq Login /\ missed \subseteq Login

Init ==
  /\ yml \in {NoFile, [NoFile EXCEPT !.login = [login |-> Before, gen |-> 1]]}
  /\ holder = None
  /\ \E op \in [Command -> Op] : me = [p \in Command |-> Starting(op[p])]
  /\ cur = [l \in Login |-> IF l = Before /\ yml.login # None THEN 1 ELSE 0]
  /\ old = [l \in Login |-> 0]
  /\ dead = {} /\ keys = {} /\ loose = {} /\ tried = {} /\ doubtful = {} /\ missed = {}

At(p, s) == me[p].pc = s
End(p) == me' = [me EXCEPT ![p] = Ended]
Move(p, s) == me' = [me EXCEPT ![p].pc = s]

\* freshAccessToken: good for more than the margin.
Fresh(t) == t.gen > old[t.login]

LoginOf(t) == IF t = None THEN {} ELSE {t.login}
Named(k) == {k} \ {None}

Queue(p, job, t) == [me[p] EXCEPT !.pc = "lock", !.job = job, !.tok = t]

(* What follows once ensureFreshAccessToken has returned t, or thrown (None) *)
After(p, t) ==
  IF me[p].op = "key" /\ t # None THEN [Queue(p, "issue", t) EXCEPT !.got = None]
  ELSE IF me[p].op = "logout" THEN
         [me[p] EXCEPT !.pc = IF t # None THEN "delete" ELSE "readback", !.got = None]
  ELSE Ended

\* logout says so when it could not revoke the storage access key.
Warned(p, t) == IF me[p].op = "logout" /\ t = None THEN Named(me[p].key) ELSE {}

-----------------------------------------------------------------------------
(* Without the lock: reads of the file, and the steps of login and logout.  *)

\* resolveStorageAccessKey: the stored key is used as it is.
Find(p) ==
  /\ At(p, "find")
  /\ IF yml.key # None THEN End(p) ELSE Move(p, "look")
  /\ UNCHANGED <<yml, holder, server, history>>

\* revokeStorageAccessKey: with a key and a login, the login has to be fresh.
Record(p) ==
  /\ At(p, "record")
  /\ me' = IF yml.key # None /\ yml.login # None
           THEN [me EXCEPT ![p].key = yml.key, ![p].pc = "look"]
           ELSE [me EXCEPT ![p].pc = "readback"]
  /\ UNCHANGED <<yml, holder, server, history>>

\* ensureFreshAccessToken, its first read of the file
Look(p) ==
  /\ At(p, "look")
  /\ IF yml.login # None /\ ~Fresh(yml.login)
     THEN /\ me' = [me EXCEPT ![p] = Queue(p, "refresh", None)]
          /\ UNCHANGED doubtful
     ELSE /\ me' = [me EXCEPT ![p] = After(p, yml.login)]
          /\ doubtful' = doubtful \cup Warned(p, yml.login)
  /\ UNCHANGED <<yml, holder, server, tried, missed>>

\* The DELETE of the storage access key works, or is not seen to work.
Delete(p) ==
  /\ At(p, "delete")
  /\ Move(p, "readback")
  /\ \/ keys' = keys \ {me[p].key} /\ UNCHANGED doubtful
     \/ keys' = keys /\ doubtful' = doubtful \cup {me[p].key}
  /\ UNCHANGED <<yml, holder, cur, dead, old, loose, tried, missed>>

\* logoutAction reads the refresh token, still without the lock.
ReadBack(p) ==
  /\ At(p, "readback")
  /\ me' = [me EXCEPT ![p] = IF yml.login = None THEN Queue(p, "clear", None)
                             ELSE [me[p] EXCEPT !.pc = "revoke", !.tok = yml.login]]
  /\ UNCHANGED <<yml, holder, server, history>>

\* revokeRefreshToken, best effort.  What the server makes of a token that
\* has been replaced is its own affair; it answers 200 all the same.
Revoke(p) ==
  LET t == me[p].tok IN
  /\ At(p, "revoke")
  /\ \/ /\ dead' \in {dead \cup {t.login}} \cup (IF t.gen = cur[t.login] THEN {} ELSE {dead})
        /\ UNCHANGED doubtful
     \/ dead' = dead /\ doubtful' = doubtful \cup {t.login}
  /\ me' = [me EXCEPT ![p] = IF @.op = "logout" THEN Queue(p, "clear", t)
                             ELSE Ended]
  /\ UNCHANGED <<yml, holder, cur, keys, old, loose, tried, missed>>

\* runDeviceLogin until the poll brings tokens, ends without, or ends when
\* the answer that carried them was lost.
Device(p) ==
  /\ At(p, "device")
  /\ \/ /\ cur' = [cur EXCEPT ![p] = 1]
        /\ me' = [me EXCEPT ![p].pc = "account", ![p].got = [login |-> p, gen |-> 1]]
        /\ UNCHANGED doubtful
     \/ End(p) /\ UNCHANGED <<cur, doubtful>>
     \/ /\ cur' = [cur EXCEPT ![p] = 1]
        /\ End(p)
        /\ doubtful' = doubtful \cup {p}
  /\ UNCHANGED <<yml, holder, dead, keys, old, loose, tried, missed>>

\* The account is checked with the new login; dropIssued when that fails.
Account(p) ==
  /\ At(p, "account")
  /\ \/ me' = [me EXCEPT ![p] = Queue(p, "save", None)]
     \/ me' = [me EXCEPT ![p].pc = "revoke", ![p].tok = me[p].got]
  /\ UNCHANGED <<yml, holder, server, history>>

-----------------------------------------------------------------------------
(* Under the lock (withCredentialLock)                                      *)

\* A mutant of Free: nobody waits for the lock.
NoLock == TRUE

Free == holder = None

\* A refresh and a key look at the file again first; the rest goes on to write.
Acquire(p) ==
  /\ At(p, "lock") /\ Free
  /\ holder' = p
  /\ Move(p, IF me[p].job \in {"refresh", "issue"} THEN "held" ELSE "write")
  /\ UNCHANGED <<yml, server, history>>

Release == holder' = None

\* ensureFreshAccessToken: another process may have refreshed meanwhile.
HeldRefresh(p) ==
  LET t == yml.login IN
  /\ At(p, "held") /\ me[p].job = "refresh"
  /\ IF t # None /\ ~Fresh(t)
     THEN /\ me' = [me EXCEPT ![p].pc = "asking", ![p].tok = t]
          /\ tried' = tried \cup {t}
          /\ UNCHANGED <<holder, doubtful>>
     ELSE /\ Release
          /\ me' = [me EXCEPT ![p] = After(p, t)]
          /\ doubtful' = doubtful \cup Warned(p, t)
          /\ UNCHANGED tried
  /\ UNCHANGED <<yml, server, missed>>

\* A mutant of HeldIssue: the file is not looked at again.
HeldIssueUnread(p) ==
  /\ At(p, "held") /\ me[p].job = "issue"
  /\ Move(p, "posting")
  /\ UNCHANGED <<yml, holder, server, history>>

\* issueStorageAccessKey: two processes issue one key between them.  A file that cannot be
\* read at this moment reads as `{}` in the code, which then goes on to the POST; a file
\* that stays so fails the write (WriteFails) and is otherwise left out.
HeldIssue(p) ==
  /\ At(p, "held") /\ me[p].job = "issue"
  /\ IF yml.key # None
     THEN Release /\ End(p)
     ELSE Move(p, "posting") /\ UNCHANGED holder
  /\ UNCHANGED <<yml, server, history>>

\* The token endpoint: a valid refresh token is replaced; one that is not
\* valid any more is refused, and may cost the login.
Accepts(t) == t.login \notin dead /\ t.gen = cur[t.login]
Next1(t) == [t EXCEPT !.gen = @ + 1]

Present(t) ==
  IF Accepts(t) THEN cur' = [cur EXCEPT ![t.login] = @ + 1] /\ UNCHANGED dead
  ELSE UNCHANGED cur /\ dead' \in {dead, dead \cup {t.login}}

Serve(p) ==
  /\ At(p, "asking")
  /\ Present(me[p].tok)
  /\ me' = [me EXCEPT ![p].pc = "answered",
                      ![p].got = IF Accepts(me[p].tok) THEN Next1(me[p].tok) ELSE None]
  /\ UNCHANGED <<yml, holder, keys, old, loose, history>>

\* A request that was given up may reach the server all the same.
ServeLoose(t) ==
  /\ t \in loose
  /\ loose' = loose \ {t}
  /\ Present(t)
  /\ UNCHANGED <<client, keys, old, history>>

\* requestRefresh has its answer; a refused one changes nothing that is saved.
Receive(p) ==
  /\ At(p, "answered")
  /\ IF me[p].got # None
     THEN Move(p, "write") /\ UNCHANGED <<holder, doubtful>>
     ELSE /\ Release
          /\ me' = [me EXCEPT ![p] = After(p, None)]
          /\ doubtful' = doubtful \cup Warned(p, None)
  /\ UNCHANGED <<yml, server, tried, missed>>

\* A mutant of GiveUp: a request for as long as it takes.
GiveUpNever(p) == FALSE

\* No answer within 30 seconds, or one that is of no use.
GiveUp(p) ==
  /\ me[p].pc \in {"asking", "answered"}
  /\ Release
  /\ loose' = IF At(p, "asking") THEN loose \cup {me[p].tok} ELSE loose
  /\ me' = [me EXCEPT ![p] = After(p, None)]
  /\ doubtful' = doubtful \cup {me[p].tok.login} \cup Warned(p, None)
  /\ UNCHANGED <<yml, cur, dead, keys, old, tried, missed>>

\* The POST for a storage access key: created, refused, or nobody knows.
Post(p) ==
  /\ At(p, "posting")
  /\ \/ /\ keys' = keys \cup {p}
        /\ me' = [me EXCEPT ![p].pc = "write", ![p].key = p]
        /\ UNCHANGED <<holder, doubtful>>
     \/ Release /\ End(p) /\ UNCHANGED <<keys, doubtful>>
  /\ UNCHANGED <<yml, cur, dead, old, loose, tried, missed>>

GiveUpKey(p) ==
  /\ At(p, "posting")
  /\ Release /\ End(p)
  /\ keys' \in {keys, keys \cup {p}}
  /\ doubtful' = doubtful \cup {p}
  /\ UNCHANGED <<yml, cur, dead, old, loose, tried, missed>>

\* rewriteApiYmlLocked reads the file, changes its part and renames over it.
ReadForWrite(p) ==
  /\ At(p, "write")
  /\ me' = [me EXCEPT ![p].pc = "rename", ![p].snap = yml]
  /\ UNCHANGED <<yml, holder, server, history>>

\* A mutant of Change: a refresh saves the access token only.
ChangeAccessOnly(p, f) ==
  CASE me[p].job = "refresh" -> f
    [] me[p].job = "save"   -> [f EXCEPT !.login = me[p].got]
    [] me[p].job = "issue"  -> [f EXCEPT !.key = me[p].key]
    [] me[p].job = "clear"  -> [f EXCEPT !.login = None, !.key = None]
    [] me[p].job = "config" -> [f EXCEPT !.notes = @ \cup {p}]

Change(p, f) ==
  CASE me[p].job \in {"refresh", "save"} -> [f EXCEPT !.login = me[p].got]
    [] me[p].job = "issue"  -> [f EXCEPT !.key = me[p].key]
    [] me[p].job = "clear"  -> [f EXCEPT !.login = None, !.key = None]
    [] me[p].job = "config" -> [f EXCEPT !.notes = @ \cup {p}]

\* What the logout of p removes from f without having tried to revoke it
Unrevoked(p, f) ==
  IF me[p].job # "clear" THEN {}
  ELSE (IF f.login = me[p].tok THEN {} ELSE LoginOf(f.login)) \cup
       (Named(f.key) \ Named(me[p].key))

\* A mutant of Replaced: a login that has run out needs no revoking.
ReplacedIfFresh(p, f) ==
  IF me[p].job = "save" /\ f.login # None /\ Fresh(f.login) THEN f.login ELSE None

\* saveSession returns the refresh token it replaced; login revokes it.
Replaced(p, f) == IF me[p].job = "save" THEN f.login ELSE None

Wrote(p) ==
  IF me[p].job = "refresh" THEN After(p, me[p].got)
  ELSE IF Replaced(p, me[p].snap) # None
       THEN [me[p] EXCEPT !.pc = "revoke", !.tok = me[p].snap.login, !.got = None]
  ELSE Ended

Rename(p) ==
  /\ At(p, "rename")
  /\ yml' = Change(p, me[p].snap)
  /\ Release
  /\ me' = [me EXCEPT ![p] = [Wrote(p) EXCEPT !.snap = NoFile]]
  /\ missed' = missed \cup Unrevoked(p, me[p].snap)
  /\ UNCHANGED <<server, tried, doubtful>>

\* The file cannot be read or written: what was got for it is lost, except
\* a new login, which is revoked.
WriteFails(p) ==
  /\ me[p].pc \in {"write", "rename"}
  /\ Release
  /\ me' = [me EXCEPT ![p] =
              CASE me[p].job = "refresh" -> [After(p, None) EXCEPT !.snap = NoFile]
                [] me[p].job = "save" -> [me[p] EXCEPT !.pc = "revoke", !.tok = me[p].got, !.snap = NoFile]
                [] OTHER -> Ended]
  /\ doubtful' = doubtful \cup Warned(p, None) \cup
       CASE me[p].job = "refresh" -> LoginOf(me[p].got)
         [] me[p].job = "issue"   -> {me[p].key}
         [] OTHER -> {}
  /\ UNCHANGED <<yml, server, tried, missed>>

-----------------------------------------------------------------------------
(* Time, and the operator                                                   *)

\* Only the access token in the file is ever looked at.
Expire ==
  /\ yml.login # None /\ Fresh(yml.login)
  /\ old' = [old EXCEPT ![yml.login.login] = yml.login.gen]
  /\ UNCHANGED <<client, cur, dead, keys, loose, history>>

\* What a command has in memory only
Carries(p) == LoginOf(me[p].got) \cup
  (IF At(p, "asking") \/ At(p, "revoke") THEN {me[p].tok.login} ELSE {}) \cup
  (IF me[p].job = "issue" THEN Named(me[p].key) ELSE {})

\* A mutant of Kill: a lock file that stays.
KillLocked(p) ==
  /\ ~At(p, "done")
  /\ loose' = IF At(p, "asking") THEN loose \cup {me[p].tok} ELSE loose
  /\ End(p)
  /\ doubtful' = doubtful \cup Carries(p)
  /\ UNCHANGED <<yml, holder, cur, dead, keys, old, tried, missed>>

\* The lock goes with the process.
Kill(p) ==
  /\ ~At(p, "done")
  /\ holder' = IF holder = p THEN None ELSE holder
  /\ loose' = IF At(p, "asking") THEN loose \cup {me[p].tok} ELSE loose
  /\ End(p)
  /\ doubtful' = doubtful \cup Carries(p)
  /\ UNCHANGED <<yml, cur, dead, keys, old, tried, missed>>

UnderLock(p) == HeldRefresh(p) \/ HeldIssue(p) \/ Receive(p) \/ GiveUp(p) \/ GiveUpKey(p)
                \/ ReadForWrite(p) \/ Rename(p)

Work ==
  \/ \E p \in Command : \/ Find(p) \/ Record(p) \/ Look(p) \/ Delete(p) \/ ReadBack(p)
                        \/ Revoke(p) \/ Device(p) \/ Account(p) \/ Acquire(p)
                        \/ Serve(p) \/ Post(p) \/ UnderLock(p)
  \/ \E t \in loose : ServeLoose(t)
  \/ Expire

Fault == \E p \in Command : Kill(p) \/ WriteFails(p)

Next == Work \/ Fault
Spec == Init /\ [][Next]_vars

\* The holder of the lock goes on, and stops waiting for an answer after 30
\* seconds.  Nothing is assumed of the server.
Fairness == \A p \in Command : WF_vars(UnderLock(p))
FairSpec == Spec /\ Fairness

-----------------------------------------------------------------------------
(* Properties                                                               *)

\* A refresh token is sent to the server once (session.ts:25): never by two
\* commands, never again by a later one, unless an answer for that login was
\* lost or the login had been revoked.
PresentedOnce ==
  [][\A p \in Command : ~At(p, "asking") /\ At(p, "asking")' =>
       LET t == me'[p].tok IN t \notin tried \/ t.login \in doubtful \cup dead]_vars

\* The stored login can still be used: as long as no answer was lost and it
\* was not revoked, the refresh token in the file is the one the server
\* accepts, or the holder of the lock is about to write its successor.
StoredLoginWorks ==
  \A t \in {yml.login} \ {None} :
    t.login \in doubtful \cup dead
    \/ t.gen = cur[t.login]
    \/ \E p \in Command :
         /\ me[p].pc \in {"answered", "write", "rename"} /\ me[p].job = "refresh"
         /\ me[p].got = Next1(t) /\ me[p].got.gen = cur[t.login]

\* No login is left behind at the server: each that is valid is in the file, in the
\* hands of a running command, known to be in doubt, or in `missed`: removed by a logout
\* that did not try to revoke it, since the file it had read before it took the lock had
\* another login or none.
NoLoginLeftBehind ==
  \A l \in Login : cur[l] > 0 =>
    l \in dead \cup doubtful \cup missed \cup LoginOf(yml.login) \cup UNION {Carries(p) : p \in Command}

\* The same of the storage access keys: so two commands that need one create one between
\* them.  `missed` has a key too that a logout removed when it had found no stored login,
\* with which to delete it.
NoKeyLeftBehind ==
  \A k \in keys : k \in doubtful \cup missed \cup Named(yml.key) \cup UNION {Carries(p) : p \in Command}

\* Whatever the writers do at the same time, the file changes one part at a
\* time, a refresh token gives way to its successor only, and nothing that
\* another command wrote is lost.
AtomicFile == INSTANCE CredentialFile WITH Name <- Login, file <- yml
OnePartAtATime == AtomicFile!Spec

(* What the proofs need besides *)

Asked(p) == me[p].pc \in {"asking", "answered"}
Writing(p) == me[p].pc \in {"write", "rename"}
Saving(p, job) == Writing(p) /\ me[p].job = job
Unsaved(p) == At(p, "account") \/ Saving(p, "save") \/ (At(p, "lock") /\ me[p].job = "save")

\* What a step finds in memory
InHand(p) ==
  /\ At(p, "lock") \/ Writing(p) => me[p].job \in Job
  /\ At(p, "held") => me[p].job \in {"refresh", "issue"}
  /\ Asked(p) => me[p].job = "refresh"
  /\ At(p, "posting") => me[p].job = "issue"
  /\ At(p, "revoke") => me[p].tok # None
  /\ me[p].op = "logout" => \/ me[p].pc \in {"record", "readback", "revoke", "done"}
                             \/ me[p].job = "clear" \/ me[p].key # None
  /\ At(p, "delete") => me[p].op = "logout"
  /\ me[p].job = "clear" => At(p, "lock") \/ Writing(p) \/ At(p, "done")

\* The file is what the holder of the lock takes it for.
Undisturbed(p) ==
  /\ At(p, "rename") => me[p].snap = yml
  /\ Asked(p) \/ Saving(p, "refresh") => yml.login # None /\ me[p].tok = yml.login
  /\ At(p, "answered") => me[p].got \in {None, Next1(me[p].tok)}
  /\ Saving(p, "refresh") => me[p].got = Next1(me[p].tok)
  /\ At(p, "posting") \/ Saving(p, "issue") => yml.key = None
  /\ Saving(p, "issue") => me[p].key = p

\* A login that is not in the file yet is known to its command only.
Private(p) ==
  /\ Unsaved(p) => me[p].got = [login |-> p, gen |-> 1] /\ cur[p] = 1
  /\ At(p, "device") \/ Unsaved(p) =>
       p \notin LoginOf(yml.login) /\ \A t \in loose \cup tried : t.login # p

\* What became of the refresh tokens that were sent
Spent(p) ==
  /\ At(p, "answered") /\ me[p].got = None => me[p].tok.login \in doubtful \cup dead
  /\ (At(p, "answered") \/ Saving(p, "refresh")) /\ me[p].got # None =>
       me[p].got.gen = cur[me[p].tok.login] \/ me[p].tok.login \in doubtful

Sent ==
  /\ \A t \in loose : t.login \in doubtful
  /\ \A t \in tried : t.login \in doubtful \cup dead \/ t.gen < cur[t.login]
                       \/ \E p \in Command : At(p, "asking") /\ me[p].tok = t

IInv ==
  /\ TypeOK
  /\ \A p \in Command : InHand(p) /\ Undisturbed(p) /\ Private(p) /\ Spent(p)
  /\ Sent
  /\ StoredLoginWorks

(* And for what is left behind at the server                                *)

\* No token is ahead of the server, also one that it does not take any more.
NotAhead(p) ==
  /\ At(p, "device") => cur[p] = 0
  /\ At(p, "revoke") => me[p].tok.gen <= cur[me[p].tok.login]
  /\ (At(p, "answered") \/ Saving(p, "refresh")) /\ me[p].got # None =>
       me[p].got.gen <= cur[me[p].got.login]

\* A logout about to clear the file has revoked the login it read, unless that
\* has been refreshed since, and has deleted the key it read.
Cleared(p) ==
  me[p].job = "clear" /\ me[p].tok # None =>
    me[p].tok.login \in dead \cup doubtful \/ me[p].tok.gen < cur[me[p].tok.login]

Deleted(p) ==
  /\ At(p, "record") => me[p].key = None
  /\ At(p, "device") \/ Unsaved(p) => me[p].op # "logout"
  /\ At(p, "readback") \/ (At(p, "revoke") /\ me[p].op = "logout") \/ me[p].job = "clear" =>
       me[p].key \notin keys \ doubtful

\* A key is nobody's before its command has asked for it.
OwnKey(p) ==
  ~At(p, "done") => /\ yml.key # p /\ (p \in keys => Saving(p, "issue"))
                    /\ \A q \in Command \ {p} : me[q].key # p

\* Who has a login that is not in the file: the command that signed in, and
\* one that is about to revoke it with its last refresh token.
InHands(l) ==
  \E p \in Command : \/ p = l /\ Unsaved(p)
                     \/ At(p, "revoke") /\ me[p].tok = [login |-> l, gen |-> cur[l]]

LoginsKnown ==
  \A l \in Login : cur[l] > 0 =>
    l \in dead \cup doubtful \cup missed \cup LoginOf(yml.login) \/ InHands(l)

KeysKnown ==
  \A k \in keys : k \in doubtful \cup missed \cup Named(yml.key) \/ Saving(k, "issue")

KnownInv ==
  /\ \A p \in Command : NotAhead(p) /\ Cleared(p) /\ Deleted(p) /\ OwnKey(p)
  /\ yml.login # None => yml.login.gen <= cur[yml.login.login]
  /\ LoginsKnown /\ KeysKnown

\* The lock always comes free again, so whoever waits for it can have it: the
\* holder may be killed, may fail to write, and may never hear from a server.
LockComesFree == holder # None ~> holder = None
=============================================================================
