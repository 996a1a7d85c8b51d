------------------------ MODULE UserApiCleanupProofs ------------------------
(***************************************************************************)
(* For any set of commands of UserApiLogin: no login and no storage access *)
(* key is left behind at the server without a trace.  KnownInv is proved   *)
(* on top of IInv of UserApiLoginProofs.                                   *)
(***************************************************************************)
EXTENDS UserApiLoginProofs

Own(p) == NotAhead(p) /\ Cleared(p) /\ Deleted(p) /\ OwnKey(p)

-----------------------------------------------------------------------------
(* What a step of p leaves alone                                            *)

LEMMA Mover ==
  ASSUME IInv, IInv', NEW p \in Command, NEW r, me' = [me EXCEPT ![p] = r]
  PROVE  OnlyMe(p) /\ me'[p] = r /\ r \in Self /\ \A q \in Command \ {p} : me'[q] = me[q]
<1>1. me \in [Command -> Self] /\ me' \in [Command -> Self]
  BY DEF IInv, TypeOK
<1>2. me'[p] = r /\ r \in Self /\ \A q \in Command \ {p} : me'[q] = me[q]
  BY <1>1
<1> QED BY <1>2 DEF OnlyMe

LEMMA OthersOwn ==
  ASSUME IInv, KnownInv, IInv', NEW p \in Command, ~At(p, "done"),
         \A q \in Command \ {p} : me'[q] = me[q],
         dead \subseteq dead', doubtful \subseteq doubtful',
         \A l \in Login : cur'[l] >= cur[l],
         \A q \in Command \ {p} : At(q, "device") => cur'[q] = cur[q],
         yml'.key \in {yml.key, None, p}, keys' \subseteq keys \cup {p},
         me'[p].key \in {me[p].key, None, yml.key, p},
         NEW q \in Command, q # p
  PROVE  Own(q)'
<1>1. /\ Own(q) /\ me'[q] = me[q] /\ me[q] \in Self /\ q # None /\ OwnKey(p)
      /\ cur \in [Login -> Nat] /\ cur' \in [Login -> Nat]
  BY NamesOK DEF KnownInv, Own, IInv, TypeOK, Login
<1>2. NotAhead(q)'
  <2>1. At(q, "revoke") => me[q].tok.login \in Login /\ me[q].tok.gen \in Nat
    BY <1>1 DEF IInv, InHand, Self, Token
  <2>2. me[q].got # None => me[q].got.login \in Login /\ me[q].got.gen \in Nat
    BY <1>1 DEF Self, Token
  <2>3. /\ cur'[me[q].tok.login] >= cur[me[q].tok.login] \/ ~At(q, "revoke")
        /\ cur'[me[q].got.login] >= cur[me[q].got.login] \/ me[q].got = None
    BY <2>1, <2>2
  <2>4. At(q, "device")' => cur'[q] = 0
    BY <1>1 DEF Own, NotAhead, At
  <2>5. At(q, "revoke")' => me'[q].tok.gen <= cur'[me'[q].tok.login]
    BY <1>1, <2>1, <2>3 DEF Own, NotAhead, At
  <2>6. (At(q, "answered") \/ Saving(q, "refresh"))' /\ me'[q].got # None
        => me'[q].got.gen <= cur'[me'[q].got.login]
    BY <1>1, <2>2, <2>3 DEF Own, NotAhead, At, Saving, Writing
  <2> QED BY <2>4, <2>5, <2>6 DEF NotAhead
<1>3. Cleared(q)'
  <2>1. me[q].tok # None => /\ me[q].tok.login \in Login /\ me[q].tok.gen \in Nat
                            /\ cur'[me[q].tok.login] >= cur[me[q].tok.login]
                            /\ cur[me[q].tok.login] \in Nat /\ cur'[me[q].tok.login] \in Nat
    BY <1>1 DEF Self, Token
  <2> QED BY <1>1, <2>1 DEF Own, Cleared
<1>4. Deleted(q)'
  BY <1>1 DEF Own, Deleted, OwnKey, At, Unsaved, Saving, Writing
<1>5. OwnKey(q)'
  <2>1. ASSUME ~At(q, "done"), NEW u \in Command, u # q PROVE me'[u].key # q
    <3>1. me[u].key # q /\ yml.key # q
      BY <1>1, <2>1 DEF Own, OwnKey
    <3> QED BY <1>1, <3>1
  <2> QED BY <1>1, <2>1 DEF Own, OwnKey, At, Saving, Writing
<1> QED BY <1>2, <1>3, <1>4, <1>5 DEF Own

LEMMA LoginsStay ==
  ASSUME IInv, KnownInv, NEW p \in Command, \A q \in Command \ {p} : me'[q] = me[q],
         dead \subseteq dead', doubtful \subseteq doubtful', missed \subseteq missed', cur' = cur,
         \A l \in LoginOf(yml.login) \cup {n \in {p} : Unsaved(n)} :
           \/ l \in dead' \cup doubtful' \cup missed' \cup LoginOf(yml'.login)
           \/ l = p /\ Unsaved(p)'
           \/ At(p, "revoke")' /\ me'[p].tok = [login |-> l, gen |-> cur[l]],
         At(p, "revoke") /\ me[p].tok.gen = cur[me[p].tok.login] => me[p].tok.login \in dead' \cup doubtful'
  PROVE  LoginsKnown'
<1> SUFFICES ASSUME NEW l \in Login, cur[l] > 0,
                    l \notin dead' \cup doubtful' \cup missed' \cup LoginOf(yml'.login)
             PROVE  InHands(l)'
  BY DEF LoginsKnown
<1>1. CASE l \in LoginOf(yml.login)
  BY <1>1 DEF InHands, At
<1>2. CASE l \notin LoginOf(yml.login)
  <2>1. PICK q \in Command : \/ q = l /\ Unsaved(q)
                             \/ At(q, "revoke") /\ me[q].tok = [login |-> l, gen |-> cur[l]]
    BY <1>2 DEF KnownInv, LoginsKnown, InHands
  <2>2. CASE q = p
    <3>1. ~(At(p, "revoke") /\ me[p].tok = [login |-> l, gen |-> cur[l]])
      OBVIOUS
    <3>2. p = l /\ Unsaved(p)
      BY <2>1, <2>2, <3>1
    <3> QED BY <3>2 DEF InHands, At
  <2>3. CASE q # p
    <3>1. me'[q] = me[q]
      BY <2>3
    <3>2. (Unsaved(q)' <=> Unsaved(q)) /\ (At(q, "revoke")' <=> At(q, "revoke"))
      BY <3>1 DEF Unsaved, Saving, Writing, At
    <3> QED BY <2>1, <3>1, <3>2 DEF InHands
  <2> QED BY <2>2, <2>3
<1> QED BY <1>1, <1>2

LEMMA KeysStay ==
  ASSUME IInv, KnownInv, NEW p \in Command, \A q \in Command \ {p} : me'[q] = me[q],
         doubtful \subseteq doubtful', missed \subseteq missed', keys' \subseteq keys,
         \A k \in Named(yml.key) \cup {n \in {p} : Saving(n, "issue")} :
           \/ k \notin keys' \/ k \in doubtful' \cup missed' \cup Named(yml'.key)
           \/ k = p /\ Saving(p, "issue")'
  PROVE  KeysKnown'
<1> SUFFICES ASSUME NEW k \in keys', k \notin doubtful' \cup missed' \cup Named(yml'.key)
             PROVE  Saving(k, "issue")'
  BY DEF KeysKnown
<1>1. k \in Named(yml.key) \/ Saving(k, "issue")
  BY DEF KnownInv, KeysKnown
<1>2. k \in Command
  BY DEF IInv, TypeOK
<1>3. CASE k = p \/ k \in Named(yml.key)
  BY <1>1, <1>3
<1>4. CASE k # p /\ Saving(k, "issue")
  BY <1>2, <1>4 DEF Saving, Writing
<1> QED BY <1>1, <1>3, <1>4

\* A step of p that neither writes the file nor changes what the server holds
LEMMA Quiet ==
  ASSUME IInv, KnownInv, IInv', NEW p \in Command, ~At(p, "done"), NEW r, me' = [me EXCEPT ![p] = r],
         dead \subseteq dead', doubtful \subseteq doubtful', keys' \subseteq keys,
         UNCHANGED <<yml, cur, missed>>,
         r.key \in {me[p].key, None, yml.key, p},
         NotAhead(p)', Cleared(p)', Deleted(p)',
         Saving(p, "issue") => Saving(p, "issue")' \/ (r.pc = "done" /\ p \in doubtful'),
         Unsaved(p) => \/ Unsaved(p)' \/ p \in dead' \cup doubtful'
                       \/ r.pc = "revoke" /\ r.tok = [login |-> p, gen |-> cur[p]],
         At(p, "revoke") /\ me[p].tok.gen = cur[me[p].tok.login] => me[p].tok.login \in dead' \cup doubtful'
  PROVE  KnownInv'
<1>1. me'[p] = r /\ \A q \in Command \ {p} : me'[q] = me[q]
  BY Mover
<1>2. cur' = cur /\ yml' = yml /\ missed' = missed /\ cur \in [Login -> Nat] /\ OwnKey(p)
  BY DEF IInv, TypeOK, KnownInv
<1>3. ASSUME NEW q \in Command, q # p PROVE Own(q)'
  <2>1. \A l \in Login : cur'[l] >= cur[l]
    BY <1>2
  <2> QED BY <1>1, <1>2, <1>3, <2>1, OthersOwn
<1>4. Own(p)'
  <2>1. OwnKey(p)'
    BY <1>1, <1>2 DEF OwnKey, At
  <2> QED BY <2>1 DEF Own
<1>5. LoginsKnown'
  BY <1>1, <1>2, LoginsStay DEF At
<1>6. KeysKnown'
  BY <1>1, <1>2, KeysStay
<1> QED BY <1>2, <1>3, <1>4, <1>5, <1>6 DEF KnownInv, Own

-----------------------------------------------------------------------------
(* The steps without the lock                                               *)

\* What After can return
LEMMA AfterFields ==
  ASSUME IInv, NEW p \in Command, NEW t \in Token \cup {None}
  PROVE  LET r == After(p, t) IN
         /\ r.pc \in {"lock", "delete", "readback", "done"} /\ r.got = None
         /\ r.key \in {me[p].key, None} /\ r.job \in {me[p].job, "issue", None}
         /\ r.pc = "lock" => r.job = "issue" /\ r.op # "logout"
         /\ r.pc = "readback" => t = None /\ r.op = "logout" /\ me[p].op = "logout" /\ r.key = me[p].key
<1>1. me[p] \in Self
  BY DEF IInv, TypeOK
<1>2. CASE me[p].op = "key" /\ t # None
  <2>1. After(p, t) = [me[p] EXCEPT !.pc = "lock", !.job = "issue", !.tok = t, !.got = None]
    BY <1>1, <1>2 DEF After, Queue, Self
  <2> QED BY <1>1, <1>2, <2>1 DEF Self
<1>3. CASE me[p].op = "logout"
  <2>1. After(p, t) = [me[p] EXCEPT !.pc = IF t # None THEN "delete" ELSE "readback", !.got = None]
    BY <1>3 DEF After
  <2> QED BY <1>1, <1>3, <2>1 DEF Self
<1>4. CASE me[p].op # "logout" /\ ~(me[p].op = "key" /\ t # None)
  BY <1>4 DEF After, Ended
<1> QED BY <1>2, <1>3, <1>4

LEMMA Facts ==
  ASSUME IInv, KnownInv, NEW p \in Command
  PROVE  /\ me[p] \in Self /\ InHand(p) /\ Undisturbed(p) /\ Private(p) /\ Spent(p) /\ Own(p)
         /\ yml \in File /\ p \in Login /\ p # None /\ None \notin Token
         /\ cur \in [Login -> Nat] /\ keys \subseteq Command
         /\ me[p].pc \in Locked <=> holder = p
BY NamesOK DEF IInv, KnownInv, Own, TypeOK, Login

LEMMA QueueIs ==
  ASSUME IInv, NEW p \in Command, NEW job, NEW t
  PROVE  LET r == Queue(p, job, t) IN
         /\ r.pc = "lock" /\ r.job = job /\ r.tok = t /\ r.op = me[p].op /\ r.got = me[p].got
         /\ r.key = me[p].key
<1>1. me[p] \in Self
  BY DEF IInv, TypeOK
<1> QED BY <1>1 DEF Queue, Self

\* A step that ends in ensureFreshAccessToken returning t, or throwing
LEMMA AfterOwn ==
  ASSUME IInv, KnownInv, IInv', NEW p \in Command, NEW t \in Token \cup {None},
         me[p].pc \in {"look", "held", "asking", "answered", "write", "rename"}, me[p].job # "clear",
         me'[p] = After(p, t) \/ me'[p] = [After(p, t) EXCEPT !.snap = NoFile],
         keys' \subseteq keys, t = None => Warned(p, None) \subseteq doubtful'
  PROVE  /\ NotAhead(p)' /\ Cleared(p)' /\ Deleted(p)'
         /\ me'[p].key \in {me[p].key, None} /\ ~Unsaved(p)' /\ ~At(p, "device")'
         /\ me'[p].pc \in {"lock", "delete", "readback", "done"}
<1> DEFINE r == After(p, t)
<1>1. /\ me'[p].pc = r.pc /\ me'[p].got = None /\ me'[p].key = r.key /\ me'[p].job = r.job
      /\ me'[p].op = r.op
  <2>1. r \in Self /\ r.got = None
    BY AfterIs
  <2> QED BY <2>1 DEF Self
<1>2. /\ r.pc \in {"lock", "delete", "readback", "done"} /\ r.got = None
      /\ r.key \in {me[p].key, None} /\ r.job \in {me[p].job, "issue", None}
      /\ r.pc = "lock" => r.job = "issue" /\ r.op # "logout"
      /\ r.pc = "readback" => t = None /\ r.op = "logout" /\ me[p].op = "logout" /\ r.key = me[p].key
  BY AfterFields
<1>3. me[p].job \in Job \cup {None} /\ None # "clear"
  BY Facts, NamesOK DEF Self, Job
<1>4. Deleted(p)'
  <2>1. CASE r.pc = "readback"
    <3>1. r.key \notin keys' \ doubtful'
      <4>1. r.key = None \/ r.key \in Warned(p, None)
        BY <1>2, <2>1 DEF Warned, Named
      <4>2. None \notin keys
        BY Facts, NamesOK DEF Login
      <4> QED BY <1>2, <2>1, <4>1, <4>2
    <3> QED BY <1>1, <2>1, <3>1 DEF Deleted, At, Unsaved, Saving, Writing
  <2>2. CASE r.pc # "readback"
    BY <1>1, <1>2, <1>3, <2>2 DEF Deleted, At, Unsaved, Saving, Writing
  <2> QED BY <2>1, <2>2
<1>5. NotAhead(p)' /\ Cleared(p)'
  BY <1>1, <1>2, <1>3 DEF NotAhead, Cleared, At, Saving, Writing
<1>6. ~Unsaved(p)' /\ ~At(p, "device")'
  BY <1>1, <1>2 DEF Unsaved, At, Saving, Writing
<1> QED BY <1>1, <1>2, <1>4, <1>5, <1>6

LEMMA FindKnown ==
  ASSUME IInv, KnownInv, IInv', NEW p \in Command, Find(p) PROVE KnownInv'
<1>1. /\ me[p].pc = "find" /\ me[p] \in Self /\ InHand(p)
      /\ ~At(p, "done") /\ ~Unsaved(p) /\ ~Saving(p, "issue") /\ ~At(p, "revoke")
  BY Facts DEF Find, At, Unsaved, Saving, Writing
<1>2. PICK r \in Self : me' = [me EXCEPT ![p] = r] /\ (r = Ended \/ r = [me[p] EXCEPT !.pc = "look"])
  BY Facts, Types DEF Find, End, Move, Self, Steps, IInv
<1>3. me'[p] = r
  BY <1>2, Mover
<1>4. r.pc \in {"done", "look"} /\ r.key \in {me[p].key, None} /\ r.job # "clear"
  BY <1>1, <1>2, NamesOK DEF Ended, Self, Job, InHand, At, Writing
<1>5. NotAhead(p)' /\ Cleared(p)' /\ Deleted(p)'
  BY <1>3, <1>4 DEF NotAhead, Cleared, Deleted, At, Saving, Writing, Unsaved
<1> QED BY <1>1, <1>2, <1>4, <1>5, Quiet DEF Find, server, history

LEMMA RecordKnown ==
  ASSUME IInv, KnownInv, IInv', NEW p \in Command, Record(p) PROVE KnownInv'
<1>1. /\ me[p].pc = "record" /\ me[p] \in Self /\ InHand(p) /\ me[p].key = None
      /\ ~At(p, "done") /\ ~Unsaved(p) /\ ~Saving(p, "issue") /\ ~At(p, "revoke")
  BY Facts DEF Record, At, Unsaved, Saving, Writing, Own, Deleted
<1>2. PICK r : /\ me' = [me EXCEPT ![p] = r]
               /\ \/ r = [me[p] EXCEPT !.key = yml.key, !.pc = "look"]
                  \/ r = [me[p] EXCEPT !.pc = "readback"]
  BY DEF Record
<1>3. me'[p] = r
  BY <1>2, Mover
<1>4. /\ r.pc \in {"readback", "look"} /\ r.key \in {yml.key, None} /\ r.job # "clear"
      /\ r.pc = "readback" => r.key = None
  BY <1>1, <1>2 DEF Self, InHand, At, Writing
<1>5. NotAhead(p)' /\ Cleared(p)' /\ Deleted(p)'
  <2>1. None \notin keys'
    BY Facts, NamesOK DEF Record, server, Login
  <2> QED BY <1>3, <1>4, <2>1 DEF NotAhead, Cleared, Deleted, At, Saving, Writing, Unsaved
<1> QED BY <1>1, <1>2, <1>4, <1>5, Quiet DEF Record, server, history

LEMMA LookKnown ==
  ASSUME IInv, KnownInv, IInv', NEW p \in Command, Look(p) PROVE KnownInv'
<1>1. /\ me[p].pc = "look" /\ me[p] \in Self /\ InHand(p) /\ yml.login \in Token \cup {None}
      /\ ~At(p, "done") /\ ~Unsaved(p) /\ ~Saving(p, "issue") /\ ~At(p, "revoke")
      /\ me[p].job # "clear"
  BY Facts DEF Look, At, Unsaved, Saving, Writing, InHand, File
<1>2. UNCHANGED <<yml, cur, missed, keys, dead>> /\ doubtful \subseteq doubtful'
  BY DEF Look, server
<1>3. CASE me' = [me EXCEPT ![p] = Queue(p, "refresh", None)]
  <2>1. me'[p] = Queue(p, "refresh", None)
    BY <1>3, Mover
  <2>2. me'[p].pc = "lock" /\ me'[p].job = "refresh" /\ me'[p].key = me[p].key
    BY <1>1, <2>1 DEF Queue, Self
  <2>3. NotAhead(p)' /\ Cleared(p)' /\ Deleted(p)'
    BY <2>2 DEF NotAhead, Cleared, Deleted, At, Saving, Writing, Unsaved
  <2> QED BY <1>1, <1>2, <1>3, <2>1, <2>2, <2>3, Quiet
<1>4. CASE me' = [me EXCEPT ![p] = After(p, yml.login)] /\ doubtful' = doubtful \cup Warned(p, yml.login)
  <2>1. me'[p] = After(p, yml.login)
    BY <1>4, Mover
  <2>2. /\ NotAhead(p)' /\ Cleared(p)' /\ Deleted(p)' /\ me'[p].key \in {me[p].key, None}
    BY <1>1, <1>2, <1>4, <2>1, AfterOwn
  <2> QED BY <1>1, <1>2, <1>4, <2>1, <2>2, Quiet
<1> QED BY <1>3, <1>4 DEF Look

LEMMA DeleteKnown ==
  ASSUME IInv, KnownInv, IInv', NEW p \in Command, Delete(p) PROVE KnownInv'
<1>1. /\ me[p].pc = "delete" /\ me[p] \in Self /\ me[p].job # "clear"
      /\ ~At(p, "done") /\ ~Unsaved(p) /\ ~Saving(p, "issue") /\ ~At(p, "revoke")
  BY Facts DEF Delete, At, Unsaved, Saving, Writing, InHand
<1>2. me' = [me EXCEPT ![p] = [me[p] EXCEPT !.pc = "readback"]]
  BY DEF Delete, Move
<1>3. me'[p] = [me[p] EXCEPT !.pc = "readback"]
  BY <1>2, Mover
<1>4. me'[p].pc = "readback" /\ me'[p].key = me[p].key /\ me'[p].job # "clear"
  BY <1>1, <1>3 DEF Self
<1>5. /\ UNCHANGED <<yml, cur, missed, dead>> /\ doubtful \subseteq doubtful' /\ keys' \subseteq keys
      /\ me[p].key \notin keys' \ doubtful'
  BY DEF Delete
<1>6. NotAhead(p)' /\ Cleared(p)' /\ Deleted(p)'
  BY <1>4, <1>5 DEF NotAhead, Cleared, Deleted, At, Saving, Writing, Unsaved
<1> QED BY <1>1, <1>2, <1>3, <1>4, <1>5, <1>6, Quiet

LEMMA ReadBackKnown ==
  ASSUME IInv, KnownInv, IInv', NEW p \in Command, ReadBack(p) PROVE KnownInv'
<1>1. /\ me[p].pc = "readback" /\ me[p] \in Self /\ yml.login \in Token \cup {None} /\ Own(p)
      /\ ~At(p, "done") /\ ~Unsaved(p) /\ ~Saving(p, "issue") /\ ~At(p, "revoke")
      /\ me[p].job # "clear"
  BY Facts DEF ReadBack, At, Unsaved, Saving, Writing, InHand, File
<1>2. PICK r : /\ me' = [me EXCEPT ![p] = r]
               /\ \/ r = Queue(p, "clear", None)
                  \/ yml.login # None /\ r = [me[p] EXCEPT !.pc = "revoke", !.tok = yml.login]
  BY DEF ReadBack
<1>3. me'[p] = r
  BY <1>2, Mover
<1>4. /\ r.op = me[p].op /\ r.key = me[p].key
      /\ \/ r.pc = "lock" /\ r.tok = None /\ r.job = "clear"
         \/ r.pc = "revoke" /\ r.job # "clear" /\ yml.login # None /\ r.tok = yml.login
  <2>1. CASE r = Queue(p, "clear", None)
    BY <2>1, QueueIs
  <2>2. CASE yml.login # None /\ r = [me[p] EXCEPT !.pc = "revoke", !.tok = yml.login]
    BY <1>1, <2>2 DEF Self
  <2> QED BY <1>2, <2>1, <2>2
<1>5. UNCHANGED <<yml, cur, missed, keys, dead, doubtful>>
  BY DEF ReadBack, server, history
<1>6. NotAhead(p)' /\ Cleared(p)'
  BY <1>3, <1>4, <1>5 DEF NotAhead, Cleared, KnownInv, At, Saving, Writing
<1>7. Deleted(p)'
  BY <1>1, <1>3, <1>4, <1>5 DEF Own, Deleted, At, Unsaved, Saving, Writing
<1> QED BY <1>1, <1>2, <1>4, <1>5, <1>6, <1>7, Quiet

LEMMA RevokeKnown ==
  ASSUME IInv, KnownInv, IInv', NEW p \in Command, Revoke(p) PROVE KnownInv'
<1>1. /\ me[p].pc = "revoke" /\ me[p] \in Self /\ Own(p) /\ me[p].tok \in Token /\ me[p].job # "clear"
      /\ ~At(p, "done") /\ ~Unsaved(p) /\ ~Saving(p, "issue") /\ At(p, "revoke")
      /\ cur \in [Login -> Nat]
  BY Facts DEF Revoke, At, Unsaved, Saving, Writing, InHand, Self
<1>2. PICK r : /\ me' = [me EXCEPT ![p] = r]
               /\ \/ r = Queue(p, "clear", me[p].tok) /\ me[p].op = "logout"
                  \/ r = Ended
  BY DEF Revoke
<1>3. me'[p] = r
  BY <1>2, Mover
<1>4. \/ /\ r.op = "logout" /\ me[p].op = "logout" /\ r.pc = "lock" /\ r.key = me[p].key
         /\ r.tok = me[p].tok /\ r.job = "clear"
      \/ r.pc = "done" /\ r.key = None /\ r.job = None
  BY <1>2, QueueIs DEF Ended
<1>5. /\ UNCHANGED <<yml, cur, missed, keys>> /\ dead \subseteq dead' /\ doubtful \subseteq doubtful'
      /\ me[p].tok.login \in dead' \cup doubtful' \/ me[p].tok.gen # cur[me[p].tok.login]
  BY DEF Revoke
<1>6. NotAhead(p)'
  BY <1>3, <1>4 DEF NotAhead, At, Saving, Writing
<1>7. Cleared(p)'
  <2>1. /\ me[p].tok.gen <= cur[me[p].tok.login] /\ me[p].tok.gen \in Nat
        /\ cur[me[p].tok.login] \in Nat
    BY <1>1 DEF Own, NotAhead, Token
  <2>2. me[p].tok.login \in dead' \cup doubtful' \/ me[p].tok.gen < cur[me[p].tok.login]
    BY <1>5, <2>1
  <2> QED BY <1>3, <1>4, <1>5, <2>2, NamesOK DEF Cleared, Job
<1>8. Deleted(p)'
  BY <1>1, <1>3, <1>4, <1>5, NamesOK DEF Own, Deleted, At, Job, Unsaved, Saving, Writing
<1> QED BY <1>1, <1>2, <1>4, <1>5, <1>6, <1>7, <1>8, Quiet

\* An ended command knows nothing.
LEMMA EndedOwn ==
  ASSUME IInv, NEW p \in Command, me'[p] = Ended
  PROVE  /\ NotAhead(p)' /\ Cleared(p)' /\ Deleted(p)' /\ OwnKey(p)'
         /\ Ended.pc = "done" /\ Ended.key = None
BY NamesOK DEF Ended, NotAhead, Cleared, Deleted, OwnKey, At, Saving, Writing, Job, Unsaved

LEMMA DeviceKnown ==
  ASSUME IInv, KnownInv, IInv', NEW p \in Command, Device(p) PROVE KnownInv'
<1>1. /\ me[p].pc = "device" /\ me[p] \in Self /\ Own(p) /\ me[p].job # "clear" /\ Private(p)
      /\ ~At(p, "done") /\ ~Unsaved(p) /\ ~Saving(p, "issue") /\ ~At(p, "revoke")
      /\ cur \in [Login -> Nat] /\ p \in Login /\ me[p].op # "logout"
  BY Facts DEF Device, At, Unsaved, Saving, Writing, InHand, Own, Deleted
<1>2. UNCHANGED <<yml, dead, keys, missed>> /\ doubtful \subseteq doubtful'
  BY DEF Device
<1>3. CASE End(p) /\ cur' = cur
  <2>1. me' = [me EXCEPT ![p] = Ended] /\ me'[p] = Ended
    BY <1>3, Mover DEF End
  <2> QED BY <1>1, <1>2, <1>3, <2>1, EndedOwn, Quiet
<1>4. CASE /\ cur' = [cur EXCEPT ![p] = 1]
           /\ \/ me' = [me EXCEPT ![p].pc = "account", ![p].got = [login |-> p, gen |-> 1]]
              \/ End(p) /\ p \in doubtful'
  <2>1. PICK r : /\ me' = [me EXCEPT ![p] = r]
                 /\ \/ r = [me[p] EXCEPT !.pc = "account", !.got = [login |-> p, gen |-> 1]]
                    \/ r = Ended /\ p \in doubtful'
    BY <1>4 DEF End
  <2>2. me'[p] = r /\ \A q \in Command \ {p} : me'[q] = me[q]
    BY <2>1, Mover
  <2>3. cur'[p] = 1 /\ cur[p] = 0 /\ \A l \in Login \ {p} : cur'[l] = cur[l]
    BY <1>1, <1>4 DEF Own, NotAhead, At
  <2>4. \/ r.pc = "account" /\ r.key = me[p].key /\ r.job # "clear"
        \/ r.pc = "done" /\ r.key = None /\ p \in doubtful'
    <3>1. CASE r = Ended /\ p \in doubtful'
      BY <3>1 DEF Ended
    <3>2. CASE r = [me[p] EXCEPT !.pc = "account", !.got = [login |-> p, gen |-> 1]]
      BY <1>1, <3>2 DEF Self
    <3> QED BY <2>1, <3>1, <3>2
  <2>5. Own(p)'
    <3>1. CASE r = Ended
      BY <2>2, <3>1, EndedOwn DEF Own
    <3>2. CASE r = [me[p] EXCEPT !.pc = "account", !.got = [login |-> p, gen |-> 1]]
      <4>1. r.pc = "account" /\ r.key = me[p].key /\ r.job # "clear" /\ r.op # "logout"
        BY <1>1, <3>2 DEF Self
      <4>2. NotAhead(p)' /\ Cleared(p)' /\ Deleted(p)'
        BY <2>2, <4>1 DEF NotAhead, Cleared, Deleted, At, Saving, Writing, Unsaved
      <4>3. OwnKey(p)'
        BY <1>1, <1>2, <2>2, <4>1 DEF Own, OwnKey, At
      <4> QED BY <4>2, <4>3 DEF Own
    <3> QED BY <2>1, <3>1, <3>2
  <2>6. ASSUME NEW q \in Command, q # p PROVE Own(q)'
    <3>1. \A l \in Login : cur'[l] >= cur[l]
      BY <1>1, <2>3
    <3>2. \A n \in Command \ {p} : cur'[n] = cur[n]
      BY <2>3 DEF Login
    <3> QED BY <1>1, <1>2, <2>2, <2>4, <2>6, <3>1, <3>2, OthersOwn
  <2>7. yml'.login # None => yml'.login.gen <= cur'[yml'.login.login]
    <3>1. yml.login # None => yml.login.login \in Login \ {p}
      BY <1>1, Facts DEF Private, LoginOf, File, Token, At
    <3> QED BY <1>2, <2>3, <3>1 DEF KnownInv
  <2>8. LoginsKnown'
    <3> SUFFICES ASSUME NEW l \in Login, cur'[l] > 0,
                        l \notin dead' \cup doubtful' \cup missed' \cup LoginOf(yml'.login)
                 PROVE  InHands(l)'
      BY DEF LoginsKnown
    <3>1. CASE l = p
      <4>1. r.pc = "account"
        BY <2>4, <3>1
      <4> QED BY <2>2, <3>1, <4>1 DEF InHands, Unsaved, At
    <3>2. CASE l # p
      <4>1. InHands(l) /\ cur'[l] = cur[l]
        BY <1>2, <2>3, <3>2 DEF KnownInv, LoginsKnown
      <4>2. PICK q \in Command : \/ q = l /\ Unsaved(q)
                                 \/ At(q, "revoke") /\ me[q].tok = [login |-> l, gen |-> cur[l]]
        BY <4>1 DEF InHands
      <4>3. q # p
        BY <1>1, <4>2
      <4>4. me'[q] = me[q]
        BY <2>2, <4>3
      <4>5. (Unsaved(q)' <=> Unsaved(q)) /\ (At(q, "revoke")' <=> At(q, "revoke"))
        BY <4>4 DEF Unsaved, Saving, Writing, At
      <4> QED BY <4>1, <4>2, <4>4, <4>5 DEF InHands
    <3> QED BY <3>1, <3>2
  <2>9. KeysKnown'
    BY <1>1, <1>2, <2>2, KeysStay
  <2> QED BY <2>5, <2>6, <2>7, <2>8, <2>9 DEF KnownInv, Own
<1> QED BY <1>3, <1>4 DEF Device

LEMMA AccountKnown ==
  ASSUME IInv, KnownInv, IInv', NEW p \in Command, Account(p) PROVE KnownInv'
<1>1. /\ me[p].pc = "account" /\ me[p] \in Self /\ Own(p) /\ me[p].job # "clear"
      /\ me[p].got = [login |-> p, gen |-> 1] /\ cur[p] = 1
      /\ ~At(p, "done") /\ ~Saving(p, "issue") /\ ~At(p, "revoke")
  BY Facts DEF Account, At, Unsaved, Saving, Writing, Private, InHand
<1>2. PICK r : /\ me' = [me EXCEPT ![p] = r]
               /\ \/ r = Queue(p, "save", None)
                  \/ r = [me[p] EXCEPT !.pc = "revoke", !.tok = me[p].got]
  BY DEF Account
<1>3. me'[p] = r
  BY <1>2, Mover
<1>4. /\ r.key = me[p].key /\ r.job # "clear"
      /\ r.op = me[p].op
      /\ \/ r.pc = "lock" /\ r.job = "save"
         \/ r.pc = "revoke" /\ r.tok = [login |-> p, gen |-> cur[p]]
  <2>1. CASE r = Queue(p, "save", None)
    BY <2>1, QueueIs
  <2>2. CASE r = [me[p] EXCEPT !.pc = "revoke", !.tok = me[p].got]
    BY <1>1, <2>2 DEF Self
  <2> QED BY <1>2, <2>1, <2>2
<1>5. UNCHANGED <<yml, cur, missed, keys, dead, doubtful>> /\ cur[p] \in Nat /\ p \in Login
  BY <1>1 DEF Account, server, history, Login
<1>6. NotAhead(p)' /\ Cleared(p)'
  BY <1>3, <1>4, <1>5 DEF NotAhead, Cleared, At, Saving, Writing
<1>7. Deleted(p)'
  <2>1. me[p].op # "logout"
    BY <1>1 DEF Own, Deleted, At, Unsaved
  <2> QED BY <1>3, <1>4, <2>1 DEF Deleted, At, Unsaved, Saving, Writing
<1>8. r.pc = "lock" /\ r.job = "save" => Unsaved(p)'
  BY <1>3 DEF Unsaved, At
<1> QED BY <1>1, <1>2, <1>4, <1>5, <1>6, <1>7, <1>8, Quiet

-----------------------------------------------------------------------------
(* The steps at the lock                                                    *)

LEMMA AcquireKnown ==
  ASSUME IInv, KnownInv, IInv', NEW p \in Command, Acquire(p) PROVE KnownInv'
<1>1. /\ me[p].pc = "lock" /\ me[p] \in Self /\ Own(p) /\ me[p].job \in Job
      /\ ~At(p, "done") /\ ~Saving(p, "issue") /\ ~At(p, "revoke")
  BY Facts DEF Acquire, At, Saving, Writing, InHand
<1>2. PICK r : /\ me' = [me EXCEPT ![p] = r]
               /\ r = [me[p] EXCEPT !.pc = IF me[p].job \in {"refresh", "issue"} THEN "held" ELSE "write"]
  BY DEF Acquire, Move
<1>3. me'[p] = r
  BY <1>2, Mover
<1>4. /\ r.key = me[p].key /\ r.job = me[p].job /\ r.op = me[p].op /\ r.tok = me[p].tok
      /\ \/ r.pc = "held" /\ r.job \in {"refresh", "issue"}
         \/ r.pc = "write" /\ r.job \notin {"refresh", "issue"}
  BY <1>1, <1>2 DEF Self
<1>5. UNCHANGED <<yml, cur, missed, keys, dead, doubtful>>
  BY DEF Acquire, server, history
<1>6. NotAhead(p)'
  BY <1>3, <1>4 DEF NotAhead, At, Saving, Writing
<1>7. Cleared(p)' /\ Deleted(p)'
  BY <1>1, <1>3, <1>4, <1>5 DEF Own, Cleared, Deleted, At, Unsaved, Saving, Writing
<1>8. Unsaved(p) => Unsaved(p)'
  BY <1>1, <1>3, <1>4 DEF Unsaved, Saving, Writing, At
<1> QED BY <1>1, <1>2, <1>4, <1>5, <1>6, <1>7, <1>8, Quiet

LEMMA HeldRefreshKnown ==
  ASSUME IInv, KnownInv, IInv', NEW p \in Command, HeldRefresh(p) PROVE KnownInv'
<1>1. /\ me[p].pc = "held" /\ me[p] \in Self /\ me[p].job = "refresh" /\ yml.login \in Token \cup {None}
      /\ ~At(p, "done") /\ ~Unsaved(p) /\ ~Saving(p, "issue") /\ ~At(p, "revoke")
  BY Facts DEF HeldRefresh, At, Unsaved, Saving, Writing, File
<1>2. UNCHANGED <<yml, cur, missed, keys, dead>> /\ doubtful \subseteq doubtful'
  BY DEF HeldRefresh, server
<1>3. CASE me' = [me EXCEPT ![p].pc = "asking", ![p].tok = yml.login]
  <2>1. me' = [me EXCEPT ![p] = [me[p] EXCEPT !.pc = "asking", !.tok = yml.login]]
    BY <1>3
  <2>2. me'[p] = [me[p] EXCEPT !.pc = "asking", !.tok = yml.login]
    BY <2>1, Mover
  <2>3. me'[p].pc = "asking" /\ me'[p].key = me[p].key /\ me'[p].job = me[p].job
    BY <1>1, <2>2 DEF Self
  <2>4. NotAhead(p)' /\ Cleared(p)' /\ Deleted(p)'
    BY <1>1, <2>3 DEF NotAhead, Cleared, Deleted, At, Saving, Writing, Unsaved
  <2> QED BY <1>1, <1>2, <2>1, <2>2, <2>3, <2>4, Quiet
<1>4. CASE me' = [me EXCEPT ![p] = After(p, yml.login)] /\ doubtful' = doubtful \cup Warned(p, yml.login)
  <2>1. me'[p] = After(p, yml.login)
    BY <1>4, Mover
  <2>2. /\ NotAhead(p)' /\ Cleared(p)' /\ Deleted(p)' /\ me'[p].key \in {me[p].key, None}
    BY <1>1, <1>2, <1>4, <2>1, AfterOwn
  <2> QED BY <1>1, <1>2, <1>4, <2>1, <2>2, Quiet
<1> QED BY <1>3, <1>4 DEF HeldRefresh

LEMMA HeldIssueKnown ==
  ASSUME IInv, KnownInv, IInv', NEW p \in Command, HeldIssue(p) PROVE KnownInv'
<1>1. /\ me[p].pc = "held" /\ me[p] \in Self /\ me[p].job = "issue"
      /\ ~At(p, "done") /\ ~Unsaved(p) /\ ~Saving(p, "issue") /\ ~At(p, "revoke")
  BY Facts DEF HeldIssue, At, Unsaved, Saving, Writing
<1>2. UNCHANGED <<yml, cur, missed, keys, dead, doubtful>>
  BY DEF HeldIssue, server, history
<1>3. PICK r : me' = [me EXCEPT ![p] = r] /\ (r = Ended \/ r = [me[p] EXCEPT !.pc = "posting"])
  BY DEF HeldIssue, End, Move
<1>4. me'[p] = r
  BY <1>3, Mover
<1>5. CASE r = Ended
  BY <1>1, <1>2, <1>3, <1>4, <1>5, EndedOwn, Quiet
<1>6. CASE r = [me[p] EXCEPT !.pc = "posting"]
  <2>1. r.pc = "posting" /\ r.key = me[p].key /\ r.job = "issue"
    BY <1>1, <1>6 DEF Self
  <2>2. NotAhead(p)' /\ Cleared(p)' /\ Deleted(p)'
    BY <1>4, <2>1 DEF NotAhead, Cleared, Deleted, At, Saving, Writing, Unsaved
  <2> QED BY <1>1, <1>2, <1>3, <2>1, <2>2, Quiet
<1> QED BY <1>3, <1>5, <1>6

LEMMA ReceiveKnown ==
  ASSUME IInv, KnownInv, IInv', NEW p \in Command, Receive(p) PROVE KnownInv'
<1>1. /\ me[p].pc = "answered" /\ me[p] \in Self /\ me[p].job = "refresh" /\ Own(p)
      /\ ~At(p, "done") /\ ~Unsaved(p) /\ ~Saving(p, "issue") /\ ~At(p, "revoke")
  BY Facts DEF Receive, At, Unsaved, Saving, Writing, InHand, Asked
<1>2. UNCHANGED <<yml, cur, missed, keys, dead>> /\ doubtful \subseteq doubtful'
  BY DEF Receive, server
<1>3. CASE Move(p, "write")
  <2>1. me' = [me EXCEPT ![p] = [me[p] EXCEPT !.pc = "write"]]
    BY <1>3 DEF Move
  <2>2. me'[p] = [me[p] EXCEPT !.pc = "write"]
    BY <2>1, Mover
  <2>3. me'[p].pc = "write" /\ me'[p].key = me[p].key /\ me'[p].job = "refresh" /\ me'[p].got = me[p].got
    BY <1>1, <2>2 DEF Self
  <2>4. NotAhead(p)' /\ Cleared(p)' /\ Deleted(p)'
    BY <1>1, <1>2, <2>3 DEF Own, NotAhead, Cleared, Deleted, At, Saving, Writing, Unsaved
  <2> QED BY <1>1, <1>2, <2>1, <2>2, <2>3, <2>4, Quiet
<1>4. CASE me' = [me EXCEPT ![p] = After(p, None)] /\ doubtful' = doubtful \cup Warned(p, None)
  <2>1. me'[p] = After(p, None)
    BY <1>4, Mover
  <2>2. /\ NotAhead(p)' /\ Cleared(p)' /\ Deleted(p)' /\ me'[p].key \in {me[p].key, None}
    BY <1>1, <1>2, <1>4, <2>1, AfterOwn
  <2> QED BY <1>1, <1>2, <1>4, <2>1, <2>2, Quiet
<1> QED BY <1>3, <1>4 DEF Receive

LEMMA GiveUpKnown ==
  ASSUME IInv, KnownInv, IInv', NEW p \in Command, GiveUp(p) PROVE KnownInv'
<1>1. /\ me[p].pc \in {"asking", "answered"} /\ me[p].job = "refresh"
      /\ ~At(p, "done") /\ ~Unsaved(p) /\ ~Saving(p, "issue") /\ ~At(p, "revoke")
  BY Facts DEF GiveUp, At, Unsaved, Saving, Writing, InHand, Asked
<1>2. UNCHANGED <<yml, cur, missed, keys, dead>> /\ doubtful \subseteq doubtful'
  BY DEF GiveUp
<1>3. me' = [me EXCEPT ![p] = After(p, None)] /\ Warned(p, None) \subseteq doubtful'
  BY DEF GiveUp
<1>4. me'[p] = After(p, None)
  BY <1>3, Mover
<1>5. /\ NotAhead(p)' /\ Cleared(p)' /\ Deleted(p)' /\ me'[p].key \in {me[p].key, None}
  BY <1>1, <1>2, <1>3, <1>4, AfterOwn
<1> QED BY <1>1, <1>2, <1>3, <1>4, <1>5, Quiet

LEMMA ReadForWriteKnown ==
  ASSUME IInv, KnownInv, IInv', NEW p \in Command, ReadForWrite(p) PROVE KnownInv'
<1>1. me[p].pc = "write" /\ me[p] \in Self /\ Own(p) /\ ~At(p, "done") /\ ~At(p, "revoke")
  BY Facts DEF ReadForWrite, At
<1>2. me' = [me EXCEPT ![p] = [me[p] EXCEPT !.pc = "rename", !.snap = yml]]
  BY DEF ReadForWrite
<1>3. me'[p] = [me[p] EXCEPT !.pc = "rename", !.snap = yml]
  BY <1>2, Mover
<1>4. /\ me'[p].pc = "rename" /\ me'[p].key = me[p].key /\ me'[p].job = me[p].job
      /\ me'[p].op = me[p].op /\ me'[p].tok = me[p].tok /\ me'[p].got = me[p].got
  BY <1>1, <1>3 DEF Self
<1>5. UNCHANGED <<yml, cur, missed, keys, dead, doubtful>>
  BY DEF ReadForWrite, server, history
<1>6. NotAhead(p)' /\ Cleared(p)' /\ Deleted(p)'
  BY <1>1, <1>4, <1>5 DEF Own, NotAhead, Cleared, Deleted, At, Saving, Writing, Unsaved
<1>7. (Saving(p, "issue") => Saving(p, "issue")') /\ (Unsaved(p) => Unsaved(p)')
  BY <1>1, <1>4 DEF Saving, Writing, Unsaved, At
<1> QED BY <1>1, <1>2, <1>3, <1>4, <1>5, <1>6, <1>7, Quiet

-----------------------------------------------------------------------------
(* The steps of the server                                                  *)

\* Requests move the login in the file, or one in doubt, and no other.
LEMMA PresentIs ==
  ASSUME IInv, KnownInv, NEW t \in Token, t.login \in LoginOf(yml.login) \cup doubtful,
         Present(t), UNCHANGED <<yml, doubtful, missed>>,
         NEW p \in Command \cup {None},
         \A q \in Command \ {p} : me'[q] = me[q],
         p # None => ~Unsaved(p) /\ ~At(p, "revoke")
  PROVE  /\ dead \subseteq dead' /\ cur' \in [Login -> Nat]
         /\ \A l \in Login : cur'[l] >= cur[l] /\ (l # t.login => cur'[l] = cur[l])
         /\ yml'.login # None => yml'.login.gen <= cur'[yml'.login.login]
         /\ LoginsKnown'
<1>1. t.login \in Login /\ cur \in [Login -> Nat] /\ yml.login \in Token \cup {None}
  BY DEF Token, IInv, TypeOK, File
<1>2. /\ dead \subseteq dead' /\ cur' \in [Login -> Nat]
      /\ \A l \in Login : cur'[l] >= cur[l] /\ (l # t.login => cur'[l] = cur[l])
  BY <1>1 DEF Present
<1>3. yml'.login # None => yml'.login.gen <= cur'[yml'.login.login]
  <2>1. yml.login # None => /\ yml.login.login \in Login /\ yml.login.gen \in Nat
                            /\ yml.login.gen <= cur[yml.login.login]
    BY <1>1 DEF Token, KnownInv
  <2>2. yml.login # None => /\ cur'[yml.login.login] >= cur[yml.login.login]
                            /\ cur[yml.login.login] \in Nat /\ cur'[yml.login.login] \in Nat
    BY <1>1, <1>2, <2>1
  <2> QED BY <2>1, <2>2
<1>4. ASSUME NEW l \in Login, cur'[l] > 0,
             l \notin dead' \cup doubtful' \cup missed' \cup LoginOf(yml'.login)
      PROVE  InHands(l)'
  <2>1. l # t.login /\ cur'[l] = cur[l]
    BY <1>2, <1>4
  <2>2. InHands(l)
    BY <1>2, <1>4, <2>1 DEF KnownInv, LoginsKnown
  <2>3. PICK q \in Command : \/ q = l /\ Unsaved(q)
                             \/ At(q, "revoke") /\ me[q].tok = [login |-> l, gen |-> cur[l]]
    BY <2>2 DEF InHands
  <2>4. me'[q] = me[q]
    BY <2>3, NamesOK DEF Login
  <2>5. (Unsaved(q)' <=> Unsaved(q)) /\ (At(q, "revoke")' <=> At(q, "revoke"))
    BY <2>4 DEF Unsaved, Saving, Writing, At
  <2> QED BY <2>1, <2>3, <2>4, <2>5 DEF InHands
<1> QED BY <1>2, <1>3, <1>4 DEF LoginsKnown

LEMMA ServeKnown ==
  ASSUME IInv, KnownInv, IInv', NEW p \in Command, Serve(p) PROVE KnownInv'
<1> DEFINE t == me[p].tok
<1>1. /\ me[p].pc = "asking" /\ me[p] \in Self /\ me[p].job = "refresh" /\ Own(p)
      /\ ~At(p, "done") /\ ~Unsaved(p) /\ ~Saving(p, "issue") /\ ~At(p, "revoke")
      /\ t = yml.login /\ yml.login # None
  BY Facts DEF Serve, At, Unsaved, Saving, Writing, InHand, Asked, Undisturbed
<1>2. t \in Token /\ t.login \in LoginOf(yml.login) /\ t.login \in Login /\ t.gen \in Nat
  BY <1>1 DEF Self, Token, LoginOf
<1>3. /\ UNCHANGED <<yml, missed, keys, doubtful>> /\ Present(t)
  BY DEF Serve, history
<1>4. PICK g : g = IF Accepts(t) THEN Next1(t) ELSE None
  OBVIOUS
<1>5. me' = [me EXCEPT ![p] = [me[p] EXCEPT !.pc = "answered", !.got = g]]
  BY <1>4 DEF Serve
<1>6. me'[p] = [me[p] EXCEPT !.pc = "answered", !.got = g] /\ \A q \in Command \ {p} : me'[q] = me[q]
  BY <1>5, Mover
<1>7. /\ me'[p].pc = "answered" /\ me'[p].key = me[p].key /\ me'[p].job = "refresh"
      /\ me'[p].op = me[p].op /\ me'[p].got = g
  BY <1>1, <1>6 DEF Self
<1>8. /\ dead \subseteq dead' /\ cur' \in [Login -> Nat]
      /\ \A l \in Login : cur'[l] >= cur[l] /\ (l # t.login => cur'[l] = cur[l])
      /\ yml'.login # None => yml'.login.gen <= cur'[yml'.login.login]
      /\ LoginsKnown'
  BY <1>1, <1>2, <1>3, <1>6, PresentIs
<1>9. ASSUME NEW q \in Command, q # p PROVE Own(q)'
  <2>1. ASSUME NEW n \in Command, At(n, "device") PROVE cur'[n] = cur[n]
    <3>1. n \notin LoginOf(yml.login) /\ n \in Login
      BY <2>1, Facts DEF Private
    <3> QED BY <1>2, <1>8, <3>1
  <2> QED BY <1>1, <1>3, <1>6, <1>7, <1>8, <1>9, <2>1, OthersOwn
<1>10. Own(p)'
  <2>1. g # None => g.gen <= cur'[g.login]
    <3>1. CASE Accepts(t)
      <4>1. cur' = [cur EXCEPT ![t.login] = @ + 1] /\ t.gen = cur[t.login] /\ cur \in [Login -> Nat]
        BY <1>3, <3>1, Facts DEF Present, Accepts
      <4>2. g.gen = t.gen + 1 /\ g.login = t.login
        BY <1>2, <1>4, <3>1 DEF Next1, Token
      <4> QED BY <1>2, <4>1, <4>2
    <3>2. CASE ~Accepts(t)
      BY <1>4, <3>2
    <3> QED BY <3>1, <3>2
  <2>2. NotAhead(p)' /\ Cleared(p)' /\ Deleted(p)'
    BY <1>7, <2>1 DEF NotAhead, Cleared, Deleted, At, Saving, Writing, Unsaved
  <2>3. OwnKey(p)'
    BY <1>1, <1>3, <1>6, <1>7 DEF Own, OwnKey, At, Saving, Writing
  <2> QED BY <2>2, <2>3 DEF Own
<1>11. KeysKnown'
  BY <1>1, <1>3, <1>6, KeysStay
<1> QED BY <1>8, <1>9, <1>10, <1>11 DEF KnownInv, Own

LEMMA ServeLooseKnown ==
  ASSUME IInv, KnownInv, IInv', NEW t \in loose, ServeLoose(t) PROVE KnownInv'
<1>1. t \in Token /\ t.login \in Login /\ t.login \in doubtful /\ cur \in [Login -> Nat]
  BY DEF IInv, TypeOK, Token, Sent
<1>2. UNCHANGED <<yml, me, missed, keys, doubtful>> /\ Present(t)
  BY DEF ServeLoose, history, client
<1>3. /\ dead \subseteq dead' /\ cur' \in [Login -> Nat]
      /\ \A l \in Login : cur'[l] >= cur[l] /\ (l # t.login => cur'[l] = cur[l])
      /\ yml'.login # None => yml'.login.gen <= cur'[yml'.login.login]
      /\ LoginsKnown'
  BY <1>1, <1>2, PresentIs
<1>4. ASSUME NEW q \in Command PROVE Own(q)'
  <2>1. Own(q) /\ me'[q] = me[q] /\ me[q] \in Self /\ q \in Login
    BY <1>2, Facts
  <2>2. NotAhead(q)'
    <3>1. At(q, "device") => cur'[q] = cur[q]
      BY <1>3, <2>1, Facts DEF Private
    <3>2. ASSUME NEW x \in Token, x.gen <= cur[x.login] PROVE x.gen <= cur'[x.login]
      <4>1. x.login \in Login /\ x.gen \in Nat
        BY DEF Token
      <4>2. cur[x.login] \in Nat /\ cur'[x.login] \in Nat /\ cur'[x.login] >= cur[x.login]
        BY <1>1, <1>3, <4>1
      <4> QED BY <3>2, <4>1, <4>2
    <3>3. me[q].got # None => me[q].got \in Token
      BY <2>1 DEF Self
    <3>4. At(q, "revoke") => me[q].tok \in Token
      BY <2>1, Facts DEF InHand, Self
    <3> QED BY <1>2, <2>1, <3>1, <3>2, <3>3, <3>4 DEF Own, NotAhead, At, Saving, Writing
  <2>3. Cleared(q)'
    <3>1. me[q].tok # None => /\ me[q].tok.login \in Login /\ me[q].tok.gen \in Nat
      BY <2>1 DEF Self, Token
    <3>2. me[q].tok # None => /\ cur'[me[q].tok.login] >= cur[me[q].tok.login]
                              /\ cur[me[q].tok.login] \in Nat /\ cur'[me[q].tok.login] \in Nat
      BY <1>1, <1>3, <3>1
    <3> QED BY <1>2, <1>3, <2>1, <3>1, <3>2 DEF Own, Cleared
  <2>4. Deleted(q)' /\ OwnKey(q)'
    BY <1>2, <2>1 DEF Own, Deleted, OwnKey, At, Unsaved, Saving, Writing
  <2> QED BY <2>2, <2>3, <2>4 DEF Own
<1>5. KeysKnown'
  BY <1>2 DEF KnownInv, KeysKnown, Saving, Writing, At
<1> QED BY <1>3, <1>4, <1>5 DEF KnownInv, Own

-----------------------------------------------------------------------------
(* The steps that make a key, or lose one                                   *)

LEMMA NewKey ==
  ASSUME IInv, KnownInv, IInv', NEW p \in Command, At(p, "posting"), NEW r, me' = [me EXCEPT ![p] = r],
         UNCHANGED <<yml, cur, dead, missed>>, doubtful \subseteq doubtful',
         keys' \in {keys, keys \cup {p}},
         \/ r = Ended /\ (keys' = keys \/ p \in doubtful')
         \/ r = [me[p] EXCEPT !.pc = "write", !.key = p]
  PROVE  KnownInv'
<1>1. /\ me[p].pc = "posting" /\ me[p] \in Self /\ me[p].job = "issue" /\ Own(p) /\ p # None
      /\ ~At(p, "done") /\ ~Unsaved(p) /\ ~Saving(p, "issue") /\ ~At(p, "revoke")
  BY Facts DEF At, Unsaved, Saving, Writing, InHand
<1>2. me'[p] = r /\ \A q \in Command \ {p} : me'[q] = me[q]
  BY Mover
<1>3. \/ r = Ended /\ r.pc = "done" /\ r.key = None
      \/ r.pc = "write" /\ r.key = p /\ r.job = "issue"
  <2>1. CASE r = Ended
    BY <2>1 DEF Ended
  <2>2. CASE r = [me[p] EXCEPT !.pc = "write", !.key = p]
    BY <1>1, <2>2 DEF Self
  <2> QED BY <2>1, <2>2
<1>4. ASSUME NEW q \in Command, q # p PROVE Own(q)'
  <2>1. \A l \in Login : cur'[l] >= cur[l]
    BY Facts
  <2> QED BY <1>1, <1>2, <1>3, <1>4, <2>1, OthersOwn
<1>5. Own(p)'
  <2>1. CASE r = Ended
    BY <1>2, <2>1, EndedOwn DEF Own
  <2>2. CASE r.pc = "write" /\ r.key = p /\ r.job = "issue"
    <3>1. NotAhead(p)' /\ Cleared(p)' /\ Deleted(p)'
      BY <1>2, <2>2 DEF NotAhead, Cleared, Deleted, At, Saving, Writing, Unsaved
    <3>2. OwnKey(p)'
      BY <1>1, <1>2, <2>2 DEF Own, OwnKey, At, Saving, Writing
    <3> QED BY <3>1, <3>2 DEF Own
  <2> QED BY <1>3, <2>1, <2>2
<1>6. LoginsKnown'
  BY <1>1, <1>2, LoginsStay
<1>7. KeysKnown'
  <2> SUFFICES ASSUME NEW k \in keys', k \notin doubtful' \cup missed' \cup Named(yml'.key)
               PROVE  Saving(k, "issue")'
    BY DEF KeysKnown
  <2>1. CASE k = p
    <3>1. r.pc = "write"
      <4>1. p \notin keys
        BY <1>1 DEF Own, OwnKey
      <4> QED BY <1>1, <2>1, <4>1 DEF Self
    <3> QED BY <1>2, <1>3, <2>1, <3>1 DEF Saving, Writing, At
  <2>2. CASE k # p
    <3>1. Saving(k, "issue") /\ k \in Command
      BY <2>2, Facts DEF KnownInv, KeysKnown
    <3> QED BY <1>2, <2>2, <3>1 DEF Saving, Writing, At
  <2> QED BY <2>1, <2>2
<1> QED BY <1>4, <1>5, <1>6, <1>7 DEF KnownInv, Own

LEMMA PostKnown ==
  ASSUME IInv, KnownInv, IInv', NEW p \in Command, Post(p) PROVE KnownInv'
<1>1. At(p, "posting") /\ UNCHANGED <<yml, cur, dead, missed, doubtful>>
  BY DEF Post
<1>2. CASE keys' = keys \cup {p} /\ me' = [me EXCEPT ![p].pc = "write", ![p].key = p]
  <2>1. me' = [me EXCEPT ![p] = [me[p] EXCEPT !.pc = "write", !.key = p]]
    BY <1>2
  <2> QED BY <1>1, <1>2, <2>1, NewKey
<1>3. CASE keys' = keys /\ End(p)
  BY <1>1, <1>3, NewKey DEF End
<1> QED BY <1>2, <1>3 DEF Post

LEMMA GiveUpKeyKnown ==
  ASSUME IInv, KnownInv, IInv', NEW p \in Command, GiveUpKey(p) PROVE KnownInv'
<1>1. /\ At(p, "posting") /\ UNCHANGED <<yml, cur, dead, missed>> /\ doubtful' = doubtful \cup {p}
      /\ me' = [me EXCEPT ![p] = Ended] /\ keys' \in {keys, keys \cup {p}}
  BY DEF GiveUpKey, End
<1>2. keys' = keys \/ p \in doubtful'
  BY <1>1
<1> QED BY <1>1, <1>2, NewKey

-----------------------------------------------------------------------------
(* The steps that write, or fail to                                         *)

\* The holder of the lock that is not refreshing finds the login in the file
\* valid, unless it is in doubt or revoked.
LEMMA StoredIsLast ==
  ASSUME IInv, NEW p \in Command, At(p, "rename"), me[p].job # "refresh", yml.login # None
  PROVE  yml.login.login \in doubtful \cup dead \/ yml.login.gen = cur[yml.login.login]
<1>1. ASSUME NEW q \in Command, me[q].pc \in {"answered", "write", "rename"}, me[q].job = "refresh"
      PROVE FALSE
  <2>1. holder = q /\ holder = p
    BY <1>1 DEF IInv, TypeOK, At, Locked
  <2> QED BY <1>1, <2>1
<1> QED BY <1>1 DEF IInv, StoredLoginWorks

\* What a rename makes of the file and of the command
LEMMA RenameIs ==
  ASSUME IInv, NEW p \in Command, Rename(p)
  PROVE  /\ me[p].job = "refresh" =>
              /\ yml'.login = me[p].got /\ yml'.key = yml.key /\ me[p].got \in Token
              /\ yml.login \in Token /\ me[p].got.login = yml.login.login
              /\ Wrote(p) = After(p, me[p].got)
         /\ me[p].job = "save" =>
              /\ yml'.login = [login |-> p, gen |-> 1] /\ yml'.key = yml.key
              /\ cur[p] = 1 /\ me[p].got # None
              /\ yml.login = None => Wrote(p) = Ended
              /\ yml.login # None =>
                   Wrote(p) = [me[p] EXCEPT !.pc = "revoke", !.tok = yml.login, !.got = None]
         /\ me[p].job = "issue" => yml.key = None /\ yml'.key = p /\ yml'.login = yml.login
         /\ me[p].job = "clear" => yml'.key = None /\ yml'.login = None
         /\ me[p].job = "config" => yml'.key = yml.key /\ yml'.login = yml.login
         /\ me[p].job \in {"issue", "clear", "config"} => Wrote(p) = Ended
<1>1. /\ At(p, "rename") /\ yml' = Change(p, yml) /\ yml \in File /\ me[p].snap = yml
  BY ChangeIs DEF Rename
<1>2. CASE me[p].job = "refresh"
  <2>1. /\ yml' = [yml EXCEPT !.login = Next1(yml.login)] /\ me[p].got = Next1(yml.login)
        /\ yml.login \in Token /\ me[p].got \in Token /\ me[p].got.login = yml.login.login
    BY <1>1, <1>2, ChangeIs
  <2> QED BY <1>1, <1>2, <2>1 DEF File, Wrote
<1>3. CASE me[p].job = "save"
  <2>1. /\ yml' = [yml EXCEPT !.login = [login |-> p, gen |-> 1]] /\ cur[p] = 1
        /\ me[p].got \in Token
    BY <1>1, <1>3, ChangeIs
  <2> QED BY <1>1, <1>3, <2>1, NamesOK DEF File, Wrote, Replaced
<1>4. CASE me[p].job = "issue"
  <2>1. yml' = [yml EXCEPT !.key = p] /\ yml.key = None
    BY <1>1, <1>4, ChangeIs
  <2> QED BY <1>1, <1>4, <2>1 DEF File, Wrote, Replaced
<1>5. CASE me[p].job = "clear"
  <2>1. yml' = [yml EXCEPT !.login = None, !.key = None]
    BY <1>1, <1>5, ChangeIs
  <2> QED BY <1>1, <1>5, <2>1 DEF File, Wrote, Replaced
<1>6. CASE me[p].job = "config"
  <2>1. yml' = [yml EXCEPT !.notes = @ \cup {p}]
    BY <1>1, <1>6, ChangeIs
  <2> QED BY <1>1, <1>6, <2>1 DEF File, Wrote, Replaced
<1> QED BY <1>2, <1>3, <1>4, <1>5, <1>6

\* A write by p, given what it makes of the record of p
LEMMA Written ==
  ASSUME IInv, KnownInv, IInv', NEW p \in Command, Rename(p),
         me'[p].key \in {me[p].key, None},
         NotAhead(p)', Cleared(p)', Deleted(p)',
         p \notin {yml'.key} \/ At(p, "done")', p \notin keys \/ At(p, "done")',
         yml'.key \in {yml.key, None, p},
         yml'.login # None => yml'.login.gen <= cur[yml'.login.login],
         \A l \in LoginOf(yml.login) \cup {n \in {p} : Unsaved(n)} :
           \/ l \in dead \cup doubtful \cup missed' \cup LoginOf(yml'.login)
           \/ At(p, "revoke")' /\ me'[p].tok = [login |-> l, gen |-> cur[l]],
         \A k \in Named(yml.key) \cup {n \in {p} : Saving(n, "issue")} :
           k \notin keys \ (doubtful \cup missed' \cup Named(yml'.key))
  PROVE  KnownInv'
<1>1. /\ me' = [me EXCEPT ![p] = [Wrote(p) EXCEPT !.snap = NoFile]]
      /\ UNCHANGED <<cur, dead, keys, doubtful>> /\ missed \subseteq missed'
      /\ ~At(p, "done") /\ ~At(p, "revoke")
  BY DEF Rename, server, At
<1>2. \A q \in Command \ {p} : me'[q] = me[q]
  BY <1>1, Mover
<1>3. \A l \in Login : cur'[l] >= cur[l]
  BY <1>1, Facts
<1>4. ASSUME NEW q \in Command, q # p PROVE Own(q)'
  BY <1>1, <1>2, <1>3, <1>4, OthersOwn
<1>5. OwnKey(p)'
  BY <1>1, <1>2, Facts DEF Own, OwnKey, At
<1>6. LoginsKnown'
  <2>1. cur' = cur /\ dead \subseteq dead' /\ doubtful \subseteq doubtful'
    BY <1>1
  <2> QED BY <1>1, <1>2, <2>1, LoginsStay
<1>7. KeysKnown'
  BY <1>1, <1>2, KeysStay
<1> QED BY <1>1, <1>4, <1>5, <1>6, <1>7 DEF KnownInv, Own

LEMMA RenameKnown ==
  ASSUME IInv, KnownInv, IInv', NEW p \in Command, Rename(p) PROVE KnownInv'
<1>1. /\ me[p].pc = "rename" /\ me[p] \in Self /\ Own(p) /\ me[p].snap = yml /\ me[p].job \in Job
      /\ p \in Login /\ p # None /\ yml \in File /\ cur \in [Login -> Nat] /\ yml.key # p /\ At(p, "rename")
  BY Facts DEF Rename, At, InHand, Writing, Undisturbed, Own, OwnKey
<1>2. /\ me' = [me EXCEPT ![p] = [Wrote(p) EXCEPT !.snap = NoFile]]
      /\ me'[p] = [Wrote(p) EXCEPT !.snap = NoFile]
      /\ UNCHANGED <<cur, dead, keys, doubtful>> /\ missed' = missed \cup Unrevoked(p, yml)
  <2>1. /\ me' = [me EXCEPT ![p] = [Wrote(p) EXCEPT !.snap = NoFile]]
        /\ UNCHANGED <<cur, dead, keys, doubtful>> /\ missed' = missed \cup Unrevoked(p, yml)
    BY <1>1 DEF Rename, server
  <2> QED BY <2>1, Mover
<1>3. Wrote(p) = Ended => me'[p] = Ended
  BY <1>2 DEF Ended
<1>4. me[p].job # "issue" => p \notin keys
  BY <1>1 DEF Own, OwnKey, At, Saving
<1>5. yml.login # None => yml.login \in Token /\ yml.login.login \in Login
  BY <1>1 DEF File, Token
<1>6. CASE me[p].job = "refresh"
  <2>1. /\ yml'.login = me[p].got /\ yml'.key = yml.key /\ me[p].got \in Token
        /\ yml.login \in Token /\ me[p].got.login = yml.login.login
        /\ me'[p] = [After(p, me[p].got) EXCEPT !.snap = NoFile]
    BY <1>2, <1>6, RenameIs
  <2>2. NotAhead(p)' /\ Cleared(p)' /\ Deleted(p)' /\ me'[p].key \in {me[p].key, None}
    BY <1>1, <1>2, <1>6, <2>1, NamesOK, AfterOwn
  <2>3. yml'.login # None => yml'.login.gen <= cur[yml'.login.login]
    BY <1>1, <1>6, <2>1 DEF Own, NotAhead, Saving, Writing, At
  <2>4. ~Unsaved(p) /\ ~Saving(p, "issue")
    BY <1>1, <1>6 DEF Unsaved, Saving, Writing, At
  <2>5. LoginOf(yml'.login) = LoginOf(yml.login)
    BY <2>1, NamesOK DEF LoginOf
  <2> QED BY <1>1, <1>4, <1>6, <2>1, <2>2, <2>3, <2>4, <2>5, Written
<1>7. CASE me[p].job = "save"
  <2>1. /\ yml'.login = [login |-> p, gen |-> 1] /\ yml'.key = yml.key /\ cur[p] = 1
        /\ me[p].got # None
    BY <1>7, RenameIs
  <2>2. Unsaved(p) /\ ~Saving(p, "issue") /\ me[p].op # "logout"
    BY <1>1, <1>7 DEF Unsaved, Saving, Writing, At, Own, Deleted
  <2>3. \/ yml.login = None /\ me'[p] = Ended
        \/ /\ yml.login # None /\ me'[p].pc = "revoke" /\ me'[p].tok = yml.login /\ me'[p].key = me[p].key
           /\ me'[p].job = "save" /\ me'[p].op = me[p].op
    <3>1. CASE yml.login = None
      BY <1>3, <1>7, <3>1, RenameIs
    <3>2. CASE yml.login # None
      <4>1. me'[p] = [[me[p] EXCEPT !.pc = "revoke", !.tok = yml.login, !.got = None] EXCEPT !.snap = NoFile]
        BY <1>2, <1>7, <3>2, RenameIs
      <4> QED BY <1>1, <1>7, <3>2, <4>1 DEF Self
    <3> QED BY <3>1, <3>2
  <2>4. NotAhead(p)' /\ Cleared(p)' /\ Deleted(p)' /\ me'[p].key \in {me[p].key, None}
    <3>1. CASE me'[p] = Ended
      BY <3>1, EndedOwn
    <3>2. CASE /\ yml.login # None /\ me'[p].pc = "revoke" /\ me'[p].tok = yml.login /\ me'[p].key = me[p].key
               /\ me'[p].job = "save" /\ me'[p].op = me[p].op
      BY <1>2, <2>2, <3>2 DEF KnownInv, NotAhead, Cleared, Deleted, At, Saving, Writing, Unsaved
    <3> QED BY <2>3, <3>1, <3>2
  <2>5. ASSUME NEW l \in LoginOf(yml.login)
        PROVE  \/ l \in dead \cup doubtful
               \/ At(p, "revoke")' /\ me'[p].tok = [login |-> l, gen |-> cur[l]]
    <3>1. yml.login # None /\ l = yml.login.login /\ yml.login \in Token
      BY <1>5, <2>5 DEF LoginOf
    <3>2. l \in dead \cup doubtful \/ yml.login.gen = cur[l]
      BY <1>1, <1>7, <3>1, StoredIsLast
    <3>3. yml.login = [login |-> l, gen |-> yml.login.gen]
      BY <3>1 DEF Token
    <3> QED BY <2>3, <3>1, <3>2, <3>3 DEF At
  <2>6. yml'.login # None => yml'.login.gen <= cur[yml'.login.login]
    BY <2>1
  <2>7. p \in LoginOf(yml'.login)
    <3>1. yml'.login # None
      BY <1>1, <2>1, NamesOK DEF Token
    <3> QED BY <2>1, <3>1 DEF LoginOf
  <2> QED BY <1>1, <1>4, <1>7, <2>1, <2>2, <2>4, <2>5, <2>6, <2>7, Written
<1>8. CASE me[p].job = "issue"
  <2>1. yml.key = None /\ yml'.key = p /\ yml'.login = yml.login /\ me'[p] = Ended
    BY <1>3, <1>8, RenameIs
  <2>2. ~Unsaved(p) /\ At(p, "done")'
    BY <1>1, <1>8, <2>1 DEF Unsaved, Saving, Writing, At, Ended
  <2>3. /\ NotAhead(p)' /\ Cleared(p)' /\ Deleted(p)' /\ me'[p].key = None
    BY <2>1, EndedOwn
  <2>4. yml'.login # None => yml'.login.gen <= cur[yml'.login.login]
    BY <2>1 DEF KnownInv
  <2>5. p \in Named(yml'.key) /\ Named(yml.key) = {}
    BY <1>1, <2>1 DEF Named
  <2> QED BY <2>1, <2>2, <2>3, <2>4, <2>5, Written
<1>9. CASE me[p].job = "clear"
  <2>1. yml'.key = None /\ yml'.login = None /\ me'[p] = Ended
    BY <1>3, <1>9, RenameIs
  <2>2. ~Unsaved(p) /\ ~Saving(p, "issue") /\ At(p, "done")'
    BY <1>1, <1>9, <2>1 DEF Unsaved, Saving, Writing, At, Ended
  <2>3. /\ NotAhead(p)' /\ Cleared(p)' /\ Deleted(p)' /\ me'[p].key = None
    BY <2>1, EndedOwn
  <2>4. Unrevoked(p, yml) = (IF yml.login = me[p].tok THEN {} ELSE LoginOf(yml.login)) \cup
                            (Named(yml.key) \ Named(me[p].key))
    BY <1>9 DEF Unrevoked
  <2>5. ASSUME NEW l \in LoginOf(yml.login) PROVE l \in dead \cup doubtful \cup missed'
    <3>1. yml.login # None /\ l = yml.login.login /\ yml.login.gen \in Nat /\ cur[l] \in Nat
      BY <1>1, <1>5, <2>5 DEF LoginOf, Token
    <3>2. CASE yml.login = me[p].tok
      <4>1. l \in dead \cup doubtful \/ yml.login.gen < cur[l]
        BY <1>1, <1>9, <3>1, <3>2 DEF Own, Cleared
      <4>2. l \in dead \cup doubtful \/ yml.login.gen = cur[l]
        BY <1>1, <1>9, <3>1, StoredIsLast
      <4> QED BY <3>1, <4>1, <4>2
    <3>3. CASE yml.login # me[p].tok
      BY <1>2, <2>4, <2>5, <3>3
    <3> QED BY <3>2, <3>3
  <2>6. ASSUME NEW k \in Named(yml.key) PROVE k \notin keys \ (doubtful \cup missed')
    <3>1. CASE k = me[p].key
      BY <1>1, <1>9, <3>1 DEF Own, Deleted
    <3>2. CASE k # me[p].key
      BY <1>2, <2>4, <2>6, <3>2 DEF Named
    <3> QED BY <3>1, <3>2
  <2> QED BY <2>1, <2>2, <2>3, <2>5, <2>6, Written
<1>10. CASE me[p].job = "config"
  <2>1. yml'.key = yml.key /\ yml'.login = yml.login /\ me'[p] = Ended
    BY <1>3, <1>10, RenameIs
  <2>2. ~Unsaved(p) /\ ~Saving(p, "issue") /\ At(p, "done")'
    BY <1>1, <1>10, <2>1 DEF Unsaved, Saving, Writing, At, Ended
  <2>3. /\ NotAhead(p)' /\ Cleared(p)' /\ Deleted(p)' /\ me'[p].key = None
    BY <2>1, EndedOwn
  <2>4. yml'.login # None => yml'.login.gen <= cur[yml'.login.login]
    BY <2>1 DEF KnownInv
  <2> QED BY <2>1, <2>2, <2>3, <2>4, Written
<1> QED BY <1>1, <1>6, <1>7, <1>8, <1>9, <1>10 DEF Job

LEMMA WriteFailsKnown ==
  ASSUME IInv, KnownInv, IInv', NEW p \in Command, WriteFails(p) PROVE KnownInv'
<1>1. /\ me[p].pc \in {"write", "rename"} /\ me[p] \in Self /\ Own(p) /\ me[p].job \in Job
      /\ ~At(p, "done") /\ ~At(p, "revoke")
  BY Facts DEF WriteFails, At, InHand, Writing
<1>2. /\ UNCHANGED <<yml, cur, missed, keys, dead>> /\ doubtful \subseteq doubtful'
      /\ Warned(p, None) \subseteq doubtful'
  BY DEF WriteFails, server
<1>3. CASE me[p].job = "refresh"
  <2>1. me' = [me EXCEPT ![p] = [After(p, None) EXCEPT !.snap = NoFile]]
    BY <1>3 DEF WriteFails
  <2>2. me'[p] = [After(p, None) EXCEPT !.snap = NoFile]
    BY <2>1, Mover
  <2>3. NotAhead(p)' /\ Cleared(p)' /\ Deleted(p)' /\ me'[p].key \in {me[p].key, None}
    BY <1>1, <1>2, <1>3, <2>2, AfterOwn
  <2>4. ~Unsaved(p) /\ ~Saving(p, "issue")
    BY <1>1, <1>3 DEF Unsaved, Saving, Writing, At
  <2> QED BY <1>1, <1>2, <2>1, <2>2, <2>3, <2>4, Quiet
<1>4. CASE me[p].job = "save"
  <2>1. me' = [me EXCEPT ![p] = [me[p] EXCEPT !.pc = "revoke", !.tok = me[p].got, !.snap = NoFile]]
    BY <1>4 DEF WriteFails
  <2>2. me'[p] = [me[p] EXCEPT !.pc = "revoke", !.tok = me[p].got, !.snap = NoFile]
    BY <2>1, Mover
  <2>3. Unsaved(p) /\ ~Saving(p, "issue") /\ me[p].op # "logout"
    BY <1>1, <1>4 DEF Unsaved, Saving, Writing, At, Own, Deleted
  <2>4. me[p].got = [login |-> p, gen |-> 1] /\ cur[p] = 1
    BY <2>3, Facts DEF Private
  <2>5. /\ me'[p].pc = "revoke" /\ me'[p].tok = [login |-> p, gen |-> cur[p]] /\ me'[p].key = me[p].key
        /\ me'[p].job = "save" /\ me'[p].op # "logout"
    BY <1>1, <1>4, <2>2, <2>3, <2>4 DEF Self
  <2>6. NotAhead(p)' /\ Cleared(p)' /\ Deleted(p)'
    BY <1>2, <2>4, <2>5 DEF NotAhead, Cleared, Deleted, At, Saving, Writing, Unsaved
  <2> QED BY <1>1, <1>2, <2>1, <2>2, <2>3, <2>5, <2>6, Quiet
<1>5. CASE me[p].job \notin {"refresh", "save"}
  <2>1. me' = [me EXCEPT ![p] = Ended]
    BY <1>5 DEF WriteFails
  <2>2. me'[p] = Ended
    BY <2>1, Mover
  <2>3. ~Unsaved(p)
    BY <1>1, <1>5 DEF Unsaved, Saving, Writing, At
  <2>4. Saving(p, "issue") => p \in doubtful'
    BY Facts DEF WriteFails, Undisturbed, Saving, Writing, At
  <2> QED BY <1>1, <1>2, <2>1, <2>2, <2>3, <2>4, EndedOwn, Quiet
<1> QED BY <1>3, <1>4, <1>5

LEMMA KillKnown ==
  ASSUME IInv, KnownInv, IInv', NEW p \in Command, Kill(p) PROVE KnownInv'
<1>1. /\ me' = [me EXCEPT ![p] = Ended] /\ ~At(p, "done") /\ doubtful' = doubtful \cup Carries(p)
      /\ UNCHANGED <<yml, cur, missed, keys, dead>>
  BY DEF Kill, End
<1>2. me'[p] = Ended
  BY <1>1, Mover
<1>3. Unsaved(p) => p \in doubtful'
  <2>1. ASSUME Unsaved(p) PROVE p \in LoginOf(me[p].got)
    <3>1. me[p].got = [login |-> p, gen |-> 1] /\ p \in Login /\ None \notin Token
      BY <2>1, Facts DEF Private
    <3>2. me[p].got \in Token
      BY <3>1 DEF Token
    <3> QED BY <3>1, <3>2 DEF LoginOf
  <2> QED BY <1>1, <2>1 DEF Carries
<1>4. Saving(p, "issue") => p \in doubtful'
  <2>1. Saving(p, "issue") => me[p].job = "issue" /\ me[p].key = p /\ p # None
    BY Facts DEF Undisturbed, Saving
  <2> QED BY <1>1, <2>1 DEF Carries, Named
<1>5. At(p, "revoke") => me[p].tok.login \in doubtful'
  BY <1>1 DEF Carries
<1> QED BY <1>1, <1>2, <1>3, <1>4, <1>5, EndedOwn, Quiet

\* Steps that are not seen here: time, and stuttering
LEMMA UnseenKnown ==
  ASSUME KnownInv, UNCHANGED <<yml, me, cur, dead, keys, doubtful, missed>>
  PROVE  KnownInv'
<1>1. ASSUME NEW q \in Command PROVE Own(q)'
  BY DEF KnownInv, Own, NotAhead, Cleared, Deleted, OwnKey, At, Unsaved, Saving, Writing
<1>2. LoginsKnown' /\ KeysKnown'
  BY DEF KnownInv, LoginsKnown, KeysKnown, InHands, At, Unsaved, Saving, Writing
<1> QED BY <1>1, <1>2 DEF KnownInv, Own

-----------------------------------------------------------------------------
(* The invariant, and what follows from it                                  *)

LEMMA InitKnown == Init => KnownInv
<1> SUFFICES ASSUME Init PROVE KnownInv
  OBVIOUS
<1>1. PICK op \in [Command -> Op] : me = [p \in Command |-> Starting(op[p])]
  BY DEF Init
<1>2. /\ yml.key = None /\ (yml.login # None => yml.login = [login |-> Before, gen |-> 1])
      /\ keys = {} /\ cur = [l \in Login |-> IF l = Before /\ yml.login # None THEN 1 ELSE 0]
  BY DEF Init, NoFile
<1>3. ASSUME NEW p \in Command
      PROVE  /\ me[p].pc \in {"look", "find", "device", "record", "lock"} /\ me[p].key = None
             /\ me[p].job \in {"config", None} /\ me[p].tok = None /\ me[p].got = None
             /\ me[p].pc = "device" => me[p].op = "login"
             /\ p # None /\ p # Before /\ Before \in Login /\ p \in Login
  <2>1. op[p] \in Op /\ me[p] = Starting(op[p])
    BY <1>1
  <2>2. FirstStep[op[p]] = CASE op[p] = "token" -> "look"   [] op[p] = "key"    -> "find"
                             [] op[p] = "login" -> "device" [] op[p] = "logout" -> "record"
                             [] op[p] = "config" -> "lock"
    BY <2>1 DEF FirstStep, Op
  <2>3. /\ me[p].op = op[p] /\ me[p].pc = FirstStep[op[p]] /\ me[p].key = None
        /\ me[p].job = (IF op[p] = "config" THEN "config" ELSE None) /\ me[p].tok = None /\ me[p].got = None
    BY <2>1 DEF Starting, Ended
  <2> QED BY <2>1, <2>2, <2>3, NamesOK DEF Op, Login
<1>4. ASSUME NEW p \in Command PROVE Own(p)
  <2>1. NotAhead(p) /\ Cleared(p)
    BY <1>2, <1>3, NamesOK DEF NotAhead, Cleared, At, Saving, Writing
  <2>2. Deleted(p)
    BY <1>2, <1>3, NamesOK DEF Deleted, At, Unsaved, Saving, Writing, Job
  <2>3. OwnKey(p)
    BY <1>2, <1>3 DEF OwnKey
  <2> QED BY <2>1, <2>2, <2>3 DEF Own
<1>5. yml.login # None => yml.login.gen <= cur[yml.login.login]
  BY <1>2 DEF Login
<1>6. LoginsKnown /\ KeysKnown
  BY <1>2 DEF LoginsKnown, KeysKnown, LoginOf
<1> QED BY <1>4, <1>5, <1>6 DEF KnownInv, Own

LEMMA NextKnown == IInv /\ KnownInv /\ IInv' /\ [Next]_vars => KnownInv'
<1> SUFFICES ASSUME IInv, KnownInv, IInv', [Next]_vars PROVE KnownInv'
  OBVIOUS
<1>1. CASE UNCHANGED vars \/ Expire
  BY <1>1, UnseenKnown DEF vars, client, server, history, Expire
<1>2. ASSUME NEW p \in Command, Find(p) \/ Record(p) \/ Look(p) \/ Delete(p) \/ ReadBack(p)
                                 \/ Revoke(p) \/ Device(p) \/ Account(p) \/ Acquire(p)
      PROVE  KnownInv'
  BY <1>2, FindKnown, RecordKnown, LookKnown, DeleteKnown, ReadBackKnown, RevokeKnown, DeviceKnown,
     AccountKnown, AcquireKnown
<1>3. ASSUME NEW p \in Command, UnderLock(p) PROVE KnownInv'
  BY <1>3, HeldRefreshKnown, HeldIssueKnown, ReceiveKnown, GiveUpKnown, GiveUpKeyKnown,
     ReadForWriteKnown, RenameKnown DEF UnderLock
<1>4. ASSUME NEW p \in Command, Serve(p) \/ Post(p) \/ Kill(p) \/ WriteFails(p) PROVE KnownInv'
  BY <1>4, ServeKnown, PostKnown, KillKnown, WriteFailsKnown
<1>5. ASSUME NEW t \in loose, ServeLoose(t) PROVE KnownInv'
  BY <1>5, ServeLooseKnown
<1> QED BY <1>1, <1>2, <1>3, <1>4, <1>5 DEF Next, Work, Fault

LEMMA Known == Spec => []KnownInv
BY Inductive, InitKnown, NextKnown, PTL DEF Spec

\* Whatever is interrupted, killed or refused, no login that is valid at the
\* server drops out of sight: it is in api.yml, in the hands of a running
\* command, in doubt, or was removed by a logout that did not try to revoke
\* it (saveSession, clearSession, runDeviceLogin, logoutAction).
THEOREM NoLoginIsLost == Spec => []NoLoginLeftBehind
<1>1. IInv /\ KnownInv => NoLoginLeftBehind
  <2> SUFFICES ASSUME IInv, KnownInv, NEW l \in Login, cur[l] > 0,
                      l \notin dead \cup doubtful \cup missed \cup LoginOf(yml.login)
               PROVE  \E p \in Command : l \in Carries(p)
    BY DEF NoLoginLeftBehind
  <2>1. PICK p \in Command : \/ p = l /\ Unsaved(p)
                             \/ At(p, "revoke") /\ me[p].tok = [login |-> l, gen |-> cur[l]]
    BY DEF KnownInv, LoginsKnown, InHands
  <2>2. CASE p = l /\ Unsaved(p)
    <3>1. me[p].got = [login |-> p, gen |-> 1] /\ p \in Login /\ None \notin Token
      BY <2>2, Facts DEF Private
    <3>2. me[p].got \in Token
      BY <3>1 DEF Token
    <3> QED BY <2>2, <3>1, <3>2 DEF Carries, LoginOf
  <2>3. CASE At(p, "revoke") /\ me[p].tok = [login |-> l, gen |-> cur[l]]
    BY <2>3 DEF Carries
  <2> QED BY <2>1, <2>2, <2>3
<1> QED BY Inductive, Known, <1>1, PTL

\* The same of the storage access keys: one that exists at the server is in
\* api.yml, about to be written to it, in doubt, or was removed by a logout
\* that did not try to delete it (issueStorageAccessKey).
THEOREM NoKeyIsLost == Spec => []NoKeyLeftBehind
<1>1. IInv /\ KnownInv => NoKeyLeftBehind
  <2> SUFFICES ASSUME IInv, KnownInv, NEW k \in keys, k \notin doubtful \cup missed \cup Named(yml.key)
               PROVE  \E p \in Command : k \in Carries(p)
    BY DEF NoKeyLeftBehind
  <2>1. Saving(k, "issue") /\ k \in Command /\ k # None
    <3>1. Saving(k, "issue")
      BY DEF KnownInv, KeysKnown
    <3>2. k \in Command
      BY DEF IInv, TypeOK
    <3> QED BY <3>1, <3>2, Facts
  <2>2. me[k].job = "issue" /\ me[k].key = k
    BY <2>1, Facts DEF Undisturbed, Saving
  <2> QED BY <2>1, <2>2 DEF Carries, Named
<1> QED BY Inductive, Known, <1>1, PTL
=============================================================================
