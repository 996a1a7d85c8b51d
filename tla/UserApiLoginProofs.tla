-------------------------- MODULE UserApiLoginProofs --------------------------
(***************************************************************************)
(* For any set of commands: the types of UserApiLogin, that the stored     *)
(* login stays usable, that a refresh token is presented once, and that    *)
(* api.yml changes one part at a time (CredentialFile).                    *)
(***************************************************************************)
EXTENDS UserApiLogin, TLAPS

\* What a step of p may do to the rest of the state, in the parts the proofs use.
OnlyMe(p) == me' = [me EXCEPT ![p] = me'[p]] /\ me'[p] \in Self

LockMoves(p) ==
  /\ me'[p].pc \in Locked => holder \in {None, p} /\ holder' = p
  /\ me'[p].pc \notin Locked => holder' = IF holder = p THEN None ELSE holder

Grow ==
  /\ dead \subseteq dead' /\ dead' \subseteq Login
  /\ doubtful \subseteq doubtful' /\ doubtful' \subseteq Login
  /\ keys' \subseteq Command /\ missed' \subseteq Login /\ old' \in [Login -> Nat]

Mine(p) == InHand(p) /\ Undisturbed(p) /\ Private(p) /\ Spent(p)

-----------------------------------------------------------------------------
(* The parts of IInv that a step leaves alone                               *)

LEMMA LockKept ==
  ASSUME TypeOK, NEW p \in Command, OnlyMe(p), LockMoves(p)
  PROVE  /\ me' \in [Command -> Self] /\ holder' \in Command \cup {None}
         /\ \A q \in Command : me'[q].pc \in Locked <=> holder' = q
         /\ \A q \in Command \ {p} : me'[q] = me[q]
<1>1. me \in [Command -> Self] /\ me'[p] \in Self /\ me' = [me EXCEPT ![p] = me'[p]]
  BY DEF TypeOK, OnlyMe
<1>2. me' \in [Command -> Self] /\ \A q \in Command \ {p} : me'[q] = me[q]
  BY <1>1, Zenon
<1>3. holder' \in Command \cup {None} /\ None \notin Command
  BY NamesOK DEF TypeOK, LockMoves, Login
<1>4. ASSUME NEW q \in Command PROVE me'[q].pc \in Locked <=> holder' = q
  <2>1. CASE q = p
    BY <2>1, <1>3 DEF LockMoves
  <2>2. CASE q # p
    <3>1. (me'[q].pc \in Locked <=> holder = q) /\ (me[p].pc \in Locked <=> holder = p)
      BY <2>2, <1>2 DEF TypeOK
    <3> QED BY <3>1, <2>2, <1>3 DEF LockMoves
  <2> QED BY <2>1, <2>2
<1> QED BY <1>2, <1>3, <1>4

\* The other commands keep what they know, as long as p leaves the file alone.
LEMMA OthersKept ==
  ASSUME IInv, NEW p \in Command, OnlyMe(p), Grow, yml' = yml,
         \A l \in LoginOf(yml.login) \cup (Command \ {p}) : cur'[l] = cur[l],
         loose' \subseteq Token, tried' \subseteq Token,
         \A t \in loose' \cup tried' : t \in loose \cup tried \/ t = yml.login,
         NEW q \in Command, q # p
  PROVE  Mine(q)'
<1>1. me'[q] = me[q]
  BY Zenon DEF OnlyMe, IInv, TypeOK
<1>2. InHand(q) /\ Undisturbed(q) /\ Private(q) /\ Spent(q) /\ me[q] \in Self /\ yml \in File
  BY DEF IInv, TypeOK
<1>3. InHand(q)'
  BY <1>1, <1>2 DEF InHand, At, Writing, Asked
<1>4. Undisturbed(q)'
  BY <1>1, <1>2 DEF Undisturbed, At, Writing, Saving, Asked
<1>5. Private(q)'
  <2>1. ASSUME At(q, "device") \/ Unsaved(q), NEW t \in loose' \cup tried' PROVE t.login # q
    BY <2>1, <1>2, NamesOK DEF Private, LoginOf, File
  <2>2. (At(q, "device")' <=> At(q, "device")) /\ (Unsaved(q)' <=> Unsaved(q)) /\ cur'[q] = cur[q]
    BY <1>1 DEF At, Unsaved, Saving, Writing
  <2> QED BY <1>1, <1>2, <2>1, <2>2 DEF Private
<1>6. Spent(q)'
  <2>1. ASSUME At(q, "answered") \/ Saving(q, "refresh")
        PROVE me[q].tok = yml.login /\ cur'[me[q].tok.login] = cur[me[q].tok.login]
    <3>1. me[q].tok = yml.login /\ yml.login # None
      BY <2>1, <1>2 DEF Undisturbed, Asked, At
    <3> QED BY <3>1 DEF LoginOf
  <2>2. dead \subseteq dead' /\ doubtful \subseteq doubtful'
    BY DEF Grow
  <2> QED BY <1>1, <1>2, <2>1, <2>2 DEF Spent, At, Writing, Saving
<1> QED BY <1>3, <1>4, <1>5, <1>6 DEF Mine

\* So a step of p has to see to its own part, to the tokens sent and to the
\* login in the file.
LEMMA Kept ==
  ASSUME IInv, NEW p \in Command, OnlyMe(p), LockMoves(p), Grow, yml' = yml,
         cur' \in [Login -> Nat], loose' \subseteq Token, tried' \subseteq Token,
         \A l \in LoginOf(yml.login) \cup (Command \ {p}) : cur'[l] = cur[l],
         \A t \in loose' \cup tried' : t \in loose \cup tried \/ t = yml.login,
         Mine(p)', Sent', StoredLoginWorks'
  PROVE  IInv'
<1>1. TypeOK'
  <2>1. TypeOK
    BY DEF IInv
  <2>2. yml \in File
    BY <2>1 DEF TypeOK
  <2> QED BY <2>1, <2>2, LockKept DEF TypeOK, Grow
<1>2. ASSUME NEW q \in Command PROVE Mine(q)'
  BY OthersKept
<1> QED BY <1>1, <1>2 DEF IInv, Mine

\* No token is sent.
LEMMA SentKept ==
  ASSUME IInv, NEW p \in Command, OnlyMe(p), Grow, cur' = cur, tried' = tried,
         \A t \in loose' : t \in loose \/ t.login \in doubtful',
         At(p, "asking") => (At(p, "asking")' /\ me'[p].tok = me[p].tok)
                            \/ me[p].tok.login \in doubtful'
  PROVE  Sent'
<1>1. Sent /\ doubtful \subseteq doubtful' /\ dead \subseteq dead'
  BY DEF IInv, Grow
<1>2. \A q \in Command \ {p} : me'[q] = me[q]
  BY Zenon DEF OnlyMe, IInv, TypeOK
<1>3. ASSUME NEW t \in tried, t.login \notin doubtful' \cup dead', ~(t.gen < cur[t.login])
      PROVE \E q \in Command : At(q, "asking")' /\ me'[q].tok = t
  <2>1. PICK q \in Command : At(q, "asking") /\ me[q].tok = t
    BY <1>1, <1>3 DEF Sent
  <2>2. At(q, "asking")' /\ me'[q].tok = t
    BY <1>2, <1>3, <2>1 DEF At
  <2> QED BY <2>2
<1> QED BY <1>1, <1>3 DEF Sent

\* A release of the lock with an answer in hand puts the login in doubt.
LEMMA StoredKept ==
  ASSUME IInv, NEW p \in Command, OnlyMe(p), Grow, yml' = yml, cur' = cur,
         yml.login # None /\ me[p].pc \in {"answered", "write", "rename"}
           /\ me[p].job = "refresh" /\ me[p].got # None
         => \/ yml.login.login \in doubtful'
            \/ /\ me'[p].pc \in {"answered", "write", "rename"}
               /\ me'[p].job = "refresh" /\ me'[p].got = me[p].got
  PROVE  StoredLoginWorks'
<1>1. StoredLoginWorks /\ doubtful \subseteq doubtful' /\ dead \subseteq dead'
  BY DEF IInv, Grow
<1>2. \A q \in Command \ {p} : me'[q] = me[q]
  BY Zenon DEF OnlyMe, IInv, TypeOK
<1>3. ASSUME NEW t \in {yml.login} \ {None}, t.login \notin doubtful' \cup dead', t.gen # cur[t.login]
      PROVE \E q \in Command :
              /\ me'[q].pc \in {"answered", "write", "rename"} /\ me'[q].job = "refresh"
              /\ me'[q].got = Next1(t) /\ me'[q].got.gen = cur[t.login]
  <2>1. PICK q \in Command :
          /\ me[q].pc \in {"answered", "write", "rename"} /\ me[q].job = "refresh"
          /\ me[q].got = Next1(t) /\ me[q].got.gen = cur[t.login]
    BY <1>1, <1>3 DEF StoredLoginWorks
  <2>2. Next1(t) # None
    <3>1. yml \in File
      BY DEF IInv, TypeOK
    <3>2. t \in Token
      BY <3>1 DEF File
    <3>3. Next1(t) \in Token
      BY <3>2 DEF Next1, Token
    <3> QED BY <3>3, NamesOK
  <2>3. CASE q = p
    BY <1>3, <2>1, <2>2, <2>3
  <2>4. CASE q # p
    BY <1>2, <2>1, <2>4
  <2> QED BY <2>3, <2>4
<1> QED BY <1>1, <1>3 DEF StoredLoginWorks

-----------------------------------------------------------------------------
(* The helpers                                                              *)

LEMMA Types ==
  ASSUME TypeOK, NEW p \in Command
  PROVE  /\ me[p] \in Self /\ yml \in File /\ NoFile \in File /\ Ended \in Self
         /\ p \in Login /\ None \notin Token /\ None \notin Command
BY NamesOK DEF TypeOK, Self, File, NoFile, Ended, Steps, Login

\* What ensureFreshAccessToken leads to
LEMMA AfterIs ==
  ASSUME IInv, NEW p \in Command, NEW t \in Token \cup {None}
  PROVE  /\ After(p, t) \in Self
         /\ After(p, t).pc \in {"lock", "delete", "readback", "done"}
         /\ After(p, t).got = None
         /\ After(p, t).pc = "lock" => After(p, t).job = "issue"
         /\ After(p, t).pc = "delete" => After(p, t).op = "logout" /\ After(p, t).key = me[p].key
                                        /\ After(p, t).job = me[p].job
         /\ After(p, t).op = "logout" => After(p, t).pc \in {"delete", "readback", "done"}
<1>1. me[p] \in Self /\ Ended \in Self
  BY Types DEF IInv
<1>2. CASE me[p].op = "key" /\ t # None
  <2>1. After(p, t) = [me[p] EXCEPT !.pc = "lock", !.job = "issue", !.tok = t, !.got = None]
    BY <1>1, <1>2 DEF After, Queue, Self
  <2> QED BY <1>1, <1>2, <2>1 DEF Self, Job, Steps
<1>3. CASE me[p].op = "logout"
  <2>1. After(p, t) = [me[p] EXCEPT !.pc = IF t # None THEN "delete" ELSE "readback", !.got = None]
    BY <1>3 DEF After
  <2> QED BY <1>1, <1>3, <2>1 DEF Self, Steps
<1>4. CASE me[p].op # "logout" /\ ~(me[p].op = "key" /\ t # None)
  BY <1>1, <1>4 DEF After, Ended
<1> QED BY <1>2, <1>3, <1>4

\* A record of a command that is outside the lock and has nothing in hand
Calm(r) ==
  /\ r \in Self
  /\ \/ r.pc \in {"look", "readback", "delete", "done"}
     \/ r.pc = "lock" /\ r.job \in {"refresh", "issue", "clear"}
     \/ r.pc = "revoke" /\ r.tok # None
  /\ r.op = "logout" => \/ r.pc \in {"readback", "revoke", "done"}
                        \/ r.job = "clear" \/ r.key # None
  /\ r.pc = "delete" => r.op = "logout"
  /\ r.job = "clear" => r.pc \in {"lock", "done"}

LEMMA CalmRecords ==
  ASSUME IInv, NEW p \in Command
  PROVE  /\ Calm(Ended)
         /\ me[p].pc \in {"look", "held", "asking", "answered", "write", "rename"}
              /\ me[p].job # "clear" =>
              \A t \in Token \cup {None} : Calm(After(p, t))
<1>1. Calm(Ended)
  <2>1. Ended \in Self
    BY Types DEF IInv
  <2> QED BY <2>1 DEF Calm, Ended
<1>2. ASSUME me[p].pc \in {"look", "held", "asking", "answered", "write", "rename"},
             me[p].job # "clear", NEW t \in Token \cup {None}
      PROVE  Calm(After(p, t))
  <2>1. me[p].op = "logout" => me[p].key # None
    BY <1>2 DEF IInv, InHand
  <2>2. After(p, t).pc = "delete" => me[p].op = "logout"
    <3>1. CASE me[p].op = "key" /\ t # None
      <4>1. After(p, t).pc = "lock"
        <5>1. me[p] \in Self
          BY DEF IInv, TypeOK
        <5> QED BY <3>1, <5>1 DEF After, Queue, Self
      <4> QED BY <4>1
    <3>2. CASE ~(me[p].op = "key" /\ t # None)
      BY <3>2 DEF After, Ended
    <3> QED BY <3>1, <3>2
  <2>3. After(p, t).op = "logout" => After(p, t).pc \in {"delete", "readback", "done"}
    BY AfterIs
  <2>4. After(p, t).job = "clear" => After(p, t).pc = "done"
    <3>1. me[p] \in Self
      BY DEF IInv, TypeOK
    <3> QED BY <1>2, <3>1 DEF After, Queue, Ended, Self
  <2> QED BY <2>1, <2>2, <2>3, <2>4, AfterIs DEF Calm
<1> QED BY <1>1, <1>2

\* A step that only rewrites the record of p
LEMMA Rewrites ==
  ASSUME TypeOK, NEW p \in Command, NEW r \in Self, me' = [me EXCEPT ![p] = r]
  PROVE  OnlyMe(p) /\ me'[p] = r
<1>1. me'[p] = r
  BY Zenon DEF TypeOK
<1> QED BY <1>1 DEF OnlyMe

\* Nothing is written and the server is not asked: Grow by doubt alone.
LEMMA Doubt ==
  ASSUME TypeOK, doubtful \subseteq doubtful', doubtful' \subseteq Login,
         UNCHANGED <<dead, keys, old, missed>>
  PROVE  Grow
BY DEF TypeOK, Grow

\* A step that leaves p calm; what it had in hand is in doubt.
LEMMA Idle ==
  ASSUME IInv, NEW p \in Command, NEW r \in Self, Calm(r), me' = [me EXCEPT ![p] = r],
         holder' = IF holder = p THEN None ELSE holder,
         yml' = yml, cur' = cur, tried' = tried, Grow, loose' \subseteq Token,
         \A t \in loose' : t \in loose \/ (t = yml.login /\ t.login \in doubtful'),
         At(p, "asking") => me[p].tok.login \in doubtful',
         me[p].pc \in {"answered", "write", "rename"} /\ me[p].job = "refresh" /\ me[p].got # None
           => me[p].tok.login \in doubtful'
  PROVE  IInv'
<1>1. OnlyMe(p) /\ me'[p] = r /\ r \in Self
  BY Rewrites DEF IInv, Calm
<1>2. LockMoves(p)
  BY <1>1 DEF Calm, LockMoves, Locked
<1>3. InHand(p)'
  BY <1>1 DEF Calm, InHand, At, Writing, Asked, Job
<1>4. Undisturbed(p)' /\ Private(p)' /\ Spent(p)'
  BY <1>1 DEF Calm, Undisturbed, Private, Spent, At, Writing, Saving, Asked, Unsaved
<1>5. Sent'
  <2>1. cur' = cur /\ tried' = tried
    OBVIOUS
  <2> QED BY <1>1, <2>1, SentKept
<1>6. StoredLoginWorks'
  <2>1. ASSUME me[p].pc \in {"answered", "write", "rename"}, me[p].job = "refresh"
        PROVE me[p].tok = yml.login
    BY <2>1 DEF IInv, Undisturbed, Asked, Saving, Writing, At
  <2>2. yml' = yml /\ cur' = cur
    OBVIOUS
  <2> QED BY <1>1, <2>1, <2>2, StoredKept
<1>7. cur' \in [Login -> Nat] /\ tried' \subseteq Token
  BY DEF IInv, TypeOK
<1> QED BY <1>1, <1>2, <1>3, <1>4, <1>5, <1>6, <1>7, Kept DEF Mine

-----------------------------------------------------------------------------
(* The steps without the lock                                               *)

\* Steps of one command that is not at the lock and sends nothing.
LEMMA OutsideStep ==
  ASSUME IInv, NEW p \in Command, NEW r \in Self, Calm(r), me' = [me EXCEPT ![p] = r],
         me[p].pc \notin Locked, Grow, UNCHANGED <<yml, cur, tried, holder, loose>>
  PROVE  IInv'
<1>1. holder # p /\ loose \subseteq Token
  BY DEF IInv, TypeOK
<1>2. ~At(p, "asking") /\ me[p].pc \notin {"answered", "write", "rename"}
  BY DEF Locked, At
<1>3. yml' = yml /\ cur' = cur /\ tried' = tried /\ loose' = loose
      /\ holder' = IF holder = p THEN None ELSE holder
  BY <1>1
<1>4. loose' \subseteq Token /\ \A t \in loose' : t \in loose
  BY <1>1
<1>5. /\ At(p, "asking") => me[p].tok.login \in doubtful'
      /\ me[p].pc \in {"answered", "write", "rename"} /\ me[p].job = "refresh" /\ me[p].got # None
           => me[p].tok.login \in doubtful'
  BY <1>2
<1>6. me' = [me EXCEPT ![p] = r] /\ Calm(r) /\ Grow
  OBVIOUS
<1> QED BY <1>3, <1>4, <1>5, <1>6, Idle, Zenon

LEMMA FindStep ==
  ASSUME IInv, NEW p \in Command, Find(p) PROVE IInv'
<1>1. TypeOK /\ me[p] \in Self /\ InHand(p) /\ me[p].pc = "find"
  BY Types DEF IInv, Find, At
<1>2. PICK r \in Self : me' = [me EXCEPT ![p] = r] /\ Calm(r)
  <2>1. CASE yml.key # None
    BY <1>1, <2>1, CalmRecords, Types DEF Find, End
  <2>2. CASE yml.key = None
    <3>1. Calm([me[p] EXCEPT !.pc = "look"]) /\ [me[p] EXCEPT !.pc = "look"] \in Self
      BY <1>1 DEF Self, Steps, Calm, InHand, At, Writing
    <3> QED BY <2>2, <3>1 DEF Find, Move
  <2> QED BY <2>1, <2>2 DEF Calm
<1>3. Grow
  BY <1>1, Doubt DEF Find, server, history, TypeOK
<1> QED BY <1>1, <1>2, <1>3, OutsideStep DEF Find, server, history, Locked

LEMMA RecordStep ==
  ASSUME IInv, NEW p \in Command, Record(p) PROVE IInv'
<1>1. TypeOK /\ me[p] \in Self /\ InHand(p) /\ me[p].pc = "record" /\ yml.key \in Command \cup {None}
  BY Types DEF IInv, Record, At, File
<1>2. PICK r \in Self : me' = [me EXCEPT ![p] = r] /\ Calm(r)
  <2>1. CASE yml.key # None /\ yml.login # None
    <3>1. Calm([me[p] EXCEPT !.key = yml.key, !.pc = "look"])
      BY <1>1, <2>1 DEF Self, Steps, Calm, InHand, At, Writing
    <3> QED BY <2>1, <3>1 DEF Record, Calm
  <2>2. CASE ~(yml.key # None /\ yml.login # None)
    <3>1. Calm([me[p] EXCEPT !.pc = "readback"])
      BY <1>1 DEF Self, Steps, Calm, InHand, At, Writing
    <3> QED BY <2>2, <3>1 DEF Record, Calm
  <2> QED BY <2>1, <2>2 DEF Calm
<1>3. Grow
  BY <1>1, Doubt DEF Record, server, history, TypeOK
<1> QED BY <1>1, <1>2, <1>3, OutsideStep DEF Record, server, history, Locked

LEMMA LookStep ==
  ASSUME IInv, NEW p \in Command, Look(p) PROVE IInv'
<1>1. TypeOK /\ me[p] \in Self /\ InHand(p) /\ me[p].pc = "look" /\ yml.login \in Token \cup {None}
  BY Types DEF IInv, Look, At, File
<1>2. PICK r \in Self : me' = [me EXCEPT ![p] = r] /\ Calm(r)
  <2>1. CASE yml.login # None /\ ~Fresh(yml.login)
    <3>1. Calm(Queue(p, "refresh", None))
      BY <1>1 DEF Self, Steps, Calm, Queue, InHand, Job, At, Writing
    <3> QED BY <2>1, <3>1 DEF Look, Calm
  <2>2. CASE ~(yml.login # None /\ ~Fresh(yml.login))
    <3>1. me[p].job # "clear"
      BY <1>1 DEF InHand, At, Writing
    <3>2. Calm(After(p, yml.login))
      BY <1>1, <3>1, CalmRecords
    <3> QED BY <2>2, <3>2 DEF Look, Calm
  <2> QED BY <2>1, <2>2 DEF Calm
<1>3. Grow
  <2>1. Warned(p, yml.login) \subseteq Login
    BY <1>1 DEF Warned, Named, Login, Self
  <2> QED BY <1>1, <2>1, Doubt DEF Look, server, TypeOK
<1> QED BY <1>1, <1>2, <1>3, OutsideStep DEF Look, server, history, Locked

LEMMA DeleteStep ==
  ASSUME IInv, NEW p \in Command, Delete(p) PROVE IInv'
<1>1. TypeOK /\ me[p] \in Self /\ InHand(p) /\ me[p].pc = "delete"
  BY Types DEF IInv, Delete, At
<1>2. PICK r \in Self : me' = [me EXCEPT ![p] = r] /\ Calm(r)
  <2>1. Calm([me[p] EXCEPT !.pc = "readback"])
    BY <1>1 DEF Self, Steps, Calm, InHand, At, Writing
  <2> QED BY <2>1 DEF Delete, Move, Calm
<1>3. Grow
  <2>1. me[p].key \in Login
    BY <1>1 DEF InHand, At, Writing, Self, Login
  <2> QED BY <1>1, <2>1 DEF Delete, Grow, TypeOK
<1> QED BY <1>1, <1>2, <1>3, OutsideStep DEF Delete, Locked

LEMMA ReadBackStep ==
  ASSUME IInv, NEW p \in Command, ReadBack(p) PROVE IInv'
<1>1. /\ TypeOK /\ me[p] \in Self /\ InHand(p) /\ me[p].pc = "readback"
      /\ yml.login \in Token \cup {None}
  BY Types DEF IInv, ReadBack, At, File
<1>2. PICK r \in Self : me' = [me EXCEPT ![p] = r] /\ Calm(r)
  <2>1. Calm(Queue(p, "clear", None))
    BY <1>1 DEF Self, Steps, Calm, Queue, Job
  <2>2. yml.login # None => Calm([me[p] EXCEPT !.pc = "revoke", !.tok = yml.login])
    BY <1>1 DEF Self, Steps, Calm, InHand, At, Writing
  <2> QED BY <2>1, <2>2 DEF ReadBack, Calm
<1>3. Grow
  BY <1>1, Doubt DEF ReadBack, server, history, TypeOK
<1> QED BY <1>1, <1>2, <1>3, OutsideStep DEF ReadBack, server, history, Locked

LEMMA RevokeStep ==
  ASSUME IInv, NEW p \in Command, Revoke(p) PROVE IInv'
<1>1. TypeOK /\ me[p] \in Self /\ InHand(p) /\ me[p].pc = "revoke"
  BY Types DEF IInv, Revoke, At
<1>2. me[p].tok \in Token /\ me[p].tok.login \in Login
  BY <1>1 DEF InHand, At, Self, Token
<1>3. PICK r \in Self : me' = [me EXCEPT ![p] = r] /\ Calm(r)
  <2>1. Calm(Queue(p, "clear", me[p].tok))
    BY <1>1 DEF Self, Steps, Calm, Queue, Job
  <2>2. Calm(Ended)
    BY CalmRecords
  <2>3. me' = [me EXCEPT ![p] = IF me[p].op = "logout" THEN Queue(p, "clear", me[p].tok) ELSE Ended]
    BY DEF Revoke
  <2> QED BY <2>1, <2>2, <2>3 DEF Calm
<1>4. Grow
  BY <1>1, <1>2 DEF Revoke, Grow, TypeOK
<1> QED BY <1>1, <1>3, <1>4, OutsideStep DEF Revoke, Locked

LEMMA DeviceStep ==
  ASSUME IInv, NEW p \in Command, Device(p) PROVE IInv'
<1>1. /\ TypeOK /\ me[p] \in Self /\ InHand(p) /\ Private(p) /\ me[p].pc = "device"
      /\ holder # p /\ p \in Login
  BY Types DEF IInv, Device, At, TypeOK, Locked
<1>2. p \notin LoginOf(yml.login) /\ \A t \in loose \cup tried : t.login # p
  BY <1>1 DEF Private, At
<1>3. PICK r \in Self : /\ me' = [me EXCEPT ![p] = r]
                         /\ \/ Calm(r)
                            \/ (r.pc = "account" /\ r = [me[p] EXCEPT !.pc = "account",
                                           !.got = [login |-> p, gen |-> 1]] /\ cur'[p] = 1)
  <2>1. CASE me' = [me EXCEPT ![p].pc = "account", ![p].got = [login |-> p, gen |-> 1]]
             /\ cur' = [cur EXCEPT ![p] = 1]
    <3>1. [me[p] EXCEPT !.pc = "account", !.got = [login |-> p, gen |-> 1]] \in Self
      BY <1>1 DEF Self, Steps, Token
    <3>2. cur'[p] = 1
      BY <1>1, <2>1 DEF TypeOK
    <3>3. [me[p] EXCEPT !.pc = "account", !.got = [login |-> p, gen |-> 1]].pc = "account"
      BY <1>1 DEF Self
    <3> QED BY <2>1, <3>1, <3>2, <3>3
  <2>2. CASE End(p)
    BY <2>2, CalmRecords DEF End, Calm
  <2> QED BY <2>1, <2>2 DEF Device
<1>4. /\ cur' \in [Login -> Nat] /\ \A l \in Login \ {p} : cur'[l] = cur[l]
      /\ doubtful \subseteq doubtful' /\ doubtful' \subseteq Login
      /\ UNCHANGED <<yml, holder, dead, keys, old, loose, tried, missed>>
  BY <1>1 DEF Device, TypeOK
<1>5. Grow
  BY <1>1, <1>4, Doubt
<1>6. OnlyMe(p) /\ me'[p] = r
  BY <1>1, <1>3, Rewrites
<1>7. LockMoves(p)
  BY <1>1, <1>3, <1>4, <1>6 DEF LockMoves, Calm, Locked
<1>8. Mine(p)'
  <2>1. CASE Calm(r)
    BY <1>6, <2>1 DEF Mine, Calm, InHand, Undisturbed, Private, Spent, At, Writing, Saving, Asked,
                      Unsaved, Job
  <2>2. CASE ~Calm(r)
    <3>1. r.pc = "account" /\ r.got = [login |-> p, gen |-> 1] /\ r.op = me[p].op /\ r.job = me[p].job
          /\ r.key = me[p].key /\ cur'[p] = 1
      BY <1>1, <1>3, <2>2 DEF Self
    <3>2. InHand(p)'
      BY <1>1, <1>6, <3>1 DEF InHand, At, Writing, Asked
    <3>3. Private(p)'
      BY <1>2, <1>4, <1>6, <3>1 DEF Private
    <3>4. Undisturbed(p)' /\ Spent(p)'
      BY <1>6, <3>1 DEF Undisturbed, Spent, At, Writing, Saving, Asked
    <3> QED BY <3>2, <3>3, <3>4 DEF Mine
  <2> QED BY <2>1, <2>2
<1>9. \A l \in LoginOf(yml.login) \cup (Command \ {p}) : cur'[l] = cur[l]
  BY <1>1, <1>2, <1>4, Types DEF LoginOf, File, Token, Login
<1>10. Sent'
  <2>1. \A q \in Command \ {p} : me'[q] = me[q]
    BY <1>1, <1>6, Zenon DEF OnlyMe, TypeOK
  <2>2. \A t \in tried : t.login \in Login /\ t.login # p /\ cur'[t.login] = cur[t.login]
    BY <1>1, <1>2, <1>4 DEF TypeOK, Token
  <2>3. ~At(p, "asking") /\ Sent
    BY <1>1 DEF At, IInv
  <2> QED BY <1>4, <2>1, <2>2, <2>3 DEF Sent, At
<1>11. StoredLoginWorks'
  <2>1. \A q \in Command \ {p} : me'[q] = me[q]
    BY <1>1, <1>6, Zenon DEF OnlyMe, TypeOK
  <2>2. \A t \in {yml.login} \ {None} : cur'[t.login] = cur[t.login]
    BY <1>9 DEF LoginOf
  <2>3. StoredLoginWorks
    BY DEF IInv
  <2> QED BY <1>1, <1>4, <2>1, <2>2, <2>3 DEF StoredLoginWorks
<1>12. loose' \subseteq Token /\ tried' \subseteq Token /\ yml' = yml
       /\ \A t \in loose' \cup tried' : t \in loose \cup tried
  BY <1>1, <1>4 DEF TypeOK
<1> QED BY <1>4, <1>5, <1>6, <1>7, <1>8, <1>9, <1>10, <1>11, <1>12, Kept

LEMMA AccountStep ==
  ASSUME IInv, NEW p \in Command, Account(p) PROVE IInv'
<1>1. /\ TypeOK /\ me[p] \in Self /\ InHand(p) /\ Private(p) /\ me[p].pc = "account"
      /\ holder # p /\ me[p].got \in Token \cup {None} /\ me[p].got = [login |-> p, gen |-> 1]
  BY Types DEF IInv, Account, At, TypeOK, Locked, Private, Unsaved, Self
<1>2. Grow
  BY <1>1, Doubt DEF Account, server, history, TypeOK
<1>3. CASE me' = [me EXCEPT ![p].pc = "revoke", ![p].tok = me[p].got]
  <2>1. me[p].got \in Token /\ me[p].got # None
    BY <1>1, NamesOK DEF Token, Login
  <2>2. Calm([me[p] EXCEPT !.pc = "revoke", !.tok = me[p].got])
    BY <1>1, <2>1 DEF Calm, Self, Steps, InHand, At, Writing
  <2>3. [me[p] EXCEPT !.pc = "revoke", !.tok = me[p].got] \in Self
    BY <2>2 DEF Calm
  <2>4. me' = [me EXCEPT ![p] = [me[p] EXCEPT !.pc = "revoke", !.tok = me[p].got]]
    BY <1>3
  <2> QED BY <1>1, <1>2, <2>2, <2>3, <2>4, OutsideStep DEF Account, server, history, Locked
<1>4. CASE me' = [me EXCEPT ![p] = Queue(p, "save", None)]
  <2>1. PICK r \in Self : r = Queue(p, "save", None) /\ r.pc = "lock" /\ r.job = "save"
                           /\ r.got = me[p].got /\ r.op = me[p].op /\ r.key = me[p].key
    <3>1. Queue(p, "save", None) = [me[p] EXCEPT !.pc = "lock", !.job = "save", !.tok = None]
      BY DEF Queue
    <3> QED BY <1>1, <3>1 DEF Self, Steps, Job
  <2>2. OnlyMe(p) /\ me'[p] = r
    BY <1>1, <1>4, <2>1, Rewrites
  <2>3. LockMoves(p)
    BY <1>1, <2>1, <2>2 DEF LockMoves, Locked, Account
  <2>4. Mine(p)'
    <3>1. InHand(p)'
      BY <1>1, <2>1, <2>2 DEF InHand, At, Writing, Asked, Job
    <3>2. Private(p)'
      BY <1>1, <2>1, <2>2 DEF Private, At, Unsaved, Saving, Writing, Account, server, history
    <3>3. Undisturbed(p)' /\ Spent(p)'
      BY <2>1, <2>2 DEF Undisturbed, Spent, At, Writing, Saving, Asked
    <3> QED BY <3>1, <3>2, <3>3 DEF Mine
  <2>5. /\ yml' = yml /\ cur' = cur /\ loose' = loose /\ tried' = tried /\ cur' \in [Login -> Nat]
        /\ loose' \subseteq Token /\ tried' \subseteq Token
        /\ \A t \in loose' : t \in loose
    BY <1>1 DEF Account, server, history, TypeOK
  <2>6. ~At(p, "asking") /\ me[p].pc \notin {"answered", "write", "rename"}
    BY <1>1 DEF At
  <2>7. Sent'
    BY <1>2, <2>2, <2>5, <2>6, SentKept
  <2>8. StoredLoginWorks'
    BY <1>2, <2>2, <2>5, <2>6, StoredKept
  <2> QED BY <1>2, <2>2, <2>3, <2>4, <2>5, <2>7, <2>8, Kept
<1> QED BY <1>3, <1>4 DEF Account

-----------------------------------------------------------------------------
(* The steps at the lock                                                    *)

LEMMA AcquireStep ==
  ASSUME IInv, NEW p \in Command, Acquire(p) PROVE IInv'
<1>1. /\ TypeOK /\ me[p] \in Self /\ InHand(p) /\ Private(p) /\ me[p].pc = "lock" /\ me[p].job \in Job
      /\ holder = None /\ holder' = p
  BY Types DEF IInv, Acquire, At, Free, InHand
<1>2. PICK r \in Self :
        /\ me' = [me EXCEPT ![p] = r] /\ r.got = me[p].got /\ r.op = me[p].op
        /\ r.key = me[p].key /\ r.job = me[p].job
        /\ \/ r.pc = "held" /\ r.job \in {"refresh", "issue"}
           \/ r.pc = "write" /\ r.job \notin {"refresh", "issue"}
  <2>1. \A x \in {"held", "write"} : [me[p] EXCEPT !.pc = x] \in Self
    BY <1>1 DEF Self, Steps, Locked
  <2>2. CASE me[p].job \in {"refresh", "issue"}
    <3>1. me' = [me EXCEPT ![p] = [me[p] EXCEPT !.pc = "held"]]
      BY <2>2 DEF Acquire, Move
    <3> QED BY <1>1, <2>1, <2>2, <3>1 DEF Self
  <2>3. CASE me[p].job \notin {"refresh", "issue"}
    <3>1. me' = [me EXCEPT ![p] = [me[p] EXCEPT !.pc = "write"]]
      BY <2>3 DEF Acquire, Move
    <3> QED BY <1>1, <2>1, <2>3, <3>1 DEF Self
  <2> QED BY <2>2, <2>3
<1>3. Grow
  BY <1>1, Doubt DEF Acquire, server, history, TypeOK
<1>4. OnlyMe(p) /\ me'[p] = r
  BY <1>1, <1>2, Rewrites
<1>5. LockMoves(p)
  BY <1>1, <1>2, <1>4 DEF LockMoves, Locked
<1>6. /\ yml' = yml /\ cur' = cur /\ loose' = loose /\ tried' = tried /\ cur' \in [Login -> Nat]
      /\ loose' \subseteq Token /\ tried' \subseteq Token /\ \A t \in loose' : t \in loose
  BY <1>1 DEF Acquire, server, history, TypeOK
<1>7. Mine(p)'
  <2>1. InHand(p)'
    BY <1>1, <1>2, <1>4 DEF InHand, At, Writing, Asked
  <2>2. Private(p)'
    BY <1>1, <1>2, <1>4, <1>6 DEF Private, At, Unsaved, Saving, Writing
  <2>3. Undisturbed(p)' /\ Spent(p)'
    BY <1>2, <1>4 DEF Undisturbed, Spent, At, Writing, Saving, Asked
  <2> QED BY <2>1, <2>2, <2>3 DEF Mine
<1>8. ~At(p, "asking") /\ me[p].pc \notin {"answered", "write", "rename"}
  BY <1>1 DEF At
<1>9. Sent' /\ StoredLoginWorks'
  BY <1>3, <1>4, <1>6, <1>8, SentKept, StoredKept
<1> QED BY <1>3, <1>4, <1>5, <1>6, <1>7, <1>9, Kept

\* A step that lets go of the lock with nothing in hand.
LEMMA ReleaseStep ==
  ASSUME IInv, NEW p \in Command, NEW r \in Self, Calm(r), me' = [me EXCEPT ![p] = r],
         me[p].pc \in {"held", "posting", "answered"}, me[p].pc = "answered" => me[p].got = None,
         holder' = None, Grow, UNCHANGED <<yml, cur, tried, loose>>
  PROVE  IInv'
<1>1. holder = p /\ loose \subseteq Token
  BY DEF IInv, TypeOK, Locked
<1>2. /\ yml' = yml /\ cur' = cur /\ tried' = tried
      /\ loose' \subseteq Token /\ \A t \in loose' : t \in loose
      /\ holder' = IF holder = p THEN None ELSE holder
  BY <1>1
<1>3. ~At(p, "asking") /\ (me[p].pc \in {"answered", "write", "rename"} => me[p].got = None)
  BY DEF At
<1> QED BY <1>2, <1>3, Idle

LEMMA HeldRefreshStep ==
  ASSUME IInv, NEW p \in Command, HeldRefresh(p) PROVE IInv'
<1>1. /\ TypeOK /\ me[p] \in Self /\ InHand(p) /\ me[p].pc = "held" /\ me[p].job = "refresh"
      /\ holder = p /\ yml.login \in Token \cup {None}
  BY Types DEF IInv, HeldRefresh, At, TypeOK, Locked, File
<1>2. CASE yml.login = None \/ Fresh(yml.login)
  <2>1. Calm(After(p, yml.login)) /\ After(p, yml.login) \in Self
    BY <1>1, CalmRecords, AfterIs
  <2>2. Grow
    <3>1. Warned(p, yml.login) \subseteq Login
      BY <1>1 DEF Warned, Named, Login, Self
    <3> QED BY <1>1, <1>2, <3>1, Doubt DEF HeldRefresh, server, TypeOK
  <2> QED BY <1>1, <1>2, <2>1, <2>2, ReleaseStep DEF HeldRefresh, Release, server
<1>3. CASE yml.login # None /\ ~Fresh(yml.login)
  <2>1. PICK r \in Self : /\ me' = [me EXCEPT ![p] = r] /\ r.pc = "asking" /\ r.tok = yml.login
                          /\ r.job = me[p].job /\ r.op = me[p].op /\ r.key = me[p].key
    <3>1. [me[p] EXCEPT !.pc = "asking", !.tok = yml.login] \in Self
      BY <1>1 DEF Self, Steps, Locked
    <3>2. me' = [me EXCEPT ![p] = [me[p] EXCEPT !.pc = "asking", !.tok = yml.login]]
      BY <1>3 DEF HeldRefresh
    <3> QED BY <1>1, <3>1, <3>2 DEF Self
  <2>2. OnlyMe(p) /\ me'[p] = r
    BY <1>1, <2>1, Rewrites
  <2>3. Grow
    BY <1>1, <1>3, Doubt DEF HeldRefresh, server, TypeOK
  <2>4. LockMoves(p)
    BY <1>1, <1>3, <2>1, <2>2 DEF LockMoves, Locked, HeldRefresh
  <2>5. /\ yml' = yml /\ cur' = cur /\ loose' = loose /\ tried' = tried \cup {yml.login}
        /\ cur' \in [Login -> Nat] /\ loose' \subseteq Token /\ tried' \subseteq Token
        /\ doubtful' = doubtful /\ dead' = dead
    BY <1>1, <1>3 DEF HeldRefresh, server, TypeOK
  <2>6. Mine(p)'
    <3>1. InHand(p)'
      BY <1>1, <2>1, <2>2 DEF InHand, At, Writing, Asked
    <3>2. Undisturbed(p)'
      BY <1>1, <1>3, <2>1, <2>2, <2>5 DEF Undisturbed, At, Writing, Saving, Asked
    <3>3. Private(p)' /\ Spent(p)'
      BY <2>1, <2>2 DEF Private, Spent, At, Writing, Saving, Unsaved
    <3> QED BY <3>1, <3>2, <3>3 DEF Mine
  <2>7. Sent'
    <3>1. \A q \in Command \ {p} : me'[q] = me[q]
      BY <1>1, <2>2, Zenon DEF OnlyMe, TypeOK
    <3>2. Sent /\ ~At(p, "asking")
      BY <1>1 DEF IInv, At
    <3>3. At(p, "asking")' /\ me'[p].tok = yml.login
      BY <2>1, <2>2 DEF At
    <3> QED BY <2>5, <3>1, <3>2, <3>3 DEF Sent, At
  <2>8. me[p].pc \notin {"answered", "write", "rename"}
    BY <1>1
  <2>9. StoredLoginWorks'
    BY <2>2, <2>3, <2>5, <2>8, StoredKept
  <2> QED BY <2>2, <2>3, <2>4, <2>5, <2>6, <2>7, <2>9, Kept
<1> QED BY <1>1, <1>2, <1>3

LEMMA HeldIssueStep ==
  ASSUME IInv, NEW p \in Command, HeldIssue(p) PROVE IInv'
<1>1. /\ TypeOK /\ me[p] \in Self /\ InHand(p) /\ me[p].pc = "held" /\ me[p].job = "issue"
      /\ holder = p
  BY Types DEF IInv, HeldIssue, At, TypeOK, Locked
<1>2. /\ yml' = yml /\ cur' = cur /\ loose' = loose /\ tried' = tried /\ cur' \in [Login -> Nat]
      /\ loose' \subseteq Token /\ tried' \subseteq Token /\ \A t \in loose' : t \in loose
  BY <1>1 DEF HeldIssue, server, history, TypeOK
<1>3. Grow
  BY <1>1, Doubt DEF HeldIssue, server, history, TypeOK
<1>4. CASE yml.key # None
  <2>1. Calm(Ended) /\ Ended \in Self
    BY <1>1, CalmRecords, Types
  <2> QED BY <1>1, <1>2, <1>3, <1>4, <2>1, ReleaseStep DEF HeldIssue, Release, End
<1>5. CASE yml.key = None
  <2>1. PICK r \in Self : /\ me' = [me EXCEPT ![p] = r] /\ r.pc = "posting"
                          /\ r.job = me[p].job /\ r.op = me[p].op /\ r.key = me[p].key
    <3>1. [me[p] EXCEPT !.pc = "posting"] \in Self
      BY <1>1 DEF Self, Steps, Locked
    <3>2. me' = [me EXCEPT ![p] = [me[p] EXCEPT !.pc = "posting"]]
      BY <1>5 DEF HeldIssue, Move
    <3> QED BY <1>1, <3>1, <3>2 DEF Self
  <2>2. OnlyMe(p) /\ me'[p] = r
    BY <1>1, <2>1, Rewrites
  <2>3. LockMoves(p)
    BY <1>1, <1>5, <2>1, <2>2 DEF LockMoves, Locked, HeldIssue
  <2>4. Mine(p)'
    <3>1. InHand(p)'
      BY <1>1, <2>1, <2>2 DEF InHand, At, Writing, Asked
    <3>2. Undisturbed(p)' /\ Private(p)' /\ Spent(p)'
      BY <1>2, <1>5, <2>1, <2>2 DEF Undisturbed, Private, Spent, At, Writing, Saving, Asked, Unsaved
    <3> QED BY <3>1, <3>2 DEF Mine
  <2>5. ~At(p, "asking") /\ me[p].pc \notin {"answered", "write", "rename"}
    BY <1>1 DEF At
  <2>6. Sent' /\ StoredLoginWorks'
    BY <1>2, <1>3, <2>2, <2>5, SentKept, StoredKept
  <2> QED BY <1>2, <1>3, <2>2, <2>3, <2>4, <2>6, Kept
<1> QED BY <1>4, <1>5

LEMMA ReceiveStep ==
  ASSUME IInv, NEW p \in Command, Receive(p) PROVE IInv'
<1>1. /\ TypeOK /\ me[p] \in Self /\ InHand(p) /\ Undisturbed(p) /\ Spent(p)
      /\ me[p].pc = "answered" /\ me[p].job = "refresh" /\ holder = p
  BY Types DEF IInv, Receive, At, TypeOK, Locked, InHand, Asked
<1>2. /\ yml' = yml /\ cur' = cur /\ loose' = loose /\ tried' = tried /\ cur' \in [Login -> Nat]
      /\ loose' \subseteq Token /\ tried' \subseteq Token /\ \A t \in loose' : t \in loose
  BY <1>1 DEF Receive, server, TypeOK
<1>3. Grow
  <2>1. Warned(p, None) \subseteq Login
    BY <1>1 DEF Warned, Named, Login, Self
  <2> QED BY <1>1, <2>1, Doubt DEF Receive, server, TypeOK
<1>4. CASE me[p].got = None
  <2>1. Calm(After(p, None)) /\ After(p, None) \in Self
    BY <1>1, CalmRecords, AfterIs
  <2> QED BY <1>1, <1>2, <1>3, <1>4, <2>1, ReleaseStep DEF Receive, Release
<1>5. CASE me[p].got # None
  <2>1. PICK r \in Self : /\ me' = [me EXCEPT ![p] = r] /\ r.pc = "write" /\ r.tok = me[p].tok
                          /\ r.got = me[p].got
                          /\ r.job = me[p].job /\ r.op = me[p].op /\ r.key = me[p].key
    <3>1. [me[p] EXCEPT !.pc = "write"] \in Self
      BY <1>1 DEF Self, Steps, Locked
    <3>2. me' = [me EXCEPT ![p] = [me[p] EXCEPT !.pc = "write"]]
      BY <1>5 DEF Receive, Move
    <3> QED BY <1>1, <3>1, <3>2 DEF Self
  <2>2. OnlyMe(p) /\ me'[p] = r
    BY <1>1, <2>1, Rewrites
  <2>3. LockMoves(p)
    BY <1>1, <1>5, <2>1, <2>2 DEF LockMoves, Locked, Receive
  <2>4. Mine(p)'
    <3>1. InHand(p)'
      BY <1>1, <2>1, <2>2 DEF InHand, At, Writing, Asked, Job
    <3>2. Undisturbed(p)'
      BY <1>1, <1>2, <1>5, <2>1, <2>2 DEF Undisturbed, At, Writing, Saving, Asked
    <3>3. Private(p)'
      BY <1>1, <2>1, <2>2 DEF Private, At, Writing, Saving, Unsaved
    <3>4. Spent(p)'
      BY <1>1, <1>2, <1>3, <1>5, <2>1, <2>2 DEF Spent, At, Writing, Saving, Grow
    <3> QED BY <3>1, <3>2, <3>3, <3>4 DEF Mine
  <2>5. ~At(p, "asking")
    BY <1>1 DEF At
  <2>6. Sent'
    BY <1>2, <1>3, <2>2, <2>5, SentKept
  <2>7. StoredLoginWorks'
    BY <1>1, <1>2, <1>3, <2>1, <2>2, StoredKept
  <2> QED BY <1>2, <1>3, <2>2, <2>3, <2>4, <2>6, <2>7, Kept
<1> QED BY <1>4, <1>5

LEMMA GiveUpStep ==
  ASSUME IInv, NEW p \in Command, GiveUp(p) PROVE IInv'
<1>1. /\ TypeOK /\ me[p] \in Self /\ InHand(p) /\ Undisturbed(p) /\ holder = p
      /\ me[p].pc \in {"asking", "answered"} /\ me[p].job = "refresh"
      /\ me[p].tok = yml.login /\ yml.login # None /\ yml \in File
  BY Types DEF IInv, GiveUp, At, TypeOK, Locked, InHand, Undisturbed, Asked
<1>2. yml.login \in Token /\ yml.login.login \in Login
  BY <1>1 DEF File, Token
<1>3. Calm(After(p, None)) /\ After(p, None) \in Self
  BY <1>1, CalmRecords, AfterIs
<1>4. Grow
  <2>1. Warned(p, None) \subseteq Login
    BY <1>1 DEF Warned, Named, Login, Self
  <2> QED BY <1>1, <1>2, <2>1, Doubt DEF GiveUp, TypeOK
<1>5. /\ yml' = yml /\ cur' = cur /\ tried' = tried /\ me' = [me EXCEPT ![p] = After(p, None)]
      /\ yml.login.login \in doubtful' /\ loose' \subseteq Token
      /\ holder' = IF holder = p THEN None ELSE holder
      /\ \A t \in loose' : t \in loose \/ (t = yml.login /\ t.login \in doubtful')
  BY <1>1, <1>2 DEF GiveUp, Release, TypeOK
<1> QED BY <1>1, <1>3, <1>4, <1>5, Idle

LEMMA PostStep ==
  ASSUME IInv, NEW p \in Command, Post(p) PROVE IInv'
<1>1. /\ TypeOK /\ me[p] \in Self /\ InHand(p) /\ Undisturbed(p) /\ me[p].pc = "posting"
      /\ me[p].job = "issue" /\ holder = p /\ yml.key = None /\ p # None
  BY Types DEF IInv, Post, At, TypeOK, Locked, InHand, Undisturbed
<1>2. /\ yml' = yml /\ cur' = cur /\ loose' = loose /\ tried' = tried /\ cur' \in [Login -> Nat]
      /\ loose' \subseteq Token /\ tried' \subseteq Token /\ \A t \in loose' : t \in loose
  BY <1>1 DEF Post, TypeOK
<1>3. Grow
  BY <1>1 DEF Post, TypeOK, Grow
<1>4. CASE Release /\ End(p)
  <2>1. Calm(Ended) /\ Ended \in Self
    BY <1>1, CalmRecords, Types
  <2> QED BY <1>1, <1>2, <1>3, <1>4, <2>1, ReleaseStep DEF Release, End
<1>5. CASE me' = [me EXCEPT ![p].pc = "write", ![p].key = p] /\ holder' = holder
  <2>1. PICK r \in Self : /\ me' = [me EXCEPT ![p] = r] /\ r.pc = "write"
                          /\ r.job = me[p].job /\ r.op = me[p].op /\ r.key = p
    <3>1. [me[p] EXCEPT !.pc = "write", !.key = p] \in Self
      BY <1>1 DEF Self, Steps, Locked
    <3>2. me' = [me EXCEPT ![p] = [me[p] EXCEPT !.pc = "write", !.key = p]]
      BY <1>5
    <3> QED BY <1>1, <3>1, <3>2 DEF Self
  <2>2. OnlyMe(p) /\ me'[p] = r
    BY <1>1, <2>1, Rewrites
  <2>3. LockMoves(p)
    BY <1>1, <1>5, <2>1, <2>2 DEF LockMoves, Locked
  <2>4. Mine(p)'
    <3>1. InHand(p)'
      BY <1>1, <2>1, <2>2 DEF InHand, At, Writing, Asked, Job
    <3>2. Undisturbed(p)' /\ Private(p)' /\ Spent(p)'
      BY <1>1, <1>2, <2>1, <2>2 DEF Undisturbed, Private, Spent, At, Writing, Saving, Asked, Unsaved
    <3> QED BY <3>1, <3>2 DEF Mine
  <2>5. ~At(p, "asking") /\ me[p].pc \notin {"answered", "write", "rename"}
    BY <1>1 DEF At
  <2>6. Sent' /\ StoredLoginWorks'
    BY <1>2, <1>3, <2>2, <2>5, SentKept, StoredKept
  <2> QED BY <1>2, <1>3, <2>2, <2>3, <2>4, <2>6, Kept
<1> QED BY <1>4, <1>5 DEF Post

LEMMA GiveUpKeyStep ==
  ASSUME IInv, NEW p \in Command, GiveUpKey(p) PROVE IInv'
<1>1. TypeOK /\ me[p].pc = "posting" /\ p \in Login /\ Calm(Ended) /\ Ended \in Self
  BY Types, CalmRecords DEF IInv, GiveUpKey, At
<1>2. Grow
  BY <1>1 DEF GiveUpKey, TypeOK, Grow
<1> QED BY <1>1, <1>2, ReleaseStep DEF GiveUpKey, Release, End

LEMMA ReadForWriteStep ==
  ASSUME IInv, NEW p \in Command, ReadForWrite(p) PROVE IInv'
<1>1. /\ TypeOK /\ me[p] \in Self /\ InHand(p) /\ Undisturbed(p) /\ Private(p) /\ Spent(p)
      /\ me[p].pc = "write" /\ holder = p /\ yml \in File
  BY Types DEF IInv, ReadForWrite, At, TypeOK, Locked
<1>2. /\ yml' = yml /\ cur' = cur /\ loose' = loose /\ tried' = tried /\ cur' \in [Login -> Nat]
      /\ loose' \subseteq Token /\ tried' \subseteq Token /\ \A t \in loose' : t \in loose
  BY <1>1 DEF ReadForWrite, server, history, TypeOK
<1>3. Grow
  BY <1>1, Doubt DEF ReadForWrite, server, history, TypeOK
<1>4. PICK r \in Self : /\ me' = [me EXCEPT ![p] = r] /\ r.pc = "rename" /\ r.snap = yml
                        /\ r.tok = me[p].tok /\ r.got = me[p].got
                        /\ r.job = me[p].job /\ r.op = me[p].op /\ r.key = me[p].key
  <2>1. [me[p] EXCEPT !.pc = "rename", !.snap = yml] \in Self
    BY <1>1 DEF Self, Steps, Locked
  <2>2. me' = [me EXCEPT ![p] = [me[p] EXCEPT !.pc = "rename", !.snap = yml]]
    BY DEF ReadForWrite
  <2> QED BY <1>1, <2>1, <2>2 DEF Self
<1>5. OnlyMe(p) /\ me'[p] = r
  BY <1>1, <1>4, Rewrites
<1>6. LockMoves(p)
  BY <1>1, <1>4, <1>5 DEF LockMoves, Locked, ReadForWrite
<1>7. Mine(p)'
  <2>1. InHand(p)'
    BY <1>1, <1>4, <1>5 DEF InHand, At, Writing, Asked
  <2>2. Undisturbed(p)'
    BY <1>1, <1>2, <1>4, <1>5 DEF Undisturbed, At, Writing, Saving, Asked
  <2>3. Private(p)'
    BY <1>1, <1>2, <1>4, <1>5 DEF Private, At, Writing, Saving, Unsaved
  <2>4. Spent(p)'
    BY <1>1, <1>2, <1>3, <1>4, <1>5 DEF Spent, At, Writing, Saving, Grow
  <2> QED BY <2>1, <2>2, <2>3, <2>4 DEF Mine
<1>8. Sent'
  <2>1. ~At(p, "asking")
    BY <1>1 DEF At
  <2> QED BY <1>2, <1>3, <1>5, <2>1, SentKept
<1>9. StoredLoginWorks'
  BY <1>1, <1>2, <1>3, <1>4, <1>5, StoredKept
<1> QED BY <1>2, <1>3, <1>5, <1>6, <1>7, <1>8, <1>9, Kept

-----------------------------------------------------------------------------
(* The server, the rename, and what goes wrong                              *)

\* While p holds the lock the others have no part in the file; an unsaved
\* login of theirs is neither in it nor sent.
LEMMA Alone ==
  ASSUME IInv, NEW p \in Command, OnlyMe(p), holder = p, NEW q \in Command, q # p,
         LoginOf(yml'.login) \subseteq LoginOf(yml.login) \cup {p}, loose' = loose, tried' = tried,
         q \notin LoginOf(yml.login) => cur'[q] = cur[q]
  PROVE  Mine(q)'
<1>1. me'[q] = me[q] /\ me[q].pc \notin Locked
  <2>1. me \in [Command -> Self] /\ (me[q].pc \in Locked => holder = q)
    BY DEF IInv, TypeOK
  <2> QED BY <2>1, Zenon DEF OnlyMe
<1>2. InHand(q) /\ Private(q)
  BY DEF IInv
<1>3. InHand(q)'
  BY <1>1, <1>2 DEF InHand, At, Writing, Asked
<1>4. Undisturbed(q)' /\ Spent(q)'
  BY <1>1 DEF Undisturbed, Spent, At, Writing, Saving, Asked, Locked
<1>5. Private(q)'
  BY <1>1, <1>2 DEF Private, At, Unsaved, Saving, Writing
<1> QED BY <1>3, <1>4, <1>5 DEF Mine

LEMMA ServeStep ==
  ASSUME IInv, NEW p \in Command, Serve(p) PROVE IInv'
<1> DEFINE t == yml.login
<1>1. /\ TypeOK /\ me[p] \in Self /\ InHand(p) /\ Undisturbed(p) /\ holder = p /\ p \in Login
      /\ me[p].pc = "asking" /\ me[p].job = "refresh" /\ me[p].tok = t /\ t # None /\ yml \in File
  BY Types DEF IInv, Serve, At, TypeOK, Locked, InHand, Undisturbed, Asked
<1>2. /\ t \in Token /\ t.login \in Login /\ t.gen \in Nat /\ Next1(t) \in Token
      /\ Next1(t).gen = t.gen + 1 /\ Next1(t).login = t.login
  BY <1>1 DEF File, Token, Next1
<1>3. /\ cur' \in [Login -> Nat] /\ dead \subseteq dead' /\ dead' \subseteq Login
      /\ \A l \in Login : cur'[l] >= cur[l] /\ (l # t.login => cur'[l] = cur[l])
      /\ Accepts(t) => cur'[t.login] = t.gen + 1
      /\ UNCHANGED <<yml, holder, keys, old, loose, tried, doubtful, missed>>
  BY <1>1, <1>2 DEF Serve, Present, Accepts, TypeOK, history
<1>4. ~Accepts(t) => t.login \in doubtful \cup dead
  <2>1. ASSUME NEW q \in Command, me[q].pc \in {"answered", "write", "rename"} PROVE FALSE
    BY <1>1, <2>1 DEF TypeOK, Locked
  <2>2. t \in {yml.login} \ {None} /\ StoredLoginWorks
    BY <1>1 DEF IInv
  <2>3. t.login \in doubtful \cup dead \/ t.gen = cur[t.login]
    BY <2>1, <2>2 DEF StoredLoginWorks
  <2> QED BY <2>3 DEF Accepts
<1>5. PICK r \in Self : /\ me' = [me EXCEPT ![p] = r] /\ r.pc = "answered" /\ r.tok = t
                        /\ r.got = IF Accepts(t) THEN Next1(t) ELSE None
                        /\ r.job = me[p].job /\ r.op = me[p].op /\ r.key = me[p].key
  <2>1. (IF Accepts(t) THEN Next1(t) ELSE None) \in Token \cup {None}
    BY <1>2
  <2>2. PICK g \in Token \cup {None} : g = IF Accepts(t) THEN Next1(t) ELSE None
    BY <2>1
  <2>3. me' = [me EXCEPT ![p] = [me[p] EXCEPT !.pc = "answered", !.got = g]]
    BY <1>1, <2>2 DEF Serve
  <2>4. [me[p] EXCEPT !.pc = "answered", !.got = g] \in Self
    BY <1>1 DEF Self, Steps, Locked
  <2> QED BY <1>1, <2>2, <2>3, <2>4 DEF Self
<1>6. OnlyMe(p) /\ me'[p] = r /\ \A q \in Command \ {p} : me'[q] = me[q]
  <2>1. OnlyMe(p) /\ me'[p] = r
    BY <1>1, <1>5, Rewrites
  <2> QED BY <1>1, <2>1, Zenon DEF OnlyMe, TypeOK
<1>7. TypeOK'
  <2>1. LockMoves(p)
    BY <1>1, <1>3, <1>5, <1>6 DEF LockMoves, Locked
  <2> QED BY <1>1, <1>3, <1>6, <2>1, LockKept DEF TypeOK
<1>8. Mine(p)'
  <2>1. InHand(p)'
    BY <1>1, <1>5, <1>6 DEF InHand, At, Writing, Asked, Job
  <2>2. Undisturbed(p)'
    BY <1>1, <1>3, <1>5, <1>6 DEF Undisturbed, At, Writing, Saving, Asked
  <2>3. Private(p)'
    BY <1>5, <1>6 DEF Private, At, Writing, Saving, Unsaved
  <2>4. Spent(p)'
    <3>1. CASE Accepts(t)
      BY <1>2, <1>3, <1>5, <1>6, <3>1, NamesOK DEF Spent, At, Writing, Saving
    <3>2. CASE ~Accepts(t)
      BY <1>3, <1>4, <1>5, <1>6, <3>2 DEF Spent, At, Writing, Saving
    <3> QED BY <3>1, <3>2
  <2> QED BY <2>1, <2>2, <2>3, <2>4 DEF Mine
<1>9. ASSUME NEW q \in Command, q # p PROVE Mine(q)'
  <2>1. LoginOf(yml'.login) \subseteq LoginOf(yml.login) \cup {p}
    BY <1>3
  <2>2. q \notin LoginOf(yml.login) => cur'[q] = cur[q]
    BY <1>1, <1>3 DEF LoginOf, Login
  <2> QED BY <1>1, <1>3, <1>6, <1>9, <2>1, <2>2, Alone
<1>10. Sent'
  <2>1. \A u \in loose' : u.login \in doubtful'
    BY <1>3 DEF IInv, Sent
  <2>2. ASSUME NEW u \in tried, u.login \notin doubtful \cup dead'
        PROVE u.gen < cur'[u.login]
    <3>1. u \in Token /\ u.login \in Login /\ u.gen \in Nat /\ cur[u.login] \in Nat /\ cur'[u.login] \in Nat
      BY <1>1, <1>3 DEF TypeOK, Token
    <3>2. CASE u.gen < cur[u.login]
      BY <1>3, <3>1, <3>2
    <3>3. CASE \E q \in Command : At(q, "asking") /\ me[q].tok = u
      <4>1. u = t
        BY <1>1, <3>3 DEF At, TypeOK, Locked
      <4> QED BY <1>2, <1>3, <1>4, <2>2, <4>1
    <3> QED BY <1>3, <2>2, <3>2, <3>3 DEF IInv, Sent
  <2> QED BY <1>3, <2>1, <2>2 DEF Sent
<1>11. StoredLoginWorks'
  <2>1. CASE Accepts(t)
    BY <1>1, <1>2, <1>3, <1>5, <1>6, <2>1 DEF StoredLoginWorks
  <2>2. CASE ~Accepts(t)
    BY <1>3, <1>4, <2>2 DEF StoredLoginWorks
  <2> QED BY <2>1, <2>2
<1> QED BY <1>7, <1>8, <1>9, <1>10, <1>11 DEF IInv, Mine

LEMMA ServeLooseStep ==
  ASSUME IInv, NEW t \in loose, ServeLoose(t) PROVE IInv'
<1>1. TypeOK /\ t \in Token /\ t.login \in Login /\ t.login \in doubtful
  BY DEF IInv, TypeOK, Token, Sent
<1>2. /\ cur' \in [Login -> Nat] /\ dead \subseteq dead' /\ dead' \subseteq Login
      /\ \A l \in Login : cur'[l] >= cur[l] /\ (l # t.login => cur'[l] = cur[l])
      /\ loose' \subseteq loose
      /\ UNCHANGED <<yml, holder, me, keys, old, tried, doubtful, missed>>
  BY <1>1 DEF ServeLoose, Present, TypeOK, client, history
<1>3. TypeOK'
  BY <1>1, <1>2 DEF TypeOK
<1>4. ASSUME NEW q \in Command PROVE Mine(q)'
  <2>1. InHand(q) /\ Undisturbed(q) /\ Private(q) /\ Spent(q) /\ q \in Login /\ yml \in File
    BY Types DEF IInv
  <2>2. InHand(q)' /\ Undisturbed(q)'
    BY <1>2, <2>1 DEF InHand, Undisturbed, At, Writing, Saving, Asked
  <2>3. Private(q)'
    BY <1>1, <1>2, <2>1 DEF Private, At, Writing, Saving, Unsaved
  <2>4. Spent(q)'
    <3>1. At(q, "answered") \/ Saving(q, "refresh") => me[q].tok.login \in Login
      BY <2>1 DEF Undisturbed, Asked, At, File, Token
    <3> QED BY <1>1, <1>2, <2>1, <3>1 DEF Spent, At, Writing, Saving
  <2> QED BY <2>2, <2>3, <2>4 DEF Mine
<1>5. Sent'
  <2>1. \A u \in tried : u.login \in Login /\ u.gen \in Nat /\ cur[u.login] \in Nat /\ cur'[u.login] \in Nat
    BY <1>1, <1>2 DEF TypeOK, Token
  <2> QED BY <1>2, <2>1 DEF IInv, Sent, At
<1>6. StoredLoginWorks'
  <2>1. \A u \in {yml.login} \ {None} : u.login \in Login
    BY <1>1 DEF TypeOK, File, Token
  <2> QED BY <1>1, <1>2, <2>1 DEF IInv, StoredLoginWorks
<1> QED BY <1>3, <1>4, <1>5, <1>6 DEF IInv, Mine

\* What the holder of the lock puts into the file, for each of its jobs
LEMMA ChangeIs ==
  ASSUME IInv, NEW p \in Command, At(p, "rename")
  PROVE  /\ yml \in File /\ Change(p, yml) \in File /\ me[p].job \in Job /\ me[p].snap = yml
         /\ me[p].job = "refresh" =>
              /\ yml.login \in Token /\ me[p].tok = yml.login /\ me[p].got = Next1(yml.login)
              /\ me[p].got \in Token /\ Next1(yml.login).login = yml.login.login
              /\ Change(p, yml) = [yml EXCEPT !.login = Next1(yml.login)]
         /\ me[p].job = "save" =>
              /\ me[p].got = [login |-> p, gen |-> 1] /\ me[p].got \in Token /\ cur[p] = 1
              /\ Change(p, yml) = [yml EXCEPT !.login = [login |-> p, gen |-> 1]]
         /\ me[p].job = "issue" => yml.key = None /\ Change(p, yml) = [yml EXCEPT !.key = p]
         /\ me[p].job = "clear" => Change(p, yml) = [yml EXCEPT !.login = None, !.key = None]
         /\ me[p].job = "config" => Change(p, yml) = [yml EXCEPT !.notes = @ \cup {p}]
<1>1. /\ me[p] \in Self /\ yml \in File /\ InHand(p) /\ Undisturbed(p) /\ Private(p) /\ p \in Login
      /\ me[p].job \in Job /\ me[p].snap = yml
  BY Types DEF IInv, At, InHand, Writing, Undisturbed
<1>2. CASE me[p].job = "refresh"
  <2>1. yml.login # None /\ me[p].tok = yml.login /\ me[p].got = Next1(me[p].tok)
    BY <1>1, <1>2 DEF Undisturbed, Saving, Writing, At
  <2>2. yml.login \in Token
    BY <1>1, <2>1 DEF File
  <2>3. Next1(yml.login) \in Token /\ Next1(yml.login).login = yml.login.login
    BY <2>2 DEF Token, Next1
  <2>4. Change(p, yml) = [yml EXCEPT !.login = Next1(yml.login)]
    BY <1>2, <2>1 DEF Change
  <2> QED BY <1>1, <1>2, <2>1, <2>2, <2>3, <2>4 DEF File
<1>3. CASE me[p].job = "save"
  <2>1. me[p].got = [login |-> p, gen |-> 1] /\ cur[p] = 1
    BY <1>1, <1>3 DEF Private, Unsaved, Saving, Writing, At
  <2>2. me[p].got \in Token
    BY <1>1, <2>1 DEF Token
  <2>3. Change(p, yml) = [yml EXCEPT !.login = [login |-> p, gen |-> 1]]
    BY <1>3, <2>1 DEF Change
  <2> QED BY <1>1, <1>3, <2>1, <2>2, <2>3 DEF File
<1>4. CASE me[p].job = "issue"
  <2>1. yml.key = None /\ me[p].key = p
    BY <1>1, <1>4 DEF Undisturbed, Saving, Writing, At
  <2>2. Change(p, yml) = [yml EXCEPT !.key = p]
    BY <1>4, <2>1 DEF Change
  <2> QED BY <1>1, <1>4, <2>1, <2>2 DEF File
<1>5. CASE me[p].job = "clear"
  <2>1. Change(p, yml) = [yml EXCEPT !.login = None, !.key = None]
    BY <1>5 DEF Change
  <2> QED BY <1>1, <1>5, <2>1 DEF File
<1>6. CASE me[p].job = "config"
  <2>1. Change(p, yml) = [yml EXCEPT !.notes = @ \cup {p}]
    BY <1>6 DEF Change
  <2> QED BY <1>1, <1>6, <2>1 DEF File
<1> QED BY <1>1, <1>2, <1>3, <1>4, <1>5, <1>6 DEF Job

LEMMA RenameStep ==
  ASSUME IInv, NEW p \in Command, Rename(p) PROVE IInv'
<1>1. /\ TypeOK /\ me[p] \in Self /\ InHand(p) /\ Spent(p) /\ Private(p) /\ holder = p /\ p \in Login
      /\ me[p].pc = "rename" /\ me[p].snap = yml /\ yml \in File /\ NoFile \in File
      /\ yml' = Change(p, yml) /\ yml' \in File /\ me[p].job \in Job
  BY Types, ChangeIs DEF IInv, Rename, At, TypeOK, Locked
<1>0. At(p, "rename")
  BY DEF Rename
<1>2. /\ cur' = cur /\ loose' = loose /\ tried' = tried /\ doubtful' = doubtful /\ dead' = dead
      /\ keys' = keys /\ old' = old /\ holder' = None
  BY DEF Rename, Release, server
<1>13. /\ me[p].job = "refresh" => yml'.login = Next1(yml.login)
       /\ me[p].job = "save" => yml'.login = [login |-> p, gen |-> 1]
       /\ me[p].job = "clear" => yml'.login = None
       /\ me[p].job \in {"issue", "config"} => yml'.login = yml.login
       /\ (me[p].job = "refresh" => Next1(yml.login).login = yml.login.login /\ yml.login \in Token)
  <2>1. CASE me[p].job = "refresh"
    <3>1. yml' = [yml EXCEPT !.login = Next1(yml.login)]
      BY <1>0, <1>1, <2>1, ChangeIs
    <3> QED BY <1>0, <1>1, <2>1, <3>1, ChangeIs DEF File
  <2>2. CASE me[p].job = "save"
    <3>1. yml' = [yml EXCEPT !.login = [login |-> p, gen |-> 1]]
      BY <1>0, <1>1, <2>2, ChangeIs
    <3> QED BY <1>1, <2>2, <3>1 DEF File
  <2>3. CASE me[p].job = "clear"
    <3>1. yml' = [yml EXCEPT !.login = None, !.key = None]
      BY <1>0, <1>1, <2>3, ChangeIs
    <3> QED BY <1>1, <2>3, <3>1 DEF File
  <2>4. CASE me[p].job = "issue"
    <3>1. yml' = [yml EXCEPT !.key = p]
      BY <1>0, <1>1, <2>4, ChangeIs
    <3> QED BY <1>1, <2>4, <3>1 DEF File
  <2>5. CASE me[p].job = "config"
    <3>1. yml' = [yml EXCEPT !.notes = @ \cup {p}]
      BY <1>0, <1>1, <2>5, ChangeIs
    <3> QED BY <1>1, <2>5, <3>1 DEF File
  <2> QED BY <1>1, <2>1, <2>2, <2>3, <2>4, <2>5 DEF Job
<1>3. Calm(Wrote(p))
  <2>1. CASE me[p].job = "refresh"
    <3>1. me[p].got \in Token /\ me[p].job # "clear"
      BY <2>1, ChangeIs DEF Rename
    <3> QED BY <1>1, <2>1, <3>1, CalmRecords DEF Wrote
  <2>2. CASE me[p].job # "refresh" /\ Replaced(p, me[p].snap) # None
    <3>1. me[p].job = "save" /\ yml.login # None /\ yml.login \in Token
      BY <1>1, <2>2 DEF Replaced, File
    <3>2. Wrote(p) = [me[p] EXCEPT !.pc = "revoke", !.tok = yml.login, !.got = None]
      BY <1>1, <2>2 DEF Wrote
    <3> QED BY <1>1, <3>1, <3>2 DEF Calm, Self, Steps
  <2>3. CASE me[p].job # "refresh" /\ ~(Replaced(p, me[p].snap) # None)
    <3>1. Wrote(p) = Ended
      BY <2>3 DEF Wrote
    <3> QED BY <1>1, <3>1, CalmRecords
  <2> QED BY <2>1, <2>2, <2>3
<1>4. PICK r \in Self : me' = [me EXCEPT ![p] = r] /\ Calm(r)
  <2>1. Calm([Wrote(p) EXCEPT !.snap = NoFile])
    BY <1>1, <1>3 DEF Calm, Self
  <2> QED BY <2>1 DEF Rename, Calm
<1>5. OnlyMe(p) /\ me'[p] = r
  BY <1>1, <1>4, Rewrites
<1>6. missed' \subseteq Login
  <2>1. Unrevoked(p, yml) \subseteq Login
    BY <1>1 DEF Unrevoked, LoginOf, Named, File, Token, Login
  <2> QED BY <1>1, <2>1 DEF Rename, TypeOK
<1>7. Grow
  BY <1>1, <1>2, <1>6 DEF Grow, TypeOK
<1>8. TypeOK'
  <2>1. LockMoves(p)
    BY <1>1, <1>2, <1>4, <1>5 DEF LockMoves, Locked, Calm
  <2> QED BY <1>1, <1>2, <1>5, <1>6, <2>1, LockKept DEF TypeOK
<1>9. Mine(p)'
  BY <1>4, <1>5 DEF Mine, Calm, InHand, Undisturbed, Private, Spent, At, Writing, Saving, Asked,
                    Unsaved, Job
<1>10. ASSUME NEW q \in Command, q # p PROVE Mine(q)'
  <2>1. LoginOf(yml'.login) \subseteq LoginOf(yml.login) \cup {p}
    BY <1>1, <1>13, NamesOK DEF LoginOf, Job
  <2> QED BY <1>1, <1>2, <1>5, <1>10, <2>1, Alone
<1>11. Sent'
  <2>1. ~At(p, "asking") /\ \A t \in loose' : t \in loose
    BY <1>1, <1>2 DEF At
  <2> QED BY <1>2, <1>5, <1>7, <2>1, SentKept
<1>12. StoredLoginWorks'
  <2>1. CASE me[p].job = "refresh"
    <3>1. /\ yml'.login = me[p].got /\ me[p].got \in Token /\ me[p].tok = yml.login
          /\ me[p].got.login = me[p].tok.login
      BY <1>1, <2>1, <1>0, <1>13, ChangeIs
    <3>2. me[p].got.gen = cur[me[p].tok.login] \/ me[p].tok.login \in doubtful
      BY <1>1, <2>1, <3>1, NamesOK DEF Spent, Saving, Writing, At
    <3> QED BY <1>2, <3>1, <3>2 DEF StoredLoginWorks
  <2>2. CASE me[p].job = "save"
    <3>1. yml'.login = [login |-> p, gen |-> 1] /\ cur[p] = 1
      BY <1>1, <2>2, <1>0, <1>13, ChangeIs
    <3> QED BY <1>2, <3>1 DEF StoredLoginWorks
  <2>3. CASE me[p].job = "clear"
    <3>1. yml'.login = None
      BY <1>1, <2>3, <1>0, <1>13, ChangeIs
    <3> QED BY <3>1 DEF StoredLoginWorks
  <2>4. CASE me[p].job \in {"issue", "config"}
    <3>1. yml'.login = yml.login
      BY <1>1, <2>4, <1>0, <1>13, ChangeIs
    <3>2. ASSUME NEW q \in Command, me[q].pc \in {"answered", "write", "rename"}, me[q].job = "refresh"
          PROVE FALSE
      BY <1>1, <2>4, <3>2 DEF TypeOK, Locked
    <3> QED BY <1>2, <3>1, <3>2 DEF IInv, StoredLoginWorks
  <2> QED BY <1>1, <2>1, <2>2, <2>3, <2>4 DEF Job
<1> QED BY <1>8, <1>9, <1>10, <1>11, <1>12 DEF IInv, Mine

LEMMA WriteFailsStep ==
  ASSUME IInv, NEW p \in Command, WriteFails(p) PROVE IInv'
<1>1. /\ TypeOK /\ me[p] \in Self /\ InHand(p) /\ Undisturbed(p) /\ Private(p) /\ holder = p /\ p \in Login
      /\ me[p].pc \in {"write", "rename"} /\ me[p].job \in Job /\ NoFile \in File /\ yml \in File
  BY Types DEF IInv, WriteFails, At, Writing, InHand, TypeOK, Locked
<1>2. me[p].job = "refresh" => /\ me[p].got \in Token /\ me[p].tok = yml.login /\ me[p].tok \in Token
                              /\ me[p].got.login = me[p].tok.login
  BY <1>1 DEF Undisturbed, Saving, Writing, At, Next1, Token, File
<1>3. PICK r \in Self : me' = [me EXCEPT ![p] = r] /\ Calm(r)
  <2>1. CASE me[p].job = "refresh"
    <3>1. Calm(After(p, None))
      BY <1>1, <2>1, CalmRecords
    <3>2. Calm([After(p, None) EXCEPT !.snap = NoFile])
      BY <1>1, <3>1 DEF Calm, Self
    <3> QED BY <2>1, <3>2 DEF WriteFails, Calm
  <2>2. CASE me[p].job = "save"
    <3>1. me[p].got \in Token /\ me[p].got # None
      BY <1>1, <2>2, NamesOK DEF Private, Unsaved, Saving, Writing, At, Token
    <3>2. Calm([me[p] EXCEPT !.pc = "revoke", !.tok = me[p].got, !.snap = NoFile])
      BY <1>1, <2>2, <3>1 DEF Calm, Self, Steps
    <3> QED BY <2>2, <3>2 DEF WriteFails, Calm
  <2>3. CASE me[p].job \notin {"refresh", "save"}
    <3>1. me' = [me EXCEPT ![p] = Ended]
      BY <2>3 DEF WriteFails
    <3> QED BY <1>1, <3>1, CalmRecords DEF Calm
  <2> QED BY <2>1, <2>2, <2>3
<1>4. doubtful \subseteq doubtful' /\ doubtful' \subseteq Login
      /\ (me[p].job = "refresh" => me[p].tok.login \in doubtful')
  <2>1. Warned(p, None) \subseteq Login
    BY <1>1 DEF Warned, Named, Login, Self
  <2>2. CASE me[p].job = "refresh"
    <3>1. doubtful' = doubtful \cup Warned(p, None) \cup LoginOf(me[p].got)
      BY <2>2 DEF WriteFails
    <3>2. LoginOf(me[p].got) = {me[p].tok.login} /\ me[p].tok.login \in Login
      BY <1>2, <2>2, NamesOK DEF LoginOf, Token
    <3> QED BY <1>1, <2>1, <3>1, <3>2 DEF TypeOK
  <2>3. CASE me[p].job = "issue"
    <3>1. doubtful' = doubtful \cup Warned(p, None) \cup {me[p].key} /\ me[p].key = p
      BY <1>1, <2>3 DEF WriteFails, Undisturbed, Saving, Writing, At
    <3> QED BY <1>1, <2>1, <2>3, <3>1 DEF TypeOK
  <2>4. CASE me[p].job \notin {"refresh", "issue"}
    <3>1. doubtful' = doubtful \cup Warned(p, None) \cup {}
      BY <2>4 DEF WriteFails
    <3> QED BY <1>1, <2>1, <2>4, <3>1 DEF TypeOK
  <2> QED BY <2>2, <2>3, <2>4
<1>5. Grow
  BY <1>1, <1>4, Doubt DEF WriteFails, server
<1>6. /\ yml' = yml /\ cur' = cur /\ tried' = tried /\ loose' \subseteq Token
      /\ \A t \in loose' : t \in loose
      /\ holder' = IF holder = p THEN None ELSE holder
  BY <1>1 DEF WriteFails, Release, server, TypeOK
<1>7. ~At(p, "asking")
  BY <1>1 DEF At
<1> QED BY <1>3, <1>4, <1>5, <1>6, <1>7, Idle

LEMMA KillStep ==
  ASSUME IInv, NEW p \in Command, Kill(p) PROVE IInv'
<1>1. /\ TypeOK /\ me[p] \in Self /\ InHand(p) /\ Undisturbed(p) /\ yml \in File
      /\ Calm(Ended) /\ Ended \in Self
  BY Types, CalmRecords DEF IInv
<1>2. At(p, "asking") => me[p].tok = yml.login /\ yml.login \in Token
  BY <1>1 DEF Undisturbed, Asked, File, At
<1>3. Carries(p) \subseteq Login
  BY <1>1, <1>2 DEF Carries, LoginOf, Named, Self, Token, InHand, At, Login
<1>4. /\ At(p, "asking") => me[p].tok.login \in doubtful'
      /\ me[p].pc \in {"answered", "write", "rename"} /\ me[p].job = "refresh" /\ me[p].got # None
           => me[p].tok.login \in doubtful'
  <2>1. ASSUME me[p].pc \in {"answered", "write", "rename"}, me[p].job = "refresh", me[p].got # None
        PROVE me[p].got.login = me[p].tok.login
    <3>1. me[p].got = Next1(me[p].tok) /\ me[p].tok = yml.login /\ yml.login # None
      BY <1>1, <2>1 DEF Undisturbed, Asked, Saving, Writing, At
    <3> QED BY <1>1, <3>1 DEF Next1, File, Token
  <2> QED BY <2>1 DEF Kill, Carries, LoginOf
<1>5. Grow
  BY <1>1, <1>3, Doubt DEF Kill, TypeOK
<1>6. /\ yml' = yml /\ cur' = cur /\ tried' = tried /\ me' = [me EXCEPT ![p] = Ended]
      /\ holder' = IF holder = p THEN None ELSE holder
      /\ loose' \subseteq Token /\ \A t \in loose' : t \in loose \/ (t = yml.login /\ t.login \in doubtful')
  BY <1>1, <1>2, <1>4 DEF Kill, End, TypeOK
<1> QED BY <1>1, <1>4, <1>5, <1>6, Idle

LEMMA ExpireStep ==
  ASSUME IInv, Expire PROVE IInv'
<1>1. TypeOK'
  BY DEF IInv, Expire, TypeOK, client, history, File, Token
<1>2. UNCHANGED <<yml, holder, me, cur, dead, keys, loose, tried, doubtful, missed>>
  BY DEF Expire, client, history
<1>3. \A q \in Command : (InHand(q) /\ Undisturbed(q) /\ Private(q) /\ Spent(q))'
  <2>1. \A q \in Command : InHand(q) /\ Undisturbed(q) /\ Private(q) /\ Spent(q)
    BY DEF IInv
  <2>2. ASSUME NEW q \in Command PROVE InHand(q)' /\ Undisturbed(q)'
    BY <1>2, <2>1 DEF InHand, Undisturbed, At, Writing, Saving, Asked
  <2>3. ASSUME NEW q \in Command PROVE Private(q)' /\ Spent(q)'
    BY <1>2, <2>1 DEF Private, Spent, At, Writing, Saving, Unsaved
  <2> QED BY <2>2, <2>3
<1>4. Sent' /\ StoredLoginWorks'
  BY <1>2 DEF IInv, Sent, StoredLoginWorks, At
<1> QED BY <1>1, <1>3, <1>4 DEF IInv

-----------------------------------------------------------------------------
(* The invariant, and what follows from it                                  *)

LEMMA InitInv == Init => IInv
<1> SUFFICES ASSUME Init PROVE IInv
  OBVIOUS
<1>1. PICK op \in [Command -> Op] : me = [p \in Command |-> Starting(op[p])]
  BY DEF Init
<1>2. ASSUME NEW p \in Command
      PROVE  /\ me[p] \in Self /\ me[p].op \in Op
             /\ \/ me[p].pc \in {"look", "find", "device"} /\ me[p].op # "logout" /\ me[p].job = None
                \/ me[p].pc = "record" /\ me[p].job = None
                \/ me[p].pc = "lock" /\ me[p].op # "logout" /\ me[p].job = "config"
  <2>1. op[p] \in Op /\ me[p] = Starting(op[p])
    BY <1>1
  <2>2. NoFile \in File
    BY DEF NoFile, File
  <2>3. Ended \in Self
    BY <2>2 DEF Ended, Self, Steps
  <2>4. FirstStep[op[p]] = CASE op[p] = "token" -> "look"   [] op[p] = "key"    -> "find"
                             [] op[p] = "login" -> "device" [] op[p] = "logout" -> "record"
                             [] op[p] = "config" -> "lock"
    BY <2>1 DEF FirstStep, Op
  <2>5. FirstStep[op[p]] \in Steps
    BY <2>1, <2>4 DEF Op, Steps
  <2>6. /\ me[p] = [Ended EXCEPT !.op = op[p], !.pc = FirstStep[op[p]],
                                 !.job = IF op[p] = "config" THEN "config" ELSE None]
        /\ (IF op[p] = "config" THEN "config" ELSE None) \in Job \cup {None}
    BY <2>1 DEF Starting, Job
  <2>7. /\ me[p] \in Self /\ me[p].op = op[p] /\ me[p].pc = FirstStep[op[p]]
        /\ me[p].job = IF op[p] = "config" THEN "config" ELSE None
    BY <2>1, <2>3, <2>5, <2>6 DEF Self
  <2> QED BY <2>1, <2>4, <2>7 DEF Op
<1>3. yml \in File /\ yml.key = None /\ yml.login \in {None, [login |-> Before, gen |-> 1]}
  BY DEF Init, NoFile, File, Token, Login
<1>4. /\ holder = None /\ dead = {} /\ keys = {} /\ loose = {} /\ tried = {} /\ doubtful = {} /\ missed = {}
      /\ cur \in [Login -> Nat] /\ old \in [Login -> Nat]
      /\ (yml.login # None => cur[Before] = 1)
  BY DEF Init, Login
<1>5. TypeOK
  <2>1. me \in [Command -> Self]
    BY <1>1, <1>2
  <2>2. \A p \in Command : me[p].pc \notin Locked /\ holder # p
    BY <1>2, <1>4, NamesOK DEF Locked, Login
  <2> QED BY <1>3, <1>4, <2>1, <2>2 DEF TypeOK
<1>6. ASSUME NEW p \in Command PROVE InHand(p) /\ Undisturbed(p) /\ Private(p) /\ Spent(p)
  <2>1. InHand(p)
    BY <1>2, NamesOK DEF InHand, At, Writing, Asked, Job, Op
  <2>2. Undisturbed(p) /\ Spent(p)
    BY <1>2 DEF Undisturbed, Spent, At, Writing, Saving, Asked
  <2>3. Private(p)
    <3>1. p \notin LoginOf(yml.login)
      BY <1>3, NamesOK DEF LoginOf
    <3> QED BY <1>2, <1>4, <3>1 DEF Private, At, Writing, Saving, Unsaved
  <2> QED BY <2>1, <2>2, <2>3
<1>7. Sent /\ StoredLoginWorks
  BY <1>3, <1>4 DEF Sent, StoredLoginWorks
<1> QED BY <1>5, <1>6, <1>7 DEF IInv

LEMMA NextInv == IInv /\ [Next]_vars => IInv'
<1> SUFFICES ASSUME IInv, [Next]_vars PROVE IInv'
  OBVIOUS
<1>1. CASE UNCHANGED vars
  <2>1. TypeOK'
    BY <1>1 DEF IInv, TypeOK, vars, client, server, history
  <2>2. ASSUME NEW q \in Command PROVE InHand(q)' /\ Undisturbed(q)'
    BY <1>1, <2>2 DEF IInv, InHand, Undisturbed, At, Writing, Saving, Asked, vars, client, server, history
  <2>3. ASSUME NEW q \in Command PROVE Private(q)' /\ Spent(q)'
    BY <1>1, <2>3 DEF IInv, Private, Spent, At, Writing, Saving, Unsaved, vars, client, server, history
  <2>4. Sent' /\ StoredLoginWorks'
    BY <1>1 DEF IInv, Sent, StoredLoginWorks, At, vars, client, server, history
  <2> QED BY <2>1, <2>2, <2>3, <2>4 DEF IInv
<1>2. ASSUME NEW p \in Command, Find(p) \/ Record(p) \/ Look(p) \/ Delete(p) \/ ReadBack(p)
                                 \/ Revoke(p) \/ Device(p) \/ Account(p) \/ Acquire(p)
      PROVE  IInv'
  BY <1>2, FindStep, RecordStep, LookStep, DeleteStep, ReadBackStep, RevokeStep, DeviceStep,
     AccountStep, AcquireStep
<1>3. ASSUME NEW p \in Command, UnderLock(p) PROVE IInv'
  BY <1>3, HeldRefreshStep, HeldIssueStep, ReceiveStep, GiveUpStep, GiveUpKeyStep,
     ReadForWriteStep, RenameStep DEF UnderLock
<1>4. ASSUME NEW p \in Command, Serve(p) \/ Post(p) \/ Kill(p) \/ WriteFails(p) PROVE IInv'
  BY <1>4, ServeStep, PostStep, KillStep, WriteFailsStep
<1>5. ASSUME NEW t \in loose, ServeLoose(t) PROVE IInv'
  BY <1>5, ServeLooseStep
<1> QED BY <1>1, <1>2, <1>3, <1>4, <1>5, ExpireStep DEF Next, Work, Fault

LEMMA Inductive == Spec => []IInv
BY InitInv, NextInv, PTL DEF Spec

\* The types of the login model; the lock is held by whoever is past it.
THEOREM TypeCorrect == Spec => []TypeOK
<1>1. IInv => TypeOK
  BY DEF IInv
<1> QED BY Inductive, <1>1, PTL

\* Unless an answer was lost or the login revoked, the refresh token in
\* api.yml is the one the server accepts, or is about to be replaced by it
\* (ensureFreshAccessToken, saveSession).
THEOREM LoginStaysUsable == Spec => []StoredLoginWorks
<1>1. IInv => StoredLoginWorks
  BY DEF IInv
<1> QED BY Inductive, <1>1, PTL

\* A token is sent by HeldRefresh only.
LEMMA OnlyRefreshAsks ==
  ASSUME IInv, [Next]_vars, NEW p \in Command, ~At(p, "asking"), At(p, "asking")'
  PROVE  HeldRefresh(p)
<1>0. me \in [Command -> Self] /\ me[p].pc # "asking" /\ me'[p].pc = "asking"
  BY DEF IInv, TypeOK, At
<1>1. CASE UNCHANGED me
  BY <1>0, <1>1
<1>2. ASSUME NEW q \in Command, NEW r, r.pc # "asking", me' = [me EXCEPT ![q] = r]
      PROVE FALSE
  <2>1. CASE p = q
    BY <1>0, <1>2, <2>1
  <2>2. CASE p # q
    BY <1>0, <1>2, <2>2
  <2> QED BY <2>1, <2>2
<1>3. ASSUME NEW q \in Command, NEW x \in Steps \ {"asking"}, Move(q, x) PROVE FALSE
  BY <1>0, <1>3 DEF Move, Self
<1>4. ASSUME NEW q \in Command, End(q) PROVE FALSE
  BY <1>2, <1>4 DEF End, Ended
<1>5. ASSUME NEW q \in Command, NEW job, NEW t PROVE Queue(q, job, t).pc # "asking"
  BY <1>0 DEF Queue, Self
<1>6. ASSUME NEW q \in Command, NEW t \in Token \cup {None} PROVE After(q, t).pc # "asking"
  BY AfterIs
<1>7. yml \in File /\ None \in Token \cup {None} /\ yml.login \in Token \cup {None}
  BY DEF IInv, TypeOK, File
<1>8. ASSUME NEW q \in Command, Find(q) \/ Delete(q) \/ Acquire(q) PROVE FALSE
  BY <1>3, <1>4, <1>8 DEF Find, Delete, Acquire, Steps, Locked
<1>9. ASSUME NEW q \in Command, Record(q) \/ ReadBack(q) \/ Account(q) PROVE FALSE
  <2>1. CASE Record(q) \/ Account(q)
    BY <1>0, <1>2, <1>5, <2>1 DEF Record, Account, Self
  <2>2. CASE ReadBack(q)
    <3>1. \/ me' = [me EXCEPT ![q] = Queue(q, "clear", None)]
          \/ me' = [me EXCEPT ![q] = [me[q] EXCEPT !.pc = "revoke", !.tok = yml.login]]
      BY <2>2 DEF ReadBack
    <3>2. [me[q] EXCEPT !.pc = "revoke", !.tok = yml.login].pc # "asking"
      BY <1>0 DEF Self
    <3> QED BY <1>2, <1>5, <3>1, <3>2
  <2> QED BY <1>9, <2>1, <2>2
<1>10. ASSUME NEW q \in Command, Look(q) PROVE FALSE
  BY <1>2, <1>5, <1>6, <1>7, <1>10 DEF Look
<1>11. ASSUME NEW q \in Command, Revoke(q) PROVE FALSE
  <2>1. me' = [me EXCEPT ![q] = Queue(q, "clear", me[q].tok)] \/ me' = [me EXCEPT ![q] = Ended]
    BY <1>11 DEF Revoke
  <2> QED BY <1>2, <1>5, <2>1 DEF Ended
<1>12. ASSUME NEW q \in Command, Device(q) PROVE FALSE
  BY <1>0, <1>4, <1>12 DEF Device, Self
<1>13. ASSUME NEW q \in Command, HeldRefresh(q), p # q PROVE FALSE
  <2>1. \E r : me' = [me EXCEPT ![q] = r]
    BY <1>13 DEF HeldRefresh
  <2> QED BY <1>0, <1>13, <2>1
<1>14. ASSUME NEW q \in Command, HeldIssue(q) \/ Post(q) \/ GiveUpKey(q) PROVE FALSE
  BY <1>0, <1>3, <1>4, <1>14 DEF HeldIssue, Post, GiveUpKey, Steps, Locked, Self
<1>15. ASSUME NEW q \in Command, Receive(q) \/ GiveUp(q) PROVE FALSE
  BY <1>2, <1>3, <1>6, <1>7, <1>15 DEF Receive, GiveUp, Steps, Locked
<1>16. ASSUME NEW q \in Command, Serve(q) \/ ReadForWrite(q) PROVE FALSE
  BY <1>0, <1>16 DEF Serve, ReadForWrite, Self
<1>17. ASSUME NEW q \in Command, Rename(q) PROVE FALSE
  <2>1. /\ me' = [me EXCEPT ![q] = [Wrote(q) EXCEPT !.snap = NoFile]]
        /\ At(q, "rename") /\ me[q] \in Self /\ Ended.pc = "done"
    BY <1>0, <1>17 DEF Rename, Ended
  <2>2. Wrote(q).pc # "asking" /\ [Wrote(q) EXCEPT !.snap = NoFile].pc = Wrote(q).pc
    <3>1. CASE me[q].job = "refresh"
      <4>1. me[q].got \in Token /\ Wrote(q) = After(q, me[q].got)
        BY <2>1, <3>1, ChangeIs DEF Wrote
      <4>2. After(q, me[q].got) \in Self /\ After(q, me[q].got).pc # "asking"
        BY <4>1, <1>6, AfterIs
      <4> QED BY <4>1, <4>2 DEF Self
    <3>2. CASE me[q].job # "refresh"
      BY <2>1, <3>2 DEF Wrote, Self, Ended
    <3> QED BY <3>1, <3>2
  <2> QED BY <1>2, <2>1, <2>2
<1>18. ASSUME NEW q \in Command, WriteFails(q) PROVE FALSE
  <2>1. After(q, None) \in Self /\ After(q, None).pc # "asking" /\ me[q] \in Self
    BY <1>0, <1>6, AfterIs
  <2>2. \/ me' = [me EXCEPT ![q] = [After(q, None) EXCEPT !.snap = NoFile]]
        \/ me' = [me EXCEPT ![q] = [me[q] EXCEPT !.pc = "revoke", !.tok = me[q].got, !.snap = NoFile]]
        \/ me' = [me EXCEPT ![q] = Ended]
    BY <1>18 DEF WriteFails
  <2>3. CASE me' = [me EXCEPT ![q] = Ended]
    BY <1>2, <2>3 DEF Ended
  <2>4. [After(q, None) EXCEPT !.snap = NoFile].pc = After(q, None).pc
    BY <2>1 DEF Self
  <2>5. [me[q] EXCEPT !.pc = "revoke", !.tok = me[q].got, !.snap = NoFile].pc = "revoke"
    BY <2>1 DEF Self
  <2> QED BY <1>2, <2>1, <2>2, <2>3, <2>4, <2>5
<1>19. ASSUME NEW q \in Command, Kill(q) PROVE FALSE
  BY <1>4, <1>19 DEF Kill
<1>20. CASE Expire \/ \E t \in loose : ServeLoose(t)
  BY <1>1, <1>20 DEF Expire, ServeLoose, client
<1>21. CASE UNCHANGED vars
  BY <1>1, <1>21 DEF vars, client
<1> QED
  BY <1>8, <1>9, <1>10, <1>11, <1>12, <1>13, <1>14, <1>15, <1>16, <1>17, <1>18, <1>19, <1>20, <1>21
  DEF Next, Work, Fault, UnderLock

\* No refresh token is sent twice, by any two commands, unless an answer was
\* lost or the login revoked (session.ts:25).
THEOREM TokenSentOnce == Spec => PresentedOnce
<1> DEFINE Once(p) == ~At(p, "asking") /\ At(p, "asking")' =>
                 LET t == me'[p].tok IN t \notin tried \/ t.login \in doubtful \cup dead
<1>1. IInv /\ [Next]_vars => [\A p \in Command : Once(p)]_vars
  <2> SUFFICES ASSUME IInv, [Next]_vars, NEW p \in Command, ~At(p, "asking"), At(p, "asking")'
               PROVE  me'[p].tok \notin tried \/ me'[p].tok.login \in doubtful \cup dead
    OBVIOUS
  <2>1. HeldRefresh(p)
    BY OnlyRefreshAsks
  <2>2. me \in [Command -> Self] /\ yml \in File /\ TypeOK
    BY DEF IInv, TypeOK
  <2>3. /\ yml.login # None /\ me'[p].tok = yml.login /\ me[p].pc = "held" /\ holder = p
    <3>1. ASSUME yml.login = None \/ Fresh(yml.login) PROVE FALSE
      <4>1. me' = [me EXCEPT ![p] = After(p, yml.login)]
        BY <2>1, <3>1 DEF HeldRefresh
      <4>2. After(p, yml.login).pc # "asking"
        BY <2>2, AfterIs DEF File
      <4> QED BY <2>2, <4>1, <4>2 DEF At
    <3> QED BY <2>1, <2>2, <3>1 DEF HeldRefresh, At, TypeOK, Locked, Self
  <2>4. ASSUME yml.login \in tried, yml.login.login \notin doubtful \cup dead PROVE FALSE
    <3>1. ASSUME NEW q \in Command, me[q].pc \in {"asking", "answered", "write", "rename"} PROVE FALSE
      BY <2>2, <2>3, <3>1 DEF TypeOK, Locked
    <3>2. yml.login.gen = cur[yml.login.login]
      BY <2>3, <2>4, <3>1 DEF IInv, StoredLoginWorks
    <3>3. yml.login.gen < cur[yml.login.login]
      BY <2>4, <3>1 DEF IInv, Sent, At
    <3>4. yml.login.gen \in Nat
      BY <2>2, <2>3 DEF File, Token
    <3> QED BY <3>2, <3>3, <3>4
  <2> QED BY <2>3, <2>4
<1> QED BY Inductive, <1>1, PTL DEF Spec, PresentedOnce

\* The file goes through whole changes of one part each: no command that
\* writes undoes what another one wrote (rewriteApiYmlLocked).
THEOREM OnePart == Spec => OnePartAtATime
<1>1. Init => AtomicFile!Init
  <2> SUFFICES ASSUME Init PROVE AtomicFile!Init
    OBVIOUS
  <2>1. AtomicFile!Token = Token
    BY DEF AtomicFile!Token, Token
  <2>2. yml.login \in Token \cup {None} /\ yml = [login |-> yml.login, key |-> None, notes |-> {}]
    BY DEF Init, NoFile, Token, Login
  <2> QED BY <2>1, <2>2 DEF AtomicFile!Init
<1>2. IInv /\ [Next]_vars => [AtomicFile!Next]_yml
  <2> SUFFICES ASSUME IInv, Next, yml' # yml PROVE AtomicFile!Next
    BY DEF vars, client
  <2>1. PICK p \in Command : Rename(p)
    BY DEF Next, Work, Fault, UnderLock, Find, Record, Look, Delete, ReadBack, Revoke, Device, Account,
           Acquire, HeldRefresh, HeldIssue, Serve, ServeLoose, Receive, GiveUp, Post, GiveUpKey,
           ReadForWrite, WriteFails, Expire, Kill, client
  <2>2. At(p, "rename") /\ me[p].snap = yml /\ yml' = Change(p, yml) /\ me[p].job \in Job /\ p \in Login
    BY <2>1, ChangeIs, Types DEF Rename, IInv
  <2>3. CASE me[p].job = "refresh"
    <3>1. yml' = [yml EXCEPT !.login = Next1(yml.login)] /\ yml.login \in Token /\ yml \in File
      BY <2>2, <2>3, ChangeIs
    <3>2. yml' = [yml EXCEPT !.login.gen = @ + 1] /\ yml.login # None
      BY <3>1, NamesOK DEF Next1, File, Token
    <3> QED BY <3>2 DEF AtomicFile!Next, AtomicFile!Renew
  <2>4. CASE me[p].job = "save"
    <3>1. AtomicFile!SignIn(p)
      BY <2>2, <2>4, ChangeIs DEF AtomicFile!SignIn
    <3> QED BY <2>2, <3>1 DEF AtomicFile!Next
  <2>5. CASE me[p].job = "issue"
    <3>1. AtomicFile!SaveKey(p)
      BY <2>2, <2>5, ChangeIs DEF AtomicFile!SaveKey
    <3> QED BY <2>2, <3>1 DEF AtomicFile!Next
  <2>6. CASE me[p].job = "clear"
    <3>1. AtomicFile!SignOut
      BY <2>2, <2>6, ChangeIs DEF AtomicFile!SignOut
    <3> QED BY <3>1 DEF AtomicFile!Next
  <2>7. CASE me[p].job = "config"
    <3>1. AtomicFile!Write(p)
      BY <2>2, <2>7, ChangeIs DEF AtomicFile!Write
    <3> QED BY <2>2, <3>1 DEF AtomicFile!Next
  <2> QED BY <2>2, <2>3, <2>4, <2>5, <2>6, <2>7 DEF Job
<1> QED BY Inductive, <1>1, <1>2, PTL DEF Spec, OnePartAtATime, AtomicFile!Spec
=============================================================================
