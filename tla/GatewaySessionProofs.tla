------------------------ MODULE GatewaySessionProofs ------------------------
(***************************************************************************)
(* For every set of clients and connections and any number of messages:    *)
(* the types of the gateway's chat sessions, that a Session has one        *)
(* listener, and that its turns are serial (SessionTurns).                 *)
(***************************************************************************)
EXTENDS GatewaySession, TLAPS

\* The turns of IInv, apart from the rest: most actions change one record of `turn`.
Sound(t) ==
  /\ t \in TurnState
  /\ t.stage \in {"asked", "handling"} \cup Running => t.by \in Conn
  /\ t.stage \in Running => t.session \in Turn
  /\ t.stage = "unsent" => t.by = None
  /\ t.stage \in {"unsent", "asked", "handling", "llm", "tool"} => t.end = None
  /\ t.stage = "closing" => t.end # None

TurnsSound == turn \in [Turn -> TurnState] /\ \A n \in Turn : Sound(turn[n])

\* Everything else of IInv but the authors of the frames.
RestOK ==
  /\ link \in [Conn -> Links]
  /\ inbox \in [Conn -> Seq(Frame)]
  /\ outbox \in [Conn -> Seq(Reply)]
  /\ attached \in [Conn -> Turn \cup {None}]
  /\ entry \in [session : Turn, listener : Conn, stale : BOOLEAN] \cup {None}
  /\ hears \in [Turn -> SUBSET Conn]
  /\ flag \in BOOLEAN
  /\ chat \in [Client -> Chat]
  /\ \A c \in Client : InChat(c) => chat[c].ws \in Conn /\ chat[c].turn \in Turn

FramesOK ==
  \A k \in Conn : \A i \in DOMAIN inbox[k] : inbox[k][i].kind = "send" =>
    /\ turn[inbox[k][i].turn].by = k /\ turn[inbox[k][i].turn].stage = "asked"
    /\ \A j \in DOMAIN inbox[k] : inbox[k][j].turn = inbox[k][i].turn => i = j

\* IInv in the three parts that the proofs take apart.
LEMMA Parts == IInv <=> TurnsSound /\ RestOK /\ FramesOK
  BY DEF IInv, TypeOK, TurnsSound, RestOK, FramesOK, Sound

\* Nothing is sent or heard before the first connection.
LEMMA InitInv == Init => IInv
<1> SUFFICES ASSUME Init PROVE TurnsSound /\ RestOK /\ FramesOK
  BY Parts
<1>1. TurnsSound
  BY ClientsOK DEF Init, TurnsSound, Sound, TurnState, Unsent, Stages, Running, Signals, Outcome
<1>2. RestOK
  <2>1. AtPrompt \in Chat /\ AtPrompt.step = "idle"
    BY DEF AtPrompt, Chat, ChatSteps
  <2>2. chat \in [Client -> Chat] /\ \A c \in Client : ~InChat(c)
    BY <2>1 DEF Init, InChat
  <2>3. inbox \in [Conn -> Seq(Frame)] /\ outbox \in [Conn -> Seq(Reply)]
    BY DEF Init
  <2> QED BY <2>2, <2>3 DEF Init, RestOK, Links
<1>3. FramesOK
  BY DEF Init, FramesOK
<1> QED BY <1>1, <1>2, <1>3

-----------------------------------------------------------------------------
(* What the helpers return                                                  *)

\* The gateway sends replies, to any set of connections.
LEMMA SentType ==
  ASSUME NEW box \in [Conn -> Seq(Reply)], NEW ks, NEW f \in Reply
  PROVE  Sent(box, ks, f) \in [Conn -> Seq(Reply)]
  BY DEF Sent

\* A turn that is over is sound, whatever it was before.
LEMMA OverSound ==
  ASSUME NEW t, Sound(t), NEW kind \in Outcome \cup {None}
  PROVE  Sound(Over(t, kind)) /\ Over(t, kind).by = t.by /\ Over(t, kind).stage = "over"
  BY DEF Sound, Over, TurnState, Stages, Running, Signals, Outcome

\* What a step leaves of a turn whose frame may be on its way.
Kept(n) == turn'[n].by = turn[n].by /\ (turn[n].stage = "asked" => turn'[n].stage = "asked")

\* An abort changes what no other part of the invariant speaks of.
LEMMA AbortSound ==
  ASSUME TurnsSound, NEW s, AbortSession(s), flag \in BOOLEAN
  PROVE  TurnsSound' /\ flag' \in BOOLEAN /\ \A n \in Turn : Kept(n)
<1>1. CASE UNCHANGED <<turn, flag>>
  BY <1>1 DEF TurnsSound, Sound, Kept
<1>2. CASE turn' = Aborted(s) /\ flag' = TRUE
  <2>1. ASSUME NEW n \in Turn PROVE  /\ Sound(Aborted(s)[n]) /\ Aborted(s)[n].by = turn[n].by
                                  /\ Aborted(s)[n].stage = turn[n].stage
    BY DEF Aborted, Sound, TurnsSound, TurnState, Signals, Stages, Running, IsRunning
  <2>2. Aborted(s) \in [Turn -> TurnState]
    BY <2>1 DEF Sound, Aborted
  <2> QED BY <1>2, <2>1, <2>2 DEF TurnsSound, Sound, Kept
<1> QED BY <1>1, <1>2 DEF AbortSession

\* One turn is replaced by a sound one of the same caller.
LEMMA OneTurn ==
  ASSUME TurnsSound, NEW n \in Turn, NEW t, Sound(t), turn' = [turn EXCEPT ![n] = t]
  PROVE  /\ TurnsSound'
         /\ t.by = turn[n].by /\ turn[n].stage # "asked" => \A m \in Turn : Kept(m)
  BY DEF TurnsSound, Sound, Kept

\* What is left of a queue is a part of it, in its order.
LEMMA LeftOver ==
  ASSUME NEW q \in Seq(Frame), NEW r, r \in {q, Tail(q), <<>>}, q = <<>> => r = <<>>
  PROVE  /\ DOMAIN r \subseteq Nat
         /\ \E d \in {0, 1} : \A i \in DOMAIN r : i + d \in DOMAIN q /\ r[i] = q[i + d]
<1>1. CASE r = q
  BY <1>1
<1>2. CASE r = <<>>
  BY <1>2
<1>3. CASE r = Tail(q) /\ q # <<>>
  <2>1. DOMAIN r = 1..(Len(q) - 1) /\ DOMAIN q = 1..Len(q) /\ Len(q) \in Nat
    BY <1>3
  <2>2. \A i \in DOMAIN r : i + 1 \in DOMAIN q /\ r[i] = q[i + 1]
    BY <1>3, <2>1
  <2> QED BY <2>1, <2>2
<1> QED BY <1>1, <1>2, <1>3

\* Frames keep their authors when they are read and when other turns change.
LEMMA FramesKept ==
  ASSUME FramesOK, RestOK, \A n \in Turn : Kept(n),
         \A k \in Conn : inbox'[k] \in {inbox[k], Tail(inbox[k]), <<>>},
         \A k \in Conn : inbox[k] = <<>> => inbox'[k] = <<>>
  PROVE  FramesOK'
<1> SUFFICES ASSUME NEW k \in Conn, NEW i \in DOMAIN inbox'[k], inbox'[k][i].kind = "send"
             PROVE  /\ turn'[inbox'[k][i].turn].by = k /\ turn'[inbox'[k][i].turn].stage = "asked"
                    /\ \A j \in DOMAIN inbox'[k] : inbox'[k][j].turn = inbox'[k][i].turn => i = j
  BY DEF FramesOK
<1>0. inbox[k] \in Seq(Frame)
  BY DEF RestOK
<1>a. PICK r : r = inbox'[k]
  OBVIOUS
<1>b. r \in {inbox[k], Tail(inbox[k]), <<>>} /\ (inbox[k] = <<>> => r = <<>>)
  BY <1>a
<1>2. /\ DOMAIN r \subseteq Nat
      /\ \E d \in {0, 1} : \A j \in DOMAIN r : j + d \in DOMAIN inbox[k] /\ r[j] = inbox[k][j + d]
  BY <1>0, <1>b, LeftOver
<1>1. PICK d \in {0, 1} : \A j \in DOMAIN inbox'[k] : j + d \in DOMAIN inbox[k] /\ inbox'[k][j] = inbox[k][j + d]
  BY <1>a, <1>2
<1>3. inbox[k][i + d] \in Frame /\ inbox[k][i + d].turn \in Turn
  BY <1>0, <1>1 DEF Frame
<1>4. turn[inbox[k][i + d].turn].by = k /\ turn[inbox[k][i + d].turn].stage = "asked"
  BY <1>1 DEF FramesOK
<1>5. \A j \in DOMAIN inbox'[k] : inbox[k][j + d].turn = inbox[k][i + d].turn => i + d = j + d
  BY <1>1 DEF FramesOK
<1> QED BY <1>a, <1>1, <1>2, <1>3, <1>4, <1>5 DEF Kept

-----------------------------------------------------------------------------
(* Every step keeps the invariant                                           *)

\* A step of the driver of turn n replaces its record and may tell its listeners.
LEMMA DriverKeeps == ASSUME IInv, NEW n \in Turn, DriverStep(n) PROVE IInv'
<1>0. turn[n].stage # "asked"
  BY DEF DriverStep, ModelAnswers, ModelCallsTools, ModelFails, ModelIsCut, ReaderCancelled, ToolsDone
<1>1. TurnsSound /\ RestOK /\ FramesOK /\ Sound(turn[n])
  BY Parts DEF TurnsSound
<1>2. ASSUME NEW kind \in Outcome, Finish(n, kind)
      PROVE  /\ TurnsSound' /\ \A m \in Turn : Kept(m)
             /\ outbox' \in [Conn -> Seq(Reply)]
  <2>1. Sound(Over(turn[n], kind)) /\ Over(turn[n], kind).by = turn[n].by
    BY <1>1, OverSound
  <2>2. turn' = [turn EXCEPT ![n] = Over(turn[n], kind)]
    BY <1>2 DEF Finish
  <2>3. TurnsSound' /\ \A m \in Turn : Kept(m)
    BY <1>1, <1>0, <2>1, <2>2, OneTurn
  <2>5. Msg(kind, n) \in Reply
    BY DEF Msg, Reply
  <2>6. outbox' \in [Conn -> Seq(Reply)]
    BY <1>1, <1>2, <2>5, SentType DEF Finish, Emit, RestOK
  <2> QED BY <2>3, <2>6
<1>3. Settled(n) \in Outcome /\ "error" \in Outcome /\ "aborted" \in Outcome
  BY DEF Settled, Outcome
<1>4. ASSUME NEW t, Sound(t), t.by = turn[n].by, turn' = [turn EXCEPT ![n] = t]
      PROVE  TurnsSound' /\ \A m \in Turn : Kept(m)
  BY <1>0, <1>1, <1>4, OneTurn
<1>5. /\ TurnsSound' /\ \A m \in Turn : Kept(m)
      /\ outbox' \in [Conn -> Seq(Reply)]
  <2>1. CASE ModelAnswers(n)
    BY <2>1, <1>2, <1>3 DEF ModelAnswers
  <2>2. CASE ModelCallsTools(n)
    <3>1. PICK t : t = [turn[n] EXCEPT !.stage = "tool", !.signal = "live"]
      OBVIOUS
    <3>2. Sound(t) /\ t.by = turn[n].by
      BY <1>1, <2>2, <3>1 DEF ModelCallsTools, Sound, TurnState, Stages, Running, Signals
    <3>3. turn' = [turn EXCEPT ![n] = t]
      BY <2>2, <3>1 DEF ModelCallsTools
    <3> QED BY <1>1, <1>4, <2>2, <3>2, <3>3 DEF ModelCallsTools, RestOK
  <2>3. CASE ModelFails(n)
    BY <2>3, <1>2, <1>3 DEF ModelFails
  <2>4. CASE ModelIsCut(n)
    <3>1. PICK t : t = [turn[n] EXCEPT !.stage = "closing", !.end = Settled(n)]
      OBVIOUS
    <3>2. Sound(t) /\ t.by = turn[n].by
      BY <1>1, <1>3, <2>4, <3>1, ClientsOK
      DEF ModelIsCut, Sound, TurnState, Stages, Running, Signals
    <3>3. turn' = [turn EXCEPT ![n] = t]
      BY <2>4, <3>1 DEF ModelIsCut
    <3>4. Msg(Settled(n), n) \in Reply
      BY <1>3 DEF Msg, Reply
    <3>5. outbox' \in [Conn -> Seq(Reply)]
      BY <1>1, <2>4, <3>4, SentType DEF ModelIsCut, Emit, RestOK
    <3> QED BY <1>4, <3>2, <3>3, <3>5
  <2>5. CASE ReaderCancelled(n)
    <3>1. turn[n].end \in Outcome \cup {None}
      BY <1>1 DEF Sound, TurnState
    <3>2. Sound(Over(turn[n], turn[n].end)) /\ Over(turn[n], turn[n].end).by = turn[n].by
      BY <1>1, <3>1, OverSound
    <3> QED BY <1>1, <1>4, <2>5, <3>2 DEF ReaderCancelled, RestOK
  <2>6. CASE ToolsDone(n)
    <3>1. CASE flag
      BY <2>6, <3>1, <1>2, <1>3 DEF ToolsDone
    <3>2. CASE ~flag
      <4>1. PICK t : t = [turn[n] EXCEPT !.stage = "llm"]
        OBVIOUS
      <4>2. Sound(t) /\ t.by = turn[n].by
        BY <1>1, <2>6, <4>1 DEF ToolsDone, Sound, TurnState, Stages, Running
      <4>3. turn' = [turn EXCEPT ![n] = t]
        BY <2>6, <3>2, <4>1 DEF ToolsDone
      <4> QED BY <1>1, <1>4, <2>6, <3>2, <4>2, <4>3 DEF ToolsDone, RestOK
    <3> QED BY <3>1, <3>2
  <2> QED BY <2>1, <2>2, <2>3, <2>4, <2>5, <2>6 DEF DriverStep
<1>6. UNCHANGED <<link, inbox, attached, entry, hears, flag, chat>>
  BY DEF DriverStep, ModelAnswers, ModelCallsTools, ModelFails, ModelIsCut, ReaderCancelled, ToolsDone
<1>7. RestOK'
  BY <1>1, <1>5, <1>6 DEF RestOK, InChat
<1>8. FramesOK'
  BY <1>1, <1>5, <1>6, FramesKept
<1> QED BY <1>5, <1>7, <1>8, Parts DEF IInv, TypeOK, TurnsSound, RestOK, FramesOK, Sound

\* An answer and the record of one turn, from a handler that still awaits.
LEMMA RefuseKeeps == ASSUME IInv, NEW n \in Turn, RefuseSend(n) PROVE IInv'
<1>1. TurnsSound /\ RestOK /\ FramesOK /\ Sound(turn[n])
  BY Parts DEF TurnsSound
<1>2. PICK t : t = [turn[n] EXCEPT !.stage = "over"]
  OBVIOUS
<1>3. Sound(t) /\ t.by = turn[n].by
  BY <1>1, <1>2 DEF Sound, TurnState, Stages, Running
<1>4. turn' = [turn EXCEPT ![n] = t]
  BY <1>2 DEF RefuseSend
<1>5. TurnsSound' /\ \A m \in Turn : Kept(m)
  BY <1>1, <1>3, <1>4, OneTurn DEF RefuseSend
<1>6. outbox' \in [Conn -> Seq(Reply)]
  <2>1. Msg("refused", n) \in Reply
    BY DEF Msg, Reply
  <2> QED BY <1>1, <2>1, SentType DEF RefuseSend, Answer, RestOK
<1>7. RestOK'
  BY <1>1, <1>6 DEF RestOK, RefuseSend, InChat
<1>8. FramesOK'
  BY <1>1, <1>5, FramesKept DEF RefuseSend
<1> QED BY <1>5, <1>7, <1>8 DEF IInv, TypeOK, TurnsSound, RestOK, FramesOK, Sound

\* Reading a frame: the head of a typed queue and what is left of it.
LEMMA ArrivesKeeps ==
  ASSUME RestOK, NEW k \in Conn, NEW kind, Arrives(k, kind)
  PROVE  /\ Head(inbox[k]) \in Frame /\ Head(inbox[k]).kind = kind
         /\ 1 \in DOMAIN inbox[k] /\ Head(inbox[k]) = inbox[k][1]
         /\ inbox' \in [Conn -> Seq(Frame)]
         /\ \A j \in Conn : inbox'[j] \in {inbox[j], Tail(inbox[j]), <<>>}
         /\ \A j \in Conn : inbox[j] = <<>> => inbox'[j] = <<>>
<1>1. inbox[k] \in Seq(Frame) /\ inbox[k] # <<>>
  BY DEF RestOK, Arrives
<1>2. Tail(inbox[k]) \in Seq(Frame) /\ Head(inbox[k]) \in Frame /\ Head(inbox[k]) = inbox[k][1]
      /\ 1 \in DOMAIN inbox[k]
  BY <1>1
<1> QED BY <1>1, <1>2 DEF RestOK, Arrives

\* The turn of a frame is the one its connection asked for.
LEMMA ReceiveKeeps == ASSUME IInv, NEW k \in Conn, ReceiveSend(k) PROVE IInv'
<1>1. TurnsSound /\ RestOK /\ FramesOK /\ Arrives(k, "send")
  BY Parts DEF ReceiveSend
<1>2. PICK n : n = Head(inbox[k]).turn
  OBVIOUS
<1>3. n \in Turn /\ turn[n].by = k /\ turn[n].stage = "asked" /\ Sound(turn[n])
  BY <1>1, <1>2, ArrivesKeeps DEF FramesOK, Frame, TurnsSound
<1>4. PICK u : /\ u \in {"over", "handling"} /\ turn' = [turn EXCEPT ![n].stage = u]
               /\ outbox' = outbox \/ outbox' = Sent(outbox, {k}, Msg("refused", n))
  BY <1>2 DEF ReceiveSend, Answer
<1>5. PICK t : t = [turn[n] EXCEPT !.stage = u]
  OBVIOUS
<1>6. Sound(t) /\ t.by = k
  BY <1>3, <1>4, <1>5 DEF Sound, TurnState, Stages, Running
<1>7. turn' = [turn EXCEPT ![n] = t]
  BY <1>4, <1>5
<1>8. TurnsSound'
  BY <1>1, <1>3, <1>6, <1>7, OneTurn
<1>9. RestOK'
  <2>1. Msg("refused", n) \in Reply
    BY <1>3 DEF Msg, Reply
  <2>2. outbox' \in [Conn -> Seq(Reply)]
    <3>1. outbox \in [Conn -> Seq(Reply)]
      BY <1>1 DEF RestOK
    <3>2. Sent(outbox, {k}, Msg("refused", n)) \in [Conn -> Seq(Reply)]
      BY <2>1, <3>1, SentType
    <3> QED BY <1>4, <3>1, <3>2
  <2> QED BY <1>1, <2>2, ArrivesKeeps DEF RestOK, ReceiveSend, InChat
<1>10. FramesOK'
  <2> SUFFICES ASSUME NEW j \in Conn, NEW i \in DOMAIN inbox'[j], inbox'[j][i].kind = "send"
               PROVE  /\ turn'[inbox'[j][i].turn].by = j /\ turn'[inbox'[j][i].turn].stage = "asked"
                      /\ \A h \in DOMAIN inbox'[j] : inbox'[j][h].turn = inbox'[j][i].turn => i = h
    BY DEF FramesOK
  <2>1. inbox[j] \in Seq(Frame) /\ inbox[k] \in Seq(Frame) /\ inbox[k] # <<>>
    BY <1>1 DEF RestOK, Arrives
  <2>2. inbox' = [inbox EXCEPT ![k] = Tail(@)]
    BY <1>1 DEF Arrives
  <2>3. CASE j # k
    <3>1. inbox'[j] = inbox[j]
      BY <2>2, <2>3 DEF RestOK
    <3>2. inbox[j][i] \in Frame /\ inbox[j][i].turn \in Turn /\ inbox[j][i].turn # n
      BY <1>1, <1>3, <2>1, <2>3, <3>1 DEF FramesOK, Frame
    <3>3. turn'[inbox[j][i].turn] = turn[inbox[j][i].turn]
      BY <1>7, <3>2
    <3> QED BY <1>1, <3>1, <3>3 DEF FramesOK
  <2>4. CASE j = k
    <3>1. inbox'[j] = Tail(inbox[k])
      BY <1>1, <2>2, <2>4 DEF RestOK
    <3>2. DOMAIN inbox'[j] = 1..(Len(inbox[k]) - 1) /\ DOMAIN inbox[k] = 1..Len(inbox[k])
          /\ Len(inbox[k]) \in Nat
      BY <2>1, <3>1
    <3>3. \A h \in DOMAIN inbox'[j] : h + 1 \in DOMAIN inbox[k] /\ inbox'[j][h] = inbox[k][h + 1]
      BY <2>1, <3>1, <3>2
    <3>4. inbox[k][i + 1] \in Frame /\ inbox[k][i + 1].turn \in Turn
      BY <2>1, <3>3 DEF Frame
    <3>5. /\ turn[inbox[k][i + 1].turn].by = k /\ turn[inbox[k][i + 1].turn].stage = "asked"
          /\ \A h \in DOMAIN inbox[k] : inbox[k][h].turn = inbox[k][i + 1].turn => i + 1 = h
      BY <1>1, <3>3 DEF FramesOK
    <3>6. inbox[k][i + 1].turn # n
      <4>1. 1 \in DOMAIN inbox[k] /\ inbox[k][1].turn = n
        BY <1>1, <1>2, ArrivesKeeps
      <4>2. i + 1 # 1
        BY <3>2
      <4> QED BY <3>5, <4>1, <4>2
    <3>7. turn'[inbox[k][i + 1].turn] = turn[inbox[k][i + 1].turn]
      BY <1>7, <3>4, <3>6
    <3>8. \A h \in DOMAIN inbox'[j] : inbox'[j][h].turn = inbox'[j][i].turn => i = h
      <4> SUFFICES ASSUME NEW h \in DOMAIN inbox'[j], inbox'[j][h].turn = inbox'[j][i].turn PROVE i = h
        OBVIOUS
      <4>1. i + 1 = h + 1
        BY <3>3, <3>5
      <4> QED BY <3>2, <4>1
    <3> QED BY <2>4, <3>3, <3>5, <3>7, <3>8
  <2> QED BY <2>3, <2>4
<1> QED BY <1>8, <1>9, <1>10 DEF IInv, TypeOK, TurnsSound, RestOK, FramesOK, Sound

\* session.abort and socket.onclose.
LEMMA AbortKeeps ==
  ASSUME IInv, NEW k \in Conn, ReceiveAbort(k) \/ ServerCloses(k)
  PROVE  IInv'
<1>1. TurnsSound /\ RestOK /\ FramesOK /\ flag \in BOOLEAN
  BY Parts DEF RestOK
<1>2. AbortSession(attached[k])
  BY DEF ReceiveAbort, ServerCloses
<1>3. TurnsSound' /\ flag' \in BOOLEAN /\ \A n \in Turn : Kept(n)
  BY <1>1, <1>2, AbortSound
<1>4. /\ inbox' \in [Conn -> Seq(Frame)]
      /\ \A j \in Conn : inbox'[j] \in {inbox[j], Tail(inbox[j]), <<>>}
      /\ \A j \in Conn : inbox[j] = <<>> => inbox'[j] = <<>>
  BY <1>1, ArrivesKeeps DEF ReceiveAbort, ServerCloses, RestOK
<1>5. link' \in [Conn -> Links]
  BY <1>1 DEF ReceiveAbort, ServerCloses, RestOK, Links
<1>6. RestOK'
  BY <1>1, <1>3, <1>4, <1>5 DEF RestOK, ReceiveAbort, ServerCloses, InChat
<1>7. FramesOK'
  BY <1>1, <1>3, <1>4, FramesKept
<1> QED BY <1>3, <1>6, <1>7 DEF IInv, TypeOK, TurnsSound, RestOK, FramesOK, Sound

\* The listeners after the rest of session.send, whichever branch it takes.
LEMMA HeardType ==
  ASSUME RestOK, NEW k \in Conn, NEW n \in Turn, NEW heard \in Heard(k, n)
  PROVE  heard \in [Turn -> SUBSET Conn] /\ Stored(n) \in Turn
<1>1. Unsubscribed \in [Turn -> SUBSET Conn]
  BY DEF RestOK, Unsubscribed
<1>2. Stored(n) \in Turn
  BY DEF RestOK, Stored, Expired
<1>3. CASE Expired
  <2>1. PICK h \in {hears, Unsubscribed} : heard = [h EXCEPT ![n] = {k}]
    BY <1>3 DEF Heard
  <2>2. h \in [Turn -> SUBSET Conn]
    BY <1>1, <2>1 DEF RestOK
  <2> QED BY <1>2, <2>1, <2>2
<1>4. CASE ~Expired
  <2>1. heard = hears \/ heard = [Unsubscribed EXCEPT ![Stored(n)] = @ \cup {k}]
    BY <1>4 DEF Heard
  <2> QED BY <1>1, <1>2, <2>1 DEF RestOK
<1> QED BY <1>3, <1>4, <1>2

\* What StartTurn does to the turns: n runs in its Session or is over, the others keep
\* all but the signal of their request.
LEMMA StartTurns ==
  ASSUME TurnsSound, NEW n \in Turn, turn[n].stage = "handling", NEW s \in Turn, NEW heard,
         TellBusy(n, s, heard) \/ Begin(n, s, heard)
  PROVE  TurnsSound' /\ \A m \in Turn : Kept(m)
<1>0. Sound(turn[n])
  BY DEF TurnsSound
<1>1. CASE TellBusy(n, s, heard)
  <2>1. PICK t : t = [turn[n] EXCEPT !.stage = "over", !.session = s, !.end = "error"]
    OBVIOUS
  <2>2. Sound(t) /\ t.by = turn[n].by
    BY <1>0, <2>1 DEF Sound, TurnState, Stages, Running, Outcome
  <2>3. turn' = [turn EXCEPT ![n] = t]
    BY <1>1, <2>1 DEF TellBusy
  <2> QED BY <2>2, <2>3, OneTurn
<1>2. CASE Begin(n, s, heard)
  <2>1. ASSUME NEW m \in Turn
        PROVE  Sound(turn'[m]) /\ Kept(m)
    <3>0. Sound(turn[m])
      BY DEF TurnsSound
    <3>1. CASE m = n
      <4>1. turn'[m] = [turn[n] EXCEPT !.stage = "llm", !.session = s]
        BY <1>2, <3>1, Zenon DEF Begin
      <4> QED BY <1>0, <3>1, <4>1 DEF Sound, TurnState, Stages, Running, Kept
    <3>2. CASE m # n
      <4>1. turn'[m] \in {turn[m], [turn[m] EXCEPT !.signal = "deaf"]}
        BY <1>2, <3>2 DEF Begin
      <4> QED BY <3>0, <4>1 DEF Sound, TurnState, Stages, Running, Signals, Kept
    <3> QED BY <3>1, <3>2
  <2>2. turn' \in [Turn -> TurnState]
    <3>1. turn' = [m \in Turn |-> turn'[m]]
      BY <1>2, Zenon DEF Begin
    <3> QED BY <2>1, <3>1 DEF Sound
  <2> QED BY <2>1, <2>2 DEF TurnsSound
<1> QED BY <1>1, <1>2

\* The rest of session.send.
LEMMA StartKeeps == ASSUME IInv, NEW n \in Turn, StartTurn(n) PROVE IInv'
<1>1. TurnsSound /\ RestOK /\ FramesOK /\ Sound(turn[n])
  BY Parts DEF TurnsSound
<1>2. PICK k : k = turn[n].by
  OBVIOUS
<1>3. PICK s : s = Stored(n)
  OBVIOUS
<1>4. k \in Conn
  BY <1>1, <1>2 DEF StartTurn, Sound
<1>5. PICK heard \in Heard(k, n) : hears' = heard /\ IF Busy(s) THEN TellBusy(n, s, heard) ELSE Begin(n, s, heard)
  BY <1>2, <1>3 DEF StartTurn
<1>6. heard \in [Turn -> SUBSET Conn] /\ s \in Turn
  BY <1>1, <1>3, <1>4, HeardType
<1>7. TurnsSound' /\ \A m \in Turn : Kept(m)
  BY <1>1, <1>5, <1>6, StartTurns DEF StartTurn
<1>8. outbox' \in [Conn -> Seq(Reply)] /\ flag' \in BOOLEAN
  <2>1. Msg("ok", n) \in Reply /\ Msg("error", n) \in Reply
    BY DEF Msg, Reply, Outcome
  <2>2. outbox \in [Conn -> Seq(Reply)] /\ flag \in BOOLEAN
    BY <1>1 DEF RestOK
  <2>3. CASE TellBusy(n, s, heard)
    <3>1. Sent(outbox, heard[s], Msg("error", n)) \in [Conn -> Seq(Reply)]
      BY <2>1, <2>2, SentType
    <3> QED BY <2>1, <2>2, <2>3, <3>1, SentType DEF TellBusy
  <2>4. CASE Begin(n, s, heard)
    BY <2>1, <2>2, <2>4, SentType DEF Begin, Answer
  <2> QED BY <1>5, <2>3, <2>4
<1>9. entry' \in [session : Turn, listener : Conn, stale : BOOLEAN]
  <2>1. (IF Attaches(k) THEN k ELSE entry.listener) \in Conn
    BY <1>1, <1>4 DEF RestOK, Attaches, Expired
  <2> QED BY <1>2, <1>3, <1>6, <2>1 DEF StartTurn
<1>10. attached' \in [Conn -> Turn \cup {None}]
  BY <1>1, <1>2, <1>3, <1>6 DEF RestOK, StartTurn
<1>11. RestOK'
  BY <1>1, <1>5, <1>6, <1>8, <1>9, <1>10 DEF RestOK, StartTurn, InChat
<1>12. FramesOK'
  BY <1>1, <1>7, FramesKept DEF StartTurn
<1> QED BY <1>7, <1>11, <1>12 DEF IInv, TypeOK, TurnsSound, RestOK, FramesOK, Sound

\* A message leaves its client: a new frame in the queue of its connection.
LEMMA SubmitKeeps ==
  ASSUME IInv, NEW c \in Client, NEW k \in Conn, NEW n \in Turn, Submit(c, k, n),
         link' \in [Conn -> Links], UNCHANGED <<outbox, attached, entry, hears, flag>>
  PROVE  IInv'
<1>1. TurnsSound /\ RestOK /\ FramesOK /\ Sound(turn[n]) /\ turn[n].stage = "unsent"
  BY Parts DEF TurnsSound, Submit, NextTurn
<1>2. PICK u \in {"over", "asked"} :
        /\ turn' = [turn EXCEPT ![n].stage = u, ![n].by = k]
        /\ \/ UNCHANGED inbox
           \/ u = "asked" /\ inbox' = [inbox EXCEPT ![k] = Append(@, Msg("send", n))]
  BY DEF Submit, Ask
<1>3. PICK t : t = [turn[n] EXCEPT !.stage = u, !.by = k]
  OBVIOUS
<1>4. Sound(t) /\ t.by = k /\ t.stage = u
  BY <1>1, <1>2, <1>3, ClientsOK DEF Sound, TurnState, Stages, Running
<1>5. turn' = [turn EXCEPT ![n] = t]
  BY <1>2, <1>3
<1>6. TurnsSound'
  BY <1>1, <1>4, <1>5, OneTurn
<1>7. Msg("send", n) \in Frame
  BY DEF Msg, Frame
<1>8. inbox' \in [Conn -> Seq(Frame)]
  <2>1. inbox \in [Conn -> Seq(Frame)] /\ Append(inbox[k], Msg("send", n)) \in Seq(Frame)
    BY <1>1, <1>7 DEF RestOK
  <2> QED BY <1>2, <2>1
<1>9. chat' \in [Client -> Chat] /\ \A d \in Client : InChat(d)' => chat'[d].ws \in Conn /\ chat'[d].turn \in Turn
  <2>1. PICK x : /\ chat' = [chat EXCEPT ![c] = x]
                 /\ x = IF c \in Console THEN [step |-> "sent", ws |-> k, turn |-> n, terminal |-> "pending",
                                               interrupted |-> FALSE]
                        ELSE [chat[c] EXCEPT !.ws = k]
    BY DEF Submit
  <2>2. x \in Chat /\ (x.step \in {"sent", "waiting"} => x.ws \in Conn /\ x.turn \in Turn)
    <3>1. chat[c] \in Chat /\ (InChat(c) => chat[c].turn \in Turn)
      BY <1>1 DEF RestOK
    <3> QED BY <2>1, <3>1 DEF Chat, ChatSteps, InChat
  <2> QED BY <1>1, <2>1, <2>2 DEF RestOK, InChat
<1>10. RestOK'
  BY <1>1, <1>8, <1>9 DEF RestOK
<1>11. \A j \in Conn : \A i \in DOMAIN inbox[j] : inbox[j][i].kind = "send" =>
         /\ inbox[j][i].turn \in Turn /\ inbox[j][i].turn # n
         /\ turn'[inbox[j][i].turn] = turn[inbox[j][i].turn]
  <2> SUFFICES ASSUME NEW j \in Conn, NEW i \in DOMAIN inbox[j], inbox[j][i].kind = "send"
               PROVE  /\ inbox[j][i].turn \in Turn /\ inbox[j][i].turn # n
                      /\ turn'[inbox[j][i].turn] = turn[inbox[j][i].turn]
    OBVIOUS
  <2>1. inbox[j][i] \in Frame
    BY <1>1 DEF RestOK
  <2>2. inbox[j][i].turn \in Turn /\ inbox[j][i].turn # n
    BY <1>1, <2>1 DEF FramesOK, Frame
  <2> QED BY <1>5, <2>2
<1>12. FramesOK'
  <2> SUFFICES ASSUME NEW j \in Conn, NEW i \in DOMAIN inbox'[j], inbox'[j][i].kind = "send"
               PROVE  /\ turn'[inbox'[j][i].turn].by = j /\ turn'[inbox'[j][i].turn].stage = "asked"
                      /\ \A h \in DOMAIN inbox'[j] : inbox'[j][h].turn = inbox'[j][i].turn => i = h
    BY DEF FramesOK
  <2>1. CASE inbox'[j] = inbox[j]
    BY <1>1, <1>11, <2>1 DEF FramesOK
  <2>2. CASE j = k /\ u = "asked" /\ inbox'[j] = Append(inbox[j], Msg("send", n))
    <3>1. inbox[j] \in Seq(Frame)
      BY <1>1 DEF RestOK
    <3>2. /\ DOMAIN inbox'[j] = 1..(Len(inbox[j]) + 1) /\ Len(inbox[j]) \in Nat
          /\ DOMAIN inbox[j] = 1..Len(inbox[j])
          /\ inbox'[j][Len(inbox[j]) + 1] = Msg("send", n)
          /\ \A h \in 1..Len(inbox[j]) : inbox'[j][h] = inbox[j][h]
      BY <2>2, <3>1, <1>7
    <3>3. \A h \in DOMAIN inbox[j] : inbox[j][h].turn # n
      <4> SUFFICES ASSUME NEW h \in DOMAIN inbox[j] PROVE inbox[j][h].turn # n
        OBVIOUS
      <4>1. inbox[j][h] \in Frame
        BY <3>1
      <4> QED BY <1>11, <4>1, ClientsOK DEF Frame
    <3>4. CASE i = Len(inbox[j]) + 1
      <4>1. inbox'[j][i].turn = n /\ turn'[n] = t
        BY <1>1, <1>5, <3>2, <3>4 DEF Msg, TurnsSound
      <4>2. \A h \in DOMAIN inbox'[j] : inbox'[j][h].turn = n => h = i
        BY <3>2, <3>3, <3>4
      <4> QED BY <1>4, <2>2, <4>1, <4>2
    <3>5. CASE i \in DOMAIN inbox[j]
      <4>1. inbox'[j][i] = inbox[j][i]
        BY <3>2, <3>5
      <4>2. inbox'[j][Len(inbox[j]) + 1].turn # inbox[j][i].turn
        BY <3>2, <3>3, <3>5 DEF Msg
      <4>3. \A h \in DOMAIN inbox'[j] : inbox'[j][h].turn = inbox'[j][i].turn => i = h
        BY <1>1, <3>2, <3>5, <4>1, <4>2 DEF FramesOK
      <4> QED BY <1>1, <1>11, <3>5, <4>1, <4>3 DEF FramesOK
    <3> QED BY <3>2, <3>4, <3>5
  <2> QED BY <1>1, <1>2, <2>1, <2>2 DEF RestOK
<1> QED BY <1>6, <1>10, <1>12 DEF IInv, TypeOK, TurnsSound, RestOK, FramesOK, Sound

\* A console that reads, interrupts, returns or ends: no frame of a message changes.
LEMMA ClientKeeps ==
  ASSUME IInv, NEW c \in Client, ClientStep(c) \/ Interrupt(c) \/ Quit(c)
  PROVE  IInv'
<1>1. TurnsSound /\ RestOK /\ FramesOK
  BY Parts
<1>2. UNCHANGED <<attached, entry, hears, turn, flag>>
  BY DEF ClientStep, Accepted, Refused, TerminalEvent, IgnoredFrame, Unhandled, ClientCloses, Interrupt, Quit
<1>3. TurnsSound'
  BY <1>1, <1>2 DEF TurnsSound, Sound
<1>4. chat[c] \in Chat /\ (InChat(c) => chat[c].ws \in Conn /\ chat[c].turn \in Turn)
      /\ AtPrompt \in Chat /\ AtPrompt.step = "idle"
  BY <1>1 DEF RestOK, AtPrompt, Chat, ChatSteps
<1>5. Returned(c) \in Chat /\ Returned(c).step = "idle"
  BY <1>4 DEF Returned, AtPrompt, Chat, ChatSteps
<1>6. ASSUME NEW kinds, Reads(c, kinds)
      PROVE  outbox' \in [Conn -> Seq(Reply)]
  <2>1. PICK k : k = chat[c].ws
    OBVIOUS
  <2>2. outbox[k] # <<>> /\ outbox' = [outbox EXCEPT ![k] = Tail(@)] /\ k # None
    BY <1>6, <2>1 DEF Reads, Open
  <2>3. k \in Conn
    BY <1>4, <2>1, <2>2 DEF Chat
  <2>4. outbox[k] \in Seq(Reply) /\ outbox \in [Conn -> Seq(Reply)]
    BY <1>1, <2>3 DEF RestOK
  <2>5. Tail(outbox[k]) \in Seq(Reply)
    BY <2>2, <2>4
  <2> QED BY <2>2, <2>3, <2>4, <2>5
<1>7. ASSUME Leaves(c)
      PROVE  outbox' \in [Conn -> Seq(Reply)] /\ link' \in [Conn -> Links]
  <2>1. outbox \in [Conn -> Seq(Reply)] /\ link \in [Conn -> Links] /\ <<>> \in Seq(Reply)
    BY <1>1 DEF RestOK
  <2>2. PICK k : k = chat[c].ws
    OBVIOUS
  <2>3. outbox' = outbox \/ outbox' = [outbox EXCEPT ![k] = <<>>]
    BY <1>7, <2>2 DEF Leaves
  <2>4. link' = link \/ \E u \in {"closed", "left"} : link' = [link EXCEPT ![k] = u]
    BY <1>7, <2>2 DEF Leaves
  <2> QED BY <2>1, <2>3, <2>4 DEF Links
<1>8. CASE ~Interrupt(c)
  <2>1. UNCHANGED inbox /\ outbox' \in [Conn -> Seq(Reply)] /\ link' \in [Conn -> Links]
    BY <1>1, <1>6, <1>7, <1>8 DEF ClientStep, Accepted, Refused, TerminalEvent, IgnoredFrame, Unhandled,
       ClientCloses, Quit, RestOK
  <2>2. PICK x \in Chat : /\ chat' = [chat EXCEPT ![c] = x]
                          /\ x.step \in {"sent", "waiting"} => InChat(c) /\ x.ws = chat[c].ws /\ x.turn = chat[c].turn
    <3>1. CASE Accepted(c)
      <4>1. PICK x : x = [chat[c] EXCEPT !.step = "waiting"]
        OBVIOUS
      <4>2. x \in Chat /\ x.ws = chat[c].ws /\ x.turn = chat[c].turn
        BY <1>4, <4>1 DEF Chat, ChatSteps
      <4>3. chat' = [chat EXCEPT ![c] = x] \/ chat' = [chat EXCEPT ![c] = Returned(c)]
        BY <3>1, <4>1 DEF Accepted
      <4> QED BY <1>5, <3>1, <4>2, <4>3 DEF Accepted, InChat
    <3>2. CASE Refused(c)
      BY <1>5, <3>2 DEF Refused
    <3>3. CASE TerminalEvent(c)
      <4>1. PICK x, y : /\ x = [chat[c] EXCEPT !.terminal = "rejected"]
                        /\ y = [chat[c] EXCEPT !.terminal = "resolved"]
        OBVIOUS
      <4>2. /\ x \in Chat /\ x.ws = chat[c].ws /\ x.turn = chat[c].turn
            /\ y \in Chat /\ y.ws = chat[c].ws /\ y.turn = chat[c].turn
        BY <1>4, <4>1 DEF Chat
      <4>3. \E z \in {Returned(c), chat[c], x, y} : chat' = [chat EXCEPT ![c] = z]
        BY <3>3, <4>1 DEF TerminalEvent
      <4> QED BY <1>4, <1>5, <3>3, <4>2, <4>3 DEF TerminalEvent
    <3>4. CASE IgnoredFrame(c)
      <4>1. chat' = [chat EXCEPT ![c] = chat[c]]
        BY <1>1, <3>4 DEF IgnoredFrame, RestOK
      <4> QED BY <1>4, <4>1 DEF InChat
    <3>5. CASE Unhandled(c) \/ Quit(c) \/ ClientCloses(c)
      <4>1. PICK x, y : x = [AtPrompt EXCEPT !.step = "crashed"] /\ y = [AtPrompt EXCEPT !.step = "gone"]
        OBVIOUS
      <4>2. x \in Chat /\ x.step = "crashed" /\ y \in Chat /\ y.step = "gone"
        BY <4>1 DEF AtPrompt, Chat, ChatSteps
      <4>3. \E z \in {AtPrompt, x, y} : chat' = [chat EXCEPT ![c] = z]
        BY <3>5, <4>1 DEF Unhandled, Quit, ClientCloses
      <4> QED BY <1>4, <4>2, <4>3
    <3> QED BY <1>8, <3>1, <3>2, <3>3, <3>4, <3>5 DEF ClientStep
  <2>3. RestOK'
    BY <1>1, <1>2, <1>4, <2>1, <2>2 DEF RestOK, InChat
  <2>4. FramesOK'
    BY <1>1, <1>2, <2>1 DEF FramesOK
  <2> QED BY <1>3, <2>3, <2>4 DEF IInv, TypeOK, TurnsSound, RestOK, FramesOK, Sound
<1>9. CASE Interrupt(c)
  <2>1. PICK k \in Conn : inbox' = [inbox EXCEPT ![k] = Append(@, Msg("abort", None))]
    BY <1>4, <1>9 DEF Interrupt, Ask
  <2>2. Msg("abort", None) \in Frame /\ inbox[k] \in Seq(Frame) /\ Msg("abort", None).kind = "abort"
    BY <1>1 DEF Msg, Frame, RestOK
  <2>3. /\ DOMAIN inbox'[k] = 1..(Len(inbox[k]) + 1) /\ Len(inbox[k]) \in Nat
        /\ DOMAIN inbox[k] = 1..Len(inbox[k]) /\ inbox'[k] \in Seq(Frame)
        /\ inbox'[k][Len(inbox[k]) + 1] = Msg("abort", None)
        /\ \A h \in 1..Len(inbox[k]) : inbox'[k][h] = inbox[k][h]
    <3>1. inbox'[k] = Append(inbox[k], Msg("abort", None))
      BY <1>1, <2>1 DEF RestOK
    <3> QED BY <2>2, <3>1
  <2>4. inbox' \in [Conn -> Seq(Frame)]
    BY <1>1, <2>1, <2>3 DEF RestOK
  <2>5. RestOK'
    <3>1. PICK x : x = [chat[c] EXCEPT !.interrupted = TRUE]
      OBVIOUS
    <3>2. x \in Chat /\ x.step = chat[c].step /\ x.ws = chat[c].ws /\ x.turn = chat[c].turn
      BY <1>4, <3>1 DEF Chat
    <3>3. chat' = [chat EXCEPT ![c] = x] /\ UNCHANGED <<link, outbox>>
      BY <1>9, <3>1 DEF Interrupt
    <3> QED BY <1>1, <1>2, <2>4, <3>2, <3>3 DEF RestOK, InChat
  <2>6. FramesOK'
    <3> SUFFICES ASSUME NEW j \in Conn, NEW i \in DOMAIN inbox'[j], inbox'[j][i].kind = "send"
                 PROVE  /\ turn'[inbox'[j][i].turn].by = j /\ turn'[inbox'[j][i].turn].stage = "asked"
                        /\ \A h \in DOMAIN inbox'[j] : inbox'[j][h].turn = inbox'[j][i].turn => i = h
      BY DEF FramesOK
    <3>1. CASE j # k
      BY <1>1, <1>2, <2>1, <3>1 DEF FramesOK, RestOK
    <3>2. CASE j = k
      <4>1. i \in DOMAIN inbox[k] /\ inbox'[j][i] = inbox[k][i]
        BY <2>2, <2>3, <3>2
      <4>2. inbox[k][i].turn \in Turn
        BY <2>2, <4>1, <3>2 DEF Frame
      <4>3. \A h \in DOMAIN inbox'[j] : inbox'[j][h].turn = inbox'[j][i].turn => h \in DOMAIN inbox[k]
        BY <2>2, <2>3, <3>2, <4>1, <4>2, ClientsOK DEF Msg
      <4> QED BY <1>1, <1>2, <2>3, <3>2, <4>1, <4>3 DEF FramesOK
    <3> QED BY <3>1, <3>2
  <2> QED BY <1>3, <2>5, <2>6 DEF IInv, TypeOK, TurnsSound, RestOK, FramesOK, Sound
<1> QED BY <1>8, <1>9

\* Lost connections, expired entries, restarts.
LEMMA FaultKeeps ==
  ASSUME IInv, (\E k \in Conn : Lose(k)) \/ EntryExpires \/ Restart
  PROVE  IInv'
<1>1. TurnsSound /\ RestOK /\ FramesOK
  BY Parts
<1>2. CASE \E k \in Conn : Lose(k)
  <2>1. PICK k \in Conn : Lose(k)
    BY <1>2
  <2>2. inbox' \in [Conn -> Seq(Frame)] /\ outbox' \in [Conn -> Seq(Reply)] /\ link' \in [Conn -> Links]
    BY <1>1, <2>1 DEF Lose, RestOK, Links
  <2>3. RestOK' /\ TurnsSound' /\ \A n \in Turn : Kept(n)
    BY <1>1, <2>1, <2>2 DEF Lose, RestOK, InChat, TurnsSound, Sound, Kept
  <2>4. \A j \in Conn : inbox'[j] \in {inbox[j], Tail(inbox[j]), <<>>} /\ (inbox[j] = <<>> => inbox'[j] = <<>>)
    BY <1>1, <2>1 DEF Lose, RestOK
  <2>5. FramesOK'
    BY <1>1, <2>3, <2>4, FramesKept
  <2> QED BY <2>3, <2>5 DEF IInv, TypeOK, TurnsSound, RestOK, FramesOK, Sound
<1>3. CASE EntryExpires
  <2>1. entry' \in [session : Turn, listener : Conn, stale : BOOLEAN]
    BY <1>1, <1>3 DEF EntryExpires, RestOK
  <2>2. RestOK' /\ TurnsSound' /\ FramesOK'
    BY <1>1, <1>3, <2>1 DEF EntryExpires, RestOK, InChat, TurnsSound, Sound, FramesOK
  <2> QED BY <2>2 DEF IInv, TypeOK, TurnsSound, RestOK, FramesOK, Sound
<1>4. CASE Restart
  <2>1. ASSUME NEW n \in Turn PROVE Sound(turn'[n]) /\ Kept(n)
    <3>1. Sound(turn[n]) /\ turn[n].end \in Outcome \cup {None}
      BY <1>1 DEF TurnsSound, Sound, TurnState
    <3>2. Sound(Over(turn[n], turn[n].end)) /\ Over(turn[n], turn[n].end).by = turn[n].by
      BY <3>1, OverSound
    <3> QED BY <1>4, <3>1, <3>2 DEF Restart, Kept, Running
  <2>2. turn' \in [Turn -> TurnState]
    <3>1. turn' = [n \in Turn |-> turn'[n]]
      BY <1>4, Zenon DEF Restart
    <3> QED BY <2>1, <3>1 DEF Sound
  <2>3. TurnsSound'
    BY <2>1, <2>2 DEF TurnsSound
  <2>4. link' \in [Conn -> Links]
    <3>1. \A k \in Conn : (CASE link[k] \in {"open", "cut"} -> "dropped"
                            [] link[k] = "left" -> "closed" [] OTHER -> link[k]) \in Links
      BY <1>1 DEF RestOK, Links
    <3> QED BY <1>4, <3>1 DEF Restart
  <2>5. inbox' \in [Conn -> Seq(Frame)] /\ \A j \in Conn : inbox'[j] = <<>>
    BY <1>4 DEF Restart
  <2>6. RestOK'
    BY <1>1, <1>4, <2>4, <2>5 DEF RestOK, Restart, InChat
  <2>7. FramesOK'
    BY <2>5 DEF FramesOK
  <2> QED BY <2>3, <2>6, <2>7 DEF IInv, TypeOK, TurnsSound, RestOK, FramesOK, Sound
<1> QED BY <1>2, <1>3, <1>4

\* Every step of the gateway, its clients and the network.
LEMMA StepInv == ASSUME IInv, [Next]_vars PROVE IInv'
<1>1. ASSUME NEW c \in Client, NEW k \in Conn, NEW n \in Turn, Connect(c, k, n) PROVE IInv'
  <2>1. link' \in [Conn -> Links]
    BY <1>1, Parts DEF Connect, RestOK, Links
  <2> QED BY <1>1, <2>1, SubmitKeeps DEF Connect
<1>2. ASSUME NEW c \in Client, NEW n \in Turn, SendAgain(c, n) PROVE IInv'
  <2>1. PICK k : k = chat[c].ws
    OBVIOUS
  <2>2. k \in Conn /\ link' \in [Conn -> Links]
    BY <1>2, <2>1, Parts DEF SendAgain, Open, RestOK, Chat
  <2> QED BY <1>2, <2>1, <2>2, SubmitKeeps DEF SendAgain
<1>3. CASE UNCHANGED vars
  BY <1>3 DEF vars, IInv, TypeOK, InChat
<1>4. CASE Work
  BY <1>1, <1>2, <1>4, DriverKeeps, RefuseKeeps, StartKeeps, ReceiveKeeps, AbortKeeps, ClientKeeps
  DEF Work, HandlerStep, ServerStep
<1>5. CASE Fault
  BY <1>5, ClientKeeps, FaultKeeps DEF Fault
<1> QED BY <1>3, <1>4, <1>5 DEF Next

\* The states of the gateway and its clients have their types.
THEOREM TypeCorrect == Spec => []TypeOK
<1>1. IInv => TypeOK
  BY DEF IInv
<1> QED BY <1>1, InitInv, StepInv, PTL DEF Spec

-----------------------------------------------------------------------------
(* One listener                                                             *)

\* Only the rest of session.send and a restart touch the store and the listeners.
LEMMA ListenerStep == ASSUME IInv, OneListener, [Next]_vars PROVE OneListener'
<1>1. CASE UNCHANGED <<entry, hears>>
  BY <1>1 DEF OneListener
<1>2. CASE EntryExpires
  BY <1>2, Parts DEF EntryExpires, OneListener, RestOK
<1>3. CASE Restart
  BY <1>3 DEF Restart, OneListener
<1>4. ASSUME NEW n \in Turn, StartTurn(n) PROVE OneListener'
  <2>1. TurnsSound /\ RestOK
    BY Parts
  <2>2. PICK k : k = turn[n].by
    OBVIOUS
  <2>3. k \in Conn /\ Stored(n) \in Turn
    BY <1>4, <2>1, <2>2 DEF StartTurn, TurnsSound, Sound, RestOK, Stored, Expired
  <2>4. hears' \in Heard(k, n)
    BY <1>4, <2>2 DEF StartTurn
  <2>5. entry' = [session |-> Stored(n), stale |-> FALSE, listener |-> IF Attaches(k) THEN k ELSE entry.listener]
    BY <1>4, <2>2 DEF StartTurn
  <2>6. /\ Unsubscribed \in [Turn -> SUBSET Conn] /\ hears \in [Turn -> SUBSET Conn]
        /\ \A s \in Turn : Unsubscribed[s] \subseteq hears[s]
        /\ entry # None => Unsubscribed[entry.session] = {}
    BY <2>1 DEF RestOK, Unsubscribed, OneListener
  <2>7. CASE Expired
    <3>1. PICK h \in {hears, Unsubscribed} : hears' = [h EXCEPT ![n] = {k}]
      BY <2>4, <2>7 DEF Heard
    <3>2. \A s \in Turn : h[s] \subseteq hears[s]
      BY <2>6
    <3>3. entry'.session = n /\ entry'.listener = k
      BY <2>5, <2>7 DEF Stored, Attaches
    <3>4. h \in [Turn -> SUBSET Conn]
      BY <2>6
    <3>5. hears'[n] = {k} /\ \A s \in Turn : s # n => hears'[s] = h[s]
      BY <3>1, <3>4
    <3>6. \A s \in Turn : \A i, j \in hears'[s] : i = j
      BY <3>2, <3>5 DEF OneListener
    <3> QED BY <3>3, <3>5, <3>6 DEF OneListener
  <2>8. CASE ~Expired /\ Attaches(k)
    <3>1. hears' = [Unsubscribed EXCEPT ![entry.session] = @ \cup {k}] /\ entry.session \in Turn /\ entry # None
      BY <2>3, <2>4, <2>8 DEF Heard, Stored, Expired
    <3>2. hears'[entry.session] = {k} /\ \A s \in Turn : s # entry.session => hears'[s] = Unsubscribed[s]
      BY <2>6, <3>1
    <3>3. entry'.session = entry.session /\ entry'.listener = k
      BY <2>5, <2>8 DEF Stored
    <3>4. \A s \in Turn : \A i, j \in hears'[s] : i = j
      BY <2>6, <3>2 DEF OneListener
    <3> QED BY <3>2, <3>3, <3>4 DEF OneListener
  <2>9. CASE ~Expired /\ ~Attaches(k)
    <3>1. hears' = hears /\ entry # None
      BY <2>4, <2>9 DEF Heard, Expired
    <3>2. entry'.session = entry.session /\ entry'.listener = entry.listener
      BY <2>5, <2>9 DEF Stored
    <3> QED BY <3>1, <3>2 DEF OneListener
  <2> QED BY <2>7, <2>8, <2>9
<1>5. CASE Work
  <2>1. CASE \E n \in Turn : StartTurn(n)
    BY <1>4, <2>1
  <2>2. CASE ~\E n \in Turn : StartTurn(n)
    BY <1>1, <1>5, <2>2 DEF Work, DriverStep, ModelAnswers, ModelCallsTools, ModelFails, ModelIsCut,
       ReaderCancelled, ToolsDone, HandlerStep, RefuseSend, ServerStep, ReceiveSend, ReceiveAbort, ServerCloses,
       ClientStep, Accepted, Refused, TerminalEvent, IgnoredFrame, Unhandled, ClientCloses, Interrupt, Connect,
       SendAgain
  <2> QED BY <2>1, <2>2
<1>6. CASE Fault
  BY <1>1, <1>2, <1>3, <1>6 DEF Fault, Lose, Quit
<1> QED BY <1>1, <1>5, <1>6 DEF Next, vars

\* The store names the one connection that hears its Session, and no Session is heard
\* by two: router.ts drops the listener before it adds one.
THEOREM ListenerCorrect == Spec => []OneListener
<1>1. Init => OneListener
  BY DEF Init, OneListener
<1> QED BY <1>1, InitInv, StepInv, ListenerStep, PTL DEF Spec

-----------------------------------------------------------------------------
(* Serial turns                                                             *)

MState   == [n \in Turn |-> StateOf(n)]
MSession == [n \in Turn |-> turn[n].session]
MTold    == [n \in Turn |-> turn[n].end]

\* StateOf, of a record.
Phase(t) == CASE t.stage \in {"unsent", "asked", "handling"} -> "new"
              [] t.stage \in Running -> "running"
              [] OTHER -> "done"

\* Steps that only move a turn within its phase, or not at all, are stutters.
LEMMA Stutters ==
  ASSUME \A n \in Turn : Phase(turn'[n]) = Phase(turn[n]) /\ turn'[n].session = turn[n].session
                                                          /\ turn'[n].end = turn[n].end
  PROVE  UNCHANGED <<MState, MSession, MTold>>
  BY DEF MState, MSession, MTold, StateOf, Phase, IsRunning

\* What the abstract state becomes when one record is replaced.
LEMMA OneChange ==
  ASSUME TurnsSound, NEW n \in Turn, NEW t, turn' = [turn EXCEPT ![n] = t]
  PROVE  /\ MState' = [MState EXCEPT ![n] = Phase(t)]
         /\ MSession' = [MSession EXCEPT ![n] = t.session]
         /\ MTold' = [MTold EXCEPT ![n] = t.end]
<1>1. \A m \in Turn : StateOf(m) = Phase(turn[m]) /\ StateOf(m)' = Phase(turn'[m])
  BY DEF StateOf, Phase, IsRunning
<1>2. turn'[n] = t /\ \A m \in Turn : m # n => turn'[m] = turn[m]
  BY DEF TurnsSound
<1>3. MState' = [MState EXCEPT ![n] = Phase(t)]
  <2>1. \A m \in Turn : StateOf(m)' = IF m = n THEN Phase(t) ELSE StateOf(m)
    BY <1>1, <1>2
  <2> QED BY <2>1, Zenon DEF MState
<1>4. MSession' = [MSession EXCEPT ![n] = t.session] /\ MTold' = [MTold EXCEPT ![n] = t.end]
  <2>1. \A m \in Turn : turn'[m].session = (IF m = n THEN t.session ELSE turn[m].session)
                       /\ turn'[m].end = (IF m = n THEN t.end ELSE turn[m].end)
    BY <1>2
  <2> QED BY <2>1, Zenon DEF MSession, MTold
<1> QED BY <1>3, <1>4

Told(n, o) ==
  /\ MState[n] = "running" /\ MTold[n] = None
  /\ MTold' = [MTold EXCEPT ![n] = o]
  /\ MState' \in {MState, [MState EXCEPT ![n] = "done"]}
  /\ UNCHANGED MSession

\* The names of the instance.
LEMMA ToldStep == ASSUME NEW n \in Turn, NEW o \in Outcome, Told(n, o) PROVE Turns!Next
  BY DEF Told, MState, MSession, MTold, Turns!Next, Turns!Tell

\* A driver tells each turn its end once, and the turn is idle then or soon after.
LEMMA DriverRefines ==
  ASSUME IInv, NEW n \in Turn, DriverStep(n)
  PROVE  [Turns!Next]_<<MState, MSession, MTold>>
<1>1. TurnsSound /\ Sound(turn[n])
  BY Parts DEF TurnsSound
<1>0. MSession = [MSession EXCEPT ![n] = turn[n].session] /\ MState = [MState EXCEPT ![n] = Phase(turn[n])]
      /\ MTold = [MTold EXCEPT ![n] = turn[n].end]
      /\ MState[n] = Phase(turn[n]) /\ MTold[n] = turn[n].end
  <2>1. \A m \in Turn : StateOf(m) = Phase(turn[m])
    BY DEF StateOf, Phase, IsRunning
  <2> QED BY <2>1 DEF MSession, MState, MTold
<1>2. ASSUME NEW kind \in Outcome, Finish(n, kind), turn[n].stage \in {"llm", "tool"}
      PROVE  Turns!Next
  <2>1. PICK t : t = Over(turn[n], kind)
    OBVIOUS
  <2>2. Phase(t) = "done" /\ t.session = turn[n].session /\ t.end = kind
    BY <1>1, <2>1 DEF Over, Phase, Sound, TurnState, Running
  <2>3. turn' = [turn EXCEPT ![n] = t]
    BY <1>2, <2>1 DEF Finish
  <2>4. Phase(turn[n]) = "running" /\ turn[n].end = None
    BY <1>1, <1>2 DEF Phase, Running, Sound
  <2>5. Told(n, kind)
    <3>1. /\ MState' = [MState EXCEPT ![n] = "done"] /\ MSession' = [MSession EXCEPT ![n] = turn[n].session]
          /\ MTold' = [MTold EXCEPT ![n] = kind]
      <4>1. /\ MState' = [MState EXCEPT ![n] = Phase(t)] /\ MSession' = [MSession EXCEPT ![n] = t.session]
            /\ MTold' = [MTold EXCEPT ![n] = t.end]
        BY <1>1, <2>3, OneChange
      <4> QED BY <2>2, <4>1
    <3> QED BY <1>0, <2>4, <3>1 DEF Told
  <2> QED BY <2>5, ToldStep
<1>3. ASSUME NEW t, turn' = [turn EXCEPT ![n] = t], Phase(t) = Phase(turn[n]),
             t.session = turn[n].session, t.end = turn[n].end
      PROVE  UNCHANGED <<MState, MSession, MTold>>
  BY <1>1, <1>3, Stutters DEF TurnsSound
<1>4. Settled(n) \in Outcome /\ "error" \in Outcome /\ "aborted" \in Outcome
  BY DEF Settled, Outcome
<1>5. CASE ModelAnswers(n) \/ ModelFails(n)
  BY <1>2, <1>4, <1>5 DEF ModelAnswers, ModelFails
<1>6. CASE ModelCallsTools(n)
  <2>1. PICK t : t = [turn[n] EXCEPT !.stage = "tool", !.signal = "live"]
    OBVIOUS
  <2>2. Phase(t) = Phase(turn[n]) /\ t.session = turn[n].session /\ t.end = turn[n].end
    BY <1>1, <1>6, <2>1 DEF ModelCallsTools, Phase, Running, Sound, TurnState
  <2>3. turn' = [turn EXCEPT ![n] = t]
    BY <1>6, <2>1 DEF ModelCallsTools
  <2> QED BY <1>3, <2>2, <2>3
<1>7. CASE ModelIsCut(n)
  <2>1. PICK t : t = [turn[n] EXCEPT !.stage = "closing", !.end = Settled(n)]
    OBVIOUS
  <2>2. Phase(t) = Phase(turn[n]) /\ t.session = turn[n].session /\ t.end = Settled(n)
    BY <1>1, <1>7, <2>1 DEF ModelIsCut, Phase, Running, Sound, TurnState
  <2>3. turn' = [turn EXCEPT ![n] = t]
    BY <1>7, <2>1 DEF ModelIsCut
  <2>4. Phase(turn[n]) = "running" /\ turn[n].end = None
    BY <1>1, <1>7 DEF ModelIsCut, Phase, Running, Sound
  <2>5. Told(n, Settled(n))
    <3>1. /\ MState' = [MState EXCEPT ![n] = Phase(turn[n])] /\ MSession' = [MSession EXCEPT ![n] = turn[n].session]
          /\ MTold' = [MTold EXCEPT ![n] = Settled(n)]
      <4>1. /\ MState' = [MState EXCEPT ![n] = Phase(t)] /\ MSession' = [MSession EXCEPT ![n] = t.session]
            /\ MTold' = [MTold EXCEPT ![n] = t.end]
        BY <1>1, <2>3, OneChange
      <4> QED BY <2>2, <4>1
    <3> QED BY <1>0, <2>4, <3>1 DEF Told
  <2> QED BY <1>4, <2>5, ToldStep
<1>8. CASE ReaderCancelled(n)
  <2>1. PICK t : t = Over(turn[n], turn[n].end)
    OBVIOUS
  <2>2. Phase(t) = "done" /\ t.session = turn[n].session /\ t.end = turn[n].end
    BY <1>1, <2>1 DEF Over, Phase, Sound, TurnState, Running
  <2>3. turn' = [turn EXCEPT ![n] = t]
    BY <1>8, <2>1 DEF ReaderCancelled
  <2>4. Phase(turn[n]) = "running" /\ turn[n].end # None
    BY <1>1, <1>8 DEF ReaderCancelled, Phase, Running, Sound
  <2>5. /\ MState[n] = "running" /\ MTold[n] # None
        /\ MState' = [MState EXCEPT ![n] = "done"] /\ UNCHANGED <<MSession, MTold>>
    <3>1. /\ MState' = [MState EXCEPT ![n] = "done"] /\ MSession' = [MSession EXCEPT ![n] = turn[n].session]
          /\ MTold' = [MTold EXCEPT ![n] = turn[n].end]
      <4>1. /\ MState' = [MState EXCEPT ![n] = Phase(t)] /\ MSession' = [MSession EXCEPT ![n] = t.session]
            /\ MTold' = [MTold EXCEPT ![n] = t.end]
        BY <1>1, <2>3, OneChange
      <4> QED BY <2>2, <4>1
    <3> QED BY <1>0, <2>4, <3>1
  <2> QED BY <2>5 DEF MState, MSession, MTold, Turns!Next, Turns!Settle
<1>9. CASE ToolsDone(n)
  <2>1. CASE flag
    BY <1>2, <1>4, <1>9, <2>1 DEF ToolsDone
  <2>2. CASE ~flag
    <3>1. PICK t : t = [turn[n] EXCEPT !.stage = "llm"]
      OBVIOUS
    <3>2. Phase(t) = Phase(turn[n]) /\ t.session = turn[n].session /\ t.end = turn[n].end
      BY <1>1, <1>9, <3>1 DEF ToolsDone, Phase, Running, Sound, TurnState
    <3>3. turn' = [turn EXCEPT ![n] = t]
      BY <1>9, <2>2, <3>1 DEF ToolsDone
    <3> QED BY <1>3, <3>2, <3>3
  <2> QED BY <2>1, <2>2
<1> QED BY <1>5, <1>6, <1>7, <1>8, <1>9 DEF DriverStep

\* A turn that is refused, lost or told that the Session is busy never runs.
LEMMA NeverRuns ==
  ASSUME TurnsSound, NEW n \in Turn, turn[n].stage \in {"unsent", "asked", "handling"},
         NEW s \in Turn \cup {None}, NEW o \in Outcome \cup {None}, NEW t,
         turn' = [turn EXCEPT ![n] = t], t.stage = "over", t.session = s, t.end = o
  PROVE  Turns!Next
<1>1. Phase(t) = "done" /\ Phase(turn[n]) = "new" /\ turn[n].end = None
  BY DEF Phase, Running, TurnsSound, Sound
<1>2. MState[n] = "new" /\ MTold[n] = None
  BY <1>1 DEF MState, MTold, Phase, StateOf, IsRunning
<1>3. /\ MState' = [MState EXCEPT ![n] = "done"] /\ MSession' = [MSession EXCEPT ![n] = s]
      /\ MTold' = [MTold EXCEPT ![n] = o]
  <2>1. /\ MState' = [MState EXCEPT ![n] = Phase(t)] /\ MSession' = [MSession EXCEPT ![n] = t.session]
        /\ MTold' = [MTold EXCEPT ![n] = t.end]
    BY OneChange
  <2> QED BY <1>1, <2>1
<1>4. Turns!Refuse(n, s, o)
  BY <1>2, <1>3 DEF MState, MSession, MTold, Turns!Refuse
<1> QED BY <1>4 DEF Turns!Next

\* Accepting, refusing and losing a message, up to the last await of session.send.
LEMMA HandlerRefines ==
  ASSUME TurnsSound, RestOK, FramesOK, NEW n \in Turn, NEW k \in Conn, NEW c,
         RefuseSend(n) \/ ReceiveSend(k) \/ Submit(c, k, n)
  PROVE  [Turns!Next]_<<MState, MSession, MTold>>
<1>0. PICK m \in Turn : \E t :
        /\ turn' = [turn EXCEPT ![m] = t] /\ turn[m].stage \in {"unsent", "asked", "handling"}
        /\ t.stage \in {"asked", "handling", "over"} /\ t.session = turn[m].session /\ t.end = turn[m].end
  <2>1. CASE RefuseSend(n)
    <3>1. PICK t : t = [turn[n] EXCEPT !.stage = "over"]
      OBVIOUS
    <3>2. t.stage = "over" /\ t.session = turn[n].session /\ t.end = turn[n].end
      BY <3>1 DEF TurnsSound, TurnState
    <3> QED BY <2>1, <3>1, <3>2 DEF RefuseSend
  <2>2. CASE ReceiveSend(k)
    <3>1. PICK m : m = Head(inbox[k]).turn
      OBVIOUS
    <3>2. m \in Turn /\ turn[m].stage = "asked"
      BY <2>2, <3>1, ArrivesKeeps DEF ReceiveSend, FramesOK, Frame
    <3>3. PICK u \in {"over", "handling"} : turn' = [turn EXCEPT ![m].stage = u]
      BY <2>2, <3>1 DEF ReceiveSend
    <3>4. PICK t : t = [turn[m] EXCEPT !.stage = u]
      OBVIOUS
    <3>5. t.stage = u /\ t.session = turn[m].session /\ t.end = turn[m].end
      BY <3>2, <3>4 DEF TurnsSound, TurnState
    <3> QED BY <3>2, <3>3, <3>4, <3>5
  <2>3. CASE Submit(c, k, n)
    <3>1. PICK u \in {"over", "asked"} : turn' = [turn EXCEPT ![n].stage = u, ![n].by = k]
      BY <2>3 DEF Submit
    <3>2. PICK t : t = [turn[n] EXCEPT !.stage = u, !.by = k]
      OBVIOUS
    <3>3. t.stage = u /\ t.session = turn[n].session /\ t.end = turn[n].end
      BY <3>2 DEF TurnsSound, TurnState
    <3>4. turn' = [turn EXCEPT ![n] = t] /\ turn[n].stage = "unsent"
      BY <2>3, <3>1, <3>2 DEF Submit, NextTurn
    <3> QED BY <3>3, <3>4
  <2> QED BY <2>1, <2>2, <2>3
<1>1. PICK t :
        /\ turn' = [turn EXCEPT ![m] = t] /\ turn[m].stage \in {"unsent", "asked", "handling"}
        /\ t.stage \in {"asked", "handling", "over"} /\ t.session = turn[m].session /\ t.end = turn[m].end
  BY <1>0
<1>2. CASE t.stage = "over"
  <2>1. turn[m].session \in Turn \cup {None} /\ turn[m].end \in Outcome \cup {None}
    BY DEF TurnsSound, TurnState
  <2> QED BY <1>1, <1>2, <2>1, NeverRuns
<1>3. CASE t.stage # "over"
  <2>1. Phase(t) = Phase(turn[m])
    <3>1. t.stage \in {"unsent", "asked", "handling"}
      BY <1>1, <1>3
    <3> QED BY <1>1, <3>1 DEF Phase, Running
  <2>2. \A i \in Turn : turn'[i] = IF i = m THEN t ELSE turn[i]
    BY <1>1 DEF TurnsSound
  <2> QED BY <1>1, <2>1, <2>2, Stutters
<1> QED BY <1>2, <1>3

\* Session.send: no turn starts while another one of its Session runs.
LEMMA StartRefines ==
  ASSUME TurnsSound, RestOK, NEW n \in Turn, StartTurn(n)
  PROVE  [Turns!Next]_<<MState, MSession, MTold>>
<1>1. Sound(turn[n]) /\ turn[n].stage = "handling"
  BY DEF TurnsSound, StartTurn
<1>2. PICK s : s = Stored(n)
  OBVIOUS
<1>3. s \in Turn
  BY <1>2 DEF RestOK, Stored, Expired
<1>4. PICK heard : IF Busy(s) THEN TellBusy(n, s, heard) ELSE Begin(n, s, heard)
  BY <1>2 DEF StartTurn
<1>5. CASE TellBusy(n, s, heard)
  <2>1. PICK t : t = [turn[n] EXCEPT !.stage = "over", !.session = s, !.end = "error"]
    OBVIOUS
  <2>2. t.stage = "over" /\ t.session = s /\ t.end = "error"
    BY <1>1, <2>1 DEF Sound, TurnState
  <2>3. turn' = [turn EXCEPT ![n] = t]
    BY <1>5, <2>1 DEF TellBusy
  <2> QED BY <1>1, <1>3, <2>2, <2>3, NeverRuns DEF Outcome
<1>6. CASE ~Busy(s) /\ Begin(n, s, heard)
  <2>1. /\ turn'[n].stage = "llm" /\ turn'[n].session = s /\ turn'[n].end = turn[n].end
        /\ \A m \in Turn : m # n => /\ turn'[m].stage = turn[m].stage /\ turn'[m].session = turn[m].session
                                    /\ turn'[m].end = turn[m].end
    <3>1. turn'[n] = [turn[n] EXCEPT !.stage = "llm", !.session = s]
      BY <1>6, Zenon DEF Begin
    <3>2. \A m \in Turn : m # n => turn'[m] \in {turn[m], [turn[m] EXCEPT !.signal = "deaf"]}
      BY <1>6 DEF Begin
    <3>3. \A m \in Turn : turn[m] \in TurnState
      BY DEF TurnsSound
    <3> QED BY <3>1, <3>2, <3>3 DEF TurnState
  <2>2. \A m \in Turn : StateOf(m) = Phase(turn[m]) /\ StateOf(m)' = Phase(turn'[m])
    BY DEF StateOf, Phase, IsRunning
  <2>3. Phase(turn[n]) = "new" /\ Phase(turn'[n]) = "running"
        /\ \A m \in Turn : m # n => Phase(turn'[m]) = Phase(turn[m])
    BY <1>1, <2>1 DEF Phase, Running
  <2>4. MState' = [MState EXCEPT ![n] = "running"] /\ MState[n] = "new"
    <3>1. \A m \in Turn : StateOf(m)' = IF m = n THEN "running" ELSE StateOf(m)
      BY <2>2, <2>3
    <3>2. MState' = [MState EXCEPT ![n] = "running"]
      BY <3>1, Zenon DEF MState
    <3> QED BY <2>2, <2>3, <3>2 DEF MState
  <2>5. MSession' = [MSession EXCEPT ![n] = s] /\ MTold' = MTold
    <3>1. \A m \in Turn : turn'[m].session = (IF m = n THEN s ELSE turn[m].session) /\ turn'[m].end = turn[m].end
      BY <2>1
    <3> QED BY <3>1, Zenon DEF MSession, MTold
  <2>6. {m \in Turn : MState[m] = "running" /\ MSession[m] = s} = {}
    BY <1>6, <2>2 DEF MState, MSession, Busy, Phase, IsRunning
  <2>7. Turns!Start(n, s)
    BY <2>4, <2>5, <2>6 DEF MState, MSession, MTold, Turns!Start, Turns!Running
  <2> QED BY <1>3, <2>7 DEF Turns!Next
<1> QED BY <1>4, <1>5, <1>6

\* Every step of the gateway is a step of SessionTurns or a stutter of it.
LEMMA Refines == ASSUME IInv, [Next]_vars PROVE [Turns!Next]_<<MState, MSession, MTold>>
<1>0. TurnsSound /\ RestOK /\ FramesOK
  BY Parts
<1>1. CASE UNCHANGED turn
  BY <1>1, Stutters
<1>2. ASSUME NEW s, AbortSession(s) PROVE UNCHANGED <<MState, MSession, MTold>>
  <2>1. CASE UNCHANGED turn
    BY <2>1, Stutters
  <2>2. CASE turn' = Aborted(s)
    <3>1. ASSUME NEW n \in Turn
          PROVE  Phase(turn'[n]) = Phase(turn[n]) /\ turn'[n].session = turn[n].session /\ turn'[n].end = turn[n].end
      <4>1. turn[n] \in TurnState
        BY <1>0 DEF TurnsSound
      <4>2. turn'[n].stage = turn[n].stage /\ turn'[n].session = turn[n].session /\ turn'[n].end = turn[n].end
        BY <2>2, <4>1 DEF Aborted, TurnState
      <4> QED BY <4>2 DEF Phase
    <3> QED BY <3>1, Stutters
  <2> QED BY <1>2, <2>1, <2>2 DEF AbortSession
<1>3. CASE Restart
  <2>1. ASSUME NEW n \in Turn
        PROVE  /\ turn'[n].session = turn[n].session /\ turn'[n].end = turn[n].end
               /\ Phase(turn'[n]) \in {"new", "done"} /\ (Phase(turn[n]) = "done" => Phase(turn'[n]) = "done")
    <3>1. turn[n] \in TurnState
      BY <1>0 DEF TurnsSound
    <3>2. PICK t : t = Over(turn[n], turn[n].end)
      OBVIOUS
    <3>3. t.stage = "over" /\ t.session = turn[n].session /\ t.end = turn[n].end
      BY <3>1, <3>2 DEF Over, TurnState
    <3>4. turn'[n] = IF turn[n].stage \in Running \cup {"handling"} THEN t ELSE turn[n]
      BY <1>3, <3>2 DEF Restart
    <3> QED BY <3>1, <3>3, <3>4 DEF Phase, Running, TurnState, Stages
  <2>2. \A n \in Turn : StateOf(n) = Phase(turn[n]) /\ StateOf(n)' = Phase(turn'[n])
    BY DEF StateOf, Phase, IsRunning
  <2>3. MState' \in [Turn -> {"new", "done"}] /\ \A n \in Turn : MState[n] = "done" => MState'[n] = "done"
    BY <2>1, <2>2 DEF MState
  <2>4. UNCHANGED <<MSession, MTold>>
    BY <2>1 DEF MSession, MTold
  <2>5. Turns!Crash
    BY <2>3, <2>4 DEF MState, MSession, MTold, Turns!Crash
  <2> QED BY <2>5 DEF Turns!Next
<1>4. ASSUME NEW n \in Turn, DriverStep(n) \/ HandlerStep(n) PROVE [Turns!Next]_<<MState, MSession, MTold>>
  <2>1. CASE RefuseSend(n)
    <3>1. turn[n].by \in Conn
      BY <1>0, <2>1 DEF RefuseSend, TurnsSound, Sound
    <3> QED BY <1>0, <2>1, <3>1, HandlerRefines
  <2> QED BY <1>0, <1>4, <2>1, DriverRefines, StartRefines DEF HandlerStep
<1>5. ASSUME NEW k \in Conn, ServerStep(k) PROVE [Turns!Next]_<<MState, MSession, MTold>>
  <2>1. CASE ReceiveSend(k)
    <3>1. Head(inbox[k]).turn \in Turn
      BY <1>0, <2>1, ArrivesKeeps DEF ReceiveSend, Frame
    <3> QED BY <1>0, <2>1, <3>1, HandlerRefines
  <2> QED BY <1>2, <1>5, <2>1 DEF ServerStep, ReceiveAbort, ServerCloses
<1>6. ASSUME NEW c \in Client, NEW k \in Conn, NEW n \in Turn, Submit(c, k, n)
      PROVE  [Turns!Next]_<<MState, MSession, MTold>>
  BY <1>0, <1>6, HandlerRefines
<1>7. ASSUME NEW c \in Client, NEW n \in Turn, SendAgain(c, n) PROVE [Turns!Next]_<<MState, MSession, MTold>>
  <2>1. chat[c].ws \in Conn
    BY <1>0, <1>7 DEF SendAgain, Open, RestOK, Chat
  <2> QED BY <1>6, <1>7, <2>1 DEF SendAgain
<1>8. CASE Work
  BY <1>1, <1>4, <1>5, <1>6, <1>7, <1>8 DEF Work, Connect, Interrupt, ClientStep, Accepted, Refused,
     TerminalEvent, IgnoredFrame, Unhandled, ClientCloses
<1>9. CASE Fault
  BY <1>1, <1>3, <1>9 DEF Fault, Lose, Quit, EntryExpires
<1> QED BY <1>1, <1>8, <1>9 DEF Next, vars

\* Whatever the interleaving of handlers at their awaits, and through expired entries,
\* aborts and restarts, the turns of a Session are serial and told their end once
\* (session.ts).
THEOREM Serial == Spec => SerialTurns
<1>1. Init => Turns!Init
  <2> SUFFICES ASSUME Init PROVE Turns!Init
    OBVIOUS
  <2>1. \A n \in Turn : StateOf(n) = "new" /\ turn[n].session = None /\ turn[n].end = None
    <3>1. \A n \in Turn : turn[n].stage = "unsent" /\ turn[n].session = None /\ turn[n].end = None
      BY DEF Init, Unsent
    <3> QED BY <3>1 DEF StateOf, IsRunning, Running
  <2> QED BY <2>1 DEF Turns!Init
<1>2. IInv /\ [Next]_vars => [Turns!Next]_<<MState, MSession, MTold>>
  BY Refines
<1> QED BY <1>1, <1>2, InitInv, StepInv, PTL DEF Spec, SerialTurns, Turns!Spec, MState, MSession, MTold
=============================================================================
