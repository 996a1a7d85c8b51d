-------------------------- MODULE GatewayChatProofs --------------------------
(***************************************************************************)
(* No console waits for a frame that was sent already or never will be     *)
(* (NoChatIsLost), whatever handlers, other clients, the network and       *)
(* restarts of the gateway do in between.                                  *)
(***************************************************************************)
EXTENDS GatewaySessionProofs

-----------------------------------------------------------------------------
(* Queues of frames                                                         *)

\* What a frame adds to a queue.
LEMMA Appended ==
  ASSUME NEW q \in Seq(Reply), NEW f \in Reply, NEW kinds
  PROVE  /\ Contains(Append(q, f), kinds) <=> Contains(q, kinds) \/ f.kind \in kinds
         /\ AtMostOnce(q, kinds) /\ ~(f.kind \in kinds /\ Contains(q, kinds))
              => AtMostOnce(Append(q, f), kinds)
<1>1. PICK r : r = Append(q, f)
  OBVIOUS
<1>2. /\ DOMAIN q = 1..Len(q) /\ DOMAIN r = 1..(Len(q) + 1) /\ Len(q) \in Nat
      /\ r[Len(q) + 1] = f
      /\ \A i \in 1..Len(q) : r[i] = q[i]
  BY <1>1
<1>3. Contains(r, kinds) <=> Contains(q, kinds) \/ f.kind \in kinds
  BY <1>2 DEF Contains
<1>4. ASSUME AtMostOnce(q, kinds), ~(f.kind \in kinds /\ Contains(q, kinds)) PROVE AtMostOnce(r, kinds)
  BY <1>2, <1>4 DEF AtMostOnce, Contains
<1> QED BY <1>1, <1>3, <1>4

\* What is left of a queue when its first frame has been read.
LEMMA Read ==
  ASSUME NEW q \in Seq(Reply), q # <<>>, NEW kinds
  PROVE  /\ Contains(Tail(q), kinds) => Contains(q, kinds)
         /\ Contains(q, kinds) => Head(q).kind \in kinds \/ Contains(Tail(q), kinds)
         /\ AtMostOnce(q, kinds) => AtMostOnce(Tail(q), kinds)
         /\ AtMostOnce(q, kinds) /\ Head(q).kind \in kinds => ~Contains(Tail(q), kinds)
         /\ Head(q).kind \in kinds => Contains(q, kinds)
<1>1. PICK r : r = Tail(q)
  OBVIOUS
<1>2. /\ DOMAIN q = 1..Len(q) /\ DOMAIN r = 1..(Len(q) - 1) /\ Len(q) \in Nat /\ Len(q) > 0
      /\ Head(q) = q[1]
      /\ \A i \in DOMAIN r : r[i] = q[i + 1] /\ i + 1 \in DOMAIN q /\ i + 1 # 1
  BY <1>1
<1>3. \A i \in DOMAIN q : i # 1 => i - 1 \in DOMAIN r /\ r[i - 1] = q[i]
  BY <1>2
<1>4. 1 \in DOMAIN q
  BY <1>2
<1>5. Contains(r, kinds) => Contains(q, kinds)
  BY <1>2 DEF Contains
<1>6. Contains(q, kinds) => q[1].kind \in kinds \/ Contains(r, kinds)
  BY <1>3 DEF Contains
<1>7. AtMostOnce(q, kinds) => AtMostOnce(r, kinds)
  <2> SUFFICES ASSUME AtMostOnce(q, kinds), NEW i \in DOMAIN r, NEW j \in DOMAIN r,
                      r[i].kind \in kinds, r[j].kind \in kinds
               PROVE  i = j
    BY DEF AtMostOnce
  <2>1. i + 1 = j + 1
    BY <1>2 DEF AtMostOnce
  <2> QED BY <1>2, <2>1
<1>8. AtMostOnce(q, kinds) /\ q[1].kind \in kinds => ~Contains(r, kinds)
  BY <1>2, <1>4 DEF AtMostOnce, Contains
<1>9. q[1].kind \in kinds => Contains(q, kinds)
  BY <1>4 DEF Contains
<1> QED BY <1>1, <1>2, <1>5, <1>6, <1>7, <1>8, <1>9

LEMMA Emptied == \A kinds : ~Contains(<<>>, kinds) /\ AtMostOnce(<<>>, kinds)
  BY DEF Contains, AtMostOnce

\* A message that is on its way stays so when others join it, and when the one before it
\* is read.
LEMMA Travels ==
  ASSUME NEW q \in Seq(Frame), NEW m, \E i \in DOMAIN q : q[i] = m
  PROVE  /\ \A f \in Frame : \E i \in DOMAIN Append(q, f) : Append(q, f)[i] = m
         /\ Head(q) # m => \E i \in DOMAIN Tail(q) : Tail(q)[i] = m
<1>1. PICK i \in DOMAIN q : q[i] = m
  OBVIOUS
<1>2. ASSUME NEW f \in Frame PROVE \E j \in DOMAIN Append(q, f) : Append(q, f)[j] = m
  BY <1>1
<1>3. ASSUME Head(q) # m PROVE \E j \in DOMAIN Tail(q) : Tail(q)[j] = m
  <2>1. q # <<>> /\ i \in 1..Len(q) /\ i # 1 /\ Len(q) \in Nat
    BY <1>1, <1>3
  <2>2. i - 1 \in DOMAIN Tail(q) /\ Tail(q)[i - 1] = m
    BY <1>1, <2>1
  <2> QED BY <2>2
<1> QED BY <1>2, <1>3

LEMMA LastAppended ==
  ASSUME NEW q \in Seq(Frame), NEW f \in Frame
  PROVE  \E i \in DOMAIN Append(q, f) : Append(q, f)[i] = f
<1>1. Len(q) + 1 \in DOMAIN Append(q, f) /\ Append(q, f)[Len(q) + 1] = f
  OBVIOUS
<1> QED BY <1>1

-----------------------------------------------------------------------------
(* A console and its connection                                             *)

LEMMA Kinds ==
  /\ \A n \in Turn : Msg("ok", n) \in Reply /\ Msg("refused", n) \in Reply
  /\ \A n \in Turn : \A o \in Outcome : Msg(o, n) \in Reply /\ Msg(o, n).kind = o
  /\ \A n : Msg("ok", n).kind = "ok" /\ Msg("refused", n).kind = "refused"
  /\ "ok" \in Answers /\ "refused" \in Answers /\ Answers \cap Outcome = {} /\ "refused" \notin Outcome
  /\ "error" \in Outcome /\ "ok" # "refused"
  BY DEF Msg, Reply, Outcome, Answers

LEMMA Typed ==
  ASSUME IInv
  PROVE  /\ \A c \in Client : /\ chat[c] \in Chat /\ (chat[c].ws # None => chat[c].ws \in Conn)
                              /\ InChat(c) => chat[c].ws \in Conn /\ chat[c].ws # None /\ chat[c].turn \in Turn
         /\ \A k \in Conn : link[k] \in Links /\ inbox[k] \in Seq(Frame) /\ outbox[k] \in Seq(Reply)
         /\ \A n \in Turn : turn[n] \in TurnState /\ (Unanswered(n) => turn[n].by \in Conn)
         /\ inbox \in [Conn -> Seq(Frame)] /\ outbox \in [Conn -> Seq(Reply)] /\ link \in [Conn -> Links]
         /\ turn \in [Turn -> TurnState] /\ chat \in [Client -> Chat]
         /\ Console \subseteq Client /\ OwnerOf \in [Conn -> Client]
  BY ClientsOK DEF IInv, TypeOK, Chat, Unanswered, Client

\* The console that a message not answered yet belongs to.
LEMMA Whose ==
  ASSUME IInv, ChatInv, NEW n \in Turn, Unanswered(n), link[turn[n].by] = "open",
         NEW c \in Console, chat[c].ws = turn[n].by
  PROVE  Expects(c, n) /\ InChat(c) /\ ~Answered(c) /\ ~Coming(c, Answers)
<1>1. turn[n].by \in Conn /\ c \in Client /\ turn[n].by # None
  BY Typed, ClientsOK
<1>2. OwnerOf[turn[n].by] = c
  BY <1>1 DEF ChatInv, OneConnection
<1>3. Expects(c, n)
  BY <1>2 DEF ChatInv, OneQuestion
<1>4. ~Answered(c)
  BY <1>3 DEF Expects, Answered
<1>5. ~Coming(c, Answers)
  BY <1>1, <1>4 DEF ChatInv, OneAnswer
<1> QED BY <1>3, <1>4, <1>5 DEF Expects, InChat

\* What a client waits for was sent on its connection; so no two wait for one turn.
LEMMA WaitsAtHome ==
  ASSUME IInv, ChatInv, NEW c \in Client, InChat(c)
  PROVE  turn[chat[c].turn].by = chat[c].ws /\ chat[c].ws \in Conn /\ OwnerOf[chat[c].ws] = c
         /\ \A d \in Client : InChat(d) /\ chat[d].turn = chat[c].turn => d = c
<1>1. \A d \in Client : InChat(d) => /\ turn[chat[d].turn].by = chat[d].ws /\ chat[d].ws \in Conn
                                     /\ OwnerOf[chat[d].ws] = d
  BY Typed DEF ChatInv, OneConnection
<1> QED BY <1>1

\* The event of an end reaches c.
ToldEnd(c) ==
  \E f \in Reply : f.kind \in Outcome /\ outbox'[chat[c].ws] = Append(outbox[chat[c].ws], f)

\* A console that a step does not concern, but for an end it may be told, stays accounted
\* for.
LEMMA Bystander ==
  ASSUME IInv, ChatInv, NEW c \in Console, chat'[c] = chat[c],
         chat[c].ws # None =>
           /\ link'[chat[c].ws] = "open" => link[chat[c].ws] = "open"
           /\ \/ outbox'[chat[c].ws] = outbox[chat[c].ws]
              \/ ToldEnd(c)
              \/ outbox'[chat[c].ws] = <<>> /\ link'[chat[c].ws] # "open",
         InChat(c) /\ ~Unanswered(chat[c].turn) => ~Unanswered(chat[c].turn)',
         InChat(c) /\ link'[chat[c].ws] = "open" /\ ~Unanswered(chat[c].turn)' =>
           /\ ~Unanswered(chat[c].turn)
           /\ Unheard(c) => Unheard(c)'
           /\ turn[chat[c].turn].stage \in {"llm", "tool"} =>
                turn'[chat[c].turn].stage \in {"llm", "tool"} \/ ToldEnd(c) \/ Unheard(c)'
  PROVE  OneAnswer(c)' /\ Accounted(c)'
<1>1. c \in Client /\ OneAnswer(c) /\ Accounted(c)
  BY Typed DEF ChatInv
<1>2. chat[c].ws # None => chat[c].ws \in Conn /\ outbox[chat[c].ws] \in Seq(Reply)
  BY <1>1, Typed
<1>3. InChat(c) => chat[c].ws # None
  BY <1>1, Typed
<1>4. Answered(c)' => Answered(c) \/ link'[chat[c].ws] # "open"
  BY DEF Answered, InChat
<1>5. Answered(c) => Answered(c)'
  BY DEF Answered, InChat
<1>6. ASSUME chat[c].ws # None, ToldEnd(c)
      PROVE  /\ AtMostOnce(outbox[chat[c].ws], Answers) => AtMostOnce(outbox'[chat[c].ws], Answers)
             /\ Coming(c, Answers)' <=> Coming(c, Answers)
             /\ Coming(c, {"refused"})' <=> Coming(c, {"refused"})
             /\ Coming(c, Outcome)'
  <2>1. PICK f \in Reply : f.kind \in Outcome /\ outbox'[chat[c].ws] = Append(outbox[chat[c].ws], f)
    BY <1>6 DEF ToldEnd
  <2>2. f.kind \notin Answers /\ f.kind \notin {"refused"}
    BY <2>1, Kinds
  <2> QED BY <1>2, <1>6, <2>1, <2>2, Appended DEF Coming
<1>7. OneAnswer(c)'
  <2> SUFFICES ASSUME chat[c].ws # None
               PROVE  /\ AtMostOnce(outbox'[chat[c].ws], Answers)
                      /\ Coming(c, Answers)' => Answered(c)'
                      /\ Answered(c)' /\ link'[chat[c].ws] = "open" => Coming(c, Answers)'
    BY DEF OneAnswer
  <2>1. CASE outbox'[chat[c].ws] = outbox[chat[c].ws]
    BY <1>1, <1>4, <1>5, <2>1 DEF OneAnswer, Coming
  <2>2. CASE ToldEnd(c)
    BY <1>1, <1>4, <1>5, <1>6, <2>2 DEF OneAnswer
  <2>3. CASE outbox'[chat[c].ws] = <<>> /\ link'[chat[c].ws] # "open"
    BY <2>3, Emptied DEF Coming
  <2> QED BY <2>1, <2>2, <2>3
<1>8. Accounted(c)'
  <2> SUFFICES ASSUME InChat(c), link'[chat[c].ws] = "open", ~Unanswered(chat[c].turn)'
               PROVE  Coming(c, {"refused"})' \/ Ending(c)' \/ Unheard(c)'
    BY DEF Accounted, InChat
  <2>1. Coming(c, {"refused"}) \/ Ending(c) \/ Unheard(c)
    BY <1>1, <1>3 DEF Accounted
  <2>2. outbox'[chat[c].ws] = outbox[chat[c].ws] \/ ToldEnd(c)
    BY <1>3
  <2>3. /\ Coming(c, {"refused"}) => Coming(c, {"refused"})'
        /\ Coming(c, Outcome) => Coming(c, Outcome)'
        /\ ToldEnd(c) => Coming(c, Outcome)'
    BY <1>3, <1>6, <2>2 DEF Coming
  <2> QED BY <2>1, <2>3 DEF Ending
<1> QED BY <1>7, <1>8

\* No step makes a second connection, a new owner or a frame for an unused one.
LEMMA ConnectionStays ==
  ASSUME IInv, ChatInv, UNCHANGED chat,
         \A n \in Turn : turn'[n].by = turn[n].by,
         \A k \in Conn : /\ ClientOpen(k) => ClientOpen(k)'
                         /\ link'[k] = "open" => link[k] = "open"
                         /\ link'[k] = "unused" => link[k] = "unused" /\ outbox'[k] \in {outbox[k], <<>>}
  PROVE  OneConnection'
<1>1. \A c \in Client : chat[c].ws # None => OwnerOf[chat[c].ws] = c /\ ClientOpen(chat[c].ws)'
  BY Typed DEF ChatInv, OneConnection
<1>2. \A c \in Client : InChat(c) => turn'[chat[c].turn].by = chat[c].ws
  BY Typed DEF ChatInv, OneConnection
<1>3. \A k \in Conn : link'[k] = "open" => chat[OwnerOf[k]].ws = k
  BY DEF ChatInv, OneConnection
<1>4. \A k \in Conn : link'[k] = "unused" => outbox'[k] = <<>> /\ \A n \in Turn : turn'[n].by # k
  BY DEF ChatInv, OneConnection
<1> QED BY <1>1, <1>2, <1>3, <1>4 DEF OneConnection, InChat

\* A message that is still to be answered stays so, as long as it is on its way.
LEMMA QuestionStays ==
  ASSUME IInv, ChatInv, NEW n \in Turn,
         Unanswered(n)' /\ link'[turn'[n].by] = "open" =>
           /\ Unanswered(n) /\ turn'[n].by = turn[n].by /\ link[turn[n].by] = "open"
           /\ Asking(n)'
           /\ OwnerOf[turn[n].by] \in Console => /\ chat'[OwnerOf[turn[n].by]].step = chat[OwnerOf[turn[n].by]].step
                                                 /\ chat'[OwnerOf[turn[n].by]].turn = chat[OwnerOf[turn[n].by]].turn
  PROVE  OneQuestion(n)'
  BY DEF OneQuestion, ChatInv, Expects

\* The property, from the invariant.
LEMMA ChatsKept == IInv /\ ChatInv => NoChatIsLost
<1> SUFFICES ASSUME IInv, ChatInv, NEW c \in Console, InChat(c)
             PROVE  /\ ClientOpen(chat[c].ws)
                    /\ chat[c].step = "waiting" => ~Coming(c, Answers)
                    /\ link[chat[c].ws] = "open" =>
                         \/ chat[c].step = "sent" /\ (Asking(chat[c].turn) \/ Coming(c, {"refused"}))
                         \/ /\ chat[c].step = "sent" => Coming(c, {"ok"})
                            /\ Ending(c) \/ Unheard(c)
  BY DEF NoChatIsLost
<1>1. c \in Client /\ chat[c].ws \in Conn /\ chat[c].ws # None /\ chat[c].turn \in Turn
  BY Typed
<1>2. OneAnswer(c) /\ Accounted(c) /\ OneQuestion(chat[c].turn) /\ ClientOpen(chat[c].ws)
  BY <1>1 DEF ChatInv, OneConnection
<1>3. chat[c].step = "waiting" => ~Coming(c, Answers)
  BY <1>1, <1>2 DEF OneAnswer, Answered
<1>4. Coming(c, Answers) <=> Coming(c, {"ok"}) \/ Coming(c, {"refused"})
  BY DEF Coming, Contains, Answers
<1>5. ASSUME link[chat[c].ws] = "open", Unanswered(chat[c].turn)
      PROVE  chat[c].step = "sent" /\ Asking(chat[c].turn)
  <2>1. turn[chat[c].turn].by = chat[c].ws
    BY <1>1, WaitsAtHome
  <2> QED BY <1>1, <1>2, <1>5, <2>1, Whose DEF OneQuestion, Expects
<1>6. ASSUME link[chat[c].ws] = "open", ~Unanswered(chat[c].turn)
      PROVE  \/ chat[c].step = "sent" /\ Coming(c, {"refused"})
             \/ (chat[c].step = "sent" => Coming(c, {"ok"})) /\ (Ending(c) \/ Unheard(c))
  <2>1. Coming(c, {"refused"}) \/ Ending(c) \/ Unheard(c)
    BY <1>2, <1>6 DEF Accounted
  <2>2. Coming(c, {"refused"}) => chat[c].step = "sent"
    BY <1>1, <1>2, <1>4 DEF OneAnswer, Answered
  <2>3. chat[c].step = "sent" => Coming(c, {"ok"}) \/ Coming(c, {"refused"})
    BY <1>1, <1>2, <1>4, <1>6 DEF OneAnswer, Answered
  <2> QED BY <2>1, <2>2, <2>3
<1> QED BY <1>2, <1>3, <1>5, <1>6

-----------------------------------------------------------------------------
(* Steps of the gateway                                                     *)

LEMMA ChatsAtFirst == Init => ChatInv
<1> SUFFICES ASSUME Init PROVE ChatInv
  OBVIOUS
<1>1. \A c \in Client : chat[c].ws = None /\ ~InChat(c)
  BY DEF Init, AtPrompt, InChat
<1>2. \A n \in Turn : ~Unanswered(n) /\ turn[n].by = None
  BY DEF Init, Unsent, Unanswered
<1>3. \A k \in Conn : link[k] = "unused" /\ outbox[k] = <<>> /\ k # None
  BY ClientsOK DEF Init
<1>4. OneConnection
  BY <1>1, <1>2, <1>3 DEF OneConnection
<1> QED BY <1>1, <1>2, <1>4 DEF ChatInv, OneQuestion, OneAnswer, Accounted, Client

\* What a step of the driver of turn n does: n stays in its Session and is not to be
\* answered, and when its end is decided, whoever hears the Session is told.
LEMMA DriverEffect ==
  ASSUME IInv, NEW n \in Turn, DriverStep(n)
  PROVE  /\ UNCHANGED <<link, inbox, hears, chat>>
         /\ \A m \in Turn : m # n => turn'[m] = turn[m]
         /\ turn'[n].by = turn[n].by /\ turn'[n].session = turn[n].session
         /\ turn[n].session \in Turn
         /\ ~Unanswered(n) /\ ~Unanswered(n)'
         /\ \/ UNCHANGED outbox /\ (turn[n].stage \in {"llm", "tool"} => turn'[n].stage \in {"llm", "tool"})
            \/ \E o \in Outcome : outbox' = Sent(outbox, hears[turn[n].session], Msg(o, n))
<1>1. turn \in [Turn -> TurnState] /\ turn[n] \in TurnState
  BY Typed
<1>2. turn[n].stage \in Running /\ turn[n].session \in Turn
  BY DEF IInv, TypeOK, DriverStep, ModelAnswers, ModelCallsTools, ModelFails, ModelIsCut, ReaderCancelled,
         ToolsDone, Running
<1>3. UNCHANGED <<link, inbox, hears, chat>>
  BY DEF DriverStep, ModelAnswers, ModelCallsTools, ModelFails, ModelIsCut, ReaderCancelled, ToolsDone
<1>4. PICK t : /\ turn' = [turn EXCEPT ![n] = t]
               /\ \/ t = [turn[n] EXCEPT !.stage = "tool", !.signal = "live"]
                  \/ t = [turn[n] EXCEPT !.stage = "llm"]
                  \/ \E o \in Outcome \cup {None} : t = Over(turn[n], o)
                  \/ \E o \in Outcome : t = [turn[n] EXCEPT !.stage = "closing", !.end = o]
  <2>1. Settled(n) \in Outcome /\ "error" \in Outcome /\ "aborted" \in Outcome
    BY DEF Settled, Outcome
  <2>2. turn[n].end \in Outcome \cup {None}
    BY <1>1 DEF TurnState
  <2>3. CASE ModelCallsTools(n) \/ (ToolsDone(n) /\ ~flag)
    BY <2>3 DEF ModelCallsTools, ToolsDone
  <2>4. CASE ModelAnswers(n) \/ ModelFails(n) \/ (ToolsDone(n) /\ flag) \/ ReaderCancelled(n)
    BY <2>1, <2>2, <2>4 DEF ModelAnswers, ModelFails, ToolsDone, ReaderCancelled, Finish
  <2>5. CASE ModelIsCut(n)
    BY <2>1, <2>5 DEF ModelIsCut
  <2> QED BY <2>3, <2>4, <2>5 DEF DriverStep
<1>5. t.by = turn[n].by /\ t.session = turn[n].session /\ t.stage \notin {"asked", "handling"}
  BY <1>1, <1>4 DEF Over, TurnState
<1>6. turn'[n] = t /\ \A m \in Turn : m # n => turn'[m] = turn[m]
  BY <1>1, <1>4
<1>7. \/ UNCHANGED outbox /\ (turn[n].stage \in {"llm", "tool"} => turn'[n].stage \in {"llm", "tool"})
      \/ \E o \in Outcome : outbox' = Sent(outbox, hears[turn[n].session], Msg(o, n))
  <2>1. Settled(n) \in Outcome /\ "error" \in Outcome /\ "aborted" \in Outcome
    BY DEF Settled, Outcome
  <2>2. CASE ModelCallsTools(n) \/ (ToolsDone(n) /\ ~flag)
    BY <1>1, <2>2 DEF ModelCallsTools, ToolsDone, TurnState
  <2>3. CASE ReaderCancelled(n)
    BY <2>3 DEF ReaderCancelled
  <2>4. CASE ModelAnswers(n) \/ ModelFails(n) \/ (ToolsDone(n) /\ flag) \/ ModelIsCut(n)
    BY <2>1, <2>4 DEF ModelAnswers, ModelFails, ToolsDone, ModelIsCut, Finish, Emit
  <2> QED BY <2>2, <2>3, <2>4 DEF DriverStep
<1> QED BY <1>2, <1>3, <1>5, <1>6, <1>7 DEF Unanswered, Running

LEMMA DriverChats == ASSUME IInv, ChatInv, NEW n \in Turn, DriverStep(n) PROVE ChatInv'
<1>1. UNCHANGED <<link, inbox, hears, chat>> /\ (\A m \in Turn : m # n => turn'[m] = turn[m])
      /\ turn'[n].by = turn[n].by /\ turn'[n].session = turn[n].session /\ turn[n].session \in Turn
      /\ ~Unanswered(n) /\ ~Unanswered(n)'
  BY DriverEffect
<1>2. \/ UNCHANGED outbox /\ (turn[n].stage \in {"llm", "tool"} => turn'[n].stage \in {"llm", "tool"})
      \/ \E o \in Outcome : outbox' = Sent(outbox, hears[turn[n].session], Msg(o, n))
  BY DriverEffect
<1>3. \A k \in Conn : link[k] # "open" => outbox'[k] = outbox[k]
  BY <1>2 DEF Sent, Reaches
<1>4. OneConnection'
  BY <1>1, <1>3, ConnectionStays DEF ClientOpen
<1>5. ASSUME NEW m \in Turn PROVE OneQuestion(m)'
  BY <1>1, QuestionStays DEF Asking, Unanswered, ChatInv, OneQuestion
<1>6. ASSUME NEW c \in Console PROVE OneAnswer(c)' /\ Accounted(c)'
  <2>1. c \in Client /\ (chat[c].ws # None => chat[c].ws \in Conn /\ OwnerOf[chat[c].ws] = c)
        /\ (InChat(c) => chat[c].ws # None /\ chat[c].turn \in Turn)
    BY Typed DEF ChatInv, OneConnection
  <2>2. ASSUME NEW o \in Outcome, outbox' = Sent(outbox, hears[turn[n].session], Msg(o, n)), chat[c].ws # None
        PROVE  /\ outbox'[chat[c].ws] = outbox[chat[c].ws] \/ ToldEnd(c)
               /\ chat[c].ws \in hears[turn[n].session] /\ link[chat[c].ws] = "open" => ToldEnd(c)
    <3>1. Msg(o, n) \in Reply /\ Msg(o, n).kind \in Outcome
      BY Kinds
    <3>2. /\ outbox'[chat[c].ws] \in {outbox[chat[c].ws], Append(outbox[chat[c].ws], Msg(o, n))}
          /\ chat[c].ws \in hears[turn[n].session] /\ link[chat[c].ws] = "open"
               => outbox'[chat[c].ws] = Append(outbox[chat[c].ws], Msg(o, n))
      BY <2>1, <2>2 DEF Sent, Reaches
    <3> QED BY <3>1, <3>2 DEF ToldEnd
  <2>3. chat[c].ws # None => outbox'[chat[c].ws] = outbox[chat[c].ws] \/ ToldEnd(c)
    BY <1>2, <2>2
  <2>4. InChat(c) => /\ Unanswered(chat[c].turn)' <=> Unanswered(chat[c].turn)
                     /\ Unheard(c)' <=> Unheard(c)
    BY <1>1, <2>1 DEF Unanswered, Unheard
  <2>5. ASSUME InChat(c), link[chat[c].ws] = "open", turn[chat[c].turn].stage \in {"llm", "tool"}
        PROVE  turn'[chat[c].turn].stage \in {"llm", "tool"} \/ ToldEnd(c) \/ Unheard(c)'
    <3>1. CASE chat[c].turn # n
      BY <1>1, <2>1, <2>5, <3>1
    <3>2. CASE chat[c].turn = n
      <4>1. Unheard(c) <=> chat[c].ws \notin hears[turn[n].session]
        BY <1>1, <3>2, ClientsOK DEF Unheard
      <4> QED BY <1>2, <2>1, <2>2, <2>4, <2>5, <3>2, <4>1
    <3> QED BY <3>1, <3>2
  <2> QED BY <1>1, <2>3, <2>4, <2>5, Bystander
<1> QED BY <1>4, <1>5, <1>6 DEF ChatInv

\* A message stays on its way when another frame is read.
LEMMA AskingStays ==
  ASSUME IInv, NEW k \in Conn, NEW kind, Arrives(k, kind), NEW m \in Turn, Asking(m),
         Head(inbox[k]) # Msg("send", m),
         turn'[m].stage = turn[m].stage, turn'[m].by = turn[m].by
  PROVE  Asking(m)'
<1>1. inbox \in [Conn -> Seq(Frame)] /\ turn[m].by \in Conn
  BY Typed DEF Asking
<1>2. CASE turn[m].stage = "asked"
  <2>1. \E i \in DOMAIN inbox[turn[m].by] : inbox[turn[m].by][i] = Msg("send", m)
    BY <1>2 DEF Asking
  <2>2. inbox'[turn[m].by] = (IF turn[m].by = k THEN Tail(inbox[k]) ELSE inbox[turn[m].by])
    BY <1>1 DEF Arrives
  <2>3. \E i \in DOMAIN inbox'[turn[m].by] : inbox'[turn[m].by][i] = Msg("send", m)
    <3>1. CASE turn[m].by = k
      <4>1. PICK q : q = inbox[k]
        OBVIOUS
      <4>2. q \in Seq(Frame) /\ \E i \in DOMAIN q : q[i] = Msg("send", m)
        BY <1>1, <2>1, <3>1, <4>1
      <4>3. \E i \in DOMAIN Tail(q) : Tail(q)[i] = Msg("send", m)
        BY <4>1, <4>2, Travels
      <4> QED BY <2>2, <3>1, <4>1, <4>3
    <3>2. CASE turn[m].by # k
      BY <2>1, <2>2, <3>2
    <3> QED BY <3>1, <3>2
  <2> QED BY <2>3 DEF Asking, Unanswered
<1>3. CASE turn[m].stage # "asked"
  BY <1>3 DEF Asking, Unanswered
<1> QED BY <1>2, <1>3

\* A refusal answers the console that asked, and no other.
LEMMA RefusalChats ==
  ASSUME IInv, ChatInv, NEW n \in Turn, Unanswered(n),
         turn' = [turn EXCEPT ![n].stage = "over"],
         outbox' = Sent(outbox, {turn[n].by}, Msg("refused", n)),
         UNCHANGED <<link, hears, chat>>
  PROVE  OneConnection' /\ \A c \in Console : OneAnswer(c)' /\ Accounted(c)'
<1>1. PICK k : k = turn[n].by
  OBVIOUS
<1>2. /\ k \in Conn /\ outbox \in [Conn -> Seq(Reply)] /\ turn \in [Turn -> TurnState]
      /\ turn[n] \in TurnState
  BY <1>1, Typed
<1>3. /\ turn'[n].stage = "over" /\ turn'[n].by = k /\ ~Unanswered(n)'
      /\ \A m \in Turn : m # n => turn'[m] = turn[m]
  BY <1>1, <1>2 DEF TurnState, Unanswered
<1>4. \A j \in Conn : j # k \/ link[j] # "open" => outbox'[j] = outbox[j]
  BY <1>1 DEF Sent, Reaches
<1>5. OneConnection'
  BY <1>1, <1>3, <1>4, ConnectionStays DEF ClientOpen
<1>6. ASSUME NEW c \in Console PROVE OneAnswer(c)' /\ Accounted(c)'
  <2>1. c \in Client /\ (chat[c].ws # None => chat[c].ws \in Conn /\ OwnerOf[chat[c].ws] = c)
        /\ (InChat(c) => chat[c].ws # None /\ chat[c].turn \in Turn)
    BY Typed DEF ChatInv, OneConnection
  <2>2. CASE chat[c].ws = k /\ link[k] = "open"
    <3>1. Expects(c, n) /\ ~Coming(c, Answers)
      BY <1>1, <2>2, Whose
    <3>2. k # None
      BY <1>2, ClientsOK
    <3>3. OwnerOf[k] = c /\ AtMostOnce(outbox[k], Answers)
      BY <2>1, <2>2, <3>2 DEF ChatInv, OneAnswer
    <3>4. outbox'[k] = Append(outbox[k], Msg("refused", n))
      BY <1>1, <1>2, <2>2, <3>3 DEF Sent, Reaches
    <3>5. /\ AtMostOnce(outbox'[k], Answers)
          /\ Contains(outbox'[k], Answers) /\ Contains(outbox'[k], {"refused"})
      <4>1. PICK q, f : q = outbox[k] /\ f = Msg("refused", n)
        OBVIOUS
      <4>2. q \in Seq(Reply) /\ f \in Reply /\ f.kind \in Answers /\ f.kind \in {"refused"}
        BY <1>2, <4>1, Kinds
      <4>3. ~Contains(q, Answers) /\ AtMostOnce(q, Answers)
        BY <2>2, <3>1, <3>3, <4>1 DEF Coming
      <4> QED BY <3>4, <4>1, <4>2, <4>3, Appended
    <3>6. Answered(c)' /\ Coming(c, Answers)' /\ Coming(c, {"refused"})'
      BY <1>3, <2>2, <3>1, <3>5 DEF Answered, Expects, Coming
    <3> QED BY <2>2, <3>5, <3>6 DEF OneAnswer, Accounted
  <2>3. CASE ~(chat[c].ws = k /\ link[k] = "open")
    <3>1. chat[c].ws # None => outbox'[chat[c].ws] = outbox[chat[c].ws]
      BY <1>4, <2>1, <2>3
    <3>2. InChat(c) /\ link[chat[c].ws] = "open" => chat[c].turn # n
      BY <1>1, <2>1, <2>3, WaitsAtHome
    <3>3. InChat(c) /\ ~Unanswered(chat[c].turn) => ~Unanswered(chat[c].turn)'
      BY <1>3, <2>1 DEF Unanswered
    <3>4. InChat(c) /\ link[chat[c].ws] = "open" => turn'[chat[c].turn] = turn[chat[c].turn]
      BY <1>3, <2>1, <3>2
    <3> QED BY <3>1, <3>3, <3>4, Bystander DEF Unanswered, Unheard
  <2> QED BY <2>2, <2>3
<1> QED BY <1>5, <1>6

LEMMA RefuseChats == ASSUME IInv, ChatInv, NEW n \in Turn, RefuseSend(n) PROVE ChatInv'
<1>1. Unanswered(n) /\ turn \in [Turn -> TurnState]
  BY Typed DEF RefuseSend, Unanswered
<1>2. OneConnection' /\ \A c \in Console : OneAnswer(c)' /\ Accounted(c)'
  BY <1>1, RefusalChats DEF RefuseSend, Answer
<1>3. ASSUME NEW m \in Turn PROVE OneQuestion(m)'
  <2>1. CASE m = n
    BY <1>1, <2>1 DEF RefuseSend, OneQuestion, Unanswered, TurnState
  <2>2. CASE m # n
    <3>1. turn'[m] = turn[m] /\ UNCHANGED <<inbox, link, chat>>
      BY <1>1, <2>2 DEF RefuseSend
    <3> QED BY <3>1, QuestionStays DEF Asking, Unanswered, ChatInv, OneQuestion
  <2> QED BY <2>1, <2>2
<1> QED BY <1>2, <1>3 DEF ChatInv

LEMMA ReceiveChats == ASSUME IInv, ChatInv, NEW k \in Conn, ReceiveSend(k) PROVE ChatInv'
<1>1. PICK n : n = Head(inbox[k]).turn
  OBVIOUS
<1>2. /\ n \in Turn /\ turn[n].by = k /\ turn[n].stage = "asked" /\ Head(inbox[k]) = Msg("send", n)
      /\ Arrives(k, "send")
  <2>1. Arrives(k, "send") /\ RestOK /\ FramesOK
    BY Parts DEF ReceiveSend
  <2>2. Head(inbox[k]) \in Frame /\ Head(inbox[k]).kind = "send" /\ Head(inbox[k]) = inbox[k][1]
        /\ 1 \in DOMAIN inbox[k]
    BY <2>1, ArrivesKeeps
  <2>3. n \in Turn /\ Head(inbox[k]) = Msg("send", n)
    BY <1>1, <2>2 DEF Frame, Msg
  <2> QED BY <1>1, <2>1, <2>2, <2>3 DEF FramesOK
<1>3. Unanswered(n) /\ turn \in [Turn -> TurnState] /\ turn[n] \in TurnState
  BY <1>2, Typed DEF Unanswered
<1>4. UNCHANGED <<link, hears, chat>>
  BY DEF ReceiveSend
<1>5. PICK u \in {"over", "handling"} :
        /\ turn' = [turn EXCEPT ![n].stage = u]
        /\ \/ u = "over" /\ outbox' = Sent(outbox, {k}, Msg("refused", n))
           \/ u = "handling" /\ outbox' = outbox
  BY <1>1 DEF ReceiveSend, Answer
<1>6. turn'[n].stage = u /\ turn'[n].by = k /\ \A m \in Turn : m # n => turn'[m] = turn[m]
  BY <1>2, <1>3, <1>5 DEF TurnState
<1>7. OneConnection' /\ \A c \in Console : OneAnswer(c)' /\ Accounted(c)'
  <2>1. CASE u = "over"
    BY <1>2, <1>3, <1>4, <1>5, <2>1, RefusalChats
  <2>2. CASE u = "handling"
    <3>1. UNCHANGED outbox
      BY <1>5, <2>2
    <3>2. \A m \in Turn : turn'[m].by = turn[m].by
      BY <1>2, <1>6
    <3>3. OneConnection'
      BY <1>4, <3>1, <3>2, ConnectionStays DEF ClientOpen
    <3>4. ASSUME NEW c \in Console PROVE OneAnswer(c)' /\ Accounted(c)'
      <4>1. InChat(c) => chat[c].turn \in Turn
        BY Typed
      <4>2. InChat(c) => (Unanswered(chat[c].turn)' <=> Unanswered(chat[c].turn))
        BY <1>2, <1>4, <1>6, <2>2, <4>1 DEF Unanswered
      <4>3. InChat(c) /\ ~Unanswered(chat[c].turn) => turn'[chat[c].turn] = turn[chat[c].turn]
        BY <1>3, <1>6, <4>1
      <4> QED BY <1>4, <3>1, <4>2, <4>3, Bystander DEF Unheard
    <3> QED BY <3>3, <3>4
  <2> QED BY <2>1, <2>2
<1>8. ASSUME NEW m \in Turn PROVE OneQuestion(m)'
  <2>1. CASE m = n
    <3>1. Unanswered(n)' => Asking(n)'
      BY <1>6 DEF Asking, Unanswered
    <3>2. link[k] = "open" /\ OwnerOf[k] \in Console => Expects(OwnerOf[k], n)
      BY <1>2, <1>3 DEF ChatInv, OneQuestion
    <3> QED BY <1>4, <1>6, <2>1, <3>1, <3>2 DEF OneQuestion, Expects
  <2>2. CASE m # n
    <3>1. turn'[m] = turn[m] /\ Head(inbox[k]) # Msg("send", m)
      BY <1>2, <1>6, <2>2 DEF Msg
    <3>2. Asking(m) => Asking(m)'
      BY <1>2, <3>1, AskingStays
    <3> QED BY <1>4, <3>1, <3>2, QuestionStays DEF Unanswered, ChatInv, OneQuestion
  <2> QED BY <2>1, <2>2
<1> QED BY <1>7, <1>8 DEF ChatInv

\* What the rest of session.send does: nobody but its caller starts to hear a Session, no
\* other turn moves on, and the caller is told that it was accepted.
LEMMA StartEffect ==
  ASSUME IInv, NEW n \in Turn, StartTurn(n), NEW k, k = turn[n].by, NEW s, s = Stored(n)
  PROVE  /\ UNCHANGED <<link, inbox, chat>> /\ k \in Conn /\ s \in Turn
         /\ \A t \in Turn : hears'[t] \subseteq hears[t] \cup {k}
         /\ turn'[n].by = k /\ turn'[n].session = s
         /\ Unanswered(n) /\ ~Unanswered(n)'
         /\ \A m \in Turn : m # n => /\ turn'[m].by = turn[m].by /\ turn'[m].session = turn[m].session
                                     /\ turn'[m].stage = turn[m].stage
         /\ \/ turn'[n].stage = "llm" /\ outbox' = Sent(outbox, {k}, Msg("ok", n))
            \/ outbox' = Sent(Sent(outbox, hears'[s], Msg("error", n)), {k}, Msg("ok", n))
<1>1. Unanswered(n) /\ turn \in [Turn -> TurnState] /\ k \in Conn /\ RestOK
  BY Typed, Parts DEF StartTurn, Unanswered
<1>2. PICK heard \in Heard(k, n) : hears' = heard /\ IF Busy(s) THEN TellBusy(n, s, heard) ELSE Begin(n, s, heard)
  BY DEF StartTurn
<1>3. heard \in [Turn -> SUBSET Conn] /\ s \in Turn
  BY <1>1, <1>2, HeardType
<1>4. \A t \in Turn : heard[t] \subseteq hears[t] \cup {k}
  <2>1. hears \in [Turn -> SUBSET Conn] /\ (entry # None => entry.session \in Turn)
    BY <1>1 DEF RestOK
  <2>2. Unsubscribed \in [Turn -> SUBSET Conn] /\ \A t \in Turn : Unsubscribed[t] \subseteq hears[t]
    BY <2>1 DEF Unsubscribed
  <2>3. CASE Expired
    BY <1>2, <2>1, <2>2, <2>3 DEF Heard
  <2>4. CASE ~Expired
    BY <1>2, <1>3, <2>1, <2>2, <2>4 DEF Heard
  <2> QED BY <2>3, <2>4
<1>5. CASE TellBusy(n, s, heard)
  <2>1. turn' = [turn EXCEPT ![n].stage = "over", ![n].session = s, ![n].end = "error"]
    BY <1>5 DEF TellBusy
  <2>2. turn'[n].stage = "over" /\ turn'[n].by = k /\ turn'[n].session = s
        /\ \A m \in Turn : m # n => turn'[m] = turn[m]
    BY <1>1, <2>1 DEF TurnState
  <2>3. outbox' = Sent(Sent(outbox, hears'[s], Msg("error", n)), {k}, Msg("ok", n))
    BY <1>2, <1>5 DEF TellBusy
  <2> QED BY <1>1, <1>2, <1>3, <1>4, <2>2, <2>3 DEF StartTurn, Unanswered
<1>6. CASE Begin(n, s, heard)
  <2>1. turn'[n] = [turn[n] EXCEPT !.stage = "llm", !.session = s]
    BY <1>6 DEF Begin
  <2>2. turn'[n].stage = "llm" /\ turn'[n].by = k /\ turn'[n].session = s
    BY <1>1, <2>1 DEF TurnState
  <2>3. ASSUME NEW m \in Turn, m # n
        PROVE  turn'[m].by = turn[m].by /\ turn'[m].session = turn[m].session /\ turn'[m].stage = turn[m].stage
    <3>1. turn'[m] = turn[m] \/ turn'[m] = [turn[m] EXCEPT !.signal = "deaf"]
      BY <1>6, <2>3 DEF Begin
    <3> QED BY <1>1, <3>1 DEF TurnState
  <2>4. outbox' = Sent(outbox, {k}, Msg("ok", n))
    BY <1>6 DEF Begin, Answer
  <2> QED BY <1>1, <1>2, <1>3, <1>4, <2>2, <2>3, <2>4 DEF StartTurn, Unanswered
<1> QED BY <1>2, <1>5, <1>6

LEMMA StartChats == ASSUME IInv, ChatInv, NEW n \in Turn, StartTurn(n) PROVE ChatInv'
<1>0. PICK k : k = turn[n].by
  OBVIOUS
<1>s. PICK s : s = Stored(n)
  OBVIOUS
<1>1. /\ UNCHANGED <<link, inbox, chat>> /\ k \in Conn /\ s \in Turn
      /\ \A t \in Turn : hears'[t] \subseteq hears[t] \cup {k}
      /\ turn'[n].by = k /\ turn'[n].session = s
      /\ Unanswered(n) /\ ~Unanswered(n)'
      /\ \A m \in Turn : m # n => /\ turn'[m].by = turn[m].by /\ turn'[m].session = turn[m].session
                                  /\ turn'[m].stage = turn[m].stage
  BY <1>0, <1>s, StartEffect
<1>2. \/ turn'[n].stage = "llm" /\ outbox' = Sent(outbox, {k}, Msg("ok", n))
      \/ outbox' = Sent(Sent(outbox, hears'[s], Msg("error", n)), {k}, Msg("ok", n))
  BY <1>0, <1>s, StartEffect
<1>3. ASSUME NEW j \in Conn
      PROVE  /\ link[j] # "open" => outbox'[j] = outbox[j]
             /\ j # k => outbox'[j] = outbox[j] \/ outbox'[j] = Append(outbox[j], Msg("error", n))
  <2>1. CASE outbox' = Sent(outbox, {k}, Msg("ok", n))
    BY <2>1 DEF Sent, Reaches
  <2>2. CASE outbox' = Sent(Sent(outbox, hears'[s], Msg("error", n)), {k}, Msg("ok", n))
    BY <2>2 DEF Sent, Reaches
  <2> QED BY <1>2, <2>1, <2>2
<1>4. OneConnection'
  <2>1. ASSUME NEW m \in Turn PROVE turn'[m].by = turn[m].by
    <3>1. CASE m = n
      BY <1>0, <1>1, <3>1
    <3>2. CASE m # n
      BY <1>1, <3>2
    <3> QED BY <3>1, <3>2
  <2>2. ASSUME NEW j \in Conn, link'[j] = "unused" PROVE link[j] = "unused" /\ outbox'[j] = outbox[j]
    BY <1>1, <1>3, <2>2
  <2> QED BY <1>1, <2>1, <2>2, ConnectionStays DEF ClientOpen
<1>5. ASSUME NEW m \in Turn PROVE OneQuestion(m)'
  <2>1. CASE m = n
    BY <1>1, <2>1 DEF OneQuestion
  <2>2. CASE m # n
    BY <1>1, <2>2, QuestionStays DEF Asking, Unanswered, ChatInv, OneQuestion
  <2> QED BY <2>1, <2>2
<1>6. ASSUME NEW c \in Console PROVE OneAnswer(c)' /\ Accounted(c)'
  <2>1. c \in Client /\ (chat[c].ws # None => chat[c].ws \in Conn /\ OwnerOf[chat[c].ws] = c)
        /\ (InChat(c) => chat[c].ws # None /\ chat[c].turn \in Turn)
    BY Typed DEF ChatInv, OneConnection
  <2>2. CASE chat[c].ws = k /\ link[k] = "open"
    <3>1. Expects(c, n) /\ ~Coming(c, Answers) /\ k # None
      BY <1>0, <1>1, <2>2, Whose, ClientsOK
    <3>2. OwnerOf[k] = c /\ AtMostOnce(outbox[k], Answers) /\ Reaches(k) /\ outbox[k] \in Seq(Reply)
      BY <1>1, <2>1, <2>2, <3>1, Typed DEF ChatInv, OneAnswer, Reaches
    <3>3. PICK q : q = outbox[k]
      OBVIOUS
    <3>4. PICK e, f : e = Msg("error", n) /\ f = Msg("ok", n)
      OBVIOUS
    <3>5. /\ q \in Seq(Reply) /\ e \in Reply /\ f \in Reply
          /\ e.kind \in Outcome /\ e.kind \notin Answers /\ f.kind \in Answers
          /\ ~Contains(q, Answers) /\ AtMostOnce(q, Answers)
      BY <2>2, <3>1, <3>2, <3>3, <3>4, Kinds DEF Coming
    <3>6. PICK p : p = Append(q, e)
      OBVIOUS
    <3>7. p \in Seq(Reply) /\ ~Contains(p, Answers) /\ AtMostOnce(p, Answers) /\ Contains(p, Outcome)
      BY <3>5, <3>6, Appended
    <3>8. /\ outbox'[k] \in {Append(q, f), Append(p, f)}
          /\ \/ turn'[n].stage = "llm"
             \/ outbox'[k] = Append(p, f)
             \/ k \notin hears'[s]
      BY <1>1, <1>2, <3>2, <3>3, <3>4, <3>6 DEF Sent, Reaches
    <3>9. AtMostOnce(outbox'[k], Answers) /\ Contains(outbox'[k], Answers)
          /\ (outbox'[k] = Append(p, f) => Contains(outbox'[k], Outcome))
      <4>1. AtMostOnce(Append(q, f), Answers) /\ Contains(Append(q, f), Answers)
        BY <3>5, Appended
      <4>2. AtMostOnce(Append(p, f), Answers) /\ Contains(Append(p, f), Answers)
            /\ Contains(Append(p, f), Outcome)
        BY <3>5, <3>7, Appended
      <4> QED BY <3>8, <4>1, <4>2
    <3>10. Answered(c)' /\ Coming(c, Answers)'
      BY <1>1, <2>2, <3>1, <3>9 DEF Answered, Expects, Coming
    <3>11. Ending(c)' \/ Unheard(c)'
      <4>1. chat'[c].turn = n /\ chat'[c].ws = k
        BY <1>1, <2>2, <3>1 DEF Expects
      <4>2. CASE turn'[n].stage = "llm"
        BY <4>1, <4>2 DEF Ending
      <4>3. CASE outbox'[k] = Append(p, f)
        BY <3>9, <4>1, <4>3 DEF Ending, Coming
      <4>4. CASE k \notin hears'[s]
        BY <1>1, <4>1, <4>4, ClientsOK DEF Unheard
      <4> QED BY <3>8, <4>2, <4>3, <4>4
    <3> QED BY <1>1, <2>2, <3>9, <3>10, <3>11 DEF OneAnswer, Accounted
  <2>3. CASE ~(chat[c].ws = k /\ link[k] = "open")
    <3>1. chat[c].ws # None => outbox'[chat[c].ws] = outbox[chat[c].ws] \/ ToldEnd(c)
      <4>1. Msg("error", n) \in Reply /\ Msg("error", n).kind \in Outcome
        BY Kinds
      <4>2. ASSUME chat[c].ws # None
            PROVE  \/ outbox'[chat[c].ws] = outbox[chat[c].ws]
                   \/ outbox'[chat[c].ws] = Append(outbox[chat[c].ws], Msg("error", n))
        <5>1. PICK j : j = chat[c].ws
          OBVIOUS
        <5>2. j \in Conn /\ (j # k \/ link[j] # "open")
          BY <2>1, <2>3, <4>2, <5>1
        <5>3. outbox'[j] = outbox[j] \/ outbox'[j] = Append(outbox[j], Msg("error", n))
          BY <1>3, <5>2
        <5> QED BY <5>1, <5>3
      <4> QED BY <4>1, <4>2 DEF ToldEnd
    <3>2. InChat(c) /\ link[chat[c].ws] = "open" => chat[c].turn # n
      BY <1>0, <2>1, <2>3, WaitsAtHome
    <3>3. InChat(c) /\ ~Unanswered(chat[c].turn) => ~Unanswered(chat[c].turn)'
      BY <1>1, <2>1 DEF Unanswered
    <3>4. ASSUME InChat(c), link[chat[c].ws] = "open"
          PROVE  /\ Unanswered(chat[c].turn)' <=> Unanswered(chat[c].turn)
                 /\ Unheard(c) => Unheard(c)'
                 /\ turn'[chat[c].turn].stage = turn[chat[c].turn].stage
      <4>1. chat[c].turn # n /\ chat[c].turn \in Turn /\ chat[c].ws # k
        BY <2>1, <2>3, <3>2, <3>4
      <4>2. /\ turn'[chat[c].turn].stage = turn[chat[c].turn].stage
            /\ turn'[chat[c].turn].session = turn[chat[c].turn].session
        BY <1>1, <4>1
      <4>3. turn[chat[c].turn].session \in Turn \cup {None}
        BY <4>1, Typed DEF TurnState
      <4> QED BY <1>1, <4>1, <4>2, <4>3 DEF Unanswered, Unheard
    <3> QED BY <1>1, <3>1, <3>3, <3>4, Bystander
  <2> QED BY <2>2, <2>3
<1> QED BY <1>4, <1>5, <1>6 DEF ChatInv

\* A step that moves no turn on and makes nobody deaf, whatever connections it closes.
LEMMA QuietChats ==
  ASSUME IInv, ChatInv, UNCHANGED <<chat, hears>>,
         \A m \in Turn : /\ turn'[m].by = turn[m].by /\ turn'[m].session = turn[m].session
                         /\ turn'[m].stage = turn[m].stage
                         /\ Asking(m) /\ link'[turn[m].by] = "open" => Asking(m)',
         \A j \in Conn : /\ ClientOpen(j) => ClientOpen(j)'
                         /\ link'[j] = "open" => link[j] = "open"
                         /\ link'[j] = "unused" => link[j] = "unused"
                         /\ outbox'[j] # outbox[j] => outbox'[j] = <<>> /\ link'[j] # "open"
  PROVE  ChatInv'
<1>1. OneConnection'
  <2>1. \A j \in Conn : outbox'[j] \in {outbox[j], <<>>}
    OBVIOUS
  <2> QED BY <2>1, ConnectionStays
<1>2. ASSUME NEW m \in Turn PROVE OneQuestion(m)'
  <2>1. ASSUME Unanswered(m)', link'[turn'[m].by] = "open"
        PROVE  Unanswered(m) /\ link[turn[m].by] = "open" /\ Asking(m)'
    <3>1. Unanswered(m) /\ turn[m].by \in Conn
      BY <2>1, Typed DEF Unanswered
    <3>2. link[turn[m].by] = "open"
      BY <2>1, <3>1
    <3>3. Asking(m)
      BY <3>1, <3>2 DEF ChatInv, OneQuestion
    <3> QED BY <2>1, <3>1, <3>2, <3>3
  <2> QED BY <2>1, QuestionStays
<1>3. ASSUME NEW c \in Console PROVE OneAnswer(c)' /\ Accounted(c)'
  <2>1. c \in Client /\ (chat[c].ws # None => chat[c].ws \in Conn)
        /\ (InChat(c) => chat[c].ws # None /\ chat[c].turn \in Turn)
    BY Typed
  <2>2. InChat(c) => /\ Unanswered(chat[c].turn)' <=> Unanswered(chat[c].turn)
                     /\ Unheard(c)' <=> Unheard(c)
                     /\ turn'[chat[c].turn].stage = turn[chat[c].turn].stage
    BY <2>1 DEF Unanswered, Unheard
  <2> QED BY <2>1, <2>2, Bystander
<1> QED BY <1>1, <1>2, <1>3 DEF ChatInv

\* An abort is a flag and a signal.
LEMMA AbortMovesNone ==
  ASSUME IInv, NEW s, AbortSession(s), NEW m \in Turn
  PROVE  turn'[m].by = turn[m].by /\ turn'[m].session = turn[m].session /\ turn'[m].stage = turn[m].stage
<1>1. CASE turn' = Aborted(s)
  BY <1>1, Typed DEF Aborted, TurnState
<1>2. CASE turn' = turn
  BY <1>2
<1> QED BY <1>1, <1>2 DEF AbortSession

LEMMA ReceiveAbortChats == ASSUME IInv, ChatInv, NEW k \in Conn, ReceiveAbort(k) PROVE ChatInv'
<1>1. UNCHANGED <<link, outbox, hears, chat>> /\ Arrives(k, "abort") /\ AbortSession(attached[k])
  BY DEF ReceiveAbort
<1>2. ASSUME NEW m \in Turn
      PROVE  /\ turn'[m].by = turn[m].by /\ turn'[m].session = turn[m].session
             /\ turn'[m].stage = turn[m].stage
             /\ Asking(m) => Asking(m)'
  <2>1. turn'[m].by = turn[m].by /\ turn'[m].session = turn[m].session /\ turn'[m].stage = turn[m].stage
    BY <1>1, AbortMovesNone
  <2>2. Head(inbox[k]) # Msg("send", m)
    BY <1>1 DEF Arrives, Msg
  <2> QED BY <1>1, <2>1, <2>2, AskingStays
<1> QED BY <1>1, <1>2, QuietChats DEF ClientOpen

LEMMA ServerClosesChats == ASSUME IInv, ChatInv, NEW k \in Conn, ServerCloses(k) PROVE ChatInv'
<1>1. UNCHANGED <<inbox, outbox, hears, chat>> /\ AbortSession(attached[k])
  BY DEF ServerCloses
<1>2. ASSUME NEW m \in Turn
      PROVE  /\ turn'[m].by = turn[m].by /\ turn'[m].session = turn[m].session
             /\ turn'[m].stage = turn[m].stage
             /\ Asking(m) => Asking(m)'
  <2>1. turn'[m].by = turn[m].by /\ turn'[m].session = turn[m].session /\ turn'[m].stage = turn[m].stage
    BY <1>1, AbortMovesNone
  <2> QED BY <1>1, <2>1 DEF Asking, Unanswered
<1>3. ASSUME NEW j \in Conn
      PROVE  /\ ClientOpen(j) => ClientOpen(j)'
             /\ link'[j] = "open" => link[j] = "open"
             /\ link'[j] = "unused" => link[j] = "unused"
  BY Typed DEF ServerCloses, ClientOpen
<1> QED BY <1>1, <1>2, <1>3, QuietChats

LEMMA LoseChats == ASSUME IInv, ChatInv, NEW k \in Conn, Lose(k) PROVE ChatInv'
<1>1. UNCHANGED <<hears, turn, chat>>
  BY DEF Lose
<1>2. ASSUME NEW j \in Conn
      PROVE  /\ ClientOpen(j) => ClientOpen(j)'
             /\ link'[j] = "open" => link[j] = "open" /\ inbox'[j] = inbox[j]
             /\ link'[j] = "unused" => link[j] = "unused"
             /\ outbox'[j] # outbox[j] => outbox'[j] = <<>> /\ link'[j] # "open"
  BY Typed DEF Lose, ClientOpen
<1>3. ASSUME NEW m \in Turn, Asking(m), link'[turn[m].by] = "open" PROVE Asking(m)'
  <2>1. turn[m].by \in Conn
    BY <1>3, Typed DEF Asking
  <2>2. inbox'[turn[m].by] = inbox[turn[m].by]
    BY <1>2, <1>3, <2>1
  <2> QED BY <1>1, <1>3, <2>2 DEF Asking, Unanswered
<1> QED BY <1>1, <1>2, <1>3, QuietChats

LEMMA RestartChats == ASSUME IInv, ChatInv, Restart PROVE ChatInv'
<1>1. UNCHANGED <<outbox, chat>>
  BY DEF Restart
<1>2. ASSUME NEW j \in Conn
      PROVE  /\ ClientOpen(j) => ClientOpen(j)'
             /\ link'[j] # "open"
             /\ link'[j] = "unused" => link[j] = "unused"
  BY Typed DEF Restart, ClientOpen, Links
<1>3. ASSUME NEW m \in Turn
      PROVE  turn'[m].by = turn[m].by /\ (~Unanswered(m) => ~Unanswered(m)')
  <2>1. turn'[m] = turn[m] \/ turn'[m] = Over(turn[m], turn[m].end)
    BY DEF Restart
  <2> QED BY <2>1, Typed DEF Over, TurnState, Unanswered
<1>4. OneConnection'
  BY <1>1, <1>2, <1>3, ConnectionStays
<1>5. ASSUME NEW m \in Turn PROVE OneQuestion(m)'
  <2>1. Unanswered(m)' => Unanswered(m) /\ turn[m].by \in Conn /\ turn'[m].by = turn[m].by
    BY <1>3, Typed
  <2> QED BY <1>2, <2>1 DEF OneQuestion
<1>6. ASSUME NEW c \in Console PROVE OneAnswer(c)' /\ Accounted(c)'
  <2>1. c \in Client /\ (chat[c].ws # None => chat[c].ws \in Conn)
        /\ (InChat(c) => chat[c].ws # None /\ chat[c].turn \in Turn)
    BY Typed
  <2>2. InChat(c) /\ ~Unanswered(chat[c].turn) => ~Unanswered(chat[c].turn)'
    BY <1>1, <1>3, <2>1 DEF Unanswered
  <2>3. chat[c].ws # None => link'[chat[c].ws] # "open"
    BY <1>2, <2>1
  <2> QED BY <1>1, <2>1, <2>2, <2>3, Bystander
<1> QED BY <1>4, <1>5, <1>6 DEF ChatInv

-----------------------------------------------------------------------------
(* Steps of the clients                                                     *)

\* What a client does concerns no other console.
LEMMA OtherConsoles ==
  ASSUME IInv, ChatInv, NEW c \in Client, NEW d \in Console, d # c, UNCHANGED hears, chat'[d] = chat[d],
         \A j \in Conn : OwnerOf[j] # c => link'[j] = link[j] /\ outbox'[j] = outbox[j],
         \A m \in Turn : turn[m].stage # "unsent" => turn'[m] = turn[m]
  PROVE  OneAnswer(d)' /\ Accounted(d)'
<1>1. d \in Client /\ (InChat(d) => chat[d].turn \in Turn /\ turn[chat[d].turn].by # None)
  BY Typed, WaitsAtHome, ClientsOK
<1>2. chat[d].ws # None => link'[chat[d].ws] = link[chat[d].ws] /\ outbox'[chat[d].ws] = outbox[chat[d].ws]
  <2>1. chat[d].ws # None => chat[d].ws \in Conn /\ OwnerOf[chat[d].ws] = d
    BY <1>1, Typed DEF ChatInv, OneConnection
  <2> QED BY <2>1
<1>3. InChat(d) => turn'[chat[d].turn] = turn[chat[d].turn]
  BY <1>1 DEF IInv
<1>4. InChat(d) => /\ Unanswered(chat[d].turn)' <=> Unanswered(chat[d].turn)
                   /\ Unheard(d)' <=> Unheard(d)
  BY <1>3 DEF Unanswered, Unheard
<1> QED BY <1>2, <1>3, <1>4, Bystander

\* A client that closes its connection waits for nothing any more.
LEMMA LeaveChats ==
  ASSUME IInv, ChatInv, NEW c \in Client, Leaves(c), UNCHANGED <<inbox, hears, turn>>,
         \A d \in Client : d # c => chat'[d] = chat[d],
         chat'[c].ws = None, chat'[c].step \notin {"sent", "waiting"}
  PROVE  ChatInv'
<1>1. ASSUME NEW j \in Conn
      PROVE  /\ OwnerOf[j] # c => link'[j] = link[j] /\ outbox'[j] = outbox[j]
             /\ link'[j] = "open" => link[j] = "open" /\ OwnerOf[j] # c
             /\ link'[j] = "unused" => link[j] = "unused" /\ outbox'[j] \in {outbox[j], <<>>}
  <2>1. CASE Open(c)
    <3>1. chat[c].ws \in Conn /\ OwnerOf[chat[c].ws] = c /\ ClientOpen(chat[c].ws)
      BY <2>1, Typed DEF Open, ChatInv, OneConnection
    <3>2. /\ link' = [link EXCEPT ![chat[c].ws] = IF @ = "dropped" THEN "closed" ELSE "left"]
          /\ outbox' = [outbox EXCEPT ![chat[c].ws] = <<>>]
      BY <2>1 DEF Leaves
    <3>3. link[j] = "open" => chat[OwnerOf[j]].ws = j
      BY DEF ChatInv, OneConnection
    <3> QED BY <3>1, <3>2, <3>3, Typed
  <2>2. CASE ~Open(c)
    <3>1. UNCHANGED <<link, outbox>>
      BY <2>2 DEF Leaves
    <3>2. link[j] = "open" => chat[OwnerOf[j]].ws = j
      BY DEF ChatInv, OneConnection
    <3>3. link[j] = "open" => OwnerOf[j] # c
      BY <2>2, <3>2, ClientsOK DEF Open, ClientOpen
    <3> QED BY <3>1, <3>3
  <2> QED BY <2>1, <2>2
<1>2. \A d \in Client : d # c /\ chat[d].ws # None => chat[d].ws \in Conn /\ OwnerOf[chat[d].ws] = d
                                                      /\ ClientOpen(chat[d].ws)
  BY Typed DEF ChatInv, OneConnection
<1>3. OneConnection'
  <2>1. ASSUME NEW d \in Client, chat'[d].ws # None
        PROVE  OwnerOf[chat'[d].ws] = d /\ link'[chat'[d].ws] \in {"open", "cut", "dropped"}
    <3>1. d # c /\ chat'[d] = chat[d]
      BY <2>1
    <3>2. chat[d].ws \in Conn /\ OwnerOf[chat[d].ws] = d /\ link[chat[d].ws] \in {"open", "cut", "dropped"}
      BY <1>2, <2>1, <3>1 DEF ClientOpen
    <3> QED BY <1>1, <3>1, <3>2
  <2>2. ASSUME NEW d \in Client, InChat(d)' PROVE turn'[chat'[d].turn].by = chat'[d].ws
    <3>1. d # c /\ chat'[d] = chat[d] /\ InChat(d)
      BY <2>2 DEF InChat
    <3> QED BY <3>1 DEF ChatInv, OneConnection
  <2>3. ASSUME NEW j \in Conn, link'[j] = "open" PROVE chat'[OwnerOf[j]].ws = j
    <3>1. link[j] = "open" /\ OwnerOf[j] # c /\ OwnerOf[j] \in Client
      BY <1>1, <2>3, ClientsOK
    <3>2. chat[OwnerOf[j]].ws = j
      BY <3>1 DEF ChatInv, OneConnection
    <3> QED BY <3>1, <3>2
  <2>4. ASSUME NEW j \in Conn, link'[j] = "unused" PROVE outbox'[j] = <<>> /\ \A n \in Turn : turn'[n].by # j
    BY <1>1, <2>4 DEF ChatInv, OneConnection
  <2> QED BY <2>1, <2>2, <2>3, <2>4 DEF OneConnection, ClientOpen
<1>4. ASSUME NEW m \in Turn PROVE OneQuestion(m)'
  <2>1. ASSUME Unanswered(m)', link'[turn'[m].by] = "open"
        PROVE  /\ Unanswered(m) /\ link[turn[m].by] = "open" /\ Asking(m)'
               /\ chat'[OwnerOf[turn[m].by]] = chat[OwnerOf[turn[m].by]]
    <3>1. Unanswered(m) /\ turn[m].by \in Conn
      BY <2>1, Typed DEF Unanswered
    <3>2. link[turn[m].by] = "open" /\ OwnerOf[turn[m].by] # c /\ OwnerOf[turn[m].by] \in Client
      BY <1>1, <2>1, <3>1, ClientsOK
    <3>3. Asking(m)
      BY <3>1, <3>2 DEF ChatInv, OneQuestion
    <3> QED BY <3>1, <3>2, <3>3 DEF Asking, Unanswered
  <2> QED BY <2>1, QuestionStays
<1>5. ASSUME NEW d \in Console PROVE OneAnswer(d)' /\ Accounted(d)'
  <2>1. CASE d = c
    BY <2>1 DEF OneAnswer, Accounted, InChat
  <2>2. CASE d # c
    BY <1>1, <2>2, Typed, OtherConsoles
  <2> QED BY <2>1, <2>2
<1> QED BY <1>3, <1>4, <1>5 DEF ChatInv

LEMMA GoneChats ==
  ASSUME IInv, ChatInv, NEW c \in Client, Unhandled(c) \/ ClientCloses(c) \/ Quit(c)
  PROVE  ChatInv'
<1>1. Leaves(c) /\ UNCHANGED <<inbox, hears, turn>>
  BY DEF Unhandled, ClientCloses, Quit
<1>2. PICK s : chat' = [chat EXCEPT ![c] = s] /\ s.ws = None /\ s.step \notin {"sent", "waiting"}
  BY DEF Unhandled, ClientCloses, Quit, AtPrompt
<1>3. chat'[c] = s /\ \A d \in Client : d # c => chat'[d] = chat[d]
  BY <1>2, Typed
<1> QED BY <1>1, <1>2, <1>3, LeaveChats

LEMMA InterruptChats == ASSUME IInv, ChatInv, NEW c \in Client, Interrupt(c) PROVE ChatInv'
<1>1. PICK k : k = chat[c].ws
  OBVIOUS
<1>2. PICK f : f = Msg("abort", None)
  OBVIOUS
<1>3. /\ k \in Conn /\ f \in Frame /\ inbox' = [inbox EXCEPT ![k] = Append(@, f)]
      /\ UNCHANGED <<link, outbox, hears, turn>>
  BY <1>1, <1>2, Typed DEF Interrupt, Ask, Frame, Msg
<1>4. ASSUME NEW d \in Client
      PROVE  /\ chat'[d].step = chat[d].step /\ chat'[d].ws = chat[d].ws /\ chat'[d].turn = chat[d].turn
             /\ chat'[d].terminal = chat[d].terminal
  BY Typed DEF Interrupt, Chat
<1>5. OneConnection'
  <2>1. \A d \in Client : chat'[d].ws = chat[d].ws /\ chat'[d].turn = chat[d].turn /\ (InChat(d)' <=> InChat(d))
    BY <1>4 DEF InChat
  <2> QED BY <1>3, <2>1, ClientsOK DEF ChatInv, OneConnection, ClientOpen
<1>6. ASSUME NEW m \in Turn PROVE OneQuestion(m)'
  <2>1. ASSUME Asking(m) PROVE Asking(m)'
    <3>1. PICK j : j = turn[m].by
      OBVIOUS
    <3>2. PICK q : q = inbox[j]
      OBVIOUS
    <3>3. j \in Conn /\ q \in Seq(Frame) /\ inbox'[j] \in {q, Append(q, f)}
      BY <1>3, <2>1, <3>1, <3>2, Typed DEF Asking
    <3>4. turn[m].stage = "asked" => \E i \in DOMAIN inbox'[j] : inbox'[j][i] = Msg("send", m)
      <4>1. ASSUME turn[m].stage = "asked" PROVE \E i \in DOMAIN q : q[i] = Msg("send", m)
        BY <2>1, <3>1, <3>2, <4>1 DEF Asking
      <4>2. ASSUME turn[m].stage = "asked" PROVE \E i \in DOMAIN Append(q, f) : Append(q, f)[i] = Msg("send", m)
        BY <1>3, <3>3, <4>1, <4>2, Travels
      <4> QED BY <3>3, <4>1, <4>2
    <3> QED BY <1>3, <2>1, <3>1, <3>4 DEF Asking, Unanswered
  <2>2. Unanswered(m)' <=> Unanswered(m)
    BY <1>3 DEF Unanswered
  <2>3. Unanswered(m) => OwnerOf[turn[m].by] \in Client
    BY Typed
  <2> QED BY <1>3, <1>4, <2>1, <2>2, <2>3, QuestionStays DEF ChatInv, OneQuestion
<1>7. ASSUME NEW d \in Console PROVE OneAnswer(d)' /\ Accounted(d)'
  <2>1. /\ chat'[d].step = chat[d].step /\ chat'[d].ws = chat[d].ws /\ chat'[d].turn = chat[d].turn
        /\ chat'[d].terminal = chat[d].terminal
    BY <1>4, Typed
  <2>2. OneAnswer(d) /\ Accounted(d)
    BY DEF ChatInv
  <2>3. OneAnswer(d)'
    BY <1>3, <2>1, <2>2 DEF OneAnswer, Coming, Answered, Unanswered
  <2>4. Accounted(d)'
    BY <1>3, <2>1, <2>2 DEF Accounted, InChat, Coming, Ending, Unheard, Unanswered
  <2> QED BY <2>3, <2>4
<1> QED BY <1>5, <1>6, <1>7 DEF ChatInv

\* What a client reads comes off its queue, once.
LEMMA ReadFrame ==
  ASSUME IInv, ChatInv, NEW c \in Client, NEW kinds, Reads(c, kinds), UNCHANGED chat[c].ws
  PROVE  /\ chat[c].ws \in Conn /\ chat[c].ws # None /\ ClientOpen(chat[c].ws)
         /\ Head(outbox[chat[c].ws]).kind \in kinds
         /\ \A j \in Conn : j # chat[c].ws => outbox'[j] = outbox[j]
         /\ \A ks : /\ Coming(c, ks)' => Coming(c, ks)
                    /\ Coming(c, ks) => Head(outbox[chat[c].ws]).kind \in ks \/ Coming(c, ks)'
                    /\ Head(outbox[chat[c].ws]).kind \in ks => Coming(c, ks)
                    /\ AtMostOnce(outbox[chat[c].ws], ks) =>
                         /\ AtMostOnce(outbox'[chat[c].ws], ks)
                         /\ Head(outbox[chat[c].ws]).kind \in ks => ~Coming(c, ks)'
<1>1. PICK k : k = chat[c].ws
  OBVIOUS
<1>2. PICK q : q = outbox[k]
  OBVIOUS
<1>3. k \in Conn /\ k # None /\ ClientOpen(k) /\ q \in Seq(Reply) /\ q # <<>> /\ Head(q).kind \in kinds
      /\ outbox' = [outbox EXCEPT ![k] = Tail(q)]
  BY <1>1, <1>2, Typed DEF Reads, Open
<1>4. outbox'[k] = Tail(q) /\ \A j \in Conn : j # k => outbox'[j] = outbox[j]
  BY <1>3, Typed
<1>5. chat'[c].ws = k
  BY <1>1
<1> QED BY <1>1, <1>2, <1>3, <1>4, <1>5, Read DEF Coming

LEMMA ReadChats ==
  ASSUME IInv, ChatInv, NEW c \in Client, NEW kinds, Reads(c, kinds),
         UNCHANGED <<link, inbox, hears, turn>>,
         \A d \in Client : d # c => chat'[d] = chat[d],
         chat'[c].ws = chat[c].ws,
         InChat(c)' => InChat(c) /\ chat'[c].turn = chat[c].turn,
         chat[c].step = "sent" /\ Head(outbox[chat[c].ws]).kind \notin Answers =>
           chat'[c].step = "sent" /\ chat'[c].turn = chat[c].turn,
         c \in Console => OneAnswer(c)' /\ Accounted(c)'
  PROVE  ChatInv'
<1>1. PICK k : k = chat[c].ws
  OBVIOUS
<1>2. /\ k \in Conn /\ k # None /\ ClientOpen(k)
      /\ \A j \in Conn : j # k => outbox'[j] = outbox[j]
      /\ Head(outbox[k]).kind \in Answers => Coming(c, Answers)
  BY <1>1, ReadFrame
<1>3. OwnerOf[k] = c
  BY <1>1, <1>2 DEF ChatInv, OneConnection
<1>4. OneConnection'
  <2>1. \A d \in Client : chat'[d].ws = chat[d].ws /\ (InChat(d)' => InChat(d) /\ chat'[d].turn = chat[d].turn)
    BY DEF InChat
  <2>2. \A j \in Conn : OwnerOf[j] \in Client
    BY ClientsOK
  <2>3. \A j \in Conn : link[j] = "unused" => outbox'[j] = outbox[j]
    BY <1>2 DEF ClientOpen
  <2> QED BY <2>1, <2>2, <2>3 DEF ChatInv, OneConnection, ClientOpen
<1>5. ASSUME NEW m \in Turn PROVE OneQuestion(m)'
  <2>1. (Unanswered(m)' <=> Unanswered(m)) /\ (Asking(m) => Asking(m)')
    BY DEF Unanswered, Asking
  <2>2. ASSUME Unanswered(m), link[turn[m].by] = "open", OwnerOf[turn[m].by] \in Console
        PROVE  /\ chat'[OwnerOf[turn[m].by]].step = chat[OwnerOf[turn[m].by]].step
               /\ chat'[OwnerOf[turn[m].by]].turn = chat[OwnerOf[turn[m].by]].turn
    <3>1. turn[m].by \in Conn /\ OwnerOf[turn[m].by] \in Client
      BY <2>2, Typed
    <3>2. CASE OwnerOf[turn[m].by] = c
      <4>1. chat[c].ws = turn[m].by
        BY <2>2, <3>1, <3>2 DEF ChatInv, OneConnection
      <4>2. Expects(c, m) /\ ~Coming(c, Answers)
        BY <2>2, <3>2, <4>1, Whose
      <4> QED BY <1>1, <1>2, <3>2, <4>2 DEF Expects
    <3>3. CASE OwnerOf[turn[m].by] # c
      BY <3>1, <3>3
    <3> QED BY <3>2, <3>3
  <2> QED BY <2>1, <2>2, QuestionStays DEF ChatInv, OneQuestion
<1>6. ASSUME NEW d \in Console PROVE OneAnswer(d)' /\ Accounted(d)'
  <2>1. CASE d # c
    <3>1. d \in Client /\ \A j \in Conn : OwnerOf[j] # c => link'[j] = link[j] /\ outbox'[j] = outbox[j]
      BY <1>2, <1>3, Typed
    <3> QED BY <2>1, <3>1, OtherConsoles
  <2> QED BY <2>1
<1> QED BY <1>4, <1>5, <1>6 DEF ChatInv

LEMMA AcceptedChats == ASSUME IInv, ChatInv, NEW c \in Client, Accepted(c) PROVE ChatInv'
<1>1. /\ Reads(c, {"ok"}) /\ chat[c].step = "sent" /\ UNCHANGED <<link, inbox, hears, turn>>
      /\ chat' = [chat EXCEPT ![c] = IF @.terminal = "pending" THEN [@ EXCEPT !.step = "waiting"]
                                                              ELSE Returned(c)]
  BY DEF Accepted
<1>2. /\ \A d \in Client : d # c => chat'[d] = chat[d]
      /\ chat'[c].ws = chat[c].ws
      /\ \/ chat'[c].step = "idle"
         \/ /\ chat'[c].step = "waiting" /\ chat'[c].turn = chat[c].turn
            /\ chat[c].terminal = "pending"
  BY <1>1, Typed DEF Chat, Returned, AtPrompt
<1>3. PICK h : h = Head(outbox[chat[c].ws]).kind
  OBVIOUS
<1>4. h = "ok" /\ chat[c].ws # None /\ InChat(c) /\ chat[c].turn \in Turn
  BY <1>1, <1>2, <1>3, ReadFrame, Typed DEF InChat
<1>5. ASSUME c \in Console PROVE OneAnswer(c)' /\ Accounted(c)'
  <2>1. AtMostOnce(outbox[chat[c].ws], Answers) /\ Accounted(c) /\ Answered(c)
    <3>1. Coming(c, Answers)
      BY <1>1, <1>2, <1>3, <1>4, ReadFrame, Kinds
    <3> QED BY <1>4, <1>5, <3>1 DEF ChatInv, OneAnswer
  <2>2. AtMostOnce(outbox'[chat[c].ws], Answers) /\ ~Coming(c, Answers)'
    BY <1>1, <1>2, <1>3, <1>4, <2>1, ReadFrame, Kinds
  <2>3. OneAnswer(c)'
    BY <1>2, <2>2 DEF OneAnswer, Answered
  <2>4. ASSUME InChat(c)', link[chat[c].ws] = "open" PROVE Ending(c)' \/ Unheard(c)'
    <3>1. chat'[c].turn = chat[c].turn /\ chat[c].terminal = "pending"
      BY <1>2, <2>4 DEF InChat
    <3>2. ~Coming(c, {"refused"})
      <4>1. Coming(c, {"refused"}) => Coming(c, {"refused"})'
        BY <1>1, <1>2, <1>3, <1>4, ReadFrame, Kinds
      <4>2. Coming(c, {"refused"})' => Coming(c, Answers)'
        BY DEF Coming, Contains, Answers
      <4> QED BY <2>2, <4>1, <4>2
    <3>3. Ending(c) \/ Unheard(c)
      BY <1>4, <2>1, <2>4, <3>2 DEF Accounted, Answered
    <3>4. Coming(c, Outcome) => Coming(c, Outcome)'
      BY <1>1, <1>2, <1>3, <1>4, ReadFrame, Kinds
    <3> QED BY <1>1, <1>2, <3>1, <3>3, <3>4 DEF Ending, Unheard
  <2> QED BY <1>1, <1>2, <2>3, <2>4 DEF Accounted
<1> QED BY <1>1, <1>2, <1>3, <1>4, <1>5, ReadChats, Kinds DEF InChat

LEMMA RefusedChats == ASSUME IInv, ChatInv, NEW c \in Client, Refused(c) PROVE ChatInv'
<1>1. /\ Reads(c, {"refused"}) /\ chat[c].step = "sent" /\ UNCHANGED <<link, inbox, hears, turn>>
      /\ chat' = [chat EXCEPT ![c] = Returned(c)]
  BY DEF Refused
<1>2. /\ \A d \in Client : d # c => chat'[d] = chat[d]
      /\ chat'[c].ws = chat[c].ws /\ chat'[c].step = "idle"
  BY <1>1, Typed DEF Returned, AtPrompt
<1>3. PICK h : h = Head(outbox[chat[c].ws]).kind
  OBVIOUS
<1>4. h = "refused" /\ chat[c].ws # None
  BY <1>1, <1>2, <1>3, ReadFrame
<1>5. ASSUME c \in Console PROVE OneAnswer(c)' /\ Accounted(c)'
  <2>1. AtMostOnce(outbox[chat[c].ws], Answers)
    BY <1>4, <1>5 DEF ChatInv, OneAnswer
  <2>2. AtMostOnce(outbox'[chat[c].ws], Answers) /\ ~Coming(c, Answers)'
    BY <1>1, <1>2, <1>3, <1>4, <2>1, ReadFrame, Kinds
  <2> QED BY <1>2, <2>2 DEF OneAnswer, Answered, Accounted, InChat
<1> QED BY <1>1, <1>2, <1>3, <1>4, <1>5, ReadChats, Kinds DEF InChat

LEMMA TerminalChats == ASSUME IInv, ChatInv, NEW c \in Client, TerminalEvent(c) PROVE ChatInv'
<1>1. /\ Reads(c, Outcome) /\ InChat(c) /\ UNCHANGED <<link, inbox, hears, turn>>
  BY DEF TerminalEvent
<1>2. /\ \A d \in Client : d # c => chat'[d] = chat[d]
      /\ chat'[c].ws = chat[c].ws
      /\ chat[c].step = "waiting" => chat'[c].step = "idle"
      /\ chat[c].step = "sent" => /\ chat'[c].step = "sent" /\ chat'[c].turn = chat[c].turn
                                  /\ chat'[c].terminal # "pending"
  BY <1>1, Typed DEF TerminalEvent, Chat, Returned, AtPrompt
<1>3. PICK h : h = Head(outbox[chat[c].ws]).kind
  OBVIOUS
<1>4. h \in Outcome /\ h \notin Answers /\ chat[c].ws # None
  BY <1>1, <1>2, <1>3, ReadFrame, Kinds
<1>5. ASSUME c \in Console PROVE OneAnswer(c)' /\ Accounted(c)'
  <2>1. OneAnswer(c) /\ AtMostOnce(outbox[chat[c].ws], Answers)
    BY <1>4, <1>5 DEF ChatInv, OneAnswer
  <2>2. AtMostOnce(outbox'[chat[c].ws], Answers) /\ (Coming(c, Answers)' <=> Coming(c, Answers))
    BY <1>1, <1>2, <1>3, <1>4, <2>1, ReadFrame
  <2>3. CASE chat[c].step = "waiting"
    <3>1. ~Coming(c, Answers)
      BY <1>4, <2>1, <2>3 DEF OneAnswer, Answered
    <3> QED BY <1>2, <2>2, <2>3, <3>1 DEF OneAnswer, Answered, Accounted, InChat
  <2>4. CASE chat[c].step = "sent"
    <3>1. Answered(c)' <=> Answered(c)
      BY <1>1, <1>2, <2>4 DEF Answered, Unanswered
    <3>2. Ending(c)'
      BY <1>2, <2>4 DEF Ending
    <3> QED BY <1>1, <1>2, <1>4, <2>1, <2>2, <3>1, <3>2 DEF OneAnswer, Accounted
  <2> QED BY <1>1, <2>3, <2>4 DEF InChat
<1> QED BY <1>1, <1>2, <1>3, <1>4, <1>5, ReadChats DEF InChat

LEMMA IgnoredChats == ASSUME IInv, ChatInv, NEW c \in Client, IgnoredFrame(c) PROVE ChatInv'
<1>1. PICK kinds : Reads(c, kinds)
  BY DEF IgnoredFrame
<1>2. ~InChat(c) /\ UNCHANGED <<link, inbox, hears, turn, chat>>
  BY DEF IgnoredFrame
<1>3. chat[c].ws # None
  BY <1>1, <1>2, ReadFrame
<1>4. ASSUME c \in Console PROVE OneAnswer(c)' /\ Accounted(c)'
  <2>1. OneAnswer(c) /\ AtMostOnce(outbox[chat[c].ws], Answers)
    BY <1>3, <1>4 DEF ChatInv, OneAnswer
  <2>2. AtMostOnce(outbox'[chat[c].ws], Answers) /\ (Coming(c, Answers)' => Coming(c, Answers))
    BY <1>1, <1>2, <2>1, ReadFrame
  <2> QED BY <1>2, <1>3, <2>1, <2>2 DEF OneAnswer, Accounted, Answered, InChat
<1> QED BY <1>1, <1>2, <1>4, ReadChats DEF InChat

\* A client that is at its prompt sends on a connection it has just opened, or on the one
\* it has: nothing that answers an earlier message is on its way.
LEMMA SubmitChats ==
  ASSUME IInv, ChatInv, NEW c \in Client, NEW k \in Conn, NEW n \in Turn, Submit(c, k, n),
         chat[c].step = "idle", OwnerOf[k] = c, UNCHANGED <<outbox, hears>>,
         \/ UNCHANGED link /\ k = chat[c].ws /\ ClientOpen(k)
         \/ link' = [link EXCEPT ![k] = "open"] /\ link[k] = "unused" /\ ~Open(c)
  PROVE  ChatInv'
<1>1. /\ turn[n].stage = "unsent" /\ turn[n].by = None /\ ~Unanswered(n) /\ k # None
      /\ turn \in [Turn -> TurnState] /\ link \in [Conn -> Links] /\ chat \in [Client -> Chat]
  BY Typed, ClientsOK DEF Submit, NextTurn, IInv, Unanswered
<1>2. PICK u \in {"over", "asked"} : turn' = [turn EXCEPT ![n].stage = u, ![n].by = k]
  BY DEF Submit
<1>3. /\ turn'[n].stage = u /\ turn'[n].by = k
      /\ \A m \in Turn : m # n => turn'[m] = turn[m]
  BY <1>1, <1>2 DEF TurnState
<1>4. PICK f : f = Msg("send", n)
  OBVIOUS
<1>5. f \in Frame /\ inbox \in [Conn -> Seq(Frame)]
  BY <1>4, Typed DEF Frame, Msg
<1>6. \/ u = "over" /\ UNCHANGED inbox /\ link[k] \in {"cut", "dropped"}
      \/ u = "asked" /\ inbox' = [inbox EXCEPT ![k] = Append(@, f)]
  BY <1>3, <1>1, <1>4 DEF Submit, Ask, TurnState
<1>7. /\ chat'[c].ws = k
      /\ c \in Console => chat'[c].step = "sent" /\ chat'[c].turn = n
      /\ c \notin Console => chat'[c].step = "idle"
      /\ \A d \in Client : d # c => chat'[d] = chat[d]
  BY <1>1 DEF Submit, Chat
<1>8. ASSUME NEW j \in Conn
      PROVE  /\ j # k => link'[j] = link[j]
             /\ link'[j] = "unused" => j # k
             /\ j = k => link'[k] \in {"open", "cut", "dropped"}
             /\ j = k /\ link'[k] = "open" => u = "asked"
  BY <1>1, <1>6 DEF ClientOpen
<1>9. OneConnection'
  <2>1. ASSUME NEW d \in Client, chat'[d].ws # None
        PROVE  OwnerOf[chat'[d].ws] = d /\ link'[chat'[d].ws] \in {"open", "cut", "dropped"}
    <3>1. CASE d = c
      BY <1>7, <1>8, <3>1
    <3>2. CASE d # c
      <4>1. chat[d].ws \in Conn /\ OwnerOf[chat[d].ws] = d /\ ClientOpen(chat[d].ws) /\ chat'[d] = chat[d]
        BY <1>7, <2>1, <3>2, Typed DEF ChatInv, OneConnection
      <4> QED BY <1>8, <3>2, <4>1 DEF ClientOpen
    <3> QED BY <3>1, <3>2
  <2>2. ASSUME NEW d \in Client, InChat(d)' PROVE turn'[chat'[d].turn].by = chat'[d].ws
    <3>1. CASE d = c
      BY <1>3, <1>7, <2>2, <3>1 DEF InChat
    <3>2. CASE d # c
      <4>1. chat'[d] = chat[d] /\ InChat(d)
        BY <1>7, <2>2, <3>2 DEF InChat
      <4>2. chat[d].turn \in Turn /\ turn[chat[d].turn].by = chat[d].ws /\ chat[d].ws # None
        BY <4>1, Typed, WaitsAtHome
      <4> QED BY <1>1, <1>3, <4>1, <4>2
    <3> QED BY <3>1, <3>2
  <2>3. ASSUME NEW j \in Conn, link'[j] = "open" PROVE chat'[OwnerOf[j]].ws = j
    <3>1. CASE j = k
      BY <1>7, <3>1
    <3>2. CASE j # k
      <4>1. link[j] = "open" /\ chat[OwnerOf[j]].ws = j /\ OwnerOf[j] \in Client /\ j # None
        BY <1>8, <2>3, <3>2, ClientsOK DEF ChatInv, OneConnection
      <4>2. OwnerOf[j] # c
        BY <3>2, <4>1 DEF Open, ClientOpen
      <4> QED BY <1>7, <4>1, <4>2
    <3> QED BY <3>1, <3>2
  <2>4. ASSUME NEW j \in Conn, link'[j] = "unused" PROVE outbox'[j] = <<>> /\ \A m \in Turn : turn'[m].by # j
    <3>1. j # k /\ link[j] = "unused"
      BY <1>8, <2>4
    <3>2. outbox[j] = <<>> /\ \A m \in Turn : turn[m].by # j
      BY <3>1 DEF ChatInv, OneConnection
    <3> QED BY <1>3, <3>1, <3>2
  <2> QED BY <2>1, <2>2, <2>3, <2>4 DEF OneConnection, ClientOpen
<1>10. ASSUME NEW m \in Turn PROVE OneQuestion(m)'
  <2>1. CASE m = n
    <3>1. u = "asked" => Asking(n)'
      <4>1. ASSUME u = "asked" PROVE \E i \in DOMAIN inbox'[k] : inbox'[k][i] = f
        <5>1. PICK q : q = inbox[k]
          OBVIOUS
        <5>2. q \in Seq(Frame) /\ inbox'[k] = Append(q, f)
          BY <1>5, <1>6, <4>1, <5>1
        <5>3. \E i \in DOMAIN Append(q, f) : Append(q, f)[i] = f
          BY <1>5, <5>2, LastAppended
        <5> QED BY <5>2, <5>3
      <4> QED BY <1>3, <1>4, <4>1 DEF Asking, Unanswered
    <3>2. c \in Console => Expects(c, n)'
      BY <1>7 DEF Expects
    <3> QED BY <1>3, <2>1, <3>1, <3>2 DEF OneQuestion, Unanswered, Expects
  <2>2. CASE m # n
    <3> SUFFICES ASSUME Unanswered(m)', link'[turn'[m].by] = "open"
                 PROVE  /\ Asking(m)'
                        /\ OwnerOf[turn'[m].by] \in Console =>
                             /\ chat'[OwnerOf[turn'[m].by]].step = "sent"
                             /\ chat'[OwnerOf[turn'[m].by]].turn = m
      BY DEF OneQuestion, Expects
    <3>1. turn'[m] = turn[m] /\ Unanswered(m) /\ turn[m].by \in Conn /\ OwnerOf[turn[m].by] \in Client
      BY <1>3, <2>2, Typed DEF Unanswered
    <3>2. turn[m].by = k => link[k] # "unused"
      BY <3>1 DEF ChatInv, OneConnection
    <3>3. link[turn[m].by] = "open"
      BY <1>8, <3>1, <3>2
    <3>4. Asking(m) /\ (OwnerOf[turn[m].by] \in Console => Expects(OwnerOf[turn[m].by], m))
      BY <3>1, <3>3 DEF ChatInv, OneQuestion
    <3>5. OwnerOf[turn[m].by] \in Console =>
            chat'[OwnerOf[turn[m].by]].step = "sent" /\ chat'[OwnerOf[turn[m].by]].turn = m
      <4>1. OwnerOf[turn[m].by] \in Console => OwnerOf[turn[m].by] # c
        BY <3>4 DEF Expects
      <4> QED BY <1>7, <3>1, <3>4, <4>1 DEF Expects
    <3>6. Asking(m)'
      <4>1. PICK j : j = turn[m].by
        OBVIOUS
      <4>2. PICK q : q = inbox[j]
        OBVIOUS
      <4>3. j \in Conn /\ q \in Seq(Frame) /\ inbox'[j] \in {q, Append(q, f)}
        BY <1>5, <1>6, <3>1, <4>1, <4>2
      <4>4. ASSUME turn[m].stage = "asked" PROVE \E i \in DOMAIN inbox'[j] : inbox'[j][i] = Msg("send", m)
        <5>1. \E i \in DOMAIN q : q[i] = Msg("send", m)
          BY <3>4, <4>1, <4>2, <4>4 DEF Asking
        <5>2. \E i \in DOMAIN Append(q, f) : Append(q, f)[i] = Msg("send", m)
          BY <1>5, <4>3, <5>1, Travels
        <5> QED BY <4>3, <5>1, <5>2
      <4> QED BY <3>1, <4>1, <4>4 DEF Asking, Unanswered
    <3> QED BY <3>1, <3>5, <3>6
  <2> QED BY <2>1, <2>2
<1>11. ASSUME NEW d \in Console PROVE OneAnswer(d)' /\ Accounted(d)'
  <2>1. CASE d = c
    <3>1. chat'[c].ws = k /\ chat'[c].step = "sent" /\ chat'[c].turn = n
      BY <1>7, <2>1
    <3>2. ~Contains(outbox[k], Answers) /\ AtMostOnce(outbox[k], Answers)
      <4>1. CASE link[k] = "unused"
        BY <4>1, Emptied DEF ChatInv, OneConnection
      <4>2. CASE link[k] # "unused"
        <5>1. k = chat[c].ws /\ ~Answered(c)
          BY <4>2 DEF Answered
        <5> QED BY <1>1, <2>1, <5>1 DEF ChatInv, OneAnswer, Coming
      <4> QED BY <4>1, <4>2
    <3>3. link'[k] = "open" => Unanswered(n)'
      BY <1>3, <1>8 DEF Unanswered
    <3>4. Answered(c)' <=> ~Unanswered(n)'
      BY <3>1 DEF Answered, Unanswered
    <3>5. OneAnswer(c)'
      BY <3>1, <3>2, <3>3, <3>4 DEF OneAnswer, Coming
    <3>6. Accounted(c)'
      BY <3>1, <3>3 DEF Accounted, Unanswered
    <3> QED BY <2>1, <3>5, <3>6
  <2>2. CASE d # c
    <3>1. \A j \in Conn : OwnerOf[j] # c => link'[j] = link[j] /\ outbox'[j] = outbox[j]
      BY <1>8
    <3>2. \A m \in Turn : turn[m].stage # "unsent" => turn'[m] = turn[m]
      BY <1>1, <1>3
    <3> QED BY <1>7, <2>2, <3>1, <3>2, Typed, OtherConsoles
  <2> QED BY <2>1, <2>2
<1> QED BY <1>9, <1>10, <1>11 DEF ChatInv

-----------------------------------------------------------------------------
(* Every step                                                               *)

LEMMA StepChats == IInv /\ ChatInv /\ [Next]_vars => ChatInv'
<1> SUFFICES ASSUME IInv, ChatInv, [Next]_vars PROVE ChatInv'
  OBVIOUS
<1>1. ASSUME NEW c \in Client, NEW k \in Conn, NEW n \in Turn, Connect(c, k, n) PROVE ChatInv'
  BY <1>1, SubmitChats DEF Connect
<1>2. ASSUME NEW c \in Client, NEW n \in Turn, SendAgain(c, n) PROVE ChatInv'
  <2>1. PICK k : k = chat[c].ws
    OBVIOUS
  <2>2. k \in Conn /\ OwnerOf[k] = c /\ ClientOpen(k)
    BY <1>2, <2>1, Typed DEF SendAgain, Open, ChatInv, OneConnection
  <2> QED BY <1>2, <2>1, <2>2, SubmitChats DEF SendAgain
<1>3. ASSUME NEW c \in Client, ClientStep(c) \/ Interrupt(c) \/ Quit(c) PROVE ChatInv'
  BY <1>3, AcceptedChats, RefusedChats, TerminalChats, IgnoredChats, GoneChats, InterruptChats DEF ClientStep
<1>4. ASSUME NEW k \in Conn, ServerStep(k) \/ Lose(k) PROVE ChatInv'
  BY <1>4, ReceiveChats, ReceiveAbortChats, ServerClosesChats, LoseChats DEF ServerStep
<1>5. ASSUME NEW n \in Turn, DriverStep(n) \/ HandlerStep(n) PROVE ChatInv'
  BY <1>5, DriverChats, RefuseChats, StartChats DEF HandlerStep
<1>6. CASE EntryExpires \/ UNCHANGED vars
  <2>1. UNCHANGED <<link, inbox, outbox, hears, turn, chat>>
    BY <1>6 DEF EntryExpires, vars
  <2> QED BY <2>1, QuietChats DEF ClientOpen, Asking, Unanswered
<1> QED BY <1>1, <1>2, <1>3, <1>4, <1>5, <1>6, RestartChats DEF Next, Work, Fault

\* No console waits for a frame that was sent already or never will be: as long as its
\* connection is up, the refusal, or the answer and the end of its turn, is on its way or
\* still to come, unless another client took the Session's only listener, however the
\* handlers of router.ts interleave at their awaits and whichever clients, connections or
\* gateways fail.
THEOREM NoChatLost == Spec => []NoChatIsLost
<1> QED BY InitInv, StepInv, ChatsAtFirst, StepChats, ChatsKept, PTL DEF Spec
=============================================================================
