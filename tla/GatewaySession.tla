--------------------------- MODULE GatewaySession ---------------------------
(***************************************************************************)
(* Chat turns through the gateway: the WebSocket server and its router     *)
(* (cli/src/gateway/ws), the Session object and the provider driver        *)
(* (cli/src/ai/core), the provider's tool loop with the abort flag that    *)
(* all sessions of the process share (cli/src/ai/console), and the         *)
(* consoles and browser pages on the other end of the connections.         *)
(*                                                                         *)
(* Every client of one gateway has the same token, so for one model there  *)
(* is one entry in the session store and one Session that they share.  A   *)
(* Session is named after the turn that created it.  Handlers of the       *)
(* server are async: other frames are handled while session.send awaits    *)
(* its configuration, the login and the prompt.                            *)
(***************************************************************************)
EXTENDS Naturals, Sequences

CONSTANTS
  Console,   \* `slv c` processes (GatewaySessionProvider)
  Browser,   \* pages of the web UI
  Conn,      \* WebSocket connections that are ever opened
  OwnerOf,   \* the client that opens each of them
  MaxTurn,   \* bound: messages that the clients send altogether
  None

Client == Console \cup Browser
Turn   == 1..MaxTurn
Outcome == {"complete", "aborted", "error"}

ASSUME ClientsOK ==
  /\ OwnerOf \in [Conn -> Client]
  /\ Console \cap Browser = {}
  /\ MaxTurn \in Nat
  /\ None \notin Conn \cup Turn /\ None \notin Outcome

VARIABLES
  link,      \* connections: unused, open, cut (neither end has seen it), left by the
             \* client or dropped by the gateway (the other end has not seen it), closed
  inbox,     \* frames on their way to the gateway
  outbox,    \* frames on their way to the client
  attached,  \* state.session of a connection
  entry,     \* the session store: None, or [session, listener, stale]
  hears,     \* listeners of a Session
  turn,      \* what became of each message
  flag,      \* the abort flag of tools.ts
  chat       \* what a client does: see ChatSteps

vars == <<link, inbox, outbox, attached, entry, hears, turn, flag, chat>>

Links   == {"unused", "open", "cut", "left", "dropped", "closed"}
Running == {"llm", "tool", "closing"}
Stages  == Running \cup {"unsent", "asked", "handling", "over"}
Signals == {"live", "cut", "deaf"}   \* the abort signal a request to the model was given

TurnState == [by : Conn \cup {None}, session : Turn \cup {None}, stage : Stages,
              signal : Signals, abort : BOOLEAN, end : Outcome \cup {None}]

Frame == [kind : {"send"}, turn : Turn] \cup [kind : {"abort"}, turn : {None}]
Reply == [kind : {"ok", "refused"} \cup Outcome, turn : Turn]

\* What a client that has sent a message waits for first.
Answers == {"ok", "refused"}

ChatSteps == {"idle", "sent", "waiting", "gone", "crashed"}
Chat == [step : ChatSteps, ws : Conn \cup {None}, turn : Turn \cup {None},
         terminal : {"pending", "resolved", "rejected"}, interrupted : BOOLEAN]

InChat(c) == chat[c].step \in {"sent", "waiting"}

TypeOK ==
  /\ link \in [Conn -> Links]
  /\ inbox \in [Conn -> Seq(Frame)]
  /\ outbox \in [Conn -> Seq(Reply)]
  /\ attached \in [Conn -> Turn \cup {None}]
  /\ entry \in [session : Turn, listener : Conn, stale : BOOLEAN] \cup {None}
  /\ hears \in [Turn -> SUBSET Conn]
  /\ turn \in [Turn -> TurnState]
  /\ \A n \in Turn : turn[n].stage \in {"asked", "handling"} \cup Running => turn[n].by \in Conn
  /\ \A n \in Turn : turn[n].stage \in Running => turn[n].session \in Turn
  /\ flag \in BOOLEAN
  /\ chat \in [Client -> Chat]
  /\ \A c \in Client : InChat(c) => chat[c].ws \in Conn /\ chat[c].turn \in Turn

Unsent == [by |-> None, session |-> None, stage |-> "unsent", signal |-> "live",
           abort |-> FALSE, end |-> None]
AtPrompt == [step |-> "idle", ws |-> None, turn |-> None, terminal |-> "pending",
             interrupted |-> FALSE]

Init ==
  /\ link = [k \in Conn |-> "unused"]
  /\ inbox = [k \in Conn |-> <<>>]
  /\ outbox = [k \in Conn |-> <<>>]
  /\ attached = [k \in Conn |-> None]
  /\ entry = None
  /\ hears = [s \in Turn |-> {}]
  /\ turn = [n \in Turn |-> Unsent]
  /\ flag = FALSE
  /\ chat = [c \in Client |-> AtPrompt]

IsRunning(n) == turn[n].stage \in Running

\* A mutant of Busy: not while tools run.
BusyAtTheModel(s) == \E n \in Turn : turn[n].session = s /\ turn[n].stage = "llm"

\* Session.isRunning
Busy(s) == \E n \in Turn : turn[n].session = s /\ IsRunning(n)

-----------------------------------------------------------------------------
(* Connections.  A side that has closed its socket sends and reads nothing; *)
(* what is on its way when the network cuts a connection is lost.           *)

ServerOpen(k) == link[k] \in {"open", "cut", "left"}
ClientOpen(k) == link[k] \in {"open", "cut", "dropped"}

\* The gateway sends f to the connections in ks.  A page shows what it is sent; that
\* is left out.
Reaches(k) == link[k] = "open" /\ OwnerOf[k] \in Console

Sent(box, ks, f) == [k \in Conn |-> IF k \in ks /\ Reaches(k) THEN Append(box[k], f) ELSE box[k]]

Msg(kind, n) == [kind |-> kind, turn |-> n]

\* socket.send(encodeFrame(res))
Answer(k, f) == outbox' = Sent(outbox, {k}, f)

Ask(k, f) == inbox' = [inbox EXCEPT ![k] = Append(@, f)]

\* The network between them.
Lose(k) ==
  /\ link[k] = "open"
  /\ link' = [link EXCEPT ![k] = "cut"]
  /\ inbox' = [inbox EXCEPT ![k] = <<>>]
  /\ outbox' = [outbox EXCEPT ![k] = <<>>]
  /\ UNCHANGED <<attached, entry, hears, turn, flag, chat>>

-----------------------------------------------------------------------------
(* Turns.  The driver's loop: a request to the model, then its tools.       *)

\* Session.emit, through emitEvent of the connections that listen.
Emit(n, kind) == outbox' = Sent(outbox, hears[turn[n].session], Msg(kind, n))

Settled(n) == IF turn[n].abort THEN "aborted" ELSE "complete"

Over(t, kind) == [t EXCEPT !.stage = "over", !.end = kind, !.signal = "live", !.abort = FALSE]

\* A terminal event and, with nothing awaited in between, the idle state.
Finish(n, kind) ==
  /\ Emit(n, kind)
  /\ turn' = [turn EXCEPT ![n] = Over(@, kind)]

\* message_stop without tool calls: onComplete.
ModelAnswers(n) ==
  /\ turn[n].stage = "llm"
  /\ Finish(n, Settled(n))
  /\ UNCHANGED <<link, inbox, attached, entry, hears, flag, chat>>

ModelCallsTools(n) ==
  /\ turn[n].stage = "llm"
  /\ turn' = [turn EXCEPT ![n].stage = "tool", ![n].signal = "live"]
  /\ UNCHANGED <<link, inbox, outbox, attached, entry, hears, flag, chat>>

\* Network and server errors, 120 seconds without an end, refused answers.
ModelFails(n) ==
  /\ turn[n].stage = "llm"
  /\ Finish(n, IF turn[n].abort THEN "aborted" ELSE "error")
  /\ UNCHANGED <<link, inbox, attached, entry, hears, flag, chat>>

\* The request was cut by the abort signal.  With a stream open, onComplete comes
\* before `await reader.cancel()`: the session is still running after the event.
ModelIsCut(n) ==
  /\ turn[n].stage = "llm" /\ turn[n].signal = "cut"
  /\ Emit(n, Settled(n))
  /\ turn' = [turn EXCEPT ![n].stage = "closing", ![n].end = Settled(n)]
  /\ UNCHANGED <<link, inbox, attached, entry, hears, flag, chat>>

ReaderCancelled(n) ==
  /\ turn[n].stage = "closing"
  /\ turn' = [turn EXCEPT ![n] = Over(@, @.end)]
  /\ UNCHANGED <<link, inbox, outbox, attached, entry, hears, flag, chat>>

\* A mutant of ToolsDone: the flag is not read.
ToolsDoneGoesOn(n) ==
  /\ turn[n].stage = "tool"
  /\ turn' = [turn EXCEPT ![n].stage = "llm"]
  /\ UNCHANGED <<link, inbox, outbox, attached, entry, hears, flag, chat>>

\* The tools have run: shouldAbortAfterTools, or the next request.
ToolsDone(n) ==
  /\ turn[n].stage = "tool"
  /\ IF flag THEN Finish(n, Settled(n))
             ELSE /\ turn' = [turn EXCEPT ![n].stage = "llm"]
                  /\ UNCHANGED outbox
  /\ UNCHANGED <<link, inbox, attached, entry, hears, flag, chat>>

DriverStep(n) ==
  \/ ModelAnswers(n) \/ ModelCallsTools(n) \/ ModelFails(n) \/ ModelIsCut(n)
  \/ ReaderCancelled(n) \/ ToolsDone(n)

\* Session.abort and the driver's listener, once per turn: killActiveProcess cuts the
\* requests of every session that hold the current signal.
Aborted(s) ==
  [n \in Turn |-> [turn[n] EXCEPT
     !.abort  = @ \/ (turn[n].session = s /\ IsRunning(n)),
     !.signal = IF @ = "live" /\ turn[n].stage = "llm" THEN "cut" ELSE @]]

Abortable(s) == \E n \in Turn : turn[n].session = s /\ IsRunning(n) /\ ~turn[n].abort

AbortSession(s) ==
  IF s # None /\ Abortable(s) THEN turn' = Aborted(s) /\ flag' = TRUE
                              ELSE UNCHANGED <<turn, flag>>

-----------------------------------------------------------------------------
(* The gateway: router.ts and server.ts                                     *)

Arrives(k, kind) ==
  /\ ServerOpen(k) /\ inbox[k] # <<>> /\ Head(inbox[k]).kind = kind
  /\ inbox' = [inbox EXCEPT ![k] = Tail(@)]

\* session.send up to its first await.
ReceiveSend(k) ==
  /\ Arrives(k, "send")
  /\ LET n == Head(inbox[k]).turn IN
     IF attached[k] # None /\ Busy(attached[k])
     THEN /\ Answer(k, Msg("refused", n))
          /\ turn' = [turn EXCEPT ![n].stage = "over"]
     ELSE /\ turn' = [turn EXCEPT ![n].stage = "handling"]
          /\ UNCHANGED outbox
  /\ UNCHANGED <<link, attached, entry, hears, flag, chat>>

\* No login, no configuration, no prompt.
RefuseSend(n) ==
  /\ turn[n].stage = "handling"
  /\ Answer(turn[n].by, Msg("refused", n))
  /\ turn' = [turn EXCEPT ![n].stage = "over"]
  /\ UNCHANGED <<link, inbox, attached, entry, hears, flag, chat>>

Expired == entry = None \/ entry.stale

Stored(n) == IF Expired THEN n ELSE entry.session

\* Attaching k drops the listener before it; a connection that has the Session of
\* the entry already is not attached again.
Attaches(k) == Expired \/ attached[k] # entry.session

\* A mutant of Unsubscribed: the listener before is forgotten, not dropped.
StillSubscribed == hears

Unsubscribed == IF entry = None THEN hears
                ELSE [hears EXCEPT ![entry.session] = @ \ {entry.listener}]

\* An idle entry is unsubscribed when the collection, every five minutes, finds it,
\* and only replaced when it does not.
Heard(k, n) ==
  IF Expired THEN {[h EXCEPT ![n] = {k}] : h \in {hears, Unsubscribed}}
  ELSE IF Attaches(k) THEN {[Unsubscribed EXCEPT ![Stored(n)] = @ \cup {k}]}
  ELSE {hears}

\* A mutant of TellBusy: nobody is told.
TellNothing(n, s, heard) ==
  /\ Answer(turn[n].by, Msg("ok", n))
  /\ turn' = [turn EXCEPT ![n].stage = "over", ![n].session = s]
  /\ UNCHANGED flag

\* Session.send in a Session that is processing a turn: it is only told so.
TellBusy(n, s, heard) ==
  /\ outbox' = Sent(Sent(outbox, heard[s], Msg("error", n)), {turn[n].by}, Msg("ok", n))
  /\ turn' = [turn EXCEPT ![n].stage = "over", ![n].session = s, ![n].end = "error"]
  /\ UNCHANGED flag

\* A mutant of Begin: state.session is not set.
BeginUnnamed(n, s, heard) ==
  /\ Answer(turn[n].by, Msg("ok", n))
  /\ turn' = [turn EXCEPT ![n].stage = "llm"]
  /\ flag' = FALSE

\* Session.send and the driver: clearAbort replaces the signal that the requests of
\* other sessions hold.
Begin(n, s, heard) ==
  /\ Answer(turn[n].by, Msg("ok", n))
  /\ turn' = [m \in Turn |->
       IF m = n THEN [turn[m] EXCEPT !.stage = "llm", !.session = s]
       ELSE IF turn[m].stage = "llm" /\ turn[m].signal = "live" THEN [turn[m] EXCEPT !.signal = "deaf"]
       ELSE turn[m]]
  /\ flag' = FALSE

\* The rest of session.send, after its last await.
StartTurn(n) ==
  LET k == turn[n].by
      s == Stored(n) IN
  /\ turn[n].stage = "handling"
  /\ \E heard \in Heard(k, n) :
       /\ hears' = heard
       /\ IF Busy(s) THEN TellBusy(n, s, heard) ELSE Begin(n, s, heard)
  /\ entry' = [session |-> s, stale |-> FALSE,
               listener |-> IF Attaches(k) THEN k ELSE entry.listener]
  /\ attached' = [attached EXCEPT ![k] = s]
  /\ UNCHANGED <<link, inbox, chat>>

\* session.abort
ReceiveAbort(k) ==
  /\ Arrives(k, "abort")
  /\ AbortSession(attached[k])
  /\ UNCHANGED <<link, outbox, attached, entry, hears, chat>>

\* socket.onclose.  The handlers that still await go on.
ServerCloses(k) ==
  /\ \/ link[k] = "cut"  /\ link' = [link EXCEPT ![k] = "dropped"]
     \/ link[k] = "left" /\ link' = [link EXCEPT ![k] = "closed"] /\ inbox[k] = <<>>
  /\ AbortSession(attached[k])
  /\ UNCHANGED <<inbox, outbox, attached, entry, hears, chat>>

\* Thirty minutes without a new message.
EntryExpires ==
  /\ entry # None /\ ~entry.stale
  /\ entry' = [entry EXCEPT !.stale = TRUE]
  /\ UNCHANGED <<link, inbox, outbox, attached, hears, turn, flag, chat>>

\* The gateway dies (a crash, an upgrade, `slv gateway restart`) and runs again.
Restart ==
  /\ \E k \in Conn : ServerOpen(k)
  /\ link' = [k \in Conn |-> CASE link[k] \in {"open", "cut"} -> "dropped"
                               [] link[k] = "left" -> "closed"
                               [] OTHER -> link[k]]
  /\ inbox' = [k \in Conn |-> <<>>]
  /\ attached' = [k \in Conn |-> None]
  /\ entry' = None
  /\ hears' = [s \in Turn |-> {}]
  /\ turn' = [n \in Turn |-> IF turn[n].stage \in Running \cup {"handling"}
                             THEN Over(turn[n], turn[n].end) ELSE turn[n]]
  /\ flag' = FALSE
  /\ UNCHANGED <<outbox, chat>>

ServerStep(k)  == ReceiveSend(k) \/ ReceiveAbort(k) \/ ServerCloses(k)
HandlerStep(n) == RefuseSend(n) \/ StartTurn(n)

-----------------------------------------------------------------------------
(* The clients: GatewaySessionProvider, and what the web UI does of it      *)

\* readyState as the client sees it.
Open(c) == chat[c].ws # None /\ ClientOpen(chat[c].ws)

\* Messages are numbered in the order in which they are sent.
NextTurn(n) == turn[n].stage = "unsent" /\ \A m \in 1..(n - 1) : turn[m].stage # "unsent"

\* A frame sent on a connection that is lost already goes nowhere.
Submit(c, k, n) ==
  /\ NextTurn(n)
  /\ IF link[k] \in {"cut", "dropped"}
     THEN turn' = [turn EXCEPT ![n].stage = "over", ![n].by = k] /\ UNCHANGED inbox
     ELSE turn' = [turn EXCEPT ![n].stage = "asked", ![n].by = k] /\ Ask(k, Msg("send", n))
  /\ chat' = [chat EXCEPT ![c] =
       IF c \in Console THEN [step |-> "sent", ws |-> k, turn |-> n, terminal |-> "pending",
                              interrupted |-> FALSE]
                        ELSE [@ EXCEPT !.ws = k]]

\* ensureConnected opens and authenticates a connection before the first message.
Connect(c, k, n) ==
  /\ chat[c].step = "idle" /\ ~Open(c)
  /\ OwnerOf[k] = c /\ link[k] = "unused"
  /\ link' = [link EXCEPT ![k] = "open"]
  /\ Submit(c, k, n)
  /\ UNCHANGED <<outbox, attached, entry, hears, flag>>

\* A console has one chat at a time; Enter in the page sends at any time.
SendAgain(c, n) ==
  /\ chat[c].step = "idle" /\ Open(c)
  /\ Submit(c, chat[c].ws, n)
  /\ UNCHANGED <<link, outbox, attached, entry, hears, flag>>

\* Ctrl+C: fire and forget.
Interrupt(c) ==
  /\ c \in Console /\ InChat(c) /\ ~chat[c].interrupted
  /\ link[chat[c].ws] = "open"
  /\ Ask(chat[c].ws, Msg("abort", None))
  /\ chat' = [chat EXCEPT ![c].interrupted = TRUE]
  /\ UNCHANGED <<link, outbox, attached, entry, hears, turn, flag>>

Reads(c, kinds) ==
  /\ Open(c) /\ outbox[chat[c].ws] # <<>> /\ Head(outbox[chat[c].ws]).kind \in kinds
  /\ outbox' = [outbox EXCEPT ![chat[c].ws] = Tail(@)]

\* At the prompt again, with the connection.
Returned(c) == [AtPrompt EXCEPT !.ws = chat[c].ws]

\* The answer of session.send: go on to `await terminal`, or return.
Accepted(c) ==
  /\ chat[c].step = "sent" /\ Reads(c, {"ok"})
  /\ chat' = [chat EXCEPT ![c] = IF @.terminal = "pending" THEN [@ EXCEPT !.step = "waiting"]
                                                           ELSE Returned(c)]
  /\ UNCHANGED <<link, inbox, attached, entry, hears, turn, flag>>

Refused(c) ==
  /\ chat[c].step = "sent" /\ Reads(c, {"refused"})
  /\ chat' = [chat EXCEPT ![c] = Returned(c)]
  /\ UNCHANGED <<link, inbox, attached, entry, hears, turn, flag>>

\* activeChat.onEvent: any terminal event counts for the chat that is in flight.
TerminalEvent(c) ==
  /\ InChat(c) /\ Reads(c, Outcome)
  /\ LET kind == Head(outbox[chat[c].ws]).kind IN
     chat' = [chat EXCEPT ![c] =
                IF @.step = "waiting" THEN Returned(c)
                ELSE IF @.terminal # "pending" THEN @
                ELSE [@ EXCEPT !.terminal = IF kind = "error" THEN "rejected" ELSE "resolved"]]
  /\ UNCHANGED <<link, inbox, attached, entry, hears, turn, flag>>

\* Nobody waits for these.
IgnoredFrame(c) ==
  /\ ~InChat(c) /\ Reads(c, {"ok", "refused"} \cup Outcome)
  /\ UNCHANGED <<link, inbox, attached, entry, hears, turn, flag, chat>>

\* The client closes its end of its connection.
Leaves(c) ==
  IF Open(c)
  THEN /\ link' = [link EXCEPT ![chat[c].ws] = IF @ = "dropped" THEN "closed" ELSE "left"]
       /\ outbox' = [outbox EXCEPT ![chat[c].ws] = <<>>]
  ELSE UNCHANGED <<link, outbox>>

\* The rejection of `terminal` is caught by the chat only from `await terminal` on.  Before
\* that it has no handler, which ends the process.  Two frames may be handled before the
\* runtime looks.
Unhandled(c) ==
  /\ chat[c].step = "sent" /\ chat[c].terminal = "rejected"
  /\ chat' = [chat EXCEPT ![c] = [AtPrompt EXCEPT !.step = "crashed"]]
  /\ Leaves(c)
  /\ UNCHANGED <<inbox, attached, entry, hears, turn, flag>>

\* onClose rejects `terminal`, and then the call.  A chat that awaits the call throws its
\* answer and never awaits `terminal`: the rejection has no handler.
ClientCloses(c) ==
  /\ Open(c) /\ link[chat[c].ws] \in {"cut", "dropped"} /\ outbox[chat[c].ws] = <<>>
  /\ Leaves(c)
  /\ chat' = [chat EXCEPT ![c] =
                IF @.step = "sent" /\ @.terminal # "resolved" THEN [AtPrompt EXCEPT !.step = "crashed"]
                ELSE AtPrompt]
  /\ UNCHANGED <<inbox, attached, entry, hears, turn, flag>>

ClientStep(c) ==
  Accepted(c) \/ Refused(c) \/ TerminalEvent(c) \/ IgnoredFrame(c) \/ Unhandled(c) \/ ClientCloses(c)

\* dispose() on exit, a page that is closed, a process that is killed.
Quit(c) ==
  /\ chat[c].step \notin {"gone", "crashed"}
  /\ chat' = [chat EXCEPT ![c] = [AtPrompt EXCEPT !.step = "gone"]]
  /\ Leaves(c)
  /\ UNCHANGED <<inbox, attached, entry, hears, turn, flag>>

-----------------------------------------------------------------------------
Work ==
  \/ \E n \in Turn : DriverStep(n) \/ HandlerStep(n)
  \/ \E k \in Conn : ServerStep(k)
  \/ \E c \in Client : \/ ClientStep(c) \/ Interrupt(c)
                       \/ \E n \in Turn : SendAgain(c, n) \/ \E k \in Conn : Connect(c, k, n)

Fault ==
  (\E k \in Conn : Lose(k)) \/ (\E c \in Client : Quit(c)) \/ EntryExpires \/ Restart

Next == Work \/ Fault

Spec == Init /\ [][Next]_vars

\* What the event loops justify: a step that stays possible is taken.  Nothing makes
\* the model answer, a user type, or the network fail.
Fairness ==
  /\ \A n \in Turn : WF_vars(DriverStep(n) \/ HandlerStep(n))
  /\ \A k \in Conn : WF_vars(ServerStep(k))
  /\ \A c \in Client : WF_vars(ClientStep(c))

FairSpec == Spec /\ Fairness

-----------------------------------------------------------------------------
(* Properties                                                               *)

\* What the types rest on: a message is on its way once, from the connection that
\* sent it, and a turn that runs has not been told its end.
IInv ==
  /\ TypeOK
  /\ \A k \in Conn : \A i \in DOMAIN inbox[k] : inbox[k][i].kind = "send" =>
       /\ turn[inbox[k][i].turn].by = k /\ turn[inbox[k][i].turn].stage = "asked"
       /\ \A j \in DOMAIN inbox[k] : inbox[k][j].turn = inbox[k][i].turn => i = j
  /\ \A n \in Turn :
       /\ turn[n].stage = "unsent" => turn[n].by = None
       /\ turn[n].stage \in {"unsent", "asked", "handling", "llm", "tool"} => turn[n].end = None
       /\ turn[n].stage = "closing" => turn[n].end # None

\* The Session in the store is heard by the connection the store says, and no Session
\* by two: whatever the order of handlers, closed sockets and expired entries, a turn's
\* events are not shown twice and its listener can still be dropped.
OneListener ==
  /\ entry # None => hears[entry.session] = {entry.listener}
  /\ \A s \in Turn : \A j, k \in hears[s] : j = k

\* Handlers that interleave at their awaits, expired entries, aborts and restarts keep
\* what a Session promises.
StateOf(n) == CASE turn[n].stage \in {"unsent", "asked", "handling"} -> "new"
                [] IsRunning(n) -> "running"
                [] OTHER -> "done"

Turns == INSTANCE SessionTurns WITH
  state   <- [n \in Turn |-> StateOf(n)],
  session <- [n \in Turn |-> turn[n].session],
  told    <- [n \in Turn |-> turn[n].end]

SerialTurns == Turns!Spec

\* An abort that reaches a running turn ends it, however often the model calls tools,
\* unless a turn of another Session clears the abort flag they share.
AbortEndsTurn ==
  \A n \in Turn : (turn[n].abort /\ flag) ~> (~IsRunning(n) \/ ~flag)

\* c waits for events of a Session that its connection does not hear.
Unheard(c) ==
  /\ turn[chat[c].turn].session # None
  /\ chat[c].ws \notin hears[turn[chat[c].turn].session]

\* Where a chat can come to rest: its caller has the prompt back (or has left), its turn
\* still runs or is told to somebody else, or its process was ended by a rejection that
\* nobody awaits (Unhandled, ClientCloses).
Back(c)       == chat[c].step \in {"idle", "gone"}
StillWaits(c) == InChat(c) /\ (IsRunning(chat[c].turn) \/ Unheard(c))
Died(c)       == chat[c].step = "crashed"

\* Whatever is lost, refused, aborted or restarted: a console is not left waiting, except
\* for a turn that runs or when another client took the Session's only listener.  It has
\* its prompt back, except when the turn fails before the answer of session.send is read,
\* which can end the process; once it has read that it is accepted, nothing does.
ChatReturns ==
  \A c \in Console :
    /\ InChat(c) ~> Back(c) \/ StillWaits(c) \/ Died(c)
    /\ chat[c].step = "waiting" ~> Back(c) \/ StillWaits(c)

\* "`error` -> reject so the caller's try/catch fires", "surface a clean error so the
\* caller isn't left waiting forever": no failure takes the prompt away.
FailedChatReturns == \A c \in Console : InChat(c) ~> Back(c) \/ StillWaits(c)

Contains(q, kinds)   == \E i \in DOMAIN q : q[i].kind \in kinds
AtMostOnce(q, kinds) ==
  \A i, j \in DOMAIN q : q[i].kind \in kinds /\ q[j].kind \in kinds => i = j

\* Frames of these kinds are on their way to c.
Coming(c, kinds) == Contains(outbox[chat[c].ws], kinds)

\* Whether the turn is accepted is still to be said: its message is on its way to the
\* gateway, or handled there.
Unanswered(n) == turn[n].stage \in {"asked", "handling"}
Asking(n) ==
  /\ Unanswered(n)
  /\ turn[n].stage = "asked" =>
       \E i \in DOMAIN inbox[turn[n].by] : inbox[turn[n].by][i] = Msg("send", n)

\* The end of the turn of c reached it, is on its way, or is still to come.
Ending(c) ==
  \/ chat[c].step = "sent" /\ chat[c].terminal # "pending"
  \/ turn[chat[c].turn].stage \in {"llm", "tool"}
  \/ Coming(c, Outcome)

\* No console waits for a frame that was sent already or never will be, which is what
\* ChatReturns rests on.  While its connection is up it is still to be answered, or its
\* answer and an end of its turn are on their way, unless another client took the
\* Session's only listener.  No answer that it does not wait for stands before them, or
\* before its onClose.
NoChatIsLost ==
  \A c \in Console : InChat(c) =>
    /\ ClientOpen(chat[c].ws)
    /\ chat[c].step = "waiting" => ~Coming(c, Answers)
    /\ link[chat[c].ws] = "open" =>
         \/ chat[c].step = "sent" /\ (Asking(chat[c].turn) \/ Coming(c, {"refused"}))
         \/ /\ chat[c].step = "sent" => Coming(c, {"ok"})
            /\ Ending(c) \/ Unheard(c)

\* Why it holds.  A client has one connection, and a new one starts empty.
OneConnection ==
  /\ \A c \in Client : chat[c].ws # None => OwnerOf[chat[c].ws] = c /\ ClientOpen(chat[c].ws)
  /\ \A c \in Client : InChat(c) => turn[chat[c].turn].by = chat[c].ws
  /\ \A k \in Conn : link[k] = "open" => chat[OwnerOf[k]].ws = k
  /\ \A k \in Conn : link[k] = "unused" => outbox[k] = <<>> /\ \A n \in Turn : turn[n].by # k

\* A message that is not answered yet is the one its console waits for.
Expects(c, n) == chat[c].step = "sent" /\ chat[c].turn = n

OneQuestion(n) ==
  Unanswered(n) /\ link[turn[n].by] = "open" =>
    /\ Asking(n)
    /\ OwnerOf[turn[n].by] \in Console => Expects(OwnerOf[turn[n].by], n)

\* A console is answered once, when its message has been handled, and has read the answer
\* when it waits for the end.
Answered(c) == chat[c].step = "sent" /\ ~Unanswered(chat[c].turn)

OneAnswer(c) ==
  chat[c].ws # None =>
    /\ AtMostOnce(outbox[chat[c].ws], Answers)
    /\ Coming(c, Answers) => Answered(c)
    /\ Answered(c) /\ link[chat[c].ws] = "open" => Coming(c, Answers)

\* While the end of an accepted turn is to come, so is the event.
Accounted(c) ==
  InChat(c) /\ link[chat[c].ws] = "open" /\ ~Unanswered(chat[c].turn) =>
    Coming(c, {"refused"}) \/ Ending(c) \/ Unheard(c)

ChatInv ==
  /\ OneConnection
  /\ \A n \in Turn : OneQuestion(n)
  /\ \A c \in Console : OneAnswer(c) /\ Accounted(c)

\* "Attach this WS's listener if it's a new connection (or a different WS than the one
\* previously attached to this Session)": the events of a turn reach its caller.
TurnReachesItsCaller ==
  [][\A n \in Turn : turn[n].stage = "handling" /\ turn'[n].stage = "llm"
                     => turn[n].by \in hears'[turn'[n].session]]_vars
=============================================================================
