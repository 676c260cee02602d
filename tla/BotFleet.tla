------------------------------ MODULE BotFleet ------------------------------
(***************************************************************************)
(* One bot of bot-fleet/main.py on its asyncio event loop.  Coroutines and *)
(* the callbacks of transports run one at a time, in the order in which    *)
(* they were scheduled (ready), each of them up to the next await that has *)
(* to wait.  Sockets and timers schedule callbacks whenever they like, at  *)
(* the end of the queue.                                                   *)
(*                                                                         *)
(* The bot's coroutine runs connect, send_order and the strategy; every    *)
(* connection gets a read_loop task.  They share self.writer, which        *)
(* connect replaces.  Connection k is the k-th that the bot opens; prices, *)
(* quantities and the bytes of a frame are left out, and so is what the    *)
(* server sends after the handshake, which read_loop throws away.          *)
(***************************************************************************)
EXTENDS Naturals, Sequences, FiniteSets

CONSTANTS MaxConnections,  \* bound on connections; the last one holds
          MaxOrders        \* bound on orders that the strategy generates

ASSUME BoundsAssumption == MaxConnections \in Nat \ {0} /\ MaxOrders \in Nat

Connections == 1 .. MaxConnections

VARIABLES ready,     \* scheduled callbacks, the next one to run first
          at,        \* what the bot's coroutine awaits, or Busy: it runs on
          current,   \* connection of self.reader and self.writer; 0: None
          opened,    \* connections opened so far
          conn,      \* conn[k]: the transport of connection k
          reader,    \* reader[k]: the read_loop task of connection k
          running,   \* self.running
          pending,   \* send_order has an order that is neither sent nor failed
          generated, \* order_id_counter
          sent,      \* orders_sent
          failed,    \* failed_messages
          drops,     \* connection_drops
          gaveUp     \* history: connections on which connect did not succeed

botVars == <<ready, at, current, opened, conn, reader, running, pending, generated, sent, failed,
             drops, gaveUp>>
orders == <<pending, generated, sent, failed>>
Busy == {"next", "check", "write"}

Callback(run, k, ok) == [run |-> run, k |-> k, ok |-> ok]
Scheduled(run) == \E i \in 1 .. Len(ready) : ready[i].run = run
Alive(k) == k \in Connections /\ conn[k] \in {"open", "eof"}
Writes(k) == k \in Connections /\ conn[k] \in {"open", "eof", "flushing"}
NoWriter == ~Alive(current)                         \* not self.writer, or is_closing()

BotInit == /\ ready = << >> /\ at = "stagger"
           /\ current = 0 /\ opened = 0
           /\ conn = [k \in Connections |-> "none"]
           /\ reader = [k \in Connections |-> "none"]
           /\ running = TRUE /\ pending = FALSE
           /\ generated = 0 /\ sent = 0 /\ failed = 0 /\ drops = 0
           /\ gaveUp = {}

-----------------------------------------------------------------------------
(* Sockets and timers: what they schedule, while the event loop runs something or nothing. *)

Schedule(cb) ==
  /\ ready' = Append(ready, cb)
  /\ UNCHANGED <<at, current, opened, conn, reader, running, orders, drops, gaveUp>>

\* A sleep is over.
Wake == /\ at \in {"stagger", "backoff", "sleep"} /\ ~Scheduled("bot")
        /\ Schedule(Callback("bot", current, TRUE))

\* The server has read enough for the write buffer to have drained, or all that a closed
\* connection had left to write.
Drain == /\ at = "drain" /\ Writes(current) /\ ~Scheduled("bot")
         /\ Schedule(Callback("bot", current, TRUE))
Flush(k) == /\ conn[k] = "flushing"
            /\ \A i \in 1 .. Len(ready) : ready[i].run = "flushed" => ready[i].k # k
            /\ Schedule(Callback("flushed", k, TRUE))

\* The server accepts the connection or refuses it.
ServerAccepts == /\ at = "opening" /\ ~Scheduled("made") /\ ~Scheduled("bot")
                 /\ Schedule(Callback("made", opened, TRUE))
ServerRefuses == /\ at = "opening" /\ ~Scheduled("made") /\ ~Scheduled("bot")
                 /\ opened < MaxConnections
                 /\ Schedule(Callback("bot", opened, FALSE))

\* The server answers the upgrade request: 101 with the right key, or anything else.
Answer == /\ at = "upgrade" /\ conn[current] = "open"
          /\ \A run \in {"bot", "answer", "eof", "reset"} : ~Scheduled(run)
          /\ \E ok \in BOOLEAN : /\ ok \/ opened < MaxConnections
                                 /\ Schedule(Callback("answer", current, ok))

\* The server ends its stream, or the connection breaks.
Hangup(k) == /\ Writes(k) /\ k < MaxConnections
             /\ ~Scheduled("eof") /\ ~Scheduled("reset")
             /\ \/ conn[k] = "open" /\ Schedule(Callback("eof", k, TRUE))
                \/ Schedule(Callback("reset", k, TRUE))

\* main: the duration is over, disconnect is next.
EndOfRun == running /\ ~Scheduled("stop") /\ Schedule(Callback("stop", 0, TRUE))

-----------------------------------------------------------------------------
(* Callbacks of the transport. *)

RunsFirst(name) == at \notin Busy /\ ready # << >> /\ Head(ready).run = name

\* Whoever awaits data of k is woken when the stream ends; whoever awaits its drain or its
\* closing, when the connection is lost.
Readers(k) == IF reader[k] = "waiting" THEN << Callback("reader", k, TRUE) >> ELSE << >>
TheBot(k, awaiting, ok) == IF current = k /\ at \in awaiting /\ ~Scheduled("bot")
                           THEN << Callback("bot", k, ok) >> ELSE << >>

\* A broken connection stops the transport at once and schedules connection_lost.
Stopped(k) == IF Writes(k) THEN [conn EXCEPT ![k] = "closing"] ELSE conn
LossOf(k) == IF Writes(k) THEN << Callback("lost", k, TRUE) >> ELSE << >>

\* So does close(), if all has been written; with data left in the buffer, as there is while
\* a drain waits, the transport goes on writing first.
Undrained(k) == current = k /\ at = "drain" /\ ~Scheduled("bot")
Close(k, rest) ==
  \/ ~Alive(k) /\ conn' = conn /\ ready' = rest
  \/ Alive(k) /\ ~Undrained(k) /\ conn' = Stopped(k) /\ ready' = rest \o LossOf(k)
  \/ Alive(k) /\ conn' = [conn EXCEPT ![k] = "flushing"] /\ ready' = rest

\* open_connection's waiter and readuntil's are resumed by callbacks of their own.
Made ==
  /\ RunsFirst("made")
  /\ conn' = [conn EXCEPT ![Head(ready).k] = "open"]
  /\ ready' = Append(Tail(ready), Callback("bot", Head(ready).k, TRUE))
  /\ UNCHANGED <<at, current, opened, reader, running, orders, drops, gaveUp>>

Answered ==
  /\ RunsFirst("answer")
  /\ ready' = Append(Tail(ready), Callback("bot", Head(ready).k, Head(ready).ok))
  /\ UNCHANGED <<at, current, opened, conn, reader, running, orders, drops, gaveUp>>

\* The transport can still be written to after the end of the server's stream.
Eof ==
  /\ RunsFirst("eof")
  /\ LET k == Head(ready).k IN
     /\ conn' = IF conn[k] = "open" THEN [conn EXCEPT ![k] = "eof"] ELSE conn
     /\ ready' = Tail(ready) \o (IF conn[k] = "open" THEN Readers(k) \o TheBot(k, {"upgrade"}, FALSE)
                                                     ELSE << >>)
  /\ UNCHANGED <<at, current, opened, reader, running, orders, drops, gaveUp>>

Reset ==
  /\ RunsFirst("reset")
  /\ conn' = Stopped(Head(ready).k)
  /\ ready' = Tail(ready) \o LossOf(Head(ready).k)
  /\ UNCHANGED <<at, current, opened, reader, running, orders, drops, gaveUp>>

ConnectionLost ==
  /\ RunsFirst("lost")
  /\ LET k == Head(ready).k IN
     /\ conn' = [conn EXCEPT ![k] = "lost"]
     /\ ready' = Tail(ready) \o Readers(k) \o TheBot(k, {"upgrade", "drain", "closing"}, FALSE)
  /\ UNCHANGED <<at, current, opened, reader, running, orders, drops, gaveUp>>

\* The rest has been written: a drain returns before the connection is lost.
Flushed ==
  /\ RunsFirst("flushed")
  /\ LET k == Head(ready).k IN
     IF conn[k] = "flushing"
     THEN /\ conn' = [conn EXCEPT ![k] = "lost"]
          /\ ready' = Tail(ready) \o TheBot(k, {"drain"}, TRUE) \o Readers(k)
                                 \o TheBot(k, {"upgrade", "closing"}, FALSE)
     ELSE conn' = conn /\ ready' = Tail(ready)
  /\ UNCHANGED <<at, current, opened, reader, running, orders, drops, gaveUp>>

-----------------------------------------------------------------------------
(* read_loop *)

\* Wrong on purpose: the task may pause before it closes the writer.
ReadLoopLate ==
  /\ RunsFirst("reader")
  /\ LET k == Head(ready).k
         ended == conn[k] \in {"eof", "lost"} IN
     \/ /\ ~ended
        /\ reader' = [reader EXCEPT ![k] = "waiting"]
        /\ ready' = Tail(ready)
        /\ UNCHANGED <<conn, drops>>
     \/ /\ ended
        /\ ready' = Append(Tail(ready), Head(ready))
        /\ UNCHANGED <<reader, conn, drops>>
     \/ /\ ended
        /\ reader' = [reader EXCEPT ![k] = "done"]
        /\ drops' = drops + 1
        /\ Close(current, Tail(ready))
  /\ UNCHANGED <<at, current, opened, running, orders, gaveUp>>

\* The task's first step, and its step when the stream has ended: it closes whatever the
\* writer is by then.
ReadLoop ==
  /\ RunsFirst("reader")
  /\ LET k == Head(ready).k
         ended == conn[k] \in {"eof", "lost"} IN
     \/ /\ running /\ ~ended
        /\ reader' = [reader EXCEPT ![k] = "waiting"]
        /\ ready' = Tail(ready)
        /\ UNCHANGED <<conn, drops>>
     \/ /\ running /\ ended
        /\ reader' = [reader EXCEPT ![k] = "done"]
        /\ drops' = drops + 1
        /\ Close(current, Tail(ready))
     \/ /\ ~running
        /\ reader' = [reader EXCEPT ![k] = "done"]
        /\ ready' = Tail(ready)
        /\ UNCHANGED <<conn, drops>>
  /\ UNCHANGED <<at, current, opened, running, orders, gaveUp>>

-----------------------------------------------------------------------------
(* connect, in the bot's coroutine. *)

\* The while loop of connect: another attempt, or False once the bot is stopped; send_order
\* forgets its order then.
Attempt ==
  \/ /\ running
     /\ opened < MaxConnections
     /\ opened' = opened + 1 /\ at' = "opening"
     /\ UNCHANGED pending
  \/ /\ ~running
     /\ at' = IF pending THEN "next" ELSE "over"
     /\ pending' = FALSE
     /\ UNCHANGED opened

\* Wrong on purpose: an exception that connect does not expect ends the bot's task.
GiveUpForGood == drops' = drops + 1 /\ gaveUp' = gaveUp \cup {opened} /\ at' = "over"
\* The except clause of connect: count, and back off.
GiveUp == drops' = drops + 1 /\ gaveUp' = gaveUp \cup {opened} /\ at' = "backoff"

Resumes(where) == RunsFirst("bot") /\ at = where

ConnectLoop ==
  /\ Resumes("stagger") \/ Resumes("backoff")
  /\ Attempt
  /\ ready' = Tail(ready)
  /\ UNCHANGED <<current, conn, reader, running, generated, sent, failed, drops, gaveUp>>

\* open_connection returns: the upgrade request is written; or it raises.
OpenReturns ==
  /\ Resumes("opening")
  /\ \/ /\ Head(ready).ok
        /\ current' = opened /\ at' = "upgrade"
        /\ UNCHANGED <<drops, gaveUp>>
     \/ ~Head(ready).ok /\ GiveUp /\ UNCHANGED current
  /\ ready' = Tail(ready)
  /\ UNCHANGED <<opened, conn, reader, running, orders>>

\* The upgrade is accepted: connect returns, the read_loop task is created, and the caller
\* runs on.
Upgraded ==
  /\ Resumes("upgrade") /\ Head(ready).ok
  /\ reader' = [reader EXCEPT ![current] = "scheduled"]
  /\ ready' = Append(Tail(ready), Callback("reader", current, TRUE))
  /\ at' = IF pending THEN "write" ELSE "next"
  /\ UNCHANGED <<current, opened, conn, running, orders, drops, gaveUp>>

\* Another answer: the writer is closed, and connect waits until it is.
UpgradeRefused ==
  /\ Resumes("upgrade") /\ ~Head(ready).ok /\ Alive(current)
  /\ at' = "closing"
  /\ Close(current, Tail(ready))
  /\ UNCHANGED <<current, opened, reader, running, orders, drops, gaveUp>>

\* An answer without an end, longer than the reader's limit: readuntil raises
\* LimitOverrunError, which the except clause does not name, and the bot's task ends.
UpgradeOverrun ==
  /\ Resumes("upgrade") /\ ~Head(ready).ok /\ Alive(current)
  /\ at' = "failed"
  /\ ready' = Tail(ready)
  /\ UNCHANGED <<current, opened, conn, reader, running, orders, drops, gaveUp>>

\* The stream ends before the answer does (IncompleteReadError), or the connection breaks:
\* the writer is left as it is.
UpgradeBroken ==
  /\ Resumes("upgrade") /\ ~Head(ready).ok /\ conn[current] # "open"
  /\ GiveUp
  /\ ready' = Tail(ready)
  /\ UNCHANGED <<current, opened, conn, reader, running, orders>>

ClosedRefused ==
  /\ Resumes("closing")
  /\ GiveUp
  /\ ready' = Tail(ready)
  /\ UNCHANGED <<current, opened, conn, reader, running, orders>>

-----------------------------------------------------------------------------
(* send_order and the strategies, in the bot's coroutine. *)

\* bot_logic: format_order takes an id, and send_order begins.
NextOrder ==
  /\ at = "next" /\ generated < MaxOrders
  /\ generated' = generated + 1
  /\ pending' = TRUE /\ at' = "check"
  /\ UNCHANGED <<ready, current, opened, conn, reader, running, sent, failed, drops, gaveUp>>

\* The strategies sleep after one order, or after two.
Sleep ==
  /\ at = "next"
  /\ at' = "sleep"
  /\ UNCHANGED <<ready, current, opened, conn, reader, running, orders, drops, gaveUp>>

\* while self.running
NextRound ==
  /\ Resumes("sleep")
  /\ at' = IF running THEN "next" ELSE "over"
  /\ ready' = Tail(ready)
  /\ UNCHANGED <<current, opened, conn, reader, running, orders, drops, gaveUp>>

\* send_order: connect first if there is no writer to write to.
CheckWriter ==
  /\ at = "check"
  /\ \/ ~NoWriter /\ at' = "write" /\ UNCHANGED <<opened, pending>>
     \/ NoWriter /\ Attempt
  /\ UNCHANGED <<ready, current, conn, reader, running, generated, sent, failed, drops, gaveUp>>

OrderSent == sent' = sent + 1 /\ pending' = FALSE /\ at' = "next" /\ UNCHANGED failed
\* Wrong on purpose: the order was counted as sent before drain raised.
FailedAfterSent == /\ sent' = sent + 1 /\ failed' = failed + 1
                   /\ pending' = FALSE /\ at' = "next"
\* The writer is closed too, but whatever made drain raise has closed it already.
OrderFailed == failed' = failed + 1 /\ pending' = FALSE /\ at' = "next" /\ UNCHANGED sent

\* write and drain: the buffer is taken, or the coroutine waits until it has drained; a
\* connection that broke since connect returned makes drain raise.
WriteOrder ==
  /\ at = "write"
  /\ \/ Writes(current) /\ OrderSent
     \/ Writes(current) /\ at' = "drain" /\ UNCHANGED <<sent, failed, pending>>
     \/ ~Writes(current) /\ OrderFailed
  /\ UNCHANGED <<ready, current, opened, conn, reader, running, generated, drops, gaveUp>>

DrainReturns ==
  /\ Resumes("drain")
  /\ \/ Head(ready).ok /\ OrderSent
     \/ ~Head(ready).ok /\ OrderFailed
  /\ ready' = Tail(ready)
  /\ UNCHANGED <<current, opened, conn, reader, running, generated, drops, gaveUp>>

-----------------------------------------------------------------------------
(* main at the end of the run. *)

\* disconnect: the bot is told to stop and its writer is closed.
Disconnect ==
  /\ RunsFirst("stop")
  /\ running' = FALSE
  /\ Close(current, Tail(ready))
  /\ UNCHANGED <<at, current, opened, reader, orders, drops, gaveUp>>

\* When all bots are disconnected their tasks are cancelled, wherever they are.
Cancel ==
  /\ ~running /\ at \notin Busy \cup {"over", "failed"}
  /\ at' = "over"
  /\ ready' = SelectSeq(ready, LAMBDA cb : cb.run # "bot")
  /\ UNCHANGED <<current, opened, conn, reader, running, orders, drops, gaveUp>>

Transport == Made \/ Answered \/ Eof \/ Reset \/ ConnectionLost \/ Flushed
Coroutine == \/ ConnectLoop \/ OpenReturns
             \/ Upgraded \/ UpgradeRefused \/ UpgradeOverrun \/ UpgradeBroken \/ ClosedRefused
             \/ NextOrder \/ Sleep \/ NextRound \/ CheckWriter \/ WriteOrder \/ DrainReturns
Loop == Transport \/ ReadLoop \/ Coroutine \/ Disconnect

BotNext == \/ Wake \/ Drain \/ ServerAccepts \/ ServerRefuses \/ Answer \/ EndOfRun
           \/ \E k \in Connections : Flush(k) \/ Hangup(k)
           \/ Loop \/ Cancel

\* The event loop runs what is scheduled, sleeps end, and a connection is made or is not.  The
\* server need not answer or read: nothing in the code has a timeout for either.
BotSpec == /\ BotInit /\ [][BotNext]_botVars
           /\ WF_botVars(Loop) /\ WF_botVars(Wake)
           /\ WF_botVars(ServerAccepts \/ ServerRefuses)

-----------------------------------------------------------------------------
(* Properties. *)

\* A connection that the server keeps is closed by the bot only when the upgrade was refused
\* or the run is over: neither the reader of an earlier, lost connection, which closes
\* self.writer whatever it is by then, nor a failed write hits the connection that connect
\* has made in the meantime.
HealthyConnectionKept ==
  [][\A k \in Connections : conn[k] = "open" /\ conn'[k] \in {"closing", "flushing"} =>
        \/ Head(ready).run \in {"reset", "stop"}
        \/ Head(ready).run = "bot" /\ at = "upgrade" /\ k = current]_botVars

\* While the bot runs, every order that got an id is sent, failed, or in send_order, and
\* every connection that ended was counted as one drop, by connect or by its reader, however
\* many of sender, reader and connect noticed the loss.
AllCounted ==
  running =>
    /\ generated = sent + failed + (IF pending THEN 1 ELSE 0)
    /\ drops = Cardinality(gaveUp) + Cardinality({k \in Connections : reader[k] = "done"})
    /\ \A k \in Connections : reader[k] = "done" => k \notin gaveUp

\* An order that send_order has taken is sent or given up in the end, unless the run is over
\* first or an answer beyond the limit has ended the task, or the server holds it up: it keeps
\* the connection and does not answer the upgrade, or does not read.  No other sequence of
\* broken connections, refused handshakes and closes makes the bot wait for something that
\* nobody will wake it up for.
Unanswered == at = "upgrade" /\ conn[current] = "open"
Unread == at \in {"drain", "closing"} /\ Writes(current)
OrdersGoOut == pending ~> (~pending \/ ~running \/ at = "failed" \/ [](Unanswered \/ Unread))
=============================================================================
