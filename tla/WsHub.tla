-------------------------------- MODULE WsHub --------------------------------
(***************************************************************************)
(* The WebSocket hub (internal/ws/hub.go): one goroutine that owns the map *)
(* of clients, three unbuffered channels into it, and two goroutines per   *)
(* connection.  A client is one connection, from the upgrade of its        *)
(* request to the end of its two pumps.                                    *)
(*                                                                         *)
(* A send on an unbuffered channel is a joint step of the sender and of    *)
(* the hub.  It can be taken while the hub is in its select; Broadcast,    *)
(* which does not wait, succeeds only when the hub is already blocked      *)
(* there, and drops the message otherwise.                                 *)
(***************************************************************************)
EXTENDS Integers, Sequences, FiniteSets

CONSTANTS
    Clients,   \* the connections
    BufCap,    \* capacity of a client's send channel (256)
    MaxMsgs    \* bound: calls of Broadcast explored

ASSUME ClientsAssumption == IsFiniteSet(Clients)
ASSUME SizesAssumption   == BufCap \in Nat \ {0} /\ MaxMsgs \in Nat

VARIABLES
    hub,       \* "head" of the loop, "parked" in select, "sending", "panicked"
    clients,   \* the map h.clients
    todo,      \* the clients the range over the map has still to visit
    closed,    \* the clients whose send channel is closed
    buf,       \* the messages in each send channel
    handler,   \* RegisterClient of each connection
    writer,    \* control point of writePump
    hand,      \* the message writePump is writing, <<>> for a ping
    reader,    \* control point of readPump
    conn,      \* the connections closed on this side
    peer,      \* the browser: answers, silent for good, or gone
    sent,      \* history: calls of Broadcast
    taken,     \* history: the messages the hub took, in order
    joined,    \* history: how many it had taken when the client came
    got        \* history: the messages written to each connection

net    == <<conn, peer>>
pumps  == <<writer, hand, reader>>
log    == <<sent, taken, joined>>
vars   == <<hub, clients, todo, closed, buf, handler, writer, hand, reader,
            conn, peer, sent, taken, joined, got>>

Messages == 1 .. MaxMsgs
Writer   == {"off", "loop", "write", "bye", "unregister", "close", "done"}
Reader   == {"off", "loop", "unregister", "close", "done"}

Init ==
    /\ hub = "head"
    /\ clients = {} /\ todo = {} /\ closed = {} /\ conn = {}
    /\ buf = [c \in Clients |-> <<>>]
    /\ handler = [c \in Clients |-> "idle"]
    /\ writer = [c \in Clients |-> "off"]
    /\ hand = [c \in Clients |-> <<>>]
    /\ reader = [c \in Clients |-> "off"]
    /\ peer = [c \in Clients |-> "answers"]
    /\ sent = 0 /\ taken = <<>>
    /\ joined = [c \in Clients |-> 0]
    /\ got = [c \in Clients |-> <<>>]

-----------------------------------------------------------------------------
(* Run: the hub's loop.                                                       *)

InSelect == hub \in {"head", "parked"}

Waiting == {c \in Clients : handler[c] = "register"
                            \/ writer[c] = "unregister" \/ reader[c] = "unregister"}

\* select with no sender ready: the hub blocks.
Park == /\ hub = "head" /\ Waiting = {}
        /\ hub' = "parked"
        /\ UNCHANGED <<clients, todo, closed, buf, handler, pumps, net, log, got>>

\* h.register <- client is received; RegisterClient then starts the pumps.
TakeRegister(c) ==
    /\ InSelect /\ handler[c] = "register"
    /\ hub' = "head"
    /\ clients' = clients \cup {c}
    /\ joined' = [joined EXCEPT ![c] = Len(taken)]
    /\ handler' = [handler EXCEPT ![c] = "done"]
    /\ writer' = [writer EXCEPT ![c] = "loop"]
    /\ reader' = [reader EXCEPT ![c] = "loop"]
    /\ UNCHANGED <<todo, closed, buf, hand, net, sent, taken, got>>

\* close(client.send) panics on a closed channel.
CloseSend(c) == IF c \in closed THEN hub' = "panicked" /\ UNCHANGED closed
                                ELSE hub' = "head" /\ closed' = closed \cup {c}

\* Mutants of Drop: no look at the map before the close, and no close.
DropUnchecked(c) == CloseSend(c) /\ clients' = clients \ {c}
DropNotClosed(c) == hub' = "head" /\ clients' = clients \ {c} /\ UNCHANGED closed

\* The unregister case: whoever is still in the map is removed and closed.
Drop(c) == \/ c \in clients /\ clients' = clients \ {c} /\ CloseSend(c)
           \/ c \notin clients /\ hub' = "head" /\ UNCHANGED <<clients, closed>>

\* h.unregister <- c from either pump, which goes on to close the connection.
TakeUnregister(c) ==
    /\ InSelect
    /\ \/ /\ writer[c] = "unregister"
          /\ writer' = [writer EXCEPT ![c] = "close"] /\ UNCHANGED reader
       \/ /\ reader[c] = "unregister"
          /\ reader' = [reader EXCEPT ![c] = "close"] /\ UNCHANGED writer
    /\ Drop(c)
    /\ UNCHANGED <<todo, buf, handler, hand, net, log, got>>

\* Mutant of Offer: a full buffer loses the message and keeps the client.
OfferOrSkip(c) ==
    /\ buf' = IF Len(buf[c]) < BufCap
                THEN [buf EXCEPT ![c] = Append(@, taken[Len(taken)])] ELSE buf
    /\ UNCHANGED <<hub, clients, closed>>

\* Mutants of Offer: the send waits for room, and there is always room.
OfferAndWait(c) ==
    /\ c \notin closed /\ Len(buf[c]) < BufCap
    /\ buf' = [buf EXCEPT ![c] = Append(@, taken[Len(taken)])]
    /\ UNCHANGED <<hub, clients, closed>>
OfferUnbounded(c) ==
    /\ c \notin closed
    /\ buf' = [buf EXCEPT ![c] = Append(@, taken[Len(taken)])]
    /\ UNCHANGED <<hub, clients, closed>>

\* The inner select: a send that does not wait; a full buffer costs the client its
\* place.  Sending on a closed channel panics.
Offer(c) ==
    \/ /\ c \in closed
       /\ hub' = "panicked"
       /\ UNCHANGED <<clients, closed, buf>>
    \/ /\ c \notin closed /\ Len(buf[c]) < BufCap
       /\ buf' = [buf EXCEPT ![c] = Append(@, taken[Len(taken)])]
       /\ UNCHANGED <<hub, clients, closed>>
    \/ /\ c \notin closed /\ Len(buf[c]) = BufCap
       /\ closed' = closed \cup {c}
       /\ clients' = clients \ {c}
       /\ UNCHANGED <<hub, buf>>

\* One turn of the range over the map, in any order.
Deliver(c) ==
    /\ hub = "sending" /\ c \in todo
    /\ todo' = todo \ {c}
    /\ Offer(c)
    /\ UNCHANGED <<handler, pumps, net, log, got>>

EndBroadcast ==
    /\ hub = "sending" /\ todo = {}
    /\ hub' = "head"
    /\ UNCHANGED <<clients, todo, closed, buf, handler, pumps, net, log, got>>

-----------------------------------------------------------------------------
(* Broadcast, called by the worker.                                           *)

BroadcastTaken ==
    /\ sent < MaxMsgs /\ hub = "parked"
    /\ sent' = sent + 1
    /\ taken' = Append(taken, sent')
    /\ hub' = "sending" /\ todo' = clients
    /\ UNCHANGED <<clients, closed, buf, handler, pumps, net, joined, got>>

\* The default case: the hub is not blocked in its select.
BroadcastDropped ==
    /\ sent < MaxMsgs /\ hub # "parked"
    /\ sent' = sent + 1
    /\ UNCHANGED <<hub, clients, todo, closed, buf, handler, pumps, net, taken,
                   joined, got>>

-----------------------------------------------------------------------------
(* The connection: WebSocketHandler, the pumps and the browser.               *)

Upgrade(c) ==
    /\ handler[c] = "idle"
    /\ handler' = [handler EXCEPT ![c] = "register"]
    /\ UNCHANGED <<hub, clients, todo, closed, buf, pumps, net, log, got>>

WriterStep(c, from, to) == writer[c] = from /\ writer' = [writer EXCEPT ![c] = to]

\* <-c.send with a message; a closed channel first gives what it still holds.
TakeMessage(c) ==
    /\ WriterStep(c, "loop", "write") /\ buf[c] # <<>>
    /\ hand' = [hand EXCEPT ![c] = <<Head(buf[c])>>]
    /\ buf' = [buf EXCEPT ![c] = Tail(@)]
    /\ UNCHANGED <<hub, clients, todo, closed, handler, reader, net, log, got>>

\* Mutant of SeeClosed: the ok of the receive is not looked at, and an empty
\* message is written.
SeeClosedUnchecked(c) ==
    /\ WriterStep(c, "loop", "write") /\ buf[c] = <<>> /\ c \in closed
    /\ UNCHANGED <<hub, clients, todo, closed, buf, handler, hand, reader, net,
                   log, got>>

\* <-c.send with !ok: the hub has closed the channel.
SeeClosed(c) ==
    /\ WriterStep(c, "loop", "bye") /\ buf[c] = <<>> /\ c \in closed
    /\ UNCHANGED <<hub, clients, todo, closed, buf, handler, hand, reader, net,
                   log, got>>

Ping(c) ==
    /\ WriterStep(c, "loop", "write")
    /\ UNCHANGED <<hub, clients, todo, closed, buf, handler, hand, reader, net,
                   log, got>>

\* WriteMessage has no deadline: on a silent peer it may succeed, or block.
WriteDone(c) ==
    /\ WriterStep(c, "write", "loop") /\ c \notin conn
    /\ got' = [got EXCEPT ![c] = @ \o hand[c]]
    /\ hand' = [hand EXCEPT ![c] = <<>>]
    /\ UNCHANGED <<hub, clients, todo, closed, buf, handler, reader, net, log>>

Broken(c) == c \in conn \/ peer[c] = "gone"

WriteFails(c) ==
    /\ WriterStep(c, "write", "unregister") /\ Broken(c)
    /\ UNCHANGED <<hub, clients, todo, closed, buf, handler, hand, reader, net,
                   log, got>>

\* The close frame, whose error is not looked at.
SayBye(c) ==
    /\ WriterStep(c, "bye", "unregister")
    /\ UNCHANGED <<hub, clients, todo, closed, buf, handler, hand, reader, net,
                   log, got>>

\* Mutant of ReadFails: readPump ends without telling the hub.
ReadFailsQuietly(c) ==
    /\ reader[c] = "loop" /\ (Broken(c) \/ peer[c] = "silent")
    /\ reader' = [reader EXCEPT ![c] = "close"]
    /\ UNCHANGED <<hub, clients, todo, closed, buf, handler, writer, hand, net,
                   log, got>>

\* Mutant of ReadFails: no read deadline, so a silent peer is never noticed.
ReadNoDeadline(c) ==
    /\ reader[c] = "loop" /\ Broken(c)
    /\ reader' = [reader EXCEPT ![c] = "unregister"]
    /\ UNCHANGED <<hub, clients, todo, closed, buf, handler, writer, hand, net,
                   log, got>>

\* ReadMessage fails: no connection, or no pong within pongWait.
ReadFails(c) ==
    /\ reader[c] = "loop" /\ (Broken(c) \/ peer[c] = "silent")
    /\ reader' = [reader EXCEPT ![c] = "unregister"]
    /\ UNCHANGED <<hub, clients, todo, closed, buf, handler, writer, hand, net,
                   log, got>>

\* The rest of the deferred function: c.conn.Close().
CloseConn(c) ==
    /\ \/ WriterStep(c, "close", "done") /\ UNCHANGED reader
       \/ /\ reader[c] = "close"
          /\ reader' = [reader EXCEPT ![c] = "done"] /\ UNCHANGED writer
    /\ conn' = conn \cup {c}
    /\ UNCHANGED <<hub, clients, todo, closed, buf, handler, hand, peer, log, got>>

\* The browser stops answering, or closes.
PeerLeaves(c) ==
    /\ handler[c] # "idle" /\ peer[c] # "gone"
    /\ \E p \in {"silent", "gone"} \ {peer[c]} : peer' = [peer EXCEPT ![c] = p]
    /\ UNCHANGED <<hub, clients, todo, closed, buf, handler, pumps, conn, log, got>>

-----------------------------------------------------------------------------
Run == \/ Park \/ EndBroadcast
       \/ \E c \in Clients : TakeRegister(c) \/ TakeUnregister(c) \/ Deliver(c)

Listen(c) == TakeMessage(c) \/ SeeClosed(c)
WritePump(c) == \/ Listen(c) \/ Ping(c) \/ WriteDone(c) \/ WriteFails(c)
                \/ SayBye(c) \/ CloseConn(c)

Next == \/ Run \/ BroadcastTaken \/ BroadcastDropped
        \/ \E c \in Clients : \/ Upgrade(c) \/ PeerLeaves(c)
                              \/ WritePump(c) \/ ReadFails(c)

Spec == Init /\ [][Next]_vars

\* Goroutines are scheduled; the select of writePump picks at random, so pings do
\* not keep it from its channel for ever; a write ends if the browser answers or
\* the connection is down; the read deadline is armed.
Fairness ==
    /\ WF_vars(Run)
    /\ \A c \in Clients :
          /\ SF_vars(Listen(c))
          /\ WF_vars(peer[c] = "answers" /\ WriteDone(c))
          /\ WF_vars(WriteFails(c))
          /\ WF_vars((peer[c] = "answers" \/ Broken(c)) /\ SayBye(c))
          /\ WF_vars(ReadFails(c))
          /\ WF_vars(CloseConn(c))

FairSpec == Spec /\ Fairness

-----------------------------------------------------------------------------
(* Safety.                                                                    *)

TypeOK ==
    /\ hub \in {"head", "parked", "sending", "panicked"}
    /\ clients \subseteq Clients
    /\ todo \subseteq clients
    /\ todo # {} => hub = "sending"
    /\ closed \subseteq Clients
    /\ buf \in [Clients -> Seq(Messages)]
    /\ \A c \in Clients : Len(buf[c]) <= BufCap
    /\ handler \in [Clients -> {"idle", "register", "done"}]
    /\ writer \in [Clients -> Writer]
    /\ hand \in [Clients -> Seq(Messages)]
    /\ reader \in [Clients -> Reader]
    /\ conn \subseteq Clients
    /\ peer \in [Clients -> {"answers", "silent", "gone"}]
    /\ sent \in 0 .. MaxMsgs
    /\ taken \in Seq(Messages)
    /\ joined \in [Clients -> Nat]
    /\ got \in [Clients -> Seq(Messages)]

\* The hub never closes a send channel twice nor sends on a closed one, either of
\* which would panic and take the whole backend down: a slow client it evicted
\* still unregisters twice, once per pump.
NeverPanics == hub # "panicked"

\* What reached the client, in the order the hub took it.
Stream(c) == got[c] \o hand[c] \o buf[c]
Owed(c) == SubSeq(taken, joined[c] + 1, Len(taken) - IF c \in todo THEN 1 ELSE 0)

\* A client in the map misses no message the hub took since it came; one that left
\* has a prefix of them.  A slow client is closed, it never gets a gap.
NoGaps ==
    \A c \in Clients :
        handler[c] = "done"
        => /\ c \in clients => Stream(c) = Owed(c)
           /\ \E n \in 0 .. Len(Owed(c)) : Stream(c) = SubSeq(Owed(c), 1, n)

\* Nobody stays in the map once one of its goroutines is past its unregister, and
\* whoever left the map has a closed channel, which is what ends its writePump.
MapMatchesPumps ==
    \A c \in Clients :
        /\ c \in clients => /\ writer[c] \notin {"bye", "close", "done"}
                            /\ reader[c] \notin {"close", "done"}
        /\ handler[c] = "done" /\ c \notin clients => c \in closed

\* Whoever registered and is not in the map any more was a member.
Departed == {c \in Clients : handler[c] = "done"} \ clients

\* The hub keeps the feed a browser relies on: a broadcast counts for all clients at
\* the moment the hub takes it, though the loop reaches them one by one, and what a
\* client has coming is in its pump's hand, in its buffer and, if the loop is still
\* to reach it, the message of the loop.
Feed == INSTANCE ClientFeed
          WITH members <- clients,
               gone <- Departed,
               owed <- [c \in Clients |->
                          hand[c] \o buf[c]
                          \o IF c \in todo THEN <<taken[Len(taken)]>> ELSE <<>>],
               given <- got
KeepsFeed == Feed!Spec

-----------------------------------------------------------------------------
(* Liveness, under Fairness.                                                  *)

Ended(c) == writer[c] = "done" /\ reader[c] = "done"

\* Both goroutines of a connection end once the browser is silent or gone, even if
\* writePump is blocked in a write (the read deadline closes the connection
\* under it).
DeadPeersAreReleased ==
    \A c \in Clients : peer[c] # "answers" /\ handler[c] = "done" ~> Ended(c)

\* A client the hub evicted is told and its goroutines end, though nothing ever
\* fails on its connection.
EvictedEnd == \A c \in Clients : c \in closed ~> Ended(c)

\* A message the hub took is written to every registered client that stays.
MessagesArrive ==
    \A c \in Clients, k \in Messages :
        c \in clients /\ k \in joined[c] + 1 .. Len(taken)
        ~> c \in closed \/ peer[c] # "answers" \/ Len(got[c]) >= k - joined[c]

\* The hub serves every goroutine that waits for it.
HubServes == \A c \in Clients : c \in Waiting ~> c \notin Waiting
=============================================================================
