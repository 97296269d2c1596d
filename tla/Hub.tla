-------------------------------- MODULE Hub --------------------------------
(***************************************************************************)
(* The WebSocket hub of nasd (ws/hub.go): one goroutine, Run, owns the set *)
(* of clients; handlers Emit into a bounded channel; every connection has  *)
(* a reader (the handler's goroutine, readPump) and a writer (writePump).  *)
(* A send that would block is dropped, at both channels.  A page acts on   *)
(* the events of one type and ignores the others (app.js:188, 2514).       *)
(***************************************************************************)
EXTENDS Naturals, Sequences

CONSTANTS
  Clients,       \* the connections, each opened at most once
  Types,         \* of events: raid.status, file.progress, ...
  MaxEvents,     \* bound: how many events the handlers emit
  Type,          \* the type of each of them
  Follows,       \* per connection, the type that its page acts on
  BroadcastCap,  \* capacity of Hub.broadcast (64)
  SendCap        \* capacity of client.send (32)

ASSUME CapAssumption ==
  /\ MaxEvents \in Nat /\ BroadcastCap \in Nat \ {0} /\ SendCap \in Nat \ {0}
  /\ Type \in [1 .. MaxEvents -> Types]
  /\ Follows \in [Clients -> Types]

VARIABLES
  emitted,    \* number of Emit calls; event e is the e-th of them
  broadcast,  \* Hub.broadcast
  message,    \* the event Run is handing out, 0 when it waits in its select
  todo,       \* the clients Run has still to offer that event to
  clients,    \* Hub.clients
  send,       \* client.send, per client
  closed,     \* the clients whose send channel was closed
  reader,     \* ServeWS and readPump, per client
  writer,     \* writePump, per client
  peer,       \* the browser's end of each connection
  received,   \* what each browser got
  due,        \* history: the clients that were sent news, and have had none since
  crowded     \* history: those whose news was dropped by a channel full of others

hubVars == <<broadcast, message, todo, clients, closed>>
news == <<due, crowded>>
vars == <<emitted, hubVars, send, reader, writer, peer, received, news>>

Idle == message = 0

\* News for c: an event of the type that its page follows.
IsNews(event, c) == Type[event] = Follows[c]
Carries(channel, c) == \E i \in 1 .. Len(channel) : IsNews(channel[i], c)

-----------------------------------------------------------------------------
(* Emit                                                                    *)

\* A full broadcast channel drops the event (default branch of the select).
Emit ==
  LET told == {c \in clients : IsNews(emitted + 1, c)}
      full == Len(broadcast) >= BroadcastCap
  IN
  /\ emitted < MaxEvents
  /\ emitted' = emitted + 1
  /\ broadcast' = IF full THEN broadcast ELSE Append(broadcast, emitted + 1)
  /\ due' = due \cup told
  /\ crowded' = crowded \cup {c \in told : full /\ ~Carries(broadcast, c)}
  /\ UNCHANGED <<message, todo, clients, closed, send, reader, writer, peer, received>>

-----------------------------------------------------------------------------
(* Run                                                                     *)

\* case c := <-h.register; the channel is unbuffered, so ServeWS goes on in
\* the same step: it starts the writer and becomes the reader.
Register(c) ==
  /\ Idle
  /\ reader[c] = "registering"
  /\ clients' = clients \cup {c}
  /\ reader' = [reader EXCEPT ![c] = "reading"]
  /\ writer' = [writer EXCEPT ![c] = "waiting"]
  /\ UNCHANGED <<emitted, broadcast, message, todo, closed, send, peer, received, news>>

\* Mutant: the channel is closed and the client stays in the map.
UnregisterKeeps(c) ==
  /\ Idle
  /\ reader[c] = "unregistering"
  /\ closed' = closed \cup {c}
  /\ reader' = [reader EXCEPT ![c] = "done"]
  /\ peer' = [peer EXCEPT ![c] = "gone"]
  /\ UNCHANGED <<emitted, broadcast, message, todo, clients, send, writer, received, news>>

\* case c := <-h.unregister; the reader then closes the connection and ends.
Unregister(c) ==
  /\ Idle
  /\ reader[c] = "unregistering"
  /\ clients' = clients \ {c}
  /\ closed' = IF c \in clients THEN closed \cup {c} ELSE closed
  /\ reader' = [reader EXCEPT ![c] = "done"]
  /\ peer' = [peer EXCEPT ![c] = "gone"]
  /\ UNCHANGED <<emitted, broadcast, message, todo, send, writer, received, news>>

\* Mutant: the event stays in the channel.
TakeMessageKeeps ==
  /\ Idle
  /\ broadcast # <<>>
  /\ clients # {}
  /\ message' = Head(broadcast)
  /\ todo' = clients
  /\ UNCHANGED <<emitted, broadcast, clients, closed, send, reader, writer, peer, received, news>>

\* case msg := <-h.broadcast
TakeMessage ==
  /\ Idle
  /\ broadcast # <<>>
  /\ clients # {}
  /\ message' = Head(broadcast)
  /\ broadcast' = Tail(broadcast)
  /\ todo' = clients
  /\ UNCHANGED <<emitted, clients, closed, send, reader, writer, peer, received, news>>

\* The same with nobody connected: the loop has no iteration.
DiscardMessage ==
  /\ Idle
  /\ broadcast # <<>>
  /\ clients = {}
  /\ broadcast' = Tail(broadcast)
  /\ UNCHANGED <<emitted, message, todo, clients, closed, send, reader, writer, peer,
                 received, news>>

\* One iteration of the loop over h.clients, in any order (a Go map).  A full
\* channel is skipped.
Offer(c) ==
  /\ c \in todo
  /\ send' = IF Len(send[c]) < SendCap
             THEN [send EXCEPT ![c] = Append(@, message)] ELSE send
  /\ todo' = todo \ {c}
  /\ message' = IF todo = {c} THEN 0 ELSE message
  /\ crowded' = IF Len(send[c]) < SendCap \/ ~IsNews(message, c) \/ Carries(send[c], c)
                THEN crowded ELSE crowded \cup {c}
  /\ UNCHANGED <<emitted, broadcast, clients, closed, reader, writer, peer, received, due>>

-----------------------------------------------------------------------------
(* A connection                                                            *)

Connect(c) ==
  /\ peer[c] = "none"
  /\ peer' = [peer EXCEPT ![c] = "up"]
  /\ reader' = [reader EXCEPT ![c] = "registering"]
  /\ UNCHANGED <<emitted, hubVars, send, writer, received, news>>

\* The browser leaves: the tab is closed, or the network drops.
Leave(c) ==
  /\ peer[c] = "up"
  /\ peer' = [peer EXCEPT ![c] = "gone"]
  /\ UNCHANGED <<emitted, hubVars, send, reader, writer, received, news>>

\* Mutant: a reader whose writer has ended does not unregister.
ReadFailsWithWriter(c) ==
  /\ reader[c] = "reading"
  /\ peer[c] = "gone"
  /\ writer[c] = "waiting"
  /\ reader' = [reader EXCEPT ![c] = "unregistering"]
  /\ UNCHANGED <<emitted, hubVars, send, writer, peer, received, news>>

\* ReadMessage fails: readPump leaves its loop and runs its deferred calls.
ReadFails(c) ==
  /\ reader[c] = "reading"
  /\ peer[c] = "gone"
  /\ reader' = [reader EXCEPT ![c] = "unregistering"]
  /\ UNCHANGED <<emitted, hubVars, send, writer, peer, received, news>>

\* case msg, ok := <-c.send with a message: to a browser that left, the write
\* may still succeed into the socket buffer or end the writer.
Write(c) ==
  /\ writer[c] = "waiting"
  /\ send[c] # <<>>
  /\ send' = [send EXCEPT ![c] = Tail(@)]
  /\ \/ /\ peer[c] = "up"
        /\ received' = [received EXCEPT ![c] = Append(@, Head(send[c]))]
        /\ due' = IF IsNews(Head(send[c]), c) THEN due \ {c} ELSE due
        /\ crowded' = IF IsNews(Head(send[c]), c) THEN crowded \ {c} ELSE crowded
        /\ UNCHANGED writer
     \/ /\ peer[c] = "gone"
        /\ writer' \in {writer, [writer EXCEPT ![c] = "exited"]}
        /\ UNCHANGED <<received, due, crowded>>
  /\ UNCHANGED <<emitted, hubVars, reader, peer>>

\* Mutant: the writer does not wait when its channel is empty, it returns.
WriterExitsWhenEmpty(c) ==
  /\ writer[c] = "waiting"
  /\ send[c] = <<>>
  /\ writer' = [writer EXCEPT ![c] = "exited"]
  /\ UNCHANGED <<emitted, hubVars, send, reader, peer, received, news>>

\* The channel is closed and drained, or a ping fails: writePump returns.  It
\* does not close the connection.
WriterExits(c) ==
  /\ writer[c] = "waiting"
  /\ \/ c \in closed /\ send[c] = <<>>
     \/ peer[c] = "gone"
  /\ writer' = [writer EXCEPT ![c] = "exited"]
  /\ UNCHANGED <<emitted, hubVars, send, reader, peer, received, news>>

Init ==
  /\ emitted = 0
  /\ broadcast = <<>>
  /\ message = 0
  /\ todo = {}
  /\ clients = {}
  /\ send = [c \in Clients |-> <<>>]
  /\ closed = {}
  /\ reader = [c \in Clients |-> "none"]
  /\ writer = [c \in Clients |-> "none"]
  /\ peer = [c \in Clients |-> "none"]
  /\ received = [c \in Clients |-> <<>>]
  /\ due = {}
  /\ crowded = {}

Run ==
  \/ TakeMessage
  \/ DiscardMessage
  \/ \E c \in Clients : Register(c) \/ Unregister(c) \/ Offer(c)

Next ==
  \/ Emit
  \/ Run
  \/ \E c \in Clients : \/ Connect(c) \/ Leave(c) \/ ReadFails(c)
                        \/ Write(c) \/ WriterExits(c)

Spec == Init /\ [][Next]_vars

\* Run serves each of its ready cases in the end: a Go select chooses among the
\* ready ones at random, so a case that is ready again and again is taken.  A
\* reader whose socket failed and a writer with something to do go on.
Fairness ==
  /\ WF_vars(TakeMessage) /\ WF_vars(DiscardMessage)
  /\ \A c \in Clients : /\ SF_vars(Register(c)) /\ SF_vars(Unregister(c))
                        /\ WF_vars(Offer(c))
                        /\ WF_vars(ReadFails(c))
                        /\ WF_vars(Write(c)) /\ WF_vars(WriterExits(c))

FairSpec == Spec /\ Fairness

-----------------------------------------------------------------------------
(* Properties                                                              *)

TypeOK ==
  /\ emitted \in Nat
  /\ broadcast \in Seq(Nat \ {0})
  /\ message \in Nat
  /\ todo \subseteq Clients
  /\ clients \subseteq Clients
  /\ send \in [Clients -> Seq(Nat \ {0})]
  /\ closed \subseteq Clients
  /\ reader \in [Clients -> {"none", "registering", "reading", "unregistering", "done"}]
  /\ writer \in [Clients -> {"none", "waiting", "exited"}]
  /\ peer \in [Clients -> {"none", "up", "gone"}]
  /\ received \in [Clients -> Seq(Nat \ {0})]
  /\ due \subseteq Clients
  /\ crowded \subseteq Clients

\* Run never sends on a closed channel, which would panic and end nasd: a
\* client is offered an event only while it is registered, and its channel is
\* closed exactly when it stops being so (hub.go:51-66).
NoSendOnClosed ==
  /\ todo \cap closed = {}
  /\ clients \cap closed = {}
  /\ todo \subseteq clients

\* Each browser sees a subsequence of the events in the order they were
\* emitted, without repetition: the hub implements LossyStream.
Stream == INSTANCE LossyStream
OrderedStream == Stream!Spec

\* A browser that leaves is forgotten: it leaves Hub.clients and both its
\* goroutines end, also when the writer failed long before the reader.
GoneIsForgotten ==
  \A c \in Clients :
    peer[c] = "gone" ~> /\ c \notin clients
                        /\ reader[c] = "done"
                        /\ writer[c] = "exited"

\* A channel that is full drops events, and yet a page misses no news: when an
\* event of its type was emitted while its browser was registered, it gets one of
\* that type after it and reloads, or the browser leaves.  The one exception is a
\* burst of other types, file.progress of an upload for one, that had filled a
\* channel by itself; then the page waits for the next event of its type, although
\* Emit "sends an event to all connected clients" (hub.go:70).
NewsReachesEveryone ==
  \A c \in Clients : c \in due ~> (c \notin due \/ c \in crowded \/ peer[c] = "gone")
=============================================================================
