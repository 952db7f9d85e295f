---- MODULE Hub ----
(***************************************************************************)
(* internal/websocket: the hub's event loop, the HTTP handler that accepts *)
(* a connection, and the two pumps of each client.  register and           *)
(* unregister are unbuffered channels, so a send on them is a rendezvous   *)
(* with Run; broadcast and each client's send are bounded and drop what    *)
(* does not fit.  The delivery goroutine of the store is the only          *)
(* broadcaster.                                                            *)
(*                                                                         *)
(* A message is its number in the broadcast queue: those dropped before    *)
(* the queue get none.  A connection is used once.                         *)
(***************************************************************************)
EXTENDS Integers, Sequences, Functions

CONSTANTS
    Clients,            \* the connections that may come
    BroadcastQueueSize, \* broadcastQueueSize (1024)
    SendBufferSize,     \* sendBufferSize (256)
    MaxMessages,        \* bound on the messages queued
    None                \* Run has no client in hand

ASSUME HubAssumption ==
    /\ BroadcastQueueSize \in Nat \ {0}
    /\ SendBufferSize \in Nat \ {0}
    /\ MaxMessages \in Nat
    /\ None \notin Clients

VARIABLES
    hub,        \* where Run is
    inHand,     \* the client Run received from register or unregister
    clients,    \* Hub.clients; Hub.count is its size
    broadcast,  \* Hub.broadcast
    unencodable, \* the messages queued that json.Marshal refuses
    cancelled,  \* the runtime's context is cancelled
    checked,    \* BroadcastContext has seen a client and not yet sent
    send,       \* Client.send
    sendClosed, \* Client.send is closed
    conn,       \* the connection: none, open, or closed by either end
    handler,    \* where handleWebSocket is
    writePump,  \* where WritePump is
    readPump,   \* where ReadPump is
    writing,    \* the message WritePump writes to the connection
    nextMsg,    \* ghost: the number of the next message queued
    received,   \* ghost: what reached the peer, oldest first
    first,      \* ghost: nextMsg when the client was added
    missed      \* ghost: messages dropped because the client's buffer was full

hubVars == <<hub, inHand, clients>>
queueVars == <<broadcast, checked, nextMsg, unencodable>>
bufferVars == <<send, sendClosed>>
pumpVars == <<conn, handler, writePump, readPump, writing>>
ghosts == <<received, first, missed>>
allVars == <<hubVars, queueVars, cancelled, bufferVars, pumpVars, ghosts>>

Per(v) == [c \in Clients |-> v]

HubInit ==
    /\ hub = "select" /\ inHand = None /\ clients = {}
    /\ broadcast = <<>> /\ checked = FALSE /\ nextMsg = 1 /\ unencodable = {}
    /\ cancelled = FALSE
    /\ send = Per(<<>>) /\ sendClosed = Per(FALSE)
    /\ conn = Per("none") /\ handler = Per("none")
    /\ writePump = Per("none") /\ readPump = Per("none") /\ writing = Per(<<>>)
    /\ received = Per(<<>>) /\ first = Per(0) /\ missed = Per({})

----
(* BroadcastContext                                                        *)

\* Nobody is connected: the message is skipped, with no effect at all.
CheckCount ==
    /\ ~checked
    /\ clients # {}
    /\ nextMsg <= MaxMessages
    /\ checked' = TRUE
    /\ UNCHANGED <<hubVars, broadcast, nextMsg, unencodable, cancelled, bufferVars, pumpVars, ghosts>>

\* The select with a default: a full queue drops the message.  What it holds
\* may have no JSON: a NaN or an infinity is a legal gauge value.
Enqueue ==
    /\ checked
    /\ checked' = FALSE
    /\ IF Len(broadcast) < BroadcastQueueSize
       THEN /\ broadcast' = Append(broadcast, nextMsg) /\ nextMsg' = nextMsg + 1
            /\ \E bad \in SUBSET {nextMsg} : unencodable' = unencodable \cup bad
       ELSE UNCHANGED <<broadcast, nextMsg, unencodable>>
    /\ UNCHANGED <<hubVars, cancelled, bufferVars, pumpVars, ghosts>>

----
(* handleWebSocket                                                         *)

\* The upgrade is done: the peer sees an open socket before Register.
Accept(c) ==
    /\ handler[c] = "none"
    /\ handler' = [handler EXCEPT ![c] = "register"]
    /\ conn' = [conn EXCEPT ![c] = "open"]
    /\ UNCHANGED <<hubVars, queueVars, cancelled, bufferVars, writePump, readPump, writing, ghosts>>

\* The peer goes away, or the network does.
PeerCloses(c) ==
    /\ conn[c] = "open"
    /\ conn' = [conn EXCEPT ![c] = "closed"]
    /\ UNCHANGED <<hubVars, queueVars, cancelled, bufferVars, handler, writePump, readPump, writing, ghosts>>

----
(* Run                                                                     *)

\* Register returns when Run has received; the map comes after.
ReceiveRegister(c) ==
    /\ hub = "select"
    /\ handler[c] = "register"
    /\ hub' = "add" /\ inHand' = c
    /\ handler' = [handler EXCEPT ![c] = "returned"]
    /\ writePump' = [writePump EXCEPT ![c] = "select"]
    /\ readPump' = [readPump EXCEPT ![c] = "read"]
    /\ UNCHANGED <<clients, queueVars, cancelled, bufferVars, conn, writing, ghosts>>

AddClient ==
    /\ hub = "add"
    /\ hub' = "select" /\ inHand' = None
    /\ clients' = clients \cup {inHand}
    /\ first' = [first EXCEPT ![inHand] = nextMsg]
    /\ UNCHANGED <<queueVars, cancelled, bufferVars, pumpVars, received, missed>>

\* Unregister returns, and the handler's goroutine cancels the client.
ReceiveUnregister(c) ==
    /\ hub = "select"
    /\ readPump[c] = "unregister"
    /\ hub' = "remove" /\ inHand' = c
    /\ readPump' = [readPump EXCEPT ![c] = "exited"]
    /\ UNCHANGED <<clients, queueVars, cancelled, bufferVars, conn, handler, writePump, writing, ghosts>>

\* Bug: the channel is closed and the client stays in the map.
RemoveKeepsEntry ==
    /\ hub = "remove"
    /\ hub' = "select" /\ inHand' = None
    /\ sendClosed' = [sendClosed EXCEPT ![inHand] = TRUE]
    /\ UNCHANGED <<clients, queueVars, cancelled, send, pumpVars, ghosts>>

RemoveClient ==
    /\ hub = "remove"
    /\ hub' = "select" /\ inHand' = None
    /\ sendClosed' = [sendClosed EXCEPT ![inHand] = @ \/ inHand \in clients]
    /\ clients' = clients \ {inHand}
    /\ UNCHANGED <<queueVars, cancelled, send, pumpVars, ghosts>>

HasRoom(c) == Len(send[c]) < SendBufferSize

\* Bug: a full buffer lets its oldest message go instead of the new one.
DispatchDropOldest ==
    /\ hub = "select"
    /\ broadcast # <<>>
    /\ broadcast' = Tail(broadcast)
    /\ send' = [c \in Clients |->
                   IF c \notin clients THEN send[c]
                   ELSE IF HasRoom(c) THEN Append(send[c], Head(broadcast))
                   ELSE Append(Tail(send[c]), Head(broadcast))]
    /\ UNCHANGED <<hubVars, checked, nextMsg, unencodable, cancelled, sendClosed, pumpVars, ghosts>>

\* Who dispatch comes to: nobody, when Marshal returns an error.
Addressees == IF Head(broadcast) \in unencodable THEN {} ELSE clients

\* dispatch: a copy for every client whose buffer has room.
Dispatch ==
    /\ hub = "select"
    /\ broadcast # <<>>
    /\ broadcast' = Tail(broadcast)
    /\ send' = [c \in Clients |-> IF c \in Addressees /\ HasRoom(c)
                                  THEN Append(send[c], Head(broadcast)) ELSE send[c]]
    /\ missed' = [c \in Clients |-> IF c \in Addressees /\ ~HasRoom(c)
                                    THEN missed[c] \cup {Head(broadcast)} ELSE missed[c]]
    /\ UNCHANGED <<hubVars, checked, nextMsg, unencodable, cancelled, sendClosed, pumpVars,
                   received, first>>

\* Runtime.Shutdown, or a component that failed.
Cancel ==
    /\ ~cancelled
    /\ cancelled' = TRUE
    /\ UNCHANGED <<hubVars, queueVars, bufferVars, pumpVars, ghosts>>

\* Bug: Run returns and leaves the channels of its clients open.
StopSilently ==
    /\ hub = "select"
    /\ cancelled
    /\ hub' = "stopped"
    /\ clients' = {}
    /\ UNCHANGED <<inHand, queueVars, cancelled, bufferVars, pumpVars, ghosts>>

\* ctx.Done: every client's channel is closed.
Stop ==
    /\ hub = "select"
    /\ cancelled
    /\ hub' = "stopped"
    /\ sendClosed' = [c \in Clients |-> sendClosed[c] \/ c \in clients]
    /\ clients' = {}
    /\ UNCHANGED <<inHand, queueVars, cancelled, send, pumpVars, ghosts>>

----
(* The pumps                                                               *)

TakeMessage(c) ==
    /\ writePump[c] = "select"
    /\ send[c] # <<>>
    /\ writePump' = [writePump EXCEPT ![c] = "write"]
    /\ writing' = [writing EXCEPT ![c] = <<Head(send[c])>>]
    /\ send' = [send EXCEPT ![c] = Tail(@)]
    /\ UNCHANGED <<hubVars, queueVars, cancelled, sendClosed, conn, handler, readPump, ghosts>>

Written(c) ==
    /\ writePump[c] = "write"
    /\ conn[c] = "open"
    /\ writePump' = [writePump EXCEPT ![c] = "select"]
    /\ writing' = [writing EXCEPT ![c] = <<>>]
    /\ received' = [received EXCEPT ![c] = @ \o writing[c]]
    /\ UNCHANGED <<hubVars, queueVars, cancelled, bufferVars, conn, handler, readPump, first, missed>>

\* Read returns an error once the connection is closed; what the peer sends
\* before that is ignored.
ReadFails(c) ==
    /\ readPump[c] = "read"
    /\ conn[c] = "closed"
    /\ readPump' = [readPump EXCEPT ![c] = "unregister"]
    /\ UNCHANGED <<hubVars, queueVars, cancelled, bufferVars, conn, handler, writePump, writing, ghosts>>

\* WritePump returns and closes the connection.  A write or a ping may time
\* out, or fail, at any time.
WritePumpExit(c) ==
    /\ writePump[c] \in {"select", "write"}
    /\ writePump' = [writePump EXCEPT ![c] = "exited"]
    /\ writing' = [writing EXCEPT ![c] = <<>>]
    /\ conn' = [conn EXCEPT ![c] = "closed"]
    /\ UNCHANGED <<hubVars, queueVars, cancelled, bufferVars, handler, readPump, ghosts>>

\* What makes it return for certain: the connection is closed, the hub closed
\* the channel and it is drained, or ReadPump has ended and cancelled.
MustExit(c) ==
    \/ conn[c] = "closed"
    \/ writePump[c] = "select" /\ sendClosed[c] /\ send[c] = <<>>
    \/ writePump[c] = "select" /\ readPump[c] = "exited"

----
HubStep ==
    \/ \E c \in Clients : ReceiveRegister(c) \/ ReceiveUnregister(c)
    \/ AddClient \/ RemoveClient \/ Dispatch

WriteStep(c) == TakeMessage(c) \/ Written(c) \/ (MustExit(c) /\ WritePumpExit(c))

HubNext ==
    \/ CheckCount \/ Enqueue \/ Cancel \/ HubStep \/ Stop
    \/ \E c \in Clients : \/ Accept(c) \/ PeerCloses(c) \/ ReadFails(c)
                          \/ WriteStep(c) \/ WritePumpExit(c)

HubSpec == HubInit /\ [][HubNext]_allVars

\* The goroutines run.  select picks among the ready cases at random, so that
\* none is passed over for ever; a write ends, or times out after writeWait;
\* a ping of a closed connection fails within pingInterval.  No connection,
\* message or shutdown is forced.
HubFairness ==
    /\ WF_allVars(HubStep)
    /\ SF_allVars(Stop)
    /\ \A c \in Clients : /\ SF_allVars(ReceiveUnregister(c))
                          /\ WF_allVars(WriteStep(c))
                          /\ WF_allVars(ReadFails(c))

HubFairSpec == HubSpec /\ HubFairness

----
(* Properties                                                              *)

TypeOK ==
    /\ hub \in {"select", "add", "remove", "stopped"}
    /\ hub \in {"add", "remove"} <=> inHand \in Clients
    /\ clients \subseteq {c \in Clients : handler[c] = "returned"}
    /\ broadcast \in Seq(1 .. MaxMessages) /\ Len(broadcast) <= BroadcastQueueSize
    /\ unencodable \subseteq 1 .. nextMsg - 1
    /\ \A c \in Clients :
          /\ send[c] \in Seq(1 .. MaxMessages) /\ Len(send[c]) <= SendBufferSize
          /\ writing[c] # <<>> <=> writePump[c] = "write"
          /\ writePump[c] = "none" <=> readPump[c] = "none"
          /\ writePump[c] = "none" <=> handler[c] # "returned"

\* Run alone sends on and closes a client's channel, and a client it may still
\* send to or close has an open one: neither panics, whatever the order of
\* register, unregister and shutdown.
OpenWhileRegistered ==
    \A c \in clients : ~sendClosed[c] /\ hub # "stopped"

\* Why OpenWhileRegistered is inductive: a connection registers once, so the
\* client Run has in hand is new to the map and its channel was never closed.
OnceRegistered ==
    /\ hub \in {"select", "add", "remove", "stopped"}
    /\ clients \subseteq Clients
    /\ sendClosed \in [Clients -> BOOLEAN]
    /\ handler \in [Clients -> {"none", "register", "returned"}]
    /\ hub \in {"add", "remove"} => inHand \in Clients
    /\ \A c \in Clients : c \in clients \/ sendClosed[c] => handler[c] = "returned"
    /\ hub = "add" => /\ inHand \notin clients
                      /\ ~sendClosed[inHand]
                      /\ handler[inHand] = "returned"
RegisterInv == OnceRegistered /\ OpenWhileRegistered

Stream(c) == received[c] \o writing[c] \o send[c]

\* A client with a running pump misses nothing that was queued since Run added
\* it, but the messages that have no JSON, which no client gets, and what
\* dispatch dropped because the client's own buffer was full; and it sees the
\* messages in the order of Broadcast, each once.  A full queue loses a message
\* for everybody before it has a number.
StreamComplete ==
    \A c \in clients : writePump[c] # "exited" =>
        /\ (first[c] .. nextMsg - 1) \ unencodable
              \subseteq Range(Stream(c)) \cup Range(broadcast) \cup missed[c]
        /\ \A i, j \in DOMAIN Stream(c) : i < j => Stream(c)[i] < Stream(c)[j]

\* Whatever ends a connection, the peer, a write, a ping or a shutdown, ends
\* the rest of it: each pump tears down the other, Run lets the client go, and
\* no WritePump outlives its connection or the hub, the ones whose ReadPump
\* waits for a hub that has stopped included.
ConnectionsEnd ==
    \A c \in Clients :
        /\ c \in clients /\ (conn[c] = "closed" \/ writePump[c] = "exited") ~> c \notin clients
        /\ writePump[c] # "none" /\ (conn[c] = "closed" \/ cancelled) ~> writePump[c] = "exited"
====
