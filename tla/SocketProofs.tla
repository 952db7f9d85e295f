---- MODULE SocketProofs ----
(***************************************************************************)
(* Theorems about both ends of the websocket.  Hub: for every set of       *)
(* connections, every size of the queue and the buffers and every number   *)
(* of messages.  LiveSocket: for every set of subscribers and sockets and  *)
(* every bound on timers, changes and faults.                              *)
(***************************************************************************)
EXTENDS Hub, LiveSocket, WellFoundedInduction, SequenceTheorems, TLAPS

----
(* Hub.                                                                    *)

\* Nobody is registered and nothing is closed.
LEMMA RegisterInit == HubInit => RegisterInv
  BY DEF HubInit, Per, RegisterInv, OnceRegistered, OpenWhileRegistered

\* What leaves the map, the handlers, the channels' state and Run alone
\* leaves the invariant alone: broadcasting, the pumps and the peers.
LEMMA Untouched ==
  ASSUME RegisterInv, UNCHANGED <<hub, inHand, clients, sendClosed, handler>>
  PROVE  RegisterInv'
  BY DEF RegisterInv, OnceRegistered, OpenWhileRegistered

\* Run: a client it adds is new, a client it removes is closed on its way out.
LEMMA HubKeeps ==
  ASSUME RegisterInv, HubStep \/ Stop
  PROVE  RegisterInv'
  <1> USE DEF RegisterInv, OnceRegistered, OpenWhileRegistered
  <1>1. ASSUME NEW c \in Clients, ReceiveRegister(c) PROVE RegisterInv'
    <2>1. c \notin clients /\ ~sendClosed[c]
      BY <1>1 DEF ReceiveRegister
    <2>2. QED
      BY <1>1, <2>1 DEF ReceiveRegister, bufferVars
  <1>2. ASSUME NEW c \in Clients, ReceiveUnregister(c) PROVE RegisterInv'
    BY <1>2 DEF ReceiveUnregister, bufferVars
  <1>3. CASE AddClient
    BY <1>3 DEF AddClient, bufferVars, pumpVars
  <1>4. CASE RemoveClient
    <2>1. \A c \in clients' : c # inHand /\ c \in clients
      BY <1>4 DEF RemoveClient
    <2>2. \A c \in clients' : ~sendClosed'[c]
      BY <1>4, <2>1 DEF RemoveClient
    <2>3. \A c \in Clients : c \in clients' \/ sendClosed'[c] => c \in clients \/ sendClosed[c]
      BY <1>4, <2>1 DEF RemoveClient
    <2>4. QED
      BY <1>4, <2>1, <2>2, <2>3 DEF RemoveClient, pumpVars
  <1>5. CASE Dispatch
    BY <1>5, Untouched DEF Dispatch, hubVars, pumpVars
  <1>6. CASE Stop
    BY <1>6 DEF Stop, pumpVars
  <1>7. QED
    BY <1>1, <1>2, <1>3, <1>4, <1>5, <1>6 DEF HubStep

\* A handler registers a connection that was never seen before.
LEMMA ClientKeeps ==
  ASSUME RegisterInv, NEW c \in Clients,
         Accept(c) \/ PeerCloses(c) \/ ReadFails(c) \/ WriteStep(c) \/ WritePumpExit(c)
  PROVE  RegisterInv'
  <1>1. CASE Accept(c)
    BY <1>1 DEF RegisterInv, OnceRegistered, OpenWhileRegistered, Accept, hubVars, bufferVars
  <1>2. CASE PeerCloses(c)
    BY <1>2, Untouched DEF PeerCloses, hubVars, bufferVars
  <1>3. CASE ReadFails(c)
    BY <1>3, Untouched DEF ReadFails, hubVars, bufferVars
  <1>4. CASE TakeMessage(c)
    BY <1>4, Untouched DEF TakeMessage, hubVars
  <1>5. CASE Written(c)
    BY <1>5, Untouched DEF Written, hubVars, bufferVars
  <1>6. CASE WritePumpExit(c)
    BY <1>6, Untouched DEF WritePumpExit, hubVars, bufferVars
  <1>7. QED
    BY <1>1, <1>2, <1>3, <1>4, <1>5, <1>6 DEF WriteStep

\* Registration, shutdown and every pump keep the channels of the map open.
LEMMA RegisterNext == RegisterInv /\ [HubNext]_allVars => RegisterInv'
  <1> SUFFICES ASSUME RegisterInv, [HubNext]_allVars PROVE RegisterInv'
    OBVIOUS
  <1>1. CASE CheckCount
    BY <1>1, Untouched DEF CheckCount, hubVars, bufferVars, pumpVars
  <1>2. CASE Enqueue
    BY <1>2, Untouched DEF Enqueue, hubVars, bufferVars, pumpVars
  <1>3. CASE Cancel
    BY <1>3, Untouched DEF Cancel, hubVars, bufferVars, pumpVars
  <1>4. CASE HubStep \/ Stop
    BY <1>4, HubKeeps
  <1>5. CASE UNCHANGED allVars
    BY <1>5, Untouched DEF allVars, hubVars, bufferVars, pumpVars
  <1>6. ASSUME NEW c \in Clients,
               Accept(c) \/ PeerCloses(c) \/ ReadFails(c) \/ WriteStep(c) \/ WritePumpExit(c)
        PROVE  RegisterInv'
    BY <1>6, ClientKeeps
  <1>7. QED
    BY <1>1, <1>2, <1>3, <1>4, <1>5, <1>6 DEF HubNext

\* Run never sends on or closes a channel that is closed: the comment "all map
\* mutations happen inside Run" is what the single owner buys.
THEOREM NeverUsesClosedChannel == HubSpec => []OpenWhileRegistered
  <1>1. RegisterInv => OpenWhileRegistered
    BY DEF RegisterInv
  <1>2. QED
    BY RegisterInit, RegisterNext, <1>1, PTL DEF HubSpec

----
(* A client with a running pump gets everything, once and in order.         *)

\* The sequences hold numbers of messages, and WritePump holds a message
\* only when it writes; it runs once the connection is registered.
StreamsTyped ==
    /\ nextMsg \in Nat
    /\ broadcast \in Seq(Nat)
    /\ send \in [Clients -> Seq(Nat)]
    /\ received \in [Clients -> Seq(Nat)]
    /\ writing \in [Clients -> Seq(Nat)]
    /\ first \in [Clients -> Nat]
    /\ missed \in [Clients -> SUBSET Nat]
    /\ writePump \in [Clients -> {"none", "select", "write", "exited"}]
    /\ \A c \in Clients : writePump[c] \in {"none", "select"} => writing[c] = <<>>
    /\ \A c \in Clients : handler[c] # "returned" => writePump[c] = "none"

Held(n, s) == \E i \in 1..Len(s) : s[i] = n

Increasing(s) == \A i, j \in 1..Len(s) : i < j => s[i] < s[j]

\* The queue is in order, and what a client was given is older than what is
\* still queued.
BroadcastOrdered ==
    /\ Increasing(broadcast)
    /\ \A i \in 1..Len(broadcast) : broadcast[i] < nextMsg
StreamOrdered(c) ==
    /\ Increasing(Stream(c))
    /\ \A i \in 1..Len(Stream(c)) :
          /\ Stream(c)[i] < nextMsg
          /\ \A j \in 1..Len(broadcast) : Stream(c)[i] < broadcast[j]

\* A message queued since the client was added is with the client, is queued,
\* was dropped because the client's buffer was full, or has no JSON.
NothingLost(c) ==
    \A n \in first[c] .. nextMsg - 1 :
        Held(n, Stream(c)) \/ Held(n, broadcast) \/ n \in missed[c] \/ n \in unencodable

StreamInv ==
    /\ RegisterInv
    /\ StreamsTyped
    /\ BroadcastOrdered
    /\ \A c \in Clients : writePump[c] # "exited" => StreamOrdered(c)
    /\ \A c \in clients : writePump[c] # "exited" => NothingLost(c)

\* How the stream of a client is built from its three parts.
LEMMA StreamParts ==
  ASSUME NEW r \in Seq(Nat), NEW w \in Seq(Nat), NEW s \in Seq(Nat)
  PROVE  /\ r \o w \o s \in Seq(Nat)
         /\ s # <<>> /\ w = <<>> => r \o <<Head(s)>> \o Tail(s) = r \o w \o s
         /\ (r \o w) \o <<>> \o s = r \o w \o s
  <1>1. r \o w \in Seq(Nat) /\ r \o w \o s \in Seq(Nat)
    BY ConcatProperties
  <1>2. ASSUME s # <<>>, w = <<>> PROVE r \o <<Head(s)>> \o Tail(s) = r \o w \o s
    <2>1. Head(s) \in Nat /\ Tail(s) \in Seq(Nat) /\ <<Head(s)>> \in Seq(Nat)
      BY <1>2, HeadTailProperties
    <2>2. <<Head(s)>> \o Tail(s) = s
      BY <1>2, <2>1
    <2>3. r \o <<Head(s)>> \o Tail(s) = r \o (<<Head(s)>> \o Tail(s))
      BY <2>1, ConcatAssociative
    <2>4. r \o w = r
      BY <1>2, ConcatEmptySeq
    <2>5. QED
      BY <2>2, <2>3, <2>4
  <1>3. (r \o w) \o <<>> = r \o w
    BY <1>1, ConcatEmptySeq
  <1>4. QED
    BY <1>1, <1>2, <1>3

\* A message that enters the send buffer is the last of the stream.
LEMMA StreamAppend ==
  ASSUME NEW r \in Seq(Nat), NEW w \in Seq(Nat), NEW s \in Seq(Nat), NEW n \in Nat
  PROVE  r \o w \o Append(s, n) = Append(r \o w \o s, n)
  <1>1. r \o w \in Seq(Nat) /\ r \o w \o s \in Seq(Nat)
    BY ConcatProperties
  <1>2. <<n>> \in Seq(Nat) /\ Append(s, n) = s \o <<n>>
    BY AppendIsConcat
  <1>3. r \o w \o (s \o <<n>>) = (r \o w \o s) \o <<n>>
    BY <1>1, <1>2, ConcatAssociative
  <1>4. (r \o w \o s) \o <<n>> = Append(r \o w \o s, n)
    BY <1>1, AppendIsConcat
  <1>5. QED
    BY <1>2, <1>3, <1>4

\* A stream is a sequence of message numbers.
LEMMA StreamsInSeq ==
  ASSUME StreamsTyped, NEW c \in Clients
  PROVE  Stream(c) \in Seq(Nat) /\ Len(Stream(c)) \in Nat
  BY StreamParts, LenProperties DEF StreamsTyped, Stream

\* Nothing was broadcast at the start.
LEMMA StreamInit == HubInit => StreamInv
  <1> SUFFICES ASSUME HubInit PROVE StreamInv
    OBVIOUS
  <1>1. StreamsTyped
    BY DEF HubInit, Per, StreamsTyped
  <1>2. \A c \in Clients : Stream(c) = <<>>
    BY ConcatEmptySeq DEF HubInit, Per, Stream
  <1>3. BroadcastOrdered
    BY DEF HubInit, BroadcastOrdered, Increasing
  <1>4. \A c \in Clients : StreamOrdered(c)
    BY <1>2 DEF StreamOrdered, Increasing
  <1>5. clients = {}
    BY DEF HubInit
  <1>6. QED
    BY <1>1, <1>3, <1>4, <1>5, RegisterInit DEF StreamInv

\* What adds nothing to the queue and keeps the streams of the running pumps.
LEMMA StreamsKept ==
  ASSUME StreamInv, UNCHANGED <<broadcast, nextMsg, unencodable, first, missed>>, clients' \subseteq clients,
         \A c \in Clients : writePump'[c] # "exited" =>
            writePump[c] # "exited" /\ Stream(c)' = Stream(c)
  PROVE  /\ BroadcastOrdered'
         /\ \A c \in Clients : writePump'[c] # "exited" => StreamOrdered(c)'
         /\ \A c \in clients' : writePump'[c] # "exited" => NothingLost(c)'
  <1>1. clients \subseteq Clients
    BY DEF StreamInv, RegisterInv, OnceRegistered
  <1>2. BroadcastOrdered'
    BY DEF StreamInv, BroadcastOrdered, Increasing
  <1>3. ASSUME NEW c \in Clients, writePump'[c] # "exited" PROVE StreamOrdered(c)'
    BY <1>3 DEF StreamInv, StreamOrdered, Increasing
  <1>4. ASSUME NEW c \in clients', writePump'[c] # "exited" PROVE NothingLost(c)'
    <2>1. NothingLost(c) /\ Stream(c)' = Stream(c)
      BY <1>1, <1>4 DEF StreamInv
    <2>2. QED
      BY <2>1 DEF NothingLost, Held
  <1>5. QED
    BY <1>2, <1>3, <1>4

\* BroadcastContext: the queue takes the next number, or nothing.
LEMMA EnqueueStreams ==
  ASSUME StreamInv, Enqueue
  PROVE  StreamInv'
  <1>1. RegisterInv'
    BY Untouched DEF StreamInv, Enqueue, hubVars, bufferVars, pumpVars
  <1>2. UNCHANGED <<clients, writePump, first, missed>> /\ \A c \in Clients : Stream(c)' = Stream(c)
    BY DEF Enqueue, hubVars, bufferVars, pumpVars, ghosts, Stream
  <1>3. StreamsTyped'
    <2>1. broadcast \in Seq(Nat) /\ nextMsg \in Nat
      BY DEF StreamInv, StreamsTyped
    <2>2. Append(broadcast, nextMsg) \in Seq(Nat) /\ nextMsg + 1 \in Nat
      BY <2>1, AppendProperties
    <2>3. broadcast' \in Seq(Nat) /\ nextMsg' \in Nat
      BY <2>1, <2>2 DEF Enqueue
    <2>4. QED
      BY <2>3 DEF StreamInv, StreamsTyped, Enqueue, bufferVars, pumpVars, ghosts
  <1>4. CASE UNCHANGED <<broadcast, nextMsg, unencodable>>
    BY <1>1, <1>2, <1>3, <1>4, StreamsKept DEF StreamInv
  <1>5. CASE /\ broadcast' = Append(broadcast, nextMsg) /\ nextMsg' = nextMsg + 1
             /\ unencodable \subseteq unencodable'
    <2>1. broadcast \in Seq(Nat) /\ nextMsg \in Nat
      BY DEF StreamInv, StreamsTyped
    <2>2. /\ Len(broadcast) \in Nat /\ Len(broadcast') = Len(broadcast) + 1
          /\ broadcast'[Len(broadcast) + 1] = nextMsg
          /\ \A i \in 1..Len(broadcast) : broadcast'[i] = broadcast[i] /\ broadcast[i] \in Nat
      BY <1>5, <2>1, AppendProperties
    <2>3. BroadcastOrdered'
      BY <1>5, <2>1, <2>2 DEF StreamInv, BroadcastOrdered, Increasing
    <2>4. ASSUME NEW c \in Clients, writePump'[c] # "exited" PROVE StreamOrdered(c)'
      <3>1. StreamOrdered(c) /\ Stream(c)' = Stream(c) /\ Stream(c) \in Seq(Nat)
        BY <1>2, <2>4, StreamsInSeq DEF StreamInv
      <3>2. Increasing(Stream(c))'
        BY <3>1 DEF StreamOrdered, Increasing
      <3>3. ASSUME NEW i \in 1..Len(Stream(c)), NEW j \in 1..Len(broadcast')
            PROVE  Stream(c)[i] < nextMsg' /\ Stream(c)[i] < broadcast'[j]
        <4>1. Stream(c)[i] < nextMsg /\ Stream(c)[i] \in Nat
          BY <3>1 DEF StreamOrdered
        <4>2. j \in 1..Len(broadcast) \/ j = Len(broadcast) + 1
          BY <2>2
        <4>3. QED
          BY <1>5, <2>1, <2>2, <3>1, <4>1, <4>2 DEF StreamOrdered
      <3>4. \A i \in 1..Len(Stream(c)) : Stream(c)[i] < nextMsg'
        BY <1>5, <2>1, <3>1 DEF StreamOrdered
      <3>5. QED
        BY <3>1, <3>2, <3>3, <3>4 DEF StreamOrdered
    <2>5. ASSUME NEW c \in clients', writePump'[c] # "exited", NEW n \in first'[c] .. nextMsg' - 1
          PROVE  Held(n, Stream(c)') \/ Held(n, broadcast') \/ n \in missed'[c] \/ n \in unencodable'
      <3>1. NothingLost(c) /\ Stream(c)' = Stream(c) /\ c \in Clients /\ first[c] \in Nat
        BY <1>2, <2>5 DEF StreamInv, RegisterInv, OnceRegistered, StreamsTyped
      <3>2. CASE n = nextMsg
        BY <2>2, <3>2 DEF Held
      <3>3. CASE n \in first[c] .. nextMsg - 1
        <4>1. Held(n, Stream(c)) \/ Held(n, broadcast) \/ n \in missed[c] \/ n \in unencodable
          BY <3>1, <3>3, Zenon DEF NothingLost
        <4>2. Held(n, broadcast) => Held(n, broadcast')
          BY <2>2 DEF Held
        <4>3. QED
          BY <1>2, <1>5, <3>1, <4>1, <4>2
      <3>4. QED
        BY <1>2, <1>5, <2>1, <2>5, <3>1, <3>2, <3>3
    <2>6. QED
      BY <1>1, <1>3, <2>3, <2>4, <2>5 DEF StreamInv, NothingLost
  <1>6. QED
    BY <1>4, <1>5 DEF Enqueue
\* dispatch moves the head of the queue to the end of the streams, or notes
\* that it was dropped.
LEMMA DispatchStreams ==
  ASSUME StreamInv, Dispatch
  PROVE  StreamInv'
  <1> DEFINE h == Head(broadcast)
  <1>1. RegisterInv'
    BY Untouched DEF StreamInv, Dispatch, hubVars, pumpVars
  <1>2. /\ broadcast \in Seq(Nat) /\ broadcast # <<>> /\ broadcast' = Tail(broadcast)
        /\ nextMsg \in Nat /\ clients \subseteq Clients
        /\ UNCHANGED <<clients, nextMsg, unencodable, handler, writePump, writing, received, first>>
    BY DEF StreamInv, StreamsTyped, RegisterInv, OnceRegistered, Dispatch, hubVars, pumpVars
  <1>3. /\ h \in Nat /\ h = broadcast[1] /\ broadcast' \in Seq(Nat)
        /\ Len(broadcast) \in Nat /\ Len(broadcast') = Len(broadcast) - 1
        /\ 1 \in 1..Len(broadcast)
        /\ \A i \in 1..Len(broadcast') : broadcast'[i] = broadcast[i + 1]
    BY <1>2, HeadTailProperties, LenProperties, EmptySeq
  <1> HIDE DEF h
  <1>4. ASSUME NEW c \in Clients
        PROVE  /\ send[c] \in Seq(Nat) /\ missed[c] \subseteq Nat /\ first[c] \in Nat
               /\ \/ send'[c] = Append(send[c], h) /\ missed'[c] = missed[c]
                  \/ /\ send'[c] = send[c]
                     /\ missed'[c] = (IF c \in clients /\ h \notin unencodable
                                   THEN missed[c] \cup {h} ELSE missed[c])
    BY DEF StreamInv, StreamsTyped, Dispatch, Addressees, h
  <1>5. StreamsTyped'
    <2>1. send' \in [Clients -> Seq(Nat)]
      <3>1. ASSUME NEW c \in Clients PROVE send'[c] \in Seq(Nat)
        <4>1. Append(send[c], h) \in Seq(Nat)
          BY <1>3, <1>4, AppendProperties
        <4>2. QED
          BY <1>4, <4>1
      <3>2. QED
        BY <3>1 DEF Dispatch
    <2>2. missed' \in [Clients -> SUBSET Nat]
      <3>1. \A c \in Clients : missed'[c] \subseteq Nat
        BY <1>3, <1>4
      <3>2. QED
        BY <3>1 DEF Dispatch
    <2>3. QED
      BY <1>2, <1>3, <2>1, <2>2 DEF StreamInv, StreamsTyped
  <1>6. BroadcastOrdered'
    <2>1. ASSUME NEW i \in 1..Len(broadcast'), NEW j \in 1..Len(broadcast'), i < j
          PROVE  broadcast'[i] < broadcast'[j]
      <3>1. i + 1 \in 1..Len(broadcast) /\ j + 1 \in 1..Len(broadcast) /\ i + 1 < j + 1
        BY <1>3, <2>1
      <3>2. QED
        BY <1>3, <3>1 DEF StreamInv, BroadcastOrdered, Increasing
    <2>2. \A i \in 1..Len(broadcast') : broadcast'[i] < nextMsg'
      BY <1>2, <1>3 DEF StreamInv, BroadcastOrdered
    <2>3. QED
      BY <2>1, <2>2 DEF BroadcastOrdered, Increasing
  <1>7. /\ h < nextMsg
        /\ \A j \in 1..Len(broadcast') : h < broadcast'[j]
    <2>1. \A j \in 1..Len(broadcast') : j + 1 \in 1..Len(broadcast) /\ 1 < j + 1
      BY <1>3
    <2>2. QED
      BY <1>3, <2>1 DEF StreamInv, BroadcastOrdered, Increasing
  <1>8. ASSUME NEW c \in Clients
        PROVE  /\ Stream(c) \in Seq(Nat) /\ Len(Stream(c)) \in Nat
               /\ \/ Stream(c)' = Append(Stream(c), h) /\ missed'[c] = missed[c]
                  \/ /\ Stream(c)' = Stream(c)
                     /\ missed'[c] = (IF c \in clients /\ h \notin unencodable
                                   THEN missed[c] \cup {h} ELSE missed[c])
    <2>1. received[c] \in Seq(Nat) /\ writing[c] \in Seq(Nat)
      BY DEF StreamInv, StreamsTyped
    <2>2. received[c] \o writing[c] \o Append(send[c], h) = Append(Stream(c), h)
      <3>1. send[c] \in Seq(Nat) /\ h \in Nat
        BY <1>3, <1>4
      <3>2. received[c] \o writing[c] \o Append(send[c], h)
              = Append(received[c] \o writing[c] \o send[c], h)
        BY <2>1, <3>1, StreamAppend
      <3>3. QED
        BY <3>2 DEF Stream
    <2>3. QED
      BY <1>2, <1>4, <2>2, StreamsInSeq DEF StreamInv, Stream
  <1>9. ASSUME NEW c \in Clients, Stream(c)' = Append(Stream(c), h)
        PROVE  /\ Len(Stream(c)') = Len(Stream(c)) + 1 /\ Stream(c)'[Len(Stream(c)) + 1] = h
               /\ \A i \in 1..Len(Stream(c)) : Stream(c)'[i] = Stream(c)[i]
    BY <1>3, <1>8, <1>9, AppendProperties
  <1>10. ASSUME NEW c \in Clients, writePump'[c] # "exited" PROVE StreamOrdered(c)'
    <2>1. /\ StreamOrdered(c) /\ UNCHANGED nextMsg
          /\ \A i \in 1..Len(Stream(c)) : Stream(c)[i] < h
          /\ \A i \in 1..Len(Stream(c)), j \in 1..Len(broadcast') : Stream(c)[i] < broadcast'[j]
      <3>1. StreamOrdered(c) /\ UNCHANGED nextMsg
        BY <1>2, <1>10 DEF StreamInv
      <3>2. \A j \in 1..Len(broadcast') : j + 1 \in 1..Len(broadcast)
        BY <1>3
      <3>3. QED
        BY <1>3, <3>1, <3>2 DEF StreamOrdered
    <2>2. CASE Stream(c)' = Stream(c)
      BY <2>1, <2>2 DEF StreamOrdered, Increasing
    <2>3. CASE Stream(c)' = Append(Stream(c), h)
      <3>1. \A i \in 1..Len(Stream(c)') :
               \/ i \in 1..Len(Stream(c)) /\ Stream(c)'[i] = Stream(c)[i]
               \/ i = Len(Stream(c)) + 1 /\ Stream(c)'[i] = h
        BY <1>8, <1>9, <2>3
      <3>2. ASSUME NEW i \in 1..Len(Stream(c)'), NEW j \in 1..Len(Stream(c)'), i < j
            PROVE  Stream(c)'[i] < Stream(c)'[j]
        <4>1. i \in 1..Len(Stream(c)) /\ Stream(c)'[i] = Stream(c)[i]
          BY <1>8, <1>9, <2>3, <3>1, <3>2
        <4>2. QED
          BY <2>1, <3>1, <3>2, <4>1 DEF StreamOrdered, Increasing
      <3>3. \A i \in 1..Len(Stream(c)') :
               /\ Stream(c)'[i] < nextMsg'
               /\ \A j \in 1..Len(broadcast') : Stream(c)'[i] < broadcast'[j]
        BY <1>7, <2>1, <3>1 DEF StreamOrdered
      <3>4. QED
        BY <3>2, <3>3 DEF StreamOrdered, Increasing
    <2>4. QED
      BY <1>8, <2>2, <2>3
  <1>11. ASSUME NEW c \in clients', writePump'[c] # "exited", NEW n \in first'[c] .. nextMsg' - 1
         PROVE  Held(n, Stream(c)') \/ Held(n, broadcast') \/ n \in missed'[c] \/ n \in unencodable'
    <2>1. c \in Clients /\ c \in clients /\ NothingLost(c) /\ n \in first[c] .. nextMsg - 1
      BY <1>2, <1>11 DEF StreamInv
    <2>o. Held(n, Stream(c)) \/ Held(n, broadcast) \/ n \in missed[c] \/ n \in unencodable
      BY <2>1, Zenon DEF NothingLost
    <2>2. Held(n, broadcast) => n = h \/ Held(n, broadcast')
      <3>1. ASSUME NEW i \in 1..Len(broadcast), broadcast[i] = n, i # 1 PROVE Held(n, broadcast')
        <4>1. i - 1 \in 1..Len(broadcast') /\ broadcast'[i - 1] = n
          BY <1>3, <3>1
        <4>2. QED
          BY <4>1 DEF Held
      <3>2. QED
        BY <1>3, <3>1 DEF Held
    <2>3. CASE Stream(c)' = Append(Stream(c), h) /\ missed'[c] = missed[c]
      <3>1. Held(n, Stream(c)) \/ n = h => Held(n, Stream(c)')
        BY <1>8, <1>9, <2>1, <2>3 DEF Held
      <3>2. QED
        BY <1>2, <2>o, <2>2, <2>3, <3>1
    <2>4. CASE Stream(c)' = Stream(c) /\ missed'[c] = missed[c] \cup {h}
      BY <1>2, <2>o, <2>2, <2>4
    <2>5. CASE Stream(c)' = Stream(c) /\ missed'[c] = missed[c] /\ h \in unencodable
      BY <1>2, <2>o, <2>2, <2>5
    <2>6. QED
      BY <1>8, <2>1, <2>3, <2>4, <2>5
  <1>12. QED
    BY <1>1, <1>5, <1>6, <1>10, <1>11 DEF StreamInv, NothingLost

\* The pumps move messages along the stream; a pump that exits has none.
LEMMA PumpStreams ==
  ASSUME StreamInv, NEW c \in Clients,
         Accept(c) \/ PeerCloses(c) \/ ReadFails(c) \/ WriteStep(c) \/ WritePumpExit(c)
  PROVE  StreamInv'
  <1>1. RegisterInv' /\ UNCHANGED <<clients, broadcast, nextMsg, unencodable, first, missed>>
    <2>1. RegisterInv'
      BY ClientKeeps DEF StreamInv
    <2>2. QED
      BY <2>1 DEF Accept, PeerCloses, ReadFails, WriteStep, TakeMessage, Written, WritePumpExit,
                  hubVars, queueVars, ghosts
  <1>2. /\ send \in [Clients -> Seq(Nat)] /\ received \in [Clients -> Seq(Nat)]
        /\ writing \in [Clients -> Seq(Nat)]
        /\ writePump \in [Clients -> {"none", "select", "write", "exited"}]
        /\ \A d \in Clients : writePump[d] \in {"none", "select"} => writing[d] = <<>>
        /\ \A d \in Clients : handler[d] # "returned" => writePump[d] = "none"
    BY DEF StreamInv, StreamsTyped
  <1>3. ASSUME UNCHANGED <<send, received, writing, writePump>>,
               \A d \in Clients : handler'[d] # "returned" => handler[d] # "returned"
        PROVE  StreamInv'
    <2>1. \A d \in Clients : Stream(d)' = Stream(d)
      BY <1>3 DEF Stream
    <2>2. StreamsTyped'
      BY <1>1, <1>3 DEF StreamInv, StreamsTyped
    <2>3. QED
      BY <1>1, <1>3, <2>1, <2>2, StreamsKept DEF StreamInv
  <1>4. CASE Accept(c) \/ PeerCloses(c) \/ ReadFails(c)
    <2>1. handler \in [Clients -> {"none", "register", "returned"}]
      BY DEF StreamInv, RegisterInv, OnceRegistered
    <2>2. QED
      BY <1>3, <1>4, <2>1 DEF Accept, PeerCloses, ReadFails, bufferVars, pumpVars, ghosts
  <1>5. CASE TakeMessage(c)
    <2>1. /\ UNCHANGED handler /\ writePump[c] = "select" /\ send[c] # <<>> /\ UNCHANGED received
          /\ writePump' = [writePump EXCEPT ![c] = "write"]
          /\ writing' = [writing EXCEPT ![c] = <<Head(send[c])>>]
          /\ send' = [send EXCEPT ![c] = Tail(send[c])]
      BY <1>5 DEF TakeMessage, ghosts
    <2>2. send[c] \in Seq(Nat) /\ Head(send[c]) \in Nat /\ Tail(send[c]) \in Seq(Nat)
      BY <1>2, <2>1, HeadTailProperties
    <2>3. StreamsTyped'
      <3>1. send' \in [Clients -> Seq(Nat)] /\ writing' \in [Clients -> Seq(Nat)]
        BY <1>2, <2>1, <2>2
      <3>2. \A d \in Clients : writePump'[d] \in {"none", "select"} => writing'[d] = <<>>
        BY <1>2, <2>1
      <3>3. /\ writePump' \in [Clients -> {"none", "select", "write", "exited"}]
            /\ \A d \in Clients : handler'[d] # "returned" => writePump'[d] = "none"
        BY <1>2, <2>1
      <3>4. QED
        BY <1>1, <2>1, <3>1, <3>2, <3>3 DEF StreamInv, StreamsTyped
    <2>4. Stream(c)' = Stream(c)
      <3>1. received[c] \in Seq(Nat) /\ writing[c] \in Seq(Nat) /\ writing[c] = <<>>
        BY <1>2, <2>1
      <3>2. received[c] \o <<Head(send[c])>> \o Tail(send[c]) = received[c] \o writing[c] \o send[c]
        BY <2>1, <2>2, <3>1, StreamParts
      <3>3. writing'[c] = <<Head(send[c])>> /\ send'[c] = Tail(send[c])
        BY <1>2, <2>1
      <3>4. QED
        BY <2>1, <3>2, <3>3 DEF Stream
    <2>5. \A d \in Clients \ {c} : Stream(d)' = Stream(d) /\ writePump'[d] = writePump[d]
      BY <1>2, <2>1 DEF Stream
    <2>6. \A d \in Clients : writePump'[d] # "exited" =>
             writePump[d] # "exited" /\ Stream(d)' = Stream(d)
      BY <2>1, <2>4, <2>5
    <2>7. QED
      BY <1>1, <2>3, <2>6, StreamsKept DEF StreamInv
  <1>6. CASE Written(c)
    <2>1. /\ UNCHANGED handler /\ writePump[c] = "write" /\ UNCHANGED send
          /\ writePump' = [writePump EXCEPT ![c] = "select"]
          /\ writing' = [writing EXCEPT ![c] = <<>>]
          /\ received' = [received EXCEPT ![c] = received[c] \o writing[c]]
      BY <1>6 DEF Written, bufferVars
    <2>2. /\ received[c] \in Seq(Nat) /\ writing[c] \in Seq(Nat) /\ send[c] \in Seq(Nat)
          /\ received[c] \o writing[c] \in Seq(Nat)
      BY <1>2, ConcatProperties
    <2>3. StreamsTyped'
      <3>1. received' \in [Clients -> Seq(Nat)] /\ writing' \in [Clients -> Seq(Nat)]
        BY <1>2, <2>1, <2>2, EmptySeq
      <3>2. \A d \in Clients : writePump'[d] \in {"none", "select"} => writing'[d] = <<>>
        BY <1>2, <2>1
      <3>3. /\ writePump' \in [Clients -> {"none", "select", "write", "exited"}]
            /\ \A d \in Clients : handler'[d] # "returned" => writePump'[d] = "none"
        BY <1>2, <2>1
      <3>4. QED
        BY <1>1, <2>1, <3>1, <3>2, <3>3 DEF StreamInv, StreamsTyped
    <2>4. Stream(c)' = Stream(c)
      <3>1. (received[c] \o writing[c]) \o <<>> \o send[c] = received[c] \o writing[c] \o send[c]
        BY <2>2, StreamParts
      <3>2. writing'[c] = <<>> /\ received'[c] = received[c] \o writing[c]
        BY <1>2, <2>1
      <3>3. QED
        BY <2>1, <3>1, <3>2 DEF Stream
    <2>5. \A d \in Clients \ {c} : Stream(d)' = Stream(d) /\ writePump'[d] = writePump[d]
      BY <1>2, <2>1 DEF Stream
    <2>6. \A d \in Clients : writePump'[d] # "exited" =>
             writePump[d] # "exited" /\ Stream(d)' = Stream(d)
      BY <2>1, <2>4, <2>5
    <2>7. QED
      BY <1>1, <2>3, <2>6, StreamsKept DEF StreamInv
  <1>7. CASE WritePumpExit(c)
    <2>1. /\ UNCHANGED <<handler, send, received>> /\ writePump[c] # "none"
          /\ writePump' = [writePump EXCEPT ![c] = "exited"]
          /\ writing' = [writing EXCEPT ![c] = <<>>]
      BY <1>7 DEF WritePumpExit, bufferVars, ghosts
    <2>2. StreamsTyped'
      <3>1. writing' \in [Clients -> Seq(Nat)]
        BY <1>2, <2>1, EmptySeq
      <3>2. \A d \in Clients : writePump'[d] \in {"none", "select"} => writing'[d] = <<>>
        BY <1>2, <2>1
      <3>3. /\ writePump' \in [Clients -> {"none", "select", "write", "exited"}]
            /\ \A d \in Clients : handler'[d] # "returned" => writePump'[d] = "none"
        BY <1>2, <2>1
      <3>4. QED
        BY <1>1, <2>1, <3>1, <3>2, <3>3 DEF StreamInv, StreamsTyped
    <2>3. \A d \in Clients : writePump'[d] # "exited" =>
             writePump[d] # "exited" /\ Stream(d)' = Stream(d)
      BY <1>2, <2>1 DEF Stream
    <2>4. QED
      BY <1>1, <2>2, <2>3, StreamsKept DEF StreamInv
  <1>8. QED
    BY <1>4, <1>5, <1>6, <1>7 DEF WriteStep

\* Run: a client that is added has missed nothing yet.
LEMMA RunStreams ==
  ASSUME StreamInv, HubStep \/ Stop
  PROVE  StreamInv'
  <1>1. RegisterInv' /\ clients \subseteq Clients
    BY HubKeeps DEF StreamInv, RegisterInv, OnceRegistered
  <1>2. ASSUME UNCHANGED <<broadcast, nextMsg, unencodable, send, received, writing, writePump,
                           handler, first, missed>>,
               clients' \subseteq clients
        PROVE  StreamInv'
    <2>1. StreamsTyped'
      BY <1>2 DEF StreamInv, StreamsTyped
    <2>2. \A c \in Clients : Stream(c)' = Stream(c)
      BY <1>2 DEF Stream
    <2>3. QED
      BY <1>1, <1>2, <2>1, <2>2, StreamsKept DEF StreamInv
  <1>3. ASSUME NEW c \in Clients, ReceiveRegister(c) PROVE StreamInv'
    <2>1. /\ handler[c] = "register"
          /\ handler' = [handler EXCEPT ![c] = "returned"]
          /\ writePump' = [writePump EXCEPT ![c] = "select"]
          /\ UNCHANGED <<clients, broadcast, nextMsg, unencodable, send, received, writing, first, missed>>
      BY <1>3 DEF ReceiveRegister, queueVars, bufferVars, ghosts
    <2>2. writePump[c] = "none" /\ writing[c] = <<>>
          /\ writePump \in [Clients -> {"none", "select", "write", "exited"}]
          /\ handler \in [Clients -> {"none", "register", "returned"}]
      BY <2>1 DEF StreamInv, StreamsTyped, RegisterInv, OnceRegistered
    <2>3. StreamsTyped'
      BY <2>1, <2>2 DEF StreamInv, StreamsTyped
    <2>4. \A d \in Clients : writePump'[d] # "exited" =>
             writePump[d] # "exited" /\ Stream(d)' = Stream(d)
      BY <2>1, <2>2 DEF Stream
    <2>5. QED
      BY <1>1, <2>1, <2>3, <2>4, StreamsKept DEF StreamInv
  <1>4. ASSUME NEW c \in Clients, ReceiveUnregister(c) PROVE StreamInv'
    BY <1>2, <1>4 DEF ReceiveUnregister, queueVars, bufferVars, ghosts
  <1>5. CASE RemoveClient
    BY <1>2, <1>5 DEF RemoveClient, queueVars, pumpVars, ghosts
  <1>6. CASE Stop
    BY <1>2, <1>6 DEF Stop, queueVars, pumpVars, ghosts
  <1>7. CASE Dispatch
    BY <1>7, DispatchStreams
  <1>8. CASE AddClient
    <2>1. /\ clients' = clients \cup {inHand}
          /\ first' = [first EXCEPT ![inHand] = nextMsg]
          /\ inHand \in Clients
          /\ UNCHANGED <<broadcast, nextMsg, unencodable, send, received, writing, writePump, handler, missed>>
      BY <1>8 DEF AddClient, StreamInv, RegisterInv, OnceRegistered, queueVars, bufferVars, pumpVars
    <2>2. nextMsg \in Nat /\ first \in [Clients -> Nat]
      BY DEF StreamInv, StreamsTyped
    <2>3. StreamsTyped'
      <3>1. first' \in [Clients -> Nat]
        BY <2>1, <2>2
      <3>2. QED
        BY <2>1, <3>1 DEF StreamInv, StreamsTyped
    <2>4. \A c \in Clients : Stream(c)' = Stream(c)
      BY <2>1 DEF Stream
    <2>5. BroadcastOrdered' /\ \A c \in Clients : writePump'[c] # "exited" => StreamOrdered(c)'
      BY <2>1, <2>4 DEF StreamInv, BroadcastOrdered, StreamOrdered, Increasing
    <2>6. ASSUME NEW c \in clients', writePump'[c] # "exited" PROVE NothingLost(c)'
      <3>1. CASE c = inHand
        <4>1. first'[c] = nextMsg' /\ nextMsg' \in Nat
          BY <2>1, <2>2, <3>1
        <4>2. \A n \in Nat : n .. n - 1 = {}
          OBVIOUS
        <4>3. first'[c] .. nextMsg' - 1 = {}
          BY <4>1, <4>2
        <4>4. QED
          BY <4>3 DEF NothingLost
      <3>2. CASE c # inHand
        <4>1. c \in clients /\ c \in Clients /\ NothingLost(c) /\ first'[c] = first[c]
          BY <1>1, <2>1, <2>2, <2>6, <3>2 DEF StreamInv
        <4>2. QED
          BY <2>1, <2>4, <4>1 DEF NothingLost, Held
      <3>3. QED
        BY <3>1, <3>2
    <2>7. QED
      BY <1>1, <2>3, <2>5, <2>6 DEF StreamInv
  <1>9. QED
    BY <1>3, <1>4, <1>5, <1>6, <1>7, <1>8 DEF HubStep

\* Every action of the hub and the connections keeps the streams complete.
LEMMA StreamNext == StreamInv /\ [HubNext]_allVars => StreamInv'
  <1> SUFFICES ASSUME StreamInv, [HubNext]_allVars PROVE StreamInv'
    OBVIOUS
  <1>1. RegisterInv'
    BY RegisterNext DEF StreamInv
  <1>2. ASSUME UNCHANGED <<broadcast, nextMsg, unencodable, send, received, writing, writePump, handler,
                           first, missed, clients>>
        PROVE  StreamInv'
    <2>1. StreamsTyped'
      BY <1>2 DEF StreamInv, StreamsTyped
    <2>2. \A c \in Clients : Stream(c)' = Stream(c)
      BY <1>2 DEF Stream
    <2>3. QED
      BY <1>1, <1>2, <2>1, <2>2, StreamsKept DEF StreamInv
  <1>3. CASE CheckCount
    BY <1>2, <1>3 DEF CheckCount, hubVars, bufferVars, pumpVars, ghosts
  <1>4. CASE Cancel
    BY <1>2, <1>4 DEF Cancel, hubVars, queueVars, bufferVars, pumpVars, ghosts
  <1>5. CASE UNCHANGED allVars
    BY <1>2, <1>5 DEF allVars, hubVars, queueVars, bufferVars, pumpVars, ghosts
  <1>6. CASE Enqueue
    BY <1>6, EnqueueStreams
  <1>7. CASE HubStep \/ Stop
    BY <1>7, RunStreams
  <1>8. ASSUME NEW c \in Clients,
               Accept(c) \/ PeerCloses(c) \/ ReadFails(c) \/ WriteStep(c) \/ WritePumpExit(c)
        PROVE  StreamInv'
    BY <1>8, PumpStreams
  <1>9. QED
    BY <1>3, <1>4, <1>5, <1>6, <1>7, <1>8 DEF HubNext

\* A client whose pump runs has everything that was queued since Run added it,
\* sent, being written, buffered or still queued, in the order of Broadcast and
\* each message once, except what has no JSON and what dispatch dropped because
\* the client's own buffer was full: a slow client, a registration or a shutdown never takes a
\* message from another one.
THEOREM StreamsComplete == HubSpec => []StreamComplete
  <1>1. StreamInv => StreamComplete
    <2> SUFFICES ASSUME StreamInv, NEW c \in clients, writePump[c] # "exited"
                 PROVE  /\ (first[c] .. nextMsg - 1) \ unencodable
                             \subseteq Range(Stream(c)) \cup Range(broadcast) \cup missed[c]
                        /\ \A i, j \in DOMAIN Stream(c) : i < j => Stream(c)[i] < Stream(c)[j]
      BY DEF StreamComplete
    <2>1. /\ NothingLost(c) /\ StreamOrdered(c)
          /\ Stream(c) \in Seq(Nat) /\ broadcast \in Seq(Nat)
      BY StreamsInSeq DEF StreamInv, RegisterInv, OnceRegistered, StreamsTyped
    <2>2. DOMAIN Stream(c) = 1..Len(Stream(c)) /\ DOMAIN broadcast = 1..Len(broadcast)
      BY <2>1
    <2>3. \A n : (Held(n, Stream(c)) => n \in Range(Stream(c)))
                 /\ (Held(n, broadcast) => n \in Range(broadcast))
      BY <2>2 DEF Held, Range
    <2>4. QED
      BY <2>1, <2>2, <2>3 DEF NothingLost, StreamOrdered, Increasing
  <1>2. QED
    BY StreamInit, StreamNext, <1>1, PTL DEF HubSpec

----
(* LiveSocket.                                                             *)

----
(* Sets of numbers.                                                        *)

\* A set of naturals that is not empty has a least element.
LEMMA LeastNumber ==
  ASSUME NEW S \in SUBSET Nat, S # {}
  PROVE  \E x \in S : \A y \in S : x <= y
  <1> DEFINE R == OpToRel(<, Nat)
  <1>1. IsWellFoundedOn(R, Nat)
    BY NatLessThanWellFounded, Zenon
  <1>2. \A x, y \in Nat : y < x => <<y, x>> \in R
    BY DEF OpToRel
  <1> HIDE DEF R
  <1>3. \E x \in S : \A y \in S : ~(<<y, x>> \in R)
    BY <1>1, WFMin, Zenon
  <1>4. PICK x \in S : \A y \in S : ~(<<y, x>> \in R)
    BY <1>3, Zenon
  <1>5. ASSUME NEW y \in S PROVE x <= y
    <2>1. x \in Nat /\ y \in Nat
      OBVIOUS
    <2>2. ~(y < x)
      BY <1>2, <1>4, <2>1
    <2>3. QED
      BY <2>1, <2>2
  <1>6. QED
    BY <1>5

\* A set of naturals with an upper bound has a greatest element, and Max is it.
LEMMA MaxOfBounded ==
  ASSUME NEW S \in SUBSET Nat, S # {}, NEW n \in Nat, \A x \in S : x <= n
  PROVE  Max(S) \in S /\ \A y \in S : y <= Max(S)
  <1> DEFINE T == {n - x : x \in S}
  <1>1. T \in SUBSET Nat /\ T # {}
    <2>1. \A x \in S : x \in Nat /\ n - x \in Nat
      OBVIOUS
    <2>2. T \subseteq Nat
      BY <2>1
    <2>3. T # {}
      OBVIOUS
    <2>4. QED
      BY <2>2, <2>3
  <1>2. PICK t \in T : \A u \in T : t <= u
    BY <1>1, LeastNumber
  <1>3. PICK x \in S : t = n - x
    OBVIOUS
  <1>4. ASSUME NEW y \in S PROVE x >= y
    <2>1. x \in Nat /\ y \in Nat /\ n - y \in T
      OBVIOUS
    <2>2. n - x <= n - y
      BY <1>2, <1>3, <2>1
    <2>3. QED
      BY <2>1, <2>2
  <1>5. \E m \in S : \A y \in S : m >= y
    BY <1>4
  <1>6. Max(S) \in S /\ \A y \in S : Max(S) >= y
    BY <1>5 DEF Max
  <1>7. QED
    BY <1>6

----
(* The types.                                                               *)

Statuses == {"none", "disconnected", "connecting", "connected"}
Changes == [trace : {"own", "other"}, links : BOOLEAN]

SocketTyped ==
    /\ subs \subseteq Subscribers
    /\ ws \in Sockets \cup {Null}
    /\ status \in Statuses
    /\ previousStatus \in [Subscribers -> Statuses]
    /\ sock \in [Sockets -> {"free", "connecting", "open", "closing"}]
    /\ registered \in BOOLEAN
    /\ log \in Seq(Changes)
    /\ wire \subseteq 1..server
QueryTyped ==
    /\ timer \in [Queries -> BOOLEAN]
    /\ fetch \in [Queries -> {"idle", "asked", "answered"}]
    /\ answer \in [Queries -> Int]
    /\ seen \in [Queries -> Int]
    /\ excused \subseteq Queries

\* The socket, the status and what the subscribers heard of it agree, and the
\* server notifies only the tab that the hub knows.
Connected ==
    /\ OneSocket
    /\ \A s \in subs : previousStatus[s] = status
    /\ ws # Null /\ sock[ws] = "connecting" => status = "connecting"
    /\ ~registered => wire = {}

\* An answer is no older than the data it replaces, and never from the future.
AnswersAdvance ==
    \A q \in Queries :
        /\ seen[q] <= server
        /\ fetch[q] = "answered" => seen[q] <= answer[q] /\ answer[q] <= server

SocketInv == SocketTyped /\ QueryTyped /\ Connected /\ AnswersAdvance

\* The manager starts without a socket.
LEMMA SocketInit == Init => SocketInv
  <1> SUFFICES ASSUME Init PROVE SocketInv
    OBVIOUS
  <1>1. server = 0 /\ log \in Seq(Changes) /\ wire \subseteq 1..server
    BY DEF Init, server
  <1>2. SocketTyped
    BY <1>1 DEF Init, SocketTyped, Statuses
  <1>3. QueryTyped /\ AnswersAdvance
    BY <1>1 DEF Init, QueryTyped, AnswersAdvance, NoData
  <1>4. Connected
    BY DEF Init, Connected, OneSocket
  <1>5. QED
    BY <1>2, <1>3, <1>4 DEF SocketInv

\* connect takes a socket that is free, which exists.
LEMMA ConnectTakesFree ==
  ASSUME SocketInv, NEW S, S \subseteq Subscribers, connect(S)
  PROVE  \E i \in Sockets :
            /\ sock[i] = "free" /\ sock' = [sock EXCEPT ![i] = "connecting"]
            /\ ws' = i /\ status' = "connecting"
            /\ previousStatus' = Heard("connecting", S)
            /\ registered' = FALSE /\ wire' = {}
  <1> DEFINE i == CHOOSE n \in Sockets : sock[n] = "free"
  <1>1. \E n \in Sockets : sock[n] = "free"
    BY DEF connect
  <1>2. i \in Sockets /\ sock[i] = "free"
    BY <1>1
  <1>3. QED
    BY <1>2 DEF connect

\* Without a current socket none is in use, and connect makes the only one.
LEMMA ConnectKeeps ==
  ASSUME SocketInv, NEW S, S \subseteq Subscribers, ws = Null, connect(S), subs' = S,
         UNCHANGED log
  PROVE  SocketTyped' /\ Connected'
  <1>1. PICK i \in Sockets :
            /\ sock[i] = "free" /\ sock' = [sock EXCEPT ![i] = "connecting"]
            /\ ws' = i /\ status' = "connecting"
            /\ previousStatus' = Heard("connecting", S)
            /\ registered' = FALSE /\ wire' = {}
    BY ConnectTakesFree
  <1>2. Null \notin Sockets
    BY SocketAssumption
  <1>3. SocketTyped'
    <2>1. previousStatus' \in [Subscribers -> Statuses]
      BY <1>1 DEF SocketInv, SocketTyped, Heard, Statuses
    <2>2. log' \in Seq(Changes) /\ server' \in Nat
      BY LenProperties DEF SocketInv, SocketTyped, server
    <2>3. wire' \subseteq 1..server'
      BY <1>1, <2>2
    <2>4. QED
      BY <1>1, <2>1, <2>2, <2>3 DEF SocketInv, SocketTyped, Statuses
  <1>4. \A n \in Sockets : sock[n] \notin {"connecting", "open"}
    BY <1>2 DEF SocketInv, Connected, OneSocket
  <1>5. OneSocket'
    BY <1>1, <1>4 DEF OneSocket, SocketInv, SocketTyped
  <1>6. \A s \in subs' : previousStatus'[s] = status'
    BY <1>1 DEF Heard
  <1>7. QED
    BY <1>1, <1>3, <1>5, <1>6 DEF Connected

\* Asking, anew or by joining, keeps what is known of the requests.
LEMMA RequestKeeps ==
  ASSUME SocketInv, NEW Q, Q \subseteq Queries, NEW R, Request(Q, R), UNCHANGED log,
         timer' \in [Queries -> BOOLEAN]
  PROVE  QueryTyped' /\ AnswersAdvance'
  <1>1. seen' = seen /\ server' = server
    BY DEF Request, server
  <1>2. fetch' \in [Queries -> {"idle", "asked", "answered"}] /\ answer' \in [Queries -> Int]
    BY DEF SocketInv, QueryTyped, Request, NoData
  <1>3. excused' \subseteq Queries
    BY DEF SocketInv, QueryTyped, Request
  <1>4. \A q \in Queries : fetch'[q] = "answered" => fetch[q] = "answered" /\ answer'[q] = answer[q]
    BY DEF Request
  <1>5. QED
    BY <1>1, <1>2, <1>3, <1>4 DEF SocketInv, QueryTyped, AnswersAdvance

\* Steps that leave the socket and the status to what they are.
LEMMA QuietSocket ==
  ASSUME SocketInv, UNCHANGED <<ws, status, sock, registered, wire, log>>,
         subs' \subseteq Subscribers, previousStatus' \in [Subscribers -> Statuses],
         \A s \in subs' : previousStatus'[s] = status
  PROVE  SocketTyped' /\ Connected'
  BY DEF SocketInv, SocketTyped, Connected, OneSocket, server

\* What leaves the queries and the server alone keeps their part.
LEMMA QuietQueries ==
  ASSUME SocketInv, UNCHANGED <<log, queryVars>>
  PROVE  QueryTyped' /\ AnswersAdvance'
  BY DEF SocketInv, QueryTyped, AnswersAdvance, server, queryVars

\* A first subscriber connects, a last one leaves a tick pending.
LEMMA SubscribersKeep ==
  ASSUME SocketInv, NEW s \in Subscribers, subscribe(s) \/ unsubscribe(s)
  PROVE  SocketInv'
  <1>1. CASE subscribe(s)
    <2>1. subs' = subs \cup {s} /\ subs' \subseteq Subscribers /\ UNCHANGED log
      BY <1>1 DEF subscribe, SocketInv, SocketTyped
    <2>2. SocketTyped' /\ Connected'
      <3>1. CASE needsSocket(subs')
        <4>1. ws = Null /\ connect(subs')
          BY <1>1, <3>1 DEF subscribe, needsSocket
        <4>2. QED
          BY <2>1, <4>1, ConnectKeeps
      <3>2. CASE ~needsSocket(subs')
        <4>1. /\ previousStatus' = [previousStatus EXCEPT ![s] = status]
              /\ UNCHANGED <<ws, status, sock, registered, wire>>
          BY <1>1, <3>2 DEF subscribe
        <4>2. /\ previousStatus' \in [Subscribers -> Statuses]
              /\ \A x \in subs' : previousStatus'[x] = status
          BY <2>1, <4>1 DEF SocketInv, SocketTyped, Connected
        <4>3. QED
          BY <2>1, <4>1, <4>2, QuietSocket
      <3>3. QED
        BY <3>1, <3>2
    <2>3. QueryTyped' /\ AnswersAdvance'
      <3>1. CASE s \in Queries
        <4>1. mount(s) /\ timer' \in [Queries -> BOOLEAN]
          BY <1>1, <3>1 DEF subscribe, SocketInv, QueryTyped
        <4>2. QED
          BY <2>1, <3>1, <4>1, RequestKeeps DEF mount
      <3>2. CASE s \notin Queries
        BY <1>1, <2>1, <3>2, QuietQueries DEF subscribe
      <3>3. QED
        BY <3>1, <3>2
    <2>4. QED
      BY <2>2, <2>3 DEF SocketInv
  <1>2. CASE unsubscribe(s)
    <2>1. /\ subs' = subs \ {s} /\ previousStatus' = [previousStatus EXCEPT ![s] = "none"]
          /\ UNCHANGED <<ws, status, sock, registered, wire, log, fetch, answer, seen>>
          /\ timer' \in [Queries -> BOOLEAN] /\ excused' = excused \ {s}
      BY <1>2 DEF unsubscribe, netVars, SocketInv, QueryTyped
    <2>2. /\ previousStatus' \in [Subscribers -> Statuses]
          /\ \A x \in subs' : previousStatus'[x] = status
      BY <2>1 DEF SocketInv, SocketTyped, Connected, Statuses
    <2>3. SocketTyped' /\ Connected'
      BY <2>1, <2>2, QuietSocket DEF SocketInv, SocketTyped
    <2>4. QueryTyped' /\ AnswersAdvance'
      BY <2>1 DEF SocketInv, QueryTyped, AnswersAdvance, server
    <2>5. QED
      BY <2>3, <2>4 DEF SocketInv
  <1>3. QED
    BY <1>1, <1>2

\* A socket that is given up or lost leaves none in use.
LEMMA SocketGone ==
  ASSUME SocketInv, NEW i \in Sockets \cup {Null}, i = ws, NEW how \in {"free", "closing"},
         sock' = [n \in Sockets |-> IF n = i THEN how ELSE sock[n]],
         ws' = Null, registered' = FALSE, wire' = {}, setStatus("disconnected"),
         UNCHANGED <<subs, log>>
  PROVE  SocketTyped' /\ Connected'
  <1>1. previousStatus' \in [Subscribers -> Statuses] /\ status' = "disconnected"
    BY DEF setStatus, Heard, SocketInv, SocketTyped, Statuses
  <1>2. \A s \in subs' : previousStatus'[s] = status'
    BY DEF setStatus, Heard, SocketInv, SocketTyped
  <1>3. server' \in Nat
    BY LenProperties DEF server, SocketInv, SocketTyped
  <1>4. wire' \subseteq 1..server'
    BY <1>3
  <1>5. sock' \in [Sockets -> {"free", "connecting", "open", "closing"}]
    BY DEF SocketInv, SocketTyped
  <1>6. SocketTyped'
    BY <1>1, <1>4, <1>5 DEF SocketInv, SocketTyped, Statuses
  <1>7. OneSocket'
    BY DEF OneSocket, SocketInv, Connected
  <1>8. QED
    BY <1>2, <1>6, <1>7 DEF Connected

\* A socket that opens, or closes for the manager or by itself.
LEMMA SocketsKeep ==
  ASSUME SocketInv, NEW i \in Sockets, onopen(i) \/ onclose(i) \/ Closed(i)
  PROVE  SocketInv'
  <1>1. CASE onopen(i)
    <2>1. /\ sock[i] = "connecting" /\ i = ws /\ i # Null
          /\ sock' = [sock EXCEPT ![i] = "open"]
          /\ setStatus("connected") /\ refresh(Reconnected(subs))
          /\ UNCHANGED <<subs, ws, registered, wire, log>>
      BY <1>1, SocketAssumption DEF onopen, SocketInv, Connected, OneSocket
    <2>2. SocketTyped'
      <3>1. previousStatus' \in [Subscribers -> Statuses] /\ status' \in Statuses
        BY <2>1 DEF setStatus, Heard, SocketInv, SocketTyped, Statuses
      <3>2. wire' \subseteq 1..server'
        BY <2>1 DEF SocketInv, SocketTyped, server
      <3>3. QED
        BY <2>1, <3>1, <3>2 DEF SocketInv, SocketTyped
    <2>3. Connected'
      BY <2>1 DEF SocketInv, SocketTyped, Connected, OneSocket, setStatus, Heard
    <2>4. QueryTyped' /\ AnswersAdvance'
      <3>1. Invalidate(Reconnected(subs)) /\ timer' \in [Queries -> BOOLEAN]
        BY <2>1 DEF refresh, SocketInv, QueryTyped
      <3>2. Reconnected(subs) \subseteq Queries
        BY DEF Reconnected
      <3>3. QED
        BY <2>1, <3>1, <3>2, RequestKeeps DEF Invalidate
    <2>5. QED
      BY <2>2, <2>3, <2>4 DEF SocketInv
  <1>2. CASE onclose(i)
    <2>1. sock' = [n \in Sockets |-> IF n = i THEN "free" ELSE sock[n]]
      BY <1>2 DEF onclose, SocketInv, SocketTyped
    <2>2. SocketTyped' /\ Connected'
      BY <1>2, <2>1, SocketGone DEF onclose
    <2>3. QED
      BY <1>2, <2>2, QuietQueries DEF onclose, SocketInv
  <1>3. CASE Closed(i)
    <2>1. /\ sock[i] = "closing" /\ sock' = [sock EXCEPT ![i] = "free"]
          /\ UNCHANGED <<subs, ws, status, registered, wire, log, previousStatus, queryVars>>
      BY <1>3 DEF Closed, managerVars
    <2>2. SocketTyped'
      BY <2>1 DEF SocketInv, SocketTyped, server
    <2>3. Connected'
      BY <2>1 DEF SocketInv, SocketTyped, Connected, OneSocket
    <2>4. QED
      BY <2>1, <2>2, <2>3, QuietQueries DEF SocketInv
  <1>4. QED
    BY <1>1, <1>2, <1>3

\* The tick after the last subscriber, and the back-off timer.
LEMMA TimersKeep ==
  ASSUME SocketInv, disconnect \/ \E t \in 1..MaxTimers : Reconnect(t)
  PROVE  SocketInv'
  <1>1. CASE disconnect
    <2>1. UNCHANGED <<subs, log, queryVars>>
      BY <1>1 DEF disconnect
    <2>2. SocketTyped' /\ Connected'
      <3>1. CASE subs = {}
        <4>1. /\ sock' = [n \in Sockets |-> IF n = ws THEN "closing" ELSE sock[n]]
              /\ ws' = Null /\ registered' = FALSE /\ wire' = {} /\ setStatus("disconnected")
          BY <1>1, <3>1 DEF disconnect
        <4>2. ws \in Sockets \cup {Null}
          BY DEF SocketInv, SocketTyped
        <4>3. QED
          BY <2>1, <4>1, <4>2, SocketGone
      <3>2. CASE subs # {}
        <4>1. UNCHANGED <<ws, status, sock, registered, wire, previousStatus>>
          BY <1>1, <3>2 DEF disconnect
        <4>2. QED
          BY <2>1, <4>1, QuietSocket DEF SocketInv, SocketTyped, Connected
      <3>3. QED
        BY <3>1, <3>2
    <2>3. QED
      BY <2>1, <2>2, QuietQueries DEF SocketInv
  <1>2. ASSUME NEW t, Reconnect(t) PROVE SocketInv'
    <2>1. UNCHANGED <<subs, log, queryVars>> /\ subs \subseteq Subscribers
      BY <1>2 DEF Reconnect, SocketInv, SocketTyped
    <2>2. SocketTyped' /\ Connected'
      <3>1. CASE subs # {} /\ ws = Null
        BY <1>2, <2>1, <3>1, ConnectKeeps DEF Reconnect
      <3>2. CASE ~(subs # {} /\ ws = Null)
        <4>1. UNCHANGED <<ws, status, sock, registered, wire, previousStatus>>
          BY <1>2, <3>2 DEF Reconnect
        <4>2. QED
          BY <2>1, <4>1, QuietSocket DEF SocketInv, SocketTyped, Connected
      <3>3. QED
        BY <3>1, <3>2
    <2>3. QED
      BY <2>1, <2>2, QuietQueries DEF SocketInv
  <1>3. QED
    BY <1>1, <1>2

\* The notifications and the commits.
LEMMA ServerKeeps ==
  ASSUME SocketInv,
         \/ onmessage \/ Registers
         \/ \E trace \in {"own", "other"}, links \in BOOLEAN : Change(trace, links)
         \/ \E i \in 1..server : Lost(i)
  PROVE  SocketInv'
  <1>1. log \in Seq(Changes) /\ wire \subseteq 1..server /\ server \in Nat /\ server = Len(log)
    BY LenProperties DEF SocketInv, SocketTyped, server
  <1>2. CASE onmessage
    <2>1. /\ UNCHANGED <<subs, ws, status, sock, registered, log, previousStatus, fetch, answer, seen>>
          /\ wire # {} /\ wire' \subseteq wire
          /\ timer' \in [Queries -> BOOLEAN] /\ excused' \subseteq Queries
      BY <1>2 DEF onmessage, managerVars, Mounted, SocketInv, QueryTyped
    <2>2. server' = server /\ wire' \subseteq 1..server'
      BY <1>1, <2>1 DEF server
    <2>3. SocketTyped'
      BY <2>1, <2>2 DEF SocketInv, SocketTyped
    <2>4. ~registered' => wire' = {}
      <3>1. registered
        BY <2>1 DEF SocketInv, Connected
      <3>2. QED
        BY <2>1, <3>1
    <2>5. Connected'
      BY <2>1, <2>4 DEF SocketInv, Connected, OneSocket
    <2>6. QueryTyped' /\ AnswersAdvance'
      BY <2>1, <2>2 DEF SocketInv, QueryTyped, AnswersAdvance
    <2>7. QED
      BY <2>3, <2>5, <2>6 DEF SocketInv
  <1>3. CASE Registers
    <2>1. UNCHANGED <<managerVars, sock, wire, log, previousStatus, queryVars>> /\ registered' = TRUE
      BY <1>3 DEF Registers
    <2>2. SocketTyped'
      BY <2>1 DEF SocketInv, SocketTyped, server, managerVars
    <2>3. Connected'
      BY <2>1 DEF SocketInv, Connected, OneSocket, managerVars
    <2>4. QED
      BY <2>1, <2>2, <2>3, QuietQueries DEF SocketInv
  <1>4. ASSUME NEW trace \in {"own", "other"}, NEW links \in BOOLEAN, Change(trace, links)
        PROVE  SocketInv'
    <2> DEFINE e == [trace |-> trace, links |-> links]
    <2>1. /\ log' = Append(log, e)
          /\ UNCHANGED <<subs, ws, status, sock, registered, previousStatus, timer, fetch, answer, seen>>
          /\ wire' = IF registered THEN wire \cup {server + 1} ELSE wire
      BY <1>4 DEF Change, managerVars
    <2>2. e \in Changes
      BY DEF Changes
    <2>3. log' \in Seq(Changes) /\ server' = server + 1
      BY <1>1, <2>1, <2>2, AppendProperties DEF server
    <2>4. wire' \subseteq 1..server'
      <3>1. 1..server \subseteq 1..server' /\ server + 1 \in 1..server'
        BY <1>1, <2>3
      <3>2. QED
        BY <1>1, <2>1, <3>1
    <2>5. SocketTyped'
      BY <2>1, <2>3, <2>4 DEF SocketInv, SocketTyped
    <2>6. Connected'
      BY <2>1 DEF SocketInv, Connected, OneSocket
    <2>7. excused' \subseteq Queries
      BY <1>4 DEF Change, Mounted, SocketInv, QueryTyped
    <2>8. ASSUME NEW q \in Queries
          PROVE  /\ seen'[q] <= server'
                 /\ fetch'[q] = "answered" => seen'[q] <= answer'[q] /\ answer'[q] <= server'
      <3>1. seen[q] \in Int /\ answer[q] \in Int
        BY DEF SocketInv, QueryTyped
      <3>2. QED
        BY <1>1, <2>1, <2>3, <3>1 DEF SocketInv, AnswersAdvance
    <2>9. QED
      BY <2>1, <2>5, <2>6, <2>7, <2>8 DEF SocketInv, QueryTyped, AnswersAdvance
  <1>5. ASSUME NEW i \in 1..server, Lost(i) PROVE SocketInv'
    <2>1. /\ UNCHANGED <<subs, ws, status, sock, registered, log, previousStatus,
                        timer, fetch, answer, seen>>
          /\ wire # {} /\ wire' \subseteq wire /\ excused' \subseteq Queries
      BY <1>5 DEF Lost, managerVars, Mounted, SocketInv, QueryTyped
    <2>2. server' = server /\ wire' \subseteq 1..server'
      BY <1>1, <2>1 DEF server
    <2>3. SocketTyped'
      BY <2>1, <2>2 DEF SocketInv, SocketTyped
    <2>4. registered
      BY <2>1 DEF SocketInv, Connected
    <2>5. Connected'
      BY <2>1, <2>4 DEF SocketInv, Connected, OneSocket
    <2>6. QueryTyped' /\ AnswersAdvance'
      BY <2>1, <2>2 DEF SocketInv, QueryTyped, AnswersAdvance
    <2>7. QED
      BY <2>3, <2>5, <2>6 DEF SocketInv
  <1>6. QED
    BY <1>2, <1>3, <1>4, <1>5

\* Requests, answers and the refresh timer touch no socket.
LEMMA QueriesKeep ==
  ASSUME SocketInv, NEW q \in Queries,
         \/ RefreshTimer(q) \/ Answers(q) \/ Delivers(q)
         \/ RequestFails(q) \/ refetchInterval(q) \/ Collect(q)
  PROVE  SocketInv'
  <1>1. UNCHANGED <<managerVars, sock, registered, wire, log, previousStatus>>
    BY DEF RefreshTimer, Answers, Delivers, RequestFails, refetchInterval, Collect, netVars
  <1>2. SocketTyped' /\ Connected'
    BY <1>1, QuietSocket DEF managerVars, SocketInv, SocketTyped, Connected
  <1>3. server' = server /\ server \in Nat
    BY <1>1, LenProperties DEF server, SocketInv, SocketTyped
  <1>4. ASSUME Invalidate({q}), timer' \in [Queries -> BOOLEAN] PROVE QueryTyped' /\ AnswersAdvance'
    BY <1>1, <1>4, RequestKeeps DEF Invalidate
  <1>5. CASE RefreshTimer(q)
    BY <1>2, <1>4, <1>5 DEF RefreshTimer, refresh, SocketInv, QueryTyped
  <1>6. CASE refetchInterval(q)
    BY <1>2, <1>4, <1>6 DEF refetchInterval, SocketInv, QueryTyped
  <1>7. CASE Answers(q)
    <2>1. /\ fetch' = [fetch EXCEPT ![q] = "answered"] /\ answer' = [answer EXCEPT ![q] = server]
          /\ UNCHANGED <<timer, seen, excused>>
      BY <1>7 DEF Answers
    <2>2. QueryTyped'
      BY <1>3, <2>1 DEF SocketInv, QueryTyped
    <2>3. AnswersAdvance'
      BY <1>3, <2>1 DEF SocketInv, QueryTyped, AnswersAdvance
    <2>4. QED
      BY <1>2, <2>2, <2>3 DEF SocketInv
  <1>8. CASE Delivers(q)
    <2>1. /\ fetch[q] = "answered" /\ fetch' = [fetch EXCEPT ![q] = "idle"]
          /\ seen' = [seen EXCEPT ![q] = answer[q]] /\ answer' = [answer EXCEPT ![q] = NoData]
          /\ timer' = timer /\ excused' \subseteq excused
      BY <1>8 DEF Delivers
    <2>2. QueryTyped'
      BY <2>1 DEF SocketInv, QueryTyped, NoData
    <2>3. AnswersAdvance'
      BY <1>3, <2>1 DEF SocketInv, QueryTyped, AnswersAdvance
    <2>4. QED
      BY <1>2, <2>2, <2>3 DEF SocketInv
  <1>9. CASE RequestFails(q)
    <2>1. /\ fetch' = [fetch EXCEPT ![q] = "idle"] /\ answer' = [answer EXCEPT ![q] = NoData]
          /\ UNCHANGED <<timer, seen>> /\ excused' \subseteq excused \cup {q}
      BY <1>9 DEF RequestFails
    <2>2. QueryTyped'
      BY <2>1 DEF SocketInv, QueryTyped, NoData
    <2>3. AnswersAdvance'
      BY <1>3, <2>1 DEF SocketInv, QueryTyped, AnswersAdvance
    <2>4. QED
      BY <1>2, <2>2, <2>3 DEF SocketInv
  <1>10. CASE Collect(q)
    <2>1. seen' = [seen EXCEPT ![q] = NoData] /\ UNCHANGED <<timer, fetch, answer, excused>>
      BY <1>10 DEF Collect
    <2>2. QueryTyped'
      BY <2>1 DEF SocketInv, QueryTyped, NoData
    <2>3. ASSUME NEW d \in Queries
          PROVE  /\ seen'[d] <= server
                 /\ fetch[d] = "answered" => seen'[d] <= answer[d] /\ answer[d] <= server
      <3>1. CASE d # q
        BY <2>1, <3>1 DEF SocketInv, QueryTyped, AnswersAdvance
      <3>2. CASE d = q
        <4>1. fetch[d] = "idle" /\ seen'[d] = -1
          BY <1>10, <2>1, <3>2 DEF Collect, SocketInv, QueryTyped, NoData
        <4>2. QED
          BY <1>3, <4>1
      <3>3. QED
        BY <3>1, <3>2
    <2>4. QED
      BY <1>2, <1>3, <2>1, <2>2, <2>3 DEF SocketInv, AnswersAdvance
  <1>11. QED
    BY <1>5, <1>6, <1>7, <1>8, <1>9, <1>10

\* Every callback keeps the one socket.
LEMMA SocketNext == SocketInv /\ [Next]_vars => SocketInv'
  <1> SUFFICES ASSUME SocketInv, [Next]_vars PROVE SocketInv'
    OBVIOUS
  <1>1. ASSUME UNCHANGED vars PROVE SocketInv'
    BY <1>1 DEF vars, managerVars, netVars, queryVars, SocketInv, SocketTyped, QueryTyped,
                Connected, OneSocket, AnswersAdvance, server
  <1>2. QED
    BY <1>1, SubscribersKeep, TimersKeep, SocketsKeep, ServerKeeps, QueriesKeep DEF Next, Timers

\* A tab has at most one connection: a socket that is connecting or open is
\* the one WsManager holds, in whatever order the first subscriber, the
\* reconnect timers, the disconnect timer and the events of the sockets come.
THEOREM TabHasOneSocket == Spec => []OneSocket
  <1>1. SocketInv => OneSocket
    BY DEF SocketInv, Connected
  <1>2. QED
    BY SocketInit, SocketNext, <1>1, PTL DEF Spec
----
(* Old data is noticed.  The property speaks of the newest change that      *)
(* matters; what a step keeps is the same of every change the query has not *)
(* seen, since an earlier one may have brought the link that makes a later  *)
(* one matter.  Number 0 stands for the first load.                         *)

Due(q, n) == (n = 0 \/ Matters(q, n)) /\ seen[q] < n

Noticed(q, n) ==
    \/ timer[q]
    \/ n \in wire
    \/ fetch[q] = "asked"
    \/ fetch[q] = "answered" /\ answer[q] >= n
    \/ status # "connected"
    \/ q \in excused

AllNoticed == \A q \in Mounted : \A n \in 0..server : Due(q, n) => Noticed(q, n)

NoticeInv == SocketInv /\ AllNoticed

\* At the start no list shows anything.
LEMMA NoticeInit == Init => NoticeInv
  <1>1. Init => Mounted = {}
    BY DEF Init, Mounted
  <1>2. QED
    BY <1>1, SocketInit DEF NoticeInv, AllNoticed

\* The clock of the server and what queries know of it are numbers.
LEMMA ServerTyped ==
  ASSUME SocketInv
  PROVE  /\ server \in Nat /\ server = Len(log) /\ wire \subseteq 1..server
         /\ \A q \in Queries : seen[q] \in Int /\ answer[q] \in Int
  <1>1. server \in Nat /\ server = Len(log)
    BY LenProperties DEF SocketInv, SocketTyped, server
  <1>2. wire \subseteq 1..server
    BY <1>1 DEF SocketInv, SocketTyped
  <1>3. QED
    BY <1>1, <1>2 DEF SocketInv, QueryTyped

\* What mattered goes on to matter.
LEMMA MattersStays ==
  ASSUME NEW q, server \in Nat, server' \in Nat, server <= server',
         \A i \in 1..server : log'[i] = log[i], NEW n \in 1..server
  PROVE  Matters(q, n)' <=> Matters(q, n)
  <1>1. \A i \in 1..n : i \in 1..server
    OBVIOUS
  <1>2. QED
    BY <1>1 DEF Matters, Linked

\* The last change that matters is none, or one of those that matter, and none
\* that matters comes after it.
LEMMA NewestIs ==
  ASSUME server \in Nat, NEW q
  PROVE  /\ Newest(q) \in 0..server
         /\ Newest(q) = 0 \/ Matters(q, Newest(q))
         /\ \A n \in 1..server : Matters(q, n) => n <= Newest(q)
  <1> DEFINE S == {0} \cup {i \in 1..server : Matters(q, i)}
  <1>1. S \in SUBSET Nat /\ S # {} /\ \A x \in S : x <= server
    OBVIOUS
  <1>2. Max(S) \in S /\ \A y \in S : y <= Max(S)
    BY <1>1, MaxOfBounded
  <1>3. Newest(q) = Max(S)
    BY DEF Newest
  <1> HIDE DEF S
  <1>4. Newest(q) \in S /\ \A y \in S : y <= Newest(q)
    BY <1>2, <1>3
  <1>5. QED
    BY <1>4 DEF S

\* A step that does not touch the server, the wire, the requests and the
\* timers, and takes nothing from the excused, loses no notice.
LEMMA NoticeStays ==
  ASSUME NoticeInv, UNCHANGED <<log, seen>>, NEW q \in Mounted,
         \A n \in 0..server : Due(q, n) /\ Noticed(q, n) => Noticed(q, n)'
  PROVE  \A n \in 0..server' : Due(q, n)' => Noticed(q, n)'
  <1>1. server' = server /\ server \in Nat
    BY ServerTyped DEF server, NoticeInv
  <1>2. \A n \in 0..server : Due(q, n)' => Due(q, n)
    BY DEF Due, Matters, Linked
  <1>3. QED
    BY <1>1, <1>2 DEF NoticeInv, AllNoticed

\* A query that asks is asked anew, or its request in flight has yet to read
\* the server or has read the newest, or it is excused.
LEMMA RequestNotices ==
  ASSUME SocketInv, NEW Q, NEW R, R \subseteq Q, Q \subseteq Queries, Request(Q, R),
         UNCHANGED log, NEW q \in Queries, \A x \in Q \ R : fetch[x] # "idle"
  PROVE  /\ q \in Q => \A n \in 0..server' : Due(q, n)' => Noticed(q, n)'
         /\ q \notin Q => fetch'[q] = fetch[q] /\ answer'[q] = answer[q]
                          /\ (q \in excused => q \in excused')
  <1>1. fetch[q] \in {"idle", "asked", "answered"} /\ answer[q] \in Int
    BY DEF SocketInv, QueryTyped
  <1>2. /\ fetch' = [x \in Queries |-> IF x \in R THEN "asked" ELSE fetch[x]]
        /\ answer' = [x \in Queries |-> IF x \in R THEN NoData ELSE answer[x]]
        /\ excused' = (excused \ R)
             \cup {x \in Q \ R : fetch[x] = "answered" /\ answer[x] < Newest(x)}
        /\ seen' = seen
    BY DEF Request
  <1>3. server \in Nat /\ server' = server
    BY ServerTyped DEF server
  <1>4. ASSUME q \in Q, NEW n \in 0..server', Due(q, n)' PROVE Noticed(q, n)'
    <2>1. Due(q, n)
      BY <1>2, <1>3, <1>4 DEF Due, Matters, Linked
    <2>2. Newest(q) \in Nat /\ n <= Newest(q)
      BY <1>3, <1>4, <2>1, NewestIs DEF Due
    <2>3. CASE q \in R \/ fetch[q] = "asked"
      <3>1. fetch'[q] = "asked"
        BY <1>2, <2>3
      <3>2. QED
        BY <3>1 DEF Noticed
    <2>4. CASE q \notin R /\ fetch[q] = "answered"
      <3>1. fetch'[q] = "answered" /\ answer'[q] = answer[q]
        BY <1>2, <2>4
      <3>2. CASE answer[q] < Newest(q)
        <4>1. q \in excused'
          BY <1>2, <1>4, <2>4, <3>2
        <4>2. QED
          BY <4>1 DEF Noticed
      <3>3. CASE answer[q] >= Newest(q)
        <4>1. answer'[q] >= n
          BY <1>1, <1>3, <1>4, <2>2, <3>1, <3>3
        <4>2. QED
          BY <3>1, <4>1 DEF Noticed
      <3>4. QED
        BY <1>1, <2>2, <3>2, <3>3
    <2>5. QED
      BY <1>1, <1>4, <2>3, <2>4
  <1>5. QED
    BY <1>2, <1>4

\* Every step but those of the server and the requests keeps the notices.
LEMMA ManagerNotices ==
  ASSUME NoticeInv,
         \/ \E s \in Subscribers : subscribe(s) \/ unsubscribe(s)
         \/ Timers
         \/ \E i \in Sockets : onopen(i) \/ onclose(i) \/ Closed(i)
         \/ Registers
  PROVE  AllNoticed'
  <1>1. log' = log /\ server' = server
    BY DEF subscribe, unsubscribe, Timers, disconnect, Reconnect, onopen, onclose, Closed,
           Registers, netVars, server
  <1>2. CASE Registers
    BY <1>1, <1>2, NoticeStays DEF Registers, managerVars, queryVars, AllNoticed, Mounted, Noticed
  <1>3. ASSUME status' # "connected" PROVE AllNoticed'
    BY <1>3 DEF AllNoticed, Noticed
  <1>4. ASSUME UNCHANGED <<subs, wire, status, queryVars>> PROVE AllNoticed'
    BY <1>1, <1>4, NoticeStays DEF queryVars, AllNoticed, Mounted, Noticed
  <1>5. ASSUME subs = {}, UNCHANGED subs PROVE AllNoticed'
    BY <1>5 DEF AllNoticed, Mounted
  <1>6. ASSUME NEW s \in Subscribers, subscribe(s) PROVE AllNoticed'
    <2>1. CASE needsSocket(subs')
      <3>1. status' = "connecting"
        BY <1>6, <2>1 DEF subscribe, connect
      <3>2. QED
        BY <1>3, <3>1
    <2>2. CASE ~needsSocket(subs')
      <3>1. UNCHANGED <<status, wire, log>> /\ subs' = subs \cup {s}
        BY <1>6, <2>2 DEF subscribe
      <3>2. CASE s \in Queries
        <4>1. mount(s) /\ timer' = timer /\ Mounted' = Mounted \cup {s} /\ seen' = seen
          BY <1>6, <3>1, <3>2 DEF subscribe, Mounted, mount, Request
        <4> DEFINE R == {x \in {s} : fetch[x] = "idle"}
        <4>3. Request({s}, R) /\ \A x \in {s} \ R : fetch[x] # "idle"
          BY <4>1 DEF mount
        <4> HIDE DEF R
        <4>4. R \subseteq {s} /\ {s} \subseteq Queries /\ SocketInv
          BY <3>2 DEF R, NoticeInv
        <4>2. ASSUME NEW q \in Mounted', NEW n \in 0..server', Due(q, n)' PROVE Noticed(q, n)'
          <5>1. CASE q = s
            <6>1. \A m \in 0..server' : Due(s, m)' => Noticed(s, m)'
              BY <3>1, <3>2, <4>3, <4>4, RequestNotices
            <6>2. QED
              BY <4>2, <5>1, <6>1
          <5>2. CASE q # s
            <6>1. q \in Mounted /\ q \in Queries
              BY <4>1, <4>2, <5>2 DEF Mounted
            <6>2. fetch'[q] = fetch[q] /\ answer'[q] = answer[q] /\ (q \in excused => q \in excused')
              BY <3>1, <4>3, <4>4, <5>2, <6>1, RequestNotices
            <6>3. \A m \in 0..server : Due(q, m) /\ Noticed(q, m) => Noticed(q, m)'
              BY <1>1, <3>1, <4>1, <6>2 DEF Noticed
            <6>4. QED
              BY <1>1, <4>1, <4>2, <6>1, <6>3, NoticeStays
          <5>3. QED
            BY <5>1, <5>2
        <4>5. QED
          BY <4>2 DEF AllNoticed
      <3>3. CASE s \notin Queries
        <4>1. UNCHANGED queryVars /\ Mounted' = Mounted
          BY <1>6, <3>1, <3>3 DEF subscribe, Mounted
        <4>2. QED
          BY <1>1, <3>1, <4>1, NoticeStays DEF queryVars, AllNoticed, Noticed
      <3>4. QED
        BY <3>2, <3>3
    <2>3. QED
      BY <2>1, <2>2
  <1>7. ASSUME NEW s \in Subscribers, unsubscribe(s) PROVE AllNoticed'
    <2>1. /\ UNCHANGED <<status, wire, log, fetch, answer, seen>>
          /\ Mounted' = Mounted \ {s} /\ excused' = excused \ {s}
          /\ \A q \in Queries \ {s} : timer'[q] = timer[q]
      BY <1>7 DEF unsubscribe, netVars, Mounted, SocketInv, QueryTyped, NoticeInv
    <2>2. ASSUME NEW q \in Mounted' PROVE \A n \in 0..server' : Due(q, n)' => Noticed(q, n)'
      <3>1. q \in Mounted /\ q # s /\ q \in Queries
        BY <2>1 DEF Mounted
      <3>2. \A n \in 0..server : Due(q, n) /\ Noticed(q, n) => Noticed(q, n)'
        BY <1>1, <2>1, <3>1 DEF Noticed
      <3>3. QED
        BY <2>1, <3>1, <3>2, NoticeStays
    <2>3. QED
      BY <2>2 DEF AllNoticed
  <1>8. CASE Timers
    <2>1. CASE disconnect
      <3>1. CASE subs = {}
        BY <1>5, <2>1, <3>1 DEF disconnect
      <3>2. CASE subs # {}
        BY <1>4, <2>1, <3>2 DEF disconnect
      <3>3. QED
        BY <3>1, <3>2
    <2>2. ASSUME NEW t, Reconnect(t) PROVE AllNoticed'
      <3>1. CASE subs # {} /\ ws = Null
        <4>1. status' = "connecting"
          BY <2>2, <3>1 DEF Reconnect, connect
        <4>2. QED
          BY <1>3, <4>1
      <3>2. CASE ~(subs # {} /\ ws = Null)
        BY <1>4, <2>2, <3>2 DEF Reconnect
      <3>3. QED
        BY <3>1, <3>2
    <2>3. QED
      BY <1>8, <2>1, <2>2 DEF Timers
  <1>9. ASSUME NEW i \in Sockets, onopen(i) PROVE AllNoticed'
    <2>1. /\ sock[i] = "connecting" /\ i = ws /\ i # Null
          /\ refresh(Reconnected(subs)) /\ UNCHANGED subs
      BY <1>9, SocketAssumption DEF onopen, NoticeInv, SocketInv, Connected, OneSocket
    <2>2. \A q \in Mounted : previousStatus[q] = "connecting"
      BY <2>1 DEF NoticeInv, SocketInv, Connected, Mounted
    <2>3. Reconnected(subs) = Mounted
      BY <2>2 DEF Reconnected, Mounted
    <2>4. ASSUME NEW q \in Mounted PROVE \A n \in 0..server' : Due(q, n)' => Noticed(q, n)'
      <3> DEFINE R == {x \in Mounted : fetch[x] = "idle" \/ seen[x] # NoData}
      <3>1. Request(Mounted, R) /\ \A x \in Mounted \ R : fetch[x] # "idle"
        BY <2>1, <2>3 DEF refresh, Invalidate
      <3> HIDE DEF R
      <3>2. R \subseteq Mounted /\ Mounted \subseteq Queries /\ SocketInv /\ q \in Queries
        BY DEF R, Mounted, NoticeInv
      <3>3. QED
        BY <1>1, <3>1, <3>2, RequestNotices
    <2>5. QED
      BY <2>1, <2>4 DEF AllNoticed, Mounted
  <1>10. ASSUME NEW i \in Sockets, onclose(i) PROVE AllNoticed'
    BY <1>3, <1>10 DEF onclose, setStatus
  <1>11. ASSUME NEW i \in Sockets, Closed(i) PROVE AllNoticed'
    BY <1>4, <1>11 DEF Closed, managerVars
  <1>12. QED
    BY <1>2, <1>6, <1>7, <1>8, <1>9, <1>10, <1>11

\* A commit is on the wire, or excused, before anybody asks for it.
LEMMA ChangeNotices ==
  ASSUME NoticeInv, NEW trace \in {"own", "other"}, NEW links \in BOOLEAN, Change(trace, links)
  PROVE  AllNoticed'
  <1> DEFINE e == [trace |-> trace, links |-> links]
  <1>1. /\ log' = Append(log, e) /\ e \in Changes /\ log \in Seq(Changes)
        /\ UNCHANGED <<subs, status, timer, fetch, answer, seen>>
    BY DEF Change, managerVars, Changes, NoticeInv, SocketInv, SocketTyped
  <1>2. server \in Nat /\ server' = server + 1 /\ \A i \in 1..server : log'[i] = log[i]
    BY <1>1, AppendProperties, ServerTyped DEF server, NoticeInv
  <1>4. SUFFICES ASSUME NEW q \in Mounted, NEW n \in 0..server', Due(q, n)'
                 PROVE  Noticed(q, n)'
    BY <1>1 DEF AllNoticed, Mounted
  <1>5. CASE registered
    <2>1. wire' = wire \cup {server + 1} /\ excused' = excused
      BY <1>5 DEF Change
    <2>3. CASE n = server + 1
      BY <2>1, <2>3 DEF Noticed
    <2>4. CASE n \in 0..server
      <3>1. Due(q, n)
        <4>1. CASE n = 0
          BY <1>1, <1>4, <4>1 DEF Due
        <4>2. CASE n \in 1..server
          <5>1. Matters(q, n)' <=> Matters(q, n)
            BY <1>2, <4>2, MattersStays
          <5>2. QED
            BY <1>1, <1>4, <5>1 DEF Due
        <4>3. QED
          BY <1>2, <2>4, <4>1, <4>2
      <3>2. Noticed(q, n)
        BY <2>4, <3>1 DEF NoticeInv, AllNoticed
      <3>3. QED
        BY <1>1, <2>1, <3>2 DEF Noticed
    <2>5. QED
      BY <1>2, <2>3, <2>4
  <1>6. CASE ~registered
    <2>1. wire = {} /\ wire' = {}
      BY <1>6 DEF Change, NoticeInv, SocketInv, Connected
    <2>2. CASE status # "connected"
      BY <1>1, <2>2 DEF Noticed
    <2>3. CASE status = "connected"
      BY <1>6, <2>3 DEF Change, Noticed
    <2>4. QED
      BY <2>2, <2>3
  <1>7. QED
    BY <1>5, <1>6

\* A notification that does not concern a query although its change matters is
\* about a link that the query has yet to see; that link is noticed.
LEMMA UnseenLink ==
  ASSUME NoticeInv, NEW q \in Mounted, NEW i \in 1..server, Due(q, i), ~relevant(q, log[i])
  PROVE  \E j \in 1..server : j < i /\ Due(q, j)
  <1>1. server \in Nat /\ seen[q] \in Int /\ seen[q] <= server /\ q \in Queries
    BY ServerTyped DEF NoticeInv, SocketInv, AnswersAdvance, Mounted
  <1>2. log[i].trace = "other" /\ Linked(q, i) /\ seen[q] < i
    <2>1. log[i] \in Changes
      BY DEF NoticeInv, SocketInv, SocketTyped, server
    <2>2. log[i].trace \in {"own", "other"}
      BY <2>1 DEF Changes
    <2>3. QED
      BY <2>2 DEF Due, Matters, relevant
  <1>3. ~Linked(q, seen[q]) \/ seen[q] = NoData
    BY <1>2 DEF relevant, targetIds
  <1>4. PICK j \in 1..i : log[j].links /\ log[j].trace = Source(q)
    BY <1>2 DEF Linked
  <1>5. j # i
    BY <1>2, <1>4 DEF relevant, Source
  <1>6. j \in 1..server /\ j < i
    BY <1>1, <1>4, <1>5
  <1>7. seen[q] < j
    <2>1. CASE seen[q] = NoData
      BY <1>6, <2>1 DEF NoData
    <2>2. CASE ~Linked(q, seen[q])
      <3>1. j \notin 1..seen[q]
        BY <1>4, <2>2 DEF Linked
      <3>2. QED
        BY <1>1, <1>6, <3>1
    <2>3. QED
      BY <1>3, <2>1, <2>2
  <1>8. Matters(q, j)
    <2>1. Linked(q, j)
      BY <1>4, <1>6 DEF Linked
    <2>2. QED
      BY <2>1 DEF Matters
  <1>9. QED
    BY <1>6, <1>7, <1>8 DEF Due

\* A notification is received: what it announced is still noticed.
LEMMA MessageNotices ==
  ASSUME NoticeInv, onmessage
  PROVE  AllNoticed'
  <1>1. server \in Nat /\ wire \subseteq 1..server
    BY ServerTyped DEF NoticeInv
  <1>0. PICK i \in wire :
           /\ \A j \in wire : i <= j
           /\ wire' = wire \ {i}
           /\ timer' = [q \in Queries |-> timer[q] \/ q \in {x \in Mounted : relevant(x, log[i])}]
           /\ excused' = excused \cup {q \in Mounted \ {x \in Mounted : relevant(x, log[i])} :
                            fetch[q] = "answered" /\ answer[q] < i /\ Matters(q, i)}
    BY DEF onmessage
  <1>2. /\ UNCHANGED <<subs, status, log, fetch, answer, seen>>
        /\ \A q \in Mounted : relevant(q, log[i]) \/ timer[q] => timer'[q]
        /\ \A q \in Mounted : ~relevant(q, log[i]) /\ fetch[q] = "answered" /\ answer[q] < i
                                /\ Matters(q, i) => q \in excused'
        /\ excused \subseteq excused' /\ i \in 1..server
    BY <1>0, <1>1 DEF onmessage, managerVars, Mounted
  <1>3. SUFFICES ASSUME NEW q \in Mounted PROVE \A n \in 0..server' : Due(q, n)' => Noticed(q, n)'
    BY <1>2 DEF AllNoticed, Mounted
  <1>4. answer[q] \in Int /\ q \in Queries /\ server' = server
    BY <1>2, ServerTyped DEF NoticeInv, Mounted, server
  <1>5. ASSUME NEW n \in 0..server, Due(q, n), Noticed(q, n) PROVE Noticed(q, n)'
    <2>1. CASE timer[q]
      BY <1>2, <2>1 DEF Noticed
    <2>2. CASE fetch[q] = "asked" \/ (fetch[q] = "answered" /\ answer[q] >= n)
               \/ status # "connected" \/ q \in excused
      BY <1>2, <2>2 DEF Noticed
    <2>3. CASE n \in wire /\ n # i
      <3>1. n \in wire'
        BY <1>0, <2>3
      <3>2. QED
        BY <1>4, <3>1 DEF Noticed
    <2>4. CASE n = i
      <3>1. CASE relevant(q, log[i])
        BY <1>2, <3>1 DEF Noticed
      <3>2. CASE ~relevant(q, log[i])
        <4>1. PICK j \in 1..server : j < i /\ Due(q, j)
          BY <1>2, <1>5, <2>4, <3>2, UnseenLink
        <4>2. Noticed(q, j) /\ j \notin wire
          <5>1. Noticed(q, j)
            BY <1>1, <4>1 DEF NoticeInv, AllNoticed
          <5>2. j \notin wire
            BY <1>0, <1>1, <4>1
          <5>3. QED
            BY <5>1, <5>2
        <4>3. Matters(q, i)
          BY <1>2, <1>5, <2>4 DEF Due
        <4>4. CASE fetch[q] = "answered" /\ answer[q] < i
          BY <1>2, <3>2, <4>3, <4>4 DEF Noticed
        <4>5. CASE fetch[q] = "answered" /\ answer[q] >= i
          BY <1>2, <2>4, <4>5 DEF Noticed
        <4>6. CASE fetch[q] # "answered"
          BY <1>2, <4>2, <4>6 DEF Noticed
        <4>7. QED
          BY <1>2, <1>4, <4>4, <4>5, <4>6
      <3>3. QED
        BY <3>1, <3>2
    <2>5. QED
      BY <1>5, <2>1, <2>2, <2>3, <2>4 DEF Noticed
  <1>6. QED
    BY <1>2, <1>5, NoticeStays

\* A notification that is dropped excuses the queries it would have told.
LEMMA LostNotices ==
  ASSUME NoticeInv, NEW i \in 1..server, Lost(i)
  PROVE  AllNoticed'
  <1>1. /\ UNCHANGED <<subs, status, log, timer, fetch, answer, seen>> /\ wire' = wire \ {i}
        /\ excused' = excused \cup {q \in Mounted : Matters(q, i)}
    BY DEF Lost, managerVars
  <1>2. SUFFICES ASSUME NEW q \in Mounted PROVE \A n \in 0..server' : Due(q, n)' => Noticed(q, n)'
    BY <1>1 DEF AllNoticed, Mounted
  <1>3. ASSUME NEW n \in 0..server, Due(q, n), Noticed(q, n) PROVE Noticed(q, n)'
    <2>1. CASE n = i
      <3>1. n # 0
        BY <2>1, ServerTyped DEF NoticeInv
      <3>2. q \in excused'
        BY <1>1, <1>3, <2>1, <3>1 DEF Due
      <3>3. QED
        BY <3>2 DEF Noticed
    <2>2. CASE n # i
      BY <1>1, <1>3, <2>2 DEF Noticed
    <2>3. QED
      BY <2>1, <2>2
  <1>4. QED
    BY <1>1, <1>3, NoticeStays

\* Timers, requests and answers of one query leave every other noticed.
LEMMA QueryNotices ==
  ASSUME NoticeInv, NEW d \in Queries,
         \/ RefreshTimer(d) \/ Answers(d) \/ Delivers(d)
         \/ RequestFails(d) \/ refetchInterval(d) \/ Collect(d)
  PROVE  AllNoticed'
  <1>1. /\ UNCHANGED <<subs, status, wire, log>> /\ server' = server /\ Mounted' = Mounted
        /\ server \in Nat /\ \A q \in Queries : seen[q] \in Int /\ answer[q] \in Int
    BY ServerTyped DEF RefreshTimer, Answers, Delivers, RequestFails, refetchInterval, Collect,
       managerVars, netVars, server, Mounted, NoticeInv
  <1>2. /\ timer \in [Queries -> BOOLEAN] /\ fetch \in [Queries -> {"idle", "asked", "answered"}]
        /\ answer \in [Queries -> Int] /\ seen \in [Queries -> Int]
    BY DEF NoticeInv, SocketInv, QueryTyped
  <1>3. ASSUME Invalidate({d}), UNCHANGED seen, \A q \in Queries \ {d} : timer'[q] = timer[q]
        PROVE  AllNoticed'
    <2> DEFINE R == {x \in {d} : fetch[x] = "idle" \/ seen[x] # NoData}
    <2>3. Request({d}, R) /\ \A x \in {d} \ R : fetch[x] # "idle"
      BY <1>3 DEF Invalidate
    <2> HIDE DEF R
    <2>4. R \subseteq {d} /\ {d} \subseteq Queries /\ SocketInv
      BY DEF R, NoticeInv
    <2>1. ASSUME NEW q \in Mounted PROVE \A n \in 0..server' : Due(q, n)' => Noticed(q, n)'
      <3>1. CASE q = d
        BY <1>1, <2>3, <2>4, <3>1, RequestNotices
      <3>2. CASE q # d
        <4>1. q \in Queries /\ fetch'[q] = fetch[q] /\ answer'[q] = answer[q]
              /\ (q \in excused => q \in excused') /\ timer'[q] = timer[q]
          BY <1>1, <1>3, <2>1, <2>3, <2>4, <3>2, RequestNotices DEF Mounted
        <4>2. \A n \in 0..server : Due(q, n) /\ Noticed(q, n) => Noticed(q, n)'
          BY <1>1, <4>1 DEF Noticed
        <4>3. QED
          BY <1>1, <1>3, <2>1, <4>2, NoticeStays
      <3>3. QED
        BY <3>1, <3>2
    <2>2. QED
      BY <1>1, <2>1 DEF AllNoticed
  <1>4. CASE RefreshTimer(d)
    <2>1. Invalidate({d}) /\ seen' = seen /\ \A q \in Queries \ {d} : timer'[q] = timer[q]
      BY <1>2, <1>4 DEF RefreshTimer, refresh, Invalidate, Request
    <2>2. QED
      BY <1>3, <2>1
  <1>5. CASE refetchInterval(d)
    BY <1>3, <1>5 DEF refetchInterval, Invalidate, Request
  <1>6. ASSUME seen' = seen,
               \A q \in Mounted : \A n \in 0..server : Due(q, n) /\ Noticed(q, n) => Noticed(q, n)'
        PROVE  AllNoticed'
    BY <1>1, <1>6, NoticeStays DEF AllNoticed
  <1>7. CASE Answers(d)
    <2>1. /\ fetch[d] = "asked" /\ fetch' = [fetch EXCEPT ![d] = "answered"]
          /\ answer' = [answer EXCEPT ![d] = server]
          /\ UNCHANGED <<timer, seen, excused>>
      BY <1>7 DEF Answers
    <2>2. ASSUME NEW q \in Mounted, NEW n \in 0..server, Noticed(q, n) PROVE Noticed(q, n)'
      <3>1. CASE q = d
        <4>1. fetch'[q] = "answered" /\ answer'[q] = server /\ server >= n
          BY <1>1, <1>2, <2>1, <3>1
        <4>2. QED
          BY <4>1 DEF Noticed
      <3>2. CASE q # d
        BY <1>1, <1>2, <2>1, <2>2, <3>2 DEF Noticed
      <3>3. QED
        BY <3>1, <3>2
    <2>3. QED
      BY <1>6, <2>1, <2>2
  <1>8. CASE RequestFails(d)
    <2>1. /\ fetch' = [fetch EXCEPT ![d] = "idle"] /\ answer' = [answer EXCEPT ![d] = NoData]
          /\ excused' = excused \cup ({d} \cap subs) /\ UNCHANGED <<timer, seen>>
      BY <1>8 DEF RequestFails
    <2>2. ASSUME NEW q \in Mounted, NEW n \in 0..server, Noticed(q, n) PROVE Noticed(q, n)'
      <3>1. CASE q = d
        BY <2>1, <3>1 DEF Noticed, Mounted
      <3>2. CASE q # d
        BY <1>1, <1>2, <2>1, <2>2, <3>2 DEF Noticed
      <3>3. QED
        BY <3>1, <3>2
    <2>3. QED
      BY <1>6, <2>1, <2>2
  <1>9. CASE Collect(d)
    <2>1. d \notin Mounted /\ seen' = [seen EXCEPT ![d] = NoData]
          /\ UNCHANGED <<timer, fetch, answer, excused>>
      BY <1>9 DEF Collect, Mounted
    <2>2. ASSUME NEW q \in Mounted, NEW n \in 0..server', Due(q, n)' PROVE Noticed(q, n)'
      <3>1. seen'[q] = seen[q]
        BY <1>2, <2>1 DEF Mounted
      <3>2. Due(q, n)
        BY <1>1, <2>2, <3>1 DEF Due, Matters, Linked
      <3>3. Noticed(q, n)
        BY <1>1, <3>2 DEF NoticeInv, AllNoticed
      <3>4. QED
        BY <1>1, <2>1, <3>3 DEF Noticed
    <2>3. QED
      BY <1>1, <2>2 DEF AllNoticed
  <1>10. CASE Delivers(d)
    <2>1. /\ fetch[d] = "answered" /\ fetch' = [fetch EXCEPT ![d] = "idle"]
          /\ seen' = [seen EXCEPT ![d] = answer[d]] /\ answer' = [answer EXCEPT ![d] = NoData]
          /\ excused' = IF answer[d] >= Newest(d) THEN excused \ {d} ELSE excused
          /\ timer' = timer
      BY <1>10 DEF Delivers
    <2>2. ASSUME NEW q \in Mounted, NEW n \in 0..server', Due(q, n)' PROVE Noticed(q, n)'
      <3>1. q \in Queries
        BY DEF Mounted
      <3>2. (n = 0 \/ Matters(q, n)) /\ seen'[q] < n
        BY <1>1, <2>2 DEF Due, Matters, Linked
      <3>3. CASE q = d
        <4>1. seen[q] <= answer[q] /\ answer[q] < n /\ answer[q] \in Int /\ seen[q] \in Int
          BY <1>1, <1>2, <2>1, <3>1, <3>2, <3>3 DEF NoticeInv, SocketInv, AnswersAdvance
        <4>2. Due(q, n) /\ n \in Int
          BY <3>2, <4>1 DEF Due
        <4>3. Noticed(q, n)
          BY <1>1, <4>2 DEF NoticeInv, AllNoticed
        <4>4. n <= Newest(q) /\ Newest(q) \in Nat
          BY <1>1, <3>2, NewestIs
        <4>5. excused' = excused
          BY <2>1, <3>3, <4>1, <4>2, <4>4
        <4>6. ~(answer[q] >= n)
          BY <4>1, <4>2
        <4>7. QED
          BY <1>1, <2>1, <3>3, <4>3, <4>5, <4>6 DEF Noticed
      <3>4. CASE q # d
        <4>1. seen'[q] = seen[q] /\ fetch'[q] = fetch[q] /\ answer'[q] = answer[q]
              /\ (q \in excused => q \in excused')
          BY <1>2, <2>1, <3>1, <3>4
        <4>2. Noticed(q, n)
          BY <1>1, <3>2, <4>1 DEF NoticeInv, AllNoticed, Due
        <4>3. QED
          BY <1>1, <2>1, <4>1, <4>2 DEF Noticed
      <3>5. QED
        BY <3>3, <3>4
    <2>3. QED
      BY <1>1, <2>2 DEF AllNoticed
  <1>11. QED
    BY <1>4, <1>5, <1>7, <1>8, <1>9, <1>10

\* Every callback keeps old data noticed.
LEMMA NoticeNext == NoticeInv /\ [Next]_vars => NoticeInv'
  <1> SUFFICES ASSUME NoticeInv, [Next]_vars PROVE NoticeInv'
    OBVIOUS
  <1>1. SocketInv'
    BY SocketNext DEF NoticeInv
  <1>2. ASSUME UNCHANGED vars PROVE AllNoticed'
    BY <1>2 DEF vars, managerVars, netVars, queryVars, NoticeInv, AllNoticed, Mounted, Due,
                Noticed, Matters, Linked, server
  <1>3. AllNoticed'
    BY <1>2, ManagerNotices, ChangeNotices, MessageNotices, LostNotices, QueryNotices DEF Next
  <1>4. QED
    BY <1>1, <1>3 DEF NoticeInv

\* A mounted query whose data is old has work under way that ends in new data,
\* however notifications, timers, answers, mounts and lost connections are
\* interleaved: the exceptions the property names are all there are.
THEOREM OldDataIsNoticed == Spec => []StaleIsNoticed
  <1>1. NoticeInv => StaleIsNoticed
    <2> SUFFICES ASSUME NoticeInv, NEW q \in Mounted, seen[q] < Newest(q)
                 PROVE  \/ timer[q]
                        \/ \E i \in wire : Matters(q, i)
                        \/ fetch[q] = "asked"
                        \/ fetch[q] = "answered" /\ answer[q] >= Newest(q)
                        \/ status # "connected"
                        \/ q \in excused
      BY DEF StaleIsNoticed
    <2>1. server \in Nat /\ wire \subseteq 1..server
      BY ServerTyped DEF NoticeInv
    <2>2. Newest(q) \in 0..server /\ (Newest(q) = 0 \/ Matters(q, Newest(q)))
      BY <2>1, NewestIs
    <2>3. Noticed(q, Newest(q))
      BY <2>2 DEF NoticeInv, AllNoticed, Due
    <2>4. CASE Newest(q) \in wire
      <3>1. Newest(q) # 0
        BY <2>1, <2>2, <2>4
      <3>2. QED
        BY <2>2, <2>4, <3>1
    <2>5. QED
      BY <2>3, <2>4 DEF Noticed
  <1>2. QED
    BY NoticeInit, NoticeNext, <1>1, PTL DEF Spec
====
