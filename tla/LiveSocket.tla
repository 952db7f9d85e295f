---- MODULE LiveSocket ----
(***************************************************************************)
(* The browser's connection: WsManager, which owns the one WebSocket of a  *)
(* tab and brings it back when it is lost, and the queries that listen to  *)
(* it (useTelemetryQueryUpdates) and ask the server again when they hear   *)
(* of a change.  JavaScript runs one callback at a time, so a callback is  *)
(* one action; what races is the order of timers, socket events, answers   *)
(* and mounts.                                                             *)
(*                                                                         *)
(* The queries are the two lists of a span's links: useSpanLinks, outgoing *)
(* or incoming.  Such a list shows its own trace and the traces at the     *)
(* other end of the links, and learns which these are from its data.       *)
(***************************************************************************)
EXTENDS Integers, Sequences, FiniteSets, FiniteSetsExt

CONSTANTS
    Queries,    \* mounted users of useTelemetryQueryUpdates: lists of links
    Incoming,   \* those of incoming links
    Feed,       \* the subscription of useWebSocket
    Sockets,    \* WebSocket objects; one is used again once it is closed
    MaxDelay,   \* bound: the reconnect delay, in units of the initial one
    MaxTimers,  \* bound: reconnect timers pending at once
    MaxChanges, \* bound: changes at the server
    MaxFaults   \* bound: lost connections, refused connects, failed requests

Subscribers == Queries \cup {Feed}
Null == 0
NoData == -1

ASSUME SocketAssumption ==
    /\ Feed \notin Queries /\ Incoming \subseteq Queries
    /\ Null \notin Sockets
    /\ MaxDelay \in Nat \ {0} /\ MaxTimers \in Nat \ {0}
    /\ MaxChanges \in Nat /\ MaxFaults \in Nat

VARIABLES
    \* WsManager
    subs, ws, status, reconnectDelay,
    reconnectTimer,   \* the handle: the number of a pending timer, or Null
    timers,           \* pending reconnect timers: number |-> captured delay
    disconnectTimer,
    \* the sockets, the network and the server
    sock, registered, faults,
    log,    \* what the server committed or deleted, one entry per trace
    wire,   \* the entries of log whose notification is on its way
    \* each subscriber's previousStatus, each query's refresh timer
    previousStatus, timer,
    \* TanStack Query: the request in flight, the version it was answered
    \* with, and the version in the cache
    fetch, answer, seen,
    \* history: queries with a change that no notification tells them of
    excused

managerVars == <<subs, ws, status, reconnectDelay, reconnectTimer, timers, disconnectTimer>>
netVars == <<sock, registered, wire, log, faults>>
queryVars == <<timer, fetch, answer, seen, excused>>
vars == <<managerVars, netVars, previousStatus, queryVars>>

Mounted == subs \cap Queries

Init ==
    /\ subs = {} /\ ws = Null /\ status = "disconnected"
    /\ reconnectDelay = 1 /\ reconnectTimer = Null /\ timers = <<>>
    /\ disconnectTimer = FALSE
    /\ sock = [s \in Sockets |-> "free"] /\ registered = FALSE /\ wire = {}
    /\ log = <<>> /\ faults = 0
    /\ previousStatus = [s \in Subscribers |-> "none"]
    /\ timer = [q \in Queries |-> FALSE]
    /\ fetch = [q \in Queries |-> "idle"]
    /\ answer = [q \in Queries |-> NoData] /\ seen = [q \in Queries |-> NoData]
    /\ excused = {}

(***************************************************************************)
(* What is committed is about the trace of the queries ("own") or about    *)
(* the one at the other end, and may bring the link between the two.  The  *)
(* source of an outgoing link is the own trace.                            *)
(***************************************************************************)
server == Len(log)
Source(q) == IF q \in Incoming THEN "other" ELSE "own"
Linked(q, n) == \E i \in 1..n : log[i].links /\ log[i].trace = Source(q)

\* Entry i changes what q lists, and the last one that does.
Matters(q, i) == log[i].trace = "own" \/ Linked(q, i)
Newest(q) == Max({0} \cup {i \in 1..server : Matters(q, i)})

targetIds(q) == IF seen[q] # NoData /\ Linked(q, seen[q]) THEN {"other"} ELSE {}

\* The callback that tells which messages concern a query.
relevant(q, message) ==
    \/ message.trace = "own"
    \/ message.trace \in targetIds(q)
    \/ q \in Incoming /\ message.links

(***************************************************************************)
(* TanStack Query asks for the queries Q: anew for those of R, while the   *)
(* others join the request in flight, which may have read the server too   *)
(* early.  A mount asks anew only when nothing is in flight.  To invalidate *)
(* cancels a request in flight and asks again, unless it is the first one  *)
(* and there is no data to go on showing.                                  *)
(***************************************************************************)
Request(Q, R) ==
    /\ fetch' = [q \in Queries |-> IF q \in R THEN "asked" ELSE fetch[q]]
    /\ excused' = (excused \ R)
         \cup {q \in Q \ R : fetch[q] = "answered" /\ answer[q] < Newest(q)}
    /\ answer' = [q \in Queries |-> IF q \in R THEN NoData ELSE answer[q]]
    /\ UNCHANGED seen

mount(q) == Request({q}, {x \in {q} : fetch[x] = "idle"})

Invalidate(Q) == Request(Q, {q \in Q : fetch[q] = "idle" \/ seen[q] # NoData})

refresh(Q) ==
    /\ timer' = [q \in Queries |-> timer[q] /\ q \notin Q]
    /\ Invalidate(Q)

\* setStatus: every subscriber hears of it; a query refreshes when it hears
\* "connected" after anything else.
Heard(s, S) == [x \in Subscribers |-> IF x \in S THEN s ELSE previousStatus[x]]

\* Bug: nothing is asked again after a reconnect.
ReconnectedIgnored(S) == {}

Reconnected(S) == {q \in S \cap Queries : previousStatus[q] \notin {"none", "connected"}}

setStatus(s) == status' = s /\ previousStatus' = Heard(s, subs)

\* connect() with the subscribers S: the old value of ws is overwritten.
connect(S) ==
    LET i == CHOOSE n \in Sockets : sock[n] = "free"
    IN  /\ \E n \in Sockets : sock[n] = "free"
        /\ sock' = [sock EXCEPT ![i] = "connecting"]
        /\ ws' = i
        /\ status' = "connecting"
        /\ previousStatus' = Heard("connecting", S)
        /\ registered' = FALSE /\ wire' = {}

----
\* Bug: the socket there may be is not looked at.
needsAnother(S) == Cardinality(S) = 1

needsSocket(S) == Cardinality(S) = 1 /\ ws = Null

\* subscribe: a pending disconnect is called off, the newcomer is told the
\* status, and the first one connects.  The query of a hook that mounts asks
\* the server (staleTime is 0), or joins what its predecessor still asks.
subscribe(s) ==
    /\ s \notin subs
    /\ subs' = subs \cup {s}
    /\ disconnectTimer' = FALSE
    /\ IF needsSocket(subs')
         THEN connect(subs')
         ELSE /\ previousStatus' = [previousStatus EXCEPT ![s] = status]
              /\ UNCHANGED <<ws, status, sock, registered, wire>>
    /\ IF s \in Queries THEN mount(s) /\ UNCHANGED timer
                        ELSE UNCHANGED queryVars
    /\ UNCHANGED <<reconnectDelay, reconnectTimer, timers, log, faults>>

\* The function subscribe returned, and the cleanup of the hook around it.
unsubscribe(s) ==
    /\ s \in subs
    /\ subs' = subs \ {s}
    /\ disconnectTimer' = (disconnectTimer \/ subs' = {})
    /\ previousStatus' = [previousStatus EXCEPT ![s] = "none"]
    /\ timer' = [q \in Queries |-> timer[q] /\ q # s]
    /\ excused' = excused \ {s}
    /\ UNCHANGED <<ws, status, reconnectDelay, reconnectTimer, timers, netVars,
                   fetch, answer, seen>>

\* The tick after the last one left: disconnect().
disconnect ==
    /\ disconnectTimer
    /\ disconnectTimer' = FALSE
    /\ IF subs = {}
         THEN /\ timers' = [t \in DOMAIN timers \ {reconnectTimer} |-> timers[t]]
              /\ reconnectTimer' = Null
              /\ ws' = Null
              /\ sock' = [i \in Sockets |-> IF i = ws THEN "closing" ELSE sock[i]]
              /\ registered' = FALSE /\ wire' = {}
              /\ setStatus("disconnected")
              /\ reconnectDelay' = 1
         ELSE UNCHANGED <<timers, reconnectTimer, ws, sock, registered, wire, status,
                          previousStatus, reconnectDelay>>
    /\ UNCHANGED <<subs, log, faults, queryVars>>

\* ws.onopen.
onopen(i) ==
    /\ sock[i] = "connecting"
    /\ sock' = [sock EXCEPT ![i] = "open"]
    /\ IF ws = i
         THEN /\ setStatus("connected")
              /\ reconnectDelay' = 1
              /\ refresh(Reconnected(subs))
         ELSE UNCHANGED <<status, previousStatus, reconnectDelay, queryVars>>
    /\ UNCHANGED <<subs, ws, reconnectTimer, timers, disconnectTimer,
                   registered, wire, log, faults>>

\* ws.onclose, of the current socket (lost or refused) or of one that
\* disconnect gave up: the listeners of the latter are gone.
scheduleReconnect ==
    LET t == CHOOSE n \in 1..MaxTimers : n \notin DOMAIN timers
    IN  /\ timers' = [n \in DOMAIN timers \cup {t} |->
                        IF n = t THEN reconnectDelay ELSE timers[n]]
        /\ reconnectTimer' = t

onclose(i) ==
    /\ i = ws
    /\ faults < MaxFaults /\ faults' = faults + 1
    /\ Cardinality(DOMAIN timers) < MaxTimers
    /\ sock' = [sock EXCEPT ![i] = "free"]
    /\ ws' = Null /\ registered' = FALSE /\ wire' = {}
    /\ setStatus("disconnected")
    /\ IF subs # {} THEN scheduleReconnect ELSE UNCHANGED <<timers, reconnectTimer>>
    /\ UNCHANGED <<subs, reconnectDelay, disconnectTimer, log, queryVars>>

Closed(i) ==
    /\ i # ws /\ sock[i] = "closing"
    /\ sock' = [sock EXCEPT ![i] = "free"]
    /\ UNCHANGED <<managerVars, registered, wire, log, faults, previousStatus, queryVars>>

backOff(d) == IF d * 2 < MaxDelay THEN d * 2 ELSE MaxDelay

\* Bug: once the delay is at its limit the timer only starts itself again.
ReconnectGivesUp(t) ==
    /\ t \in DOMAIN timers
    /\ timers[t] < MaxDelay
    /\ timers' = [n \in DOMAIN timers \ {t} |-> timers[n]]
    /\ reconnectTimer' = Null
    /\ reconnectDelay' = backOff(timers[t])
    /\ IF subs # {} /\ ws = Null
         THEN connect(subs)
         ELSE UNCHANGED <<ws, status, sock, registered, wire, previousStatus>>
    /\ UNCHANGED <<subs, disconnectTimer, log, faults, queryVars>>

\* The callback of scheduleReconnect.
Reconnect(t) ==
    /\ t \in DOMAIN timers
    /\ timers' = [n \in DOMAIN timers \ {t} |-> timers[n]]
    /\ reconnectTimer' = Null
    /\ reconnectDelay' = backOff(timers[t])
    /\ IF subs # {} /\ ws = Null
         THEN connect(subs)
         ELSE UNCHANGED <<ws, status, sock, registered, wire, previousStatus>>
    /\ UNCHANGED <<subs, disconnectTimer, log, faults, queryVars>>

\* ws.onmessage: the callback of a query starts its timer unless it runs or
\* the message does not concern it.  An answer on its way may be older than
\* the message and only then show the link that makes it concern the query.
onmessage ==
    /\ ws # Null
    /\ \E i \in wire :
         LET R == {q \in Mounted : relevant(q, log[i])}
         IN
           /\ \A j \in wire : i <= j
           /\ wire' = wire \ {i}
           /\ timer' = [q \in Queries |-> timer[q] \/ q \in R]
           /\ excused' = excused \cup {q \in Mounted \ R :
                fetch[q] = "answered" /\ answer[q] < i /\ Matters(q, i)}
    /\ UNCHANGED <<managerVars, sock, registered, log, faults, previousStatus,
                   fetch, answer, seen>>

RefreshTimer(q) ==
    /\ timer[q]
    /\ refresh({q})
    /\ UNCHANGED <<managerVars, netVars, previousStatus>>

----
\* The server: the upgrade is answered before the hub knows the client, and a
\* change is sent to the clients the hub knows.  A query that has read the
\* data before such a change does not hear of it.
Registers ==
    /\ ws # Null /\ sock[ws] = "open" /\ ~registered
    /\ registered' = TRUE
    /\ UNCHANGED <<managerVars, sock, wire, log, faults, previousStatus, queryVars>>

Change(trace, links) ==
    /\ server < MaxChanges
    /\ links => \E q \in Queries : trace = Source(q) /\ ~Linked(q, server)
    /\ log' = Append(log, [trace |-> trace, links |-> links])
    /\ IF registered THEN wire' = wire \cup {server + 1} /\ UNCHANGED excused
                     ELSE /\ excused' = IF status = "connected" THEN excused \cup Mounted
                                                                ELSE excused
                          /\ UNCHANGED wire
    /\ UNCHANGED <<managerVars, sock, registered, faults, previousStatus,
                   timer, fetch, answer, seen>>

\* A notification is dropped on its way: the commit queue, the queue of the hub
\* or the buffer of the client is full, or it has no JSON.  A sweep or a trim
\* sends none in the first place.
Lost(i) ==
    /\ i \in wire
    /\ wire' = wire \ {i}
    /\ excused' = excused \cup {q \in Mounted : Matters(q, i)}
    /\ UNCHANGED <<managerVars, sock, registered, log, faults, previousStatus,
                   timer, fetch, answer, seen>>

Answers(q) ==
    /\ fetch[q] = "asked"
    /\ fetch' = [fetch EXCEPT ![q] = "answered"]
    /\ answer' = [answer EXCEPT ![q] = server]
    /\ UNCHANGED <<managerVars, netVars, previousStatus, timer, seen, excused>>

Delivers(q) ==
    /\ fetch[q] = "answered"
    /\ fetch' = [fetch EXCEPT ![q] = "idle"]
    /\ seen' = [seen EXCEPT ![q] = answer[q]]
    /\ answer' = [answer EXCEPT ![q] = NoData]
    /\ excused' = IF answer[q] >= Newest(q) THEN excused \ {q} ELSE excused
    /\ UNCHANGED <<managerVars, netVars, previousStatus, timer>>

RequestFails(q) ==
    /\ fetch[q] # "idle"
    /\ faults < MaxFaults /\ faults' = faults + 1
    /\ fetch' = [fetch EXCEPT ![q] = "idle"]
    /\ answer' = [answer EXCEPT ![q] = NoData]
    /\ excused' = excused \cup ({q} \cap subs)
    /\ UNCHANGED <<managerVars, sock, registered, wire, log, previousStatus,
                   timer, seen>>

\* Bug: the query has no refetchInterval.
refetchNever(q) == FALSE /\ UNCHANGED vars

\* telemetryRefreshOptions.refetchInterval: a mounted query asks again every
\* now and then.
refetchInterval(q) ==
    /\ q \in subs /\ fetch[q] = "idle"
    /\ Invalidate({q})
    /\ UNCHANGED <<managerVars, netVars, previousStatus, timer>>

\* gcTime: the cache forgets a query that nobody uses.
Collect(q) ==
    /\ q \notin subs /\ fetch[q] = "idle" /\ seen[q] # NoData
    /\ seen' = [seen EXCEPT ![q] = NoData]
    /\ UNCHANGED <<managerVars, netVars, previousStatus, timer, fetch, answer, excused>>

Timers == disconnect \/ \E t \in 1..MaxTimers : Reconnect(t)

Next ==
    \/ \E s \in Subscribers : subscribe(s) \/ unsubscribe(s)
    \/ Timers
    \/ \E i \in Sockets : onopen(i) \/ onclose(i) \/ Closed(i)
    \/ onmessage \/ Registers
    \/ \E trace \in {"own", "other"}, links \in BOOLEAN : Change(trace, links)
    \/ \E i \in 1..server : Lost(i)
    \/ \E q \in Queries : \/ RefreshTimer(q) \/ Answers(q) \/ Delivers(q)
                          \/ RequestFails(q) \/ refetchInterval(q) \/ Collect(q)

Spec == Init /\ [][Next]_vars

\* Timers fire, requests end, a reachable server accepts; the poll of a query
\* runs.  Nobody has to mount or unmount, and faults are bounded.
Fairness ==
    /\ WF_vars(Timers) /\ WF_vars(onmessage)
    /\ \A i \in Sockets : WF_vars(onopen(i) \/ Closed(i))
    /\ \A q \in Queries : /\ WF_vars(RefreshTimer(q)) /\ WF_vars(refetchInterval(q))
                          /\ WF_vars(Answers(q) \/ Delivers(q))

FairSpec == Spec /\ Fairness

----
\* No socket is left behind: one that is connecting or open is the current
\* one, so that a tab has one connection however subscribers and timers race
\* ("connects on the first subscriber", connect and scheduleReconnect).
OneSocket ==
    \A i \in Sockets : sock[i] \in {"connecting", "open"} => i = ws

\* A mounted query whose data is old has work under way that ends in new
\* data: a notification on the wire, a timer, a request not yet answered or
\* answered with the newest, or a connection whose return refreshes it.  The
\* exceptions are a change whose notification the server drops or does not
\* send, or that falls between upgrade and registration; a notification about
\* a link the list is only about to show; a mount, or the refresh of a first
\* load, that joins a request answered too early; and a failed request.
StaleIsNoticed ==
    \A q \in Mounted :
        seen[q] < Newest(q) =>
            \/ timer[q]
            \/ \E i \in wire : Matters(q, i)
            \/ fetch[q] = "asked" \/ (fetch[q] = "answered" /\ answer[q] >= Newest(q))
            \/ status # "connected"
            \/ q \in excused

\* "Database reconciliation also covers missed notifications": the poll heals
\* the exceptions, a query that stays mounted comes to list the newest.
EventuallyFresh ==
    \A q \in Queries :
        (q \in subs /\ seen[q] < Newest(q)) ~> (q \notin subs \/ seen[q] >= Newest(q))

\* Whoever listens gets a connection.
EventuallyConnected ==
    (subs # {}) ~> (subs = {} \/ status = "connected")
====
