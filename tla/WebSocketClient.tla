---------------------------- MODULE WebSocketClient ----------------------------
(***************************************************************************)
(* WebSocketClient (packages/client/src/clients/websocket.ts): a JSON-RPC  *)
(* client over a browser WebSocket.  notify() sends when `connected`, else *)
(* queues the message and calls connect() again; rpc() registers a promise *)
(* under a fresh id and notifies.  connect() refuses while the current     *)
(* socket is CONNECTING, closes it when OPEN, and creates a new socket     *)
(* whose onopen sets `connected` and flushes the queue, whose onclose      *)
(* clears `connected`, and whose onmessage resolves the pending promise.   *)
(*                                                                         *)
(* Every socket ever created is kept with its readyState; its handlers     *)
(* still run after a newer socket replaced it.  Each browser event (open,  *)
(* failed open, close, message) is one JavaScript task, so one atomic      *)
(* step.  The relay server answers every rpc message on the socket it came *)
(* on; a socket may be closed by the server or the network at any time,   *)
(* and whatever was in flight on it is lost.                               *)
(***************************************************************************)
EXTENDS Naturals, Sequences, FiniteSets

CONSTANTS
    MaxSockets,    \* bound on `new WebSocket(url)` calls
    MaxRequests,   \* bound on rpc() calls (ids 1..MaxRequests)
    Notes          \* messages passed to notify() directly (no id, no reply)

ASSUME MaxSockets \in Nat \ {0} /\ MaxRequests \in Nat

Sockets == 1..MaxSockets
Ids     == 1..MaxRequests
Msgs    == Ids \cup Notes
States  == {"NONE", "CONNECTING", "OPEN", "CLOSING", "CLOSED"}

VARIABLES
    messageId,  \* this.messageId
    requests,   \* keys of this.messageRequests
    connected,  \* this.connected
    queue,      \* this.queue
    current,    \* index of this.websocket (0: not yet assigned)
    ws,         \* readyState of every socket created ("NONE": not created)
    wire,       \* messages sent on a socket, not yet read by the server
    replies,    \* responses the server wrote on a socket, not yet delivered
    settled,    \* ids whose rpc() promise has resolved or rejected
    notified,   \* Notes already passed to notify()
    lost        \* messages handed to send() on a socket that was not OPEN

vars == <<messageId, requests, connected, queue, current, ws, wire, replies,
          settled, notified, lost>>

TypeOK ==
    /\ messageId \in 0..MaxRequests
    /\ requests \subseteq 1..messageId
    /\ connected \in BOOLEAN
    /\ queue \in Seq(Msgs)
    /\ current \in 0..MaxSockets
    /\ ws \in [Sockets -> States]
    /\ wire \in [Sockets -> Seq(Msgs)]
    /\ replies \in [Sockets -> Seq(Ids)]
    /\ settled \subseteq 1..messageId
    /\ notified \subseteq Notes
    /\ lost \subseteq Msgs

\* constructor(): no socket yet.
Init ==
    /\ messageId = 0
    /\ requests = {}
    /\ connected = FALSE
    /\ queue = <<>>
    /\ current = 0
    /\ ws = [s \in Sockets |-> "NONE"]
    /\ wire = [s \in Sockets |-> <<>>]
    /\ replies = [s \in Sockets |-> <<>>]
    /\ settled = {}
    /\ notified = {}
    /\ lost = {}

-----------------------------------------------------------------------------
(* connect(url)                                                            *)

MayConnect_NoGuard == TRUE

\* `this.websocket && this.websocket.readyState === 0` makes connect() return false.
MayConnect == ~(current # 0 /\ ws[current] = "CONNECTING")

\* A socket can still be created within the bound.
CanCreate == current < MaxSockets

\* The state change of a connect() that goes ahead: close the current socket
\* if OPEN, then make a new CONNECTING socket the current one.
ConnectEffect ==
    /\ ws' = [s \in Sockets |->
                 CASE s = current + 1                   -> "CONNECTING"
                   [] s = current /\ ws[s] = "OPEN"     -> "CLOSING"
                   [] OTHER                             -> ws[s]]
    /\ current' = current + 1

\* A caller (the websocket provider) calls connect(url).
Connect ==
    /\ MayConnect
    /\ CanCreate
    /\ ConnectEffect
    /\ UNCHANGED <<messageId, requests, connected, queue, wire, replies,
                   settled, notified, lost>>

-----------------------------------------------------------------------------
(* notify(message) and send()                                              *)

\* WebSocket.send(): queued for the server when OPEN; throws InvalidStateError
\* when CONNECTING; silently discarded when CLOSING or CLOSED.
SendThrows == ws[current] = "CONNECTING"

Send(m) ==
    IF ws[current] = "OPEN"
      THEN /\ wire' = [wire EXCEPT ![current] = Append(@, m)]
           /\ UNCHANGED lost
      ELSE /\ lost' = lost \cup {m}
           /\ UNCHANGED wire

\* notify() throws: send() on a CONNECTING socket, or this.websocket.url of
\* an unassigned socket when it has to reconnect.
NotifyThrows == IF connected THEN SendThrows ELSE current = 0

\* notify(m): send when connected, else queue and connect(this.websocket.url).
Notify(m) ==
    IF connected
      THEN /\ Send(m)
           /\ UNCHANGED <<queue, ws, current>>
      ELSE /\ queue' = Append(queue, m)
           /\ UNCHANGED <<wire, lost>>
           /\ IF current # 0 /\ MayConnect
                THEN ConnectEffect
                ELSE UNCHANGED <<ws, current>>

\* notify() is enabled when a reconnect it starts stays within the bound.
NotifyInBound == connected \/ ~MayConnect \/ current = 0 \/ CanCreate

\* A route calls notify() with a message that expects no reply.
NotifyNote ==
    /\ NotifyInBound
    /\ \E n \in Notes \ notified :
          /\ notified' = notified \cup {n}
          /\ Notify(n)
    /\ UNCHANGED <<messageId, requests, connected, replies, settled>>

Rpc_IdBeforeIncrement ==
    /\ messageId < MaxRequests
    /\ NotifyInBound
    /\ messageId' = messageId + 1
    /\ requests' = requests \cup {messageId}
    /\ Notify(messageId)
    /\ settled' = IF NotifyThrows THEN settled \cup {messageId} ELSE settled
    /\ UNCHANGED <<connected, replies, notified>>

\* rpc(): a fresh id, its promise registered, then notify(); when notify()
\* throws, the promise returned by the async rpc() rejects.
Rpc ==
    /\ messageId < MaxRequests
    /\ NotifyInBound
    /\ LET id == messageId + 1
       IN  /\ messageId' = id
           /\ requests' = requests \cup {id}
           /\ Notify(id)
           /\ settled' = IF NotifyThrows THEN settled \cup {id} ELSE settled
    /\ UNCHANGED <<connected, replies, notified>>

-----------------------------------------------------------------------------
(* Socket events and the server.                                           *)

\* The flush loop of onopen: notify() each queued message while connected.
FlushQueue ==
    IF ws'[current] = "OPEN"
      THEN /\ wire' = [wire EXCEPT ![current] = @ \o queue]
           /\ UNCHANGED lost
      ELSE /\ lost' = lost \cup {queue[i] : i \in DOMAIN queue}
           /\ UNCHANGED wire

Open_NoFlush(s) ==
    /\ ws[s] = "CONNECTING"
    /\ ws' = [ws EXCEPT ![s] = "OPEN"]
    /\ connected' = TRUE
    /\ UNCHANGED <<messageId, requests, queue, current, wire, replies,
                   settled, notified, lost>>

\* The connection is established: onopen sets connected and flushes the queue.
Open(s) ==
    /\ ws[s] = "CONNECTING"
    /\ ws' = [ws EXCEPT ![s] = "OPEN"]
    /\ connected' = TRUE
    /\ FlushQueue
    /\ queue' = <<>>
    /\ UNCHANGED <<messageId, requests, current, replies, settled, notified>>

\* The connection cannot be established: onclose clears connected.
FailOpen(s) ==
    /\ ws[s] = "CONNECTING"
    /\ ws' = [ws EXCEPT ![s] = "CLOSED"]
    /\ connected' = FALSE
    /\ UNCHANGED <<messageId, requests, queue, current, wire, replies,
                   settled, notified, lost>>

\* The server or the network starts the closing handshake.
Drop(s) ==
    /\ ws[s] = "OPEN"
    /\ ws' = [ws EXCEPT ![s] = "CLOSING"]
    /\ UNCHANGED <<messageId, requests, connected, queue, current, wire,
                   replies, settled, notified, lost>>

\* The connection is closed: onclose clears connected; in-flight data is lost.
Closed(s) ==
    /\ ws[s] = "CLOSING"
    /\ ws' = [ws EXCEPT ![s] = "CLOSED"]
    /\ connected' = FALSE
    /\ wire' = [wire EXCEPT ![s] = <<>>]
    /\ replies' = [replies EXCEPT ![s] = <<>>]
    /\ UNCHANGED <<messageId, requests, queue, current, settled, notified, lost>>

\* The relay reads the next message of an open socket and answers an rpc.
Serve(s) ==
    /\ ws[s] = "OPEN"
    /\ wire[s] # <<>>
    /\ LET m == Head(wire[s])
       IN  replies' = IF m \in Ids THEN [replies EXCEPT ![s] = Append(@, m)]
                                   ELSE replies
    /\ wire' = [wire EXCEPT ![s] = Tail(@)]
    /\ UNCHANGED <<messageId, requests, connected, queue, current, ws,
                   settled, notified, lost>>

Message_IdAboveOne(s) ==
    /\ ws[s] = "OPEN"
    /\ replies[s] # <<>>
    /\ LET id == Head(replies[s])
       IN  IF id > 1 /\ id \in requests
             THEN /\ requests' = requests \ {id}
                  /\ settled' = settled \cup {id}
             ELSE UNCHANGED <<requests, settled>>
    /\ replies' = [replies EXCEPT ![s] = Tail(@)]
    /\ UNCHANGED <<messageId, connected, queue, current, ws, wire, notified, lost>>

\* onmessage: a response whose id is pending resolves (or rejects) its
\* promise and is deleted from messageRequests.
Message(s) ==
    /\ ws[s] = "OPEN"
    /\ replies[s] # <<>>
    /\ LET id == Head(replies[s])
       IN  IF id > 0 /\ id \in requests
             THEN /\ requests' = requests \ {id}
                  /\ settled' = settled \cup {id}
             ELSE UNCHANGED <<requests, settled>>
    /\ replies' = [replies EXCEPT ![s] = Tail(@)]
    /\ UNCHANGED <<messageId, connected, queue, current, ws, wire, notified, lost>>

Next ==
    \/ Connect
    \/ NotifyNote
    \/ Rpc
    \/ \E s \in Sockets :
          \/ Open(s) \/ FailOpen(s) \/ Drop(s) \/ Closed(s)
          \/ Serve(s) \/ Message(s)

(* The browser completes every opening and closing handshake, and the      *)
(* relay and the event loop keep reading: those steps are weakly fair.     *)
(* Callers, the server closing a socket and failed opens are not.          *)
Fairness ==
    \A s \in Sockets :
        /\ WF_vars(Open(s) \/ FailOpen(s))
        /\ WF_vars(Closed(s))
        /\ WF_vars(Serve(s))
        /\ WF_vars(Message(s))

Spec == Init /\ [][Next]_vars /\ Fairness

-----------------------------------------------------------------------------
(* Properties.                                                               *)

(* At most one live connection: every socket but this.websocket is closing *)
(* or closed.  connect() must neither replace a socket that is still       *)
(* CONNECTING nor leave an OPEN one behind; a leaked socket would later    *)
(* run onopen and flush the queue into whatever this.websocket is then.    *)
SingleLiveSocket ==
    \A s \in Sockets \ {current} : ws[s] \in {"NONE", "CLOSING", "CLOSED"}

(* The queue only holds messages while disconnected: onopen flushes it in  *)
(* the same task that sets connected, and notify() queues only when        *)
(* disconnected, so no message waits in the queue behind later sends.      *)
QueueOnlyWhileDisconnected ==
    queue # <<>> => ~connected

(* notify() hands a message to send() only on an OPEN socket: the          *)
(* `connected` flag it tests stands for the state of this.websocket.       *)
SendOnlyWhenOpen == lost = {}

\* The request, or the server's answer to it, is on its way over socket s.
InFlight(id, s) ==
    \/ \E i \in DOMAIN wire[s] : wire[s][i] = id
    \/ \E i \in DOMAIN replies[s] : replies[s][i] = id

(* An rpc() message that reached a socket is answered on it: once it is    *)
(* on the wire of socket s, its promise settles unless s starts closing    *)
(* first -- the relay answers it, and onmessage must match the response's  *)
(* id to the pending entry and resolve it, whatever socket is current by    *)
(* then.                                                                    *)
AnsweredUnlessDropped ==
    \A id \in Ids, s \in Sockets :
        InFlight(id, s) ~> (id \in settled \/ ws[s] \in {"CLOSING", "CLOSED"})

(* Every rpc() promise eventually settles: the PromiseCache keeps `reject` *)
(* for the pending requests, so a request whose message or response is     *)
(* lost must not wait forever.                                             *)
RpcSettles ==
    \A id \in Ids : [](id \in requests => <>(id \in settled))

=============================================================================
