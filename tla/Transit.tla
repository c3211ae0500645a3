-------------------------------- MODULE Transit --------------------------------
(***************************************************************************)
(* wormhole/file_transport.go: how the two ends of a transfer or a tunnel  *)
(* get one connection.  The sender listens and may hold a connection to a  *)
(* relay; acceptConnection shakes hands on every connection that comes and *)
(* says "go" on one.  The receiver dials every address of the sender's     *)
(* hints (connectDirect) and, if none succeeds, the relay                  *)
(* (connectViaRelay).                                                      *)
(*                                                                         *)
(* A connection is named by the hint it goes through.  Its two ends are    *)
(* open as long as their process has not closed them.                      *)
(***************************************************************************)
EXTENDS Naturals, Sequences, FiniteSets

CONSTANTS
    Addrs,      \* addresses of the sender's direct hints
    Relays,     \* the relay hint: none or one
    Fates,      \* what may happen to a dial
    Breaks      \* connections that may break

Conn == Addrs \cup Relays

\* "sender": the address leads to the sender, or to the relay it is connected to;
\* "refused": the dial fails; "silent": it neither fails nor succeeds;
\* "mute": someone else accepts, and says nothing.
Fate == {"sender", "refused", "silent", "mute"}

None == "none"

ASSUME HintsAssumption == /\ IsFiniteSet(Conn)
                          /\ Addrs \cap Relays = {}
                          /\ Cardinality(Relays) <= 1
                          /\ None \notin Conn
ASSUME FatesAssumption == /\ Fates \subseteq Fate
                          /\ Breaks \subseteq Conn

VARIABLES
    fate,       \* [Conn -> Fate]
    tcp,        \* [Conn -> ..] the TCP connection: only the sender's half of the relayed
                \* one or only the receiver's, both ends, one to a stranger
    sOpen,      \* the connections whose end the sender, or its kernel, has open
    rOpen,      \* the connections whose end the receiver has open
    toRecv,     \* [Conn -> Seq(..)] what the sender wrote and the receiver has not read
    toSend,     \* [Conn -> Seq(..)] and the other way
    acc,        \* where acceptConnection is
    winner,     \* the connection it took from readyCh
    cancelled,  \* cancelCh is closed
    handler,    \* [Conn -> ..] handleIncomingConnection (and waitForRelayPeer before it)
    closer,     \* [Conn -> ..] the goroutine it starts, which waits for cancelCh or okCh
    relayCloser, \* the same in waitForRelayPeer: its okCh is open, closed, or the goroutine gone
    recv,       \* where the receiver is: connectDirect, connectViaRelay, after both
    dialer,     \* [Conn -> ..] connectToSingleHost, connectToRelay, directRecvHandshake
    left,       \* results that connectDirect or connectViaRelay still waits for
    timer,      \* its connectTimeout
    conn        \* its result

sendVars == <<acc, winner, cancelled, handler, closer, relayCloser>>
recvVars == <<recv, dialer, left, timer, conn>>
netVars == <<tcp, sOpen, rOpen, toRecv, toSend>>
vars == <<fate, netVars, sendVars, recvVars>>

FromSender == {"ok", "header", "go", "nevermind"}
FromReceiver == {"ok", "header"}

TypeOK ==
    /\ fate \in [Conn -> Fate]
    /\ tcp \in [Conn -> {"none", "half", "alone", "up", "stray", "broken"}]
    /\ sOpen \subseteq Conn
    /\ rOpen \subseteq Conn
    /\ toRecv \in [Conn -> Seq(FromSender)]
    /\ toSend \in [Conn -> Seq(FromReceiver)]
    /\ acc \in {"off", "waiting", "go", "accepted", "failed"}
    /\ winner \in Conn \cup {None}
    /\ cancelled \in BOOLEAN
    /\ handler \in [Conn -> {"off", "paired", "read", "claim", "ready", "won", "done"}]
    /\ closer \in [Conn -> {"off", "waiting", "done"}]
    /\ relayCloser \in {"off", "waiting", "okClosed", "done"}
    /\ recv \in {"off", "direct", "relay", "returned"}
    /\ dialer \in [Conn -> {"off", "dial", "paired", "header", "go", "fail", "success", "done"}]
    /\ left \in 0..Cardinality(IF recv = "relay" THEN Relays ELSE Addrs)
    /\ timer \in {"off", "armed", "fired"}
    /\ conn \in Conn \cup {None}

\* listen and listenRelay are behind: the sender's hints are made from them.
Init ==
    /\ fate \in [Conn -> Fates]
    /\ tcp = [c \in Conn |-> IF c \in Relays THEN "half" ELSE "none"]
    /\ sOpen = Relays
    /\ rOpen = {}
    /\ toRecv = [c \in Conn |-> <<>>]
    /\ toSend = [c \in Conn |-> <<>>]
    /\ acc = "off"
    /\ winner = None
    /\ cancelled = FALSE
    /\ handler = [c \in Conn |-> "off"]
    /\ closer = [c \in Conn |-> "off"]
    /\ relayCloser = "off"
    /\ recv = "off"
    /\ dialer = [c \in Conn |-> "off"]
    /\ left = 0
    /\ timer = "off"
    /\ conn = None

-----------------------------------------------------------------------------
(* Connections.                                                            *)

Listening == acc \in {"off", "waiting", "go"}

SenderReads(c) == c \in sOpen /\ tcp[c] = "up" /\ toSend[c] # <<>>
SenderReadFails(c) ==
    \/ c \notin sOpen
    \/ tcp[c] \in {"broken", "alone"}
    \/ tcp[c] = "up" /\ toSend[c] = <<>> /\ c \notin rOpen

ReceiverReads(c) == tcp[c] = "up" /\ toRecv[c] # <<>>
ReceiverReadFails(c) ==
    \/ tcp[c] = "broken"
    \/ tcp[c] = "up" /\ toRecv[c] = <<>> /\ c \notin sOpen

Put(channel, c, m) == [channel EXCEPT ![c] = Append(@, m)]
Drop(channel, c) == [channel EXCEPT ![c] = Tail(@)]

Break(c) ==
    /\ c \in Breaks
    /\ tcp[c] \in {"half", "up"}
    /\ tcp' = [tcp EXCEPT ![c] = "broken"]
    /\ UNCHANGED <<fate, sOpen, rOpen, toRecv, toSend, sendVars, recvVars>>

-----------------------------------------------------------------------------
(* The sender: acceptConnection.                                           *)

\* It starts waitForRelayPeer and the loop around Accept.
AcceptConnection ==
    /\ acc = "off"
    /\ acc' = "waiting"
    /\ handler' = [c \in Conn |-> IF c \in Relays THEN "paired" ELSE "off"]
    /\ relayCloser' = IF Relays = {} THEN "off" ELSE "waiting"
    /\ UNCHANGED <<fate, netVars, winner, cancelled, closer, recvVars>>

\* The start of handleIncomingConnection.
Greet(c) ==
    /\ handler' = [handler EXCEPT ![c] = "read"]
    /\ closer' = [closer EXCEPT ![c] = "waiting"]
    /\ toRecv' = IF c \in sOpen THEN Put(toRecv, c, "header") ELSE toRecv

\* A failed read: the connection is closed, and okCh.
Dismiss(c) ==
    /\ handler' = [handler EXCEPT ![c] = "done"]
    /\ closer' = [closer EXCEPT ![c] = "done"]
    /\ sOpen' = sOpen \ {c}

Accept(c) ==
    /\ acc \in {"waiting", "go"}
    /\ c \in Addrs
    /\ c \in sOpen
    /\ handler[c] = "off"
    /\ Greet(c)
    /\ UNCHANGED <<fate, tcp, sOpen, rOpen, toSend, acc, winner, cancelled, relayCloser, recvVars>>

\* waitForRelayPeer has its "ok", or fails; it closes its okCh in both cases.
RelayPeer(c) ==
    /\ handler[c] = "paired"
    /\ relayCloser' = IF relayCloser = "waiting" THEN "okClosed" ELSE relayCloser
    /\ \/ /\ SenderReads(c)
          /\ toSend' = Drop(toSend, c)
          /\ Greet(c)
          /\ UNCHANGED sOpen
       \/ /\ SenderReadFails(c)
          /\ Dismiss(c)
          /\ UNCHANGED <<toRecv, toSend>>
    /\ UNCHANGED <<fate, tcp, rOpen, acc, winner, cancelled, recvVars>>

\* Variant: "go" is the answer to the receiver's header.
ReadHeaderGo(c) ==
    /\ handler[c] = "read"
    /\ \/ /\ SenderReads(c)
          /\ toSend' = Drop(toSend, c)
          /\ toRecv' = Put(toRecv, c, "go")
          /\ handler' = [handler EXCEPT ![c] = "claim"]
          /\ UNCHANGED <<closer, sOpen>>
       \/ /\ SenderReadFails(c)
          /\ Dismiss(c)
          /\ UNCHANGED <<toRecv, toSend>>
    /\ UNCHANGED <<fate, tcp, rOpen, acc, winner, cancelled, relayCloser, recvVars>>

ReadHeader(c) ==
    /\ handler[c] = "read"
    /\ \/ /\ SenderReads(c)
          /\ toSend' = Drop(toSend, c)
          /\ handler' = [handler EXCEPT ![c] = "claim"]
          /\ UNCHANGED <<closer, sOpen>>
       \/ /\ SenderReadFails(c)
          /\ Dismiss(c)
          /\ UNCHANGED toSend
    /\ UNCHANGED <<fate, tcp, rOpen, toRecv, acc, winner, cancelled, relayCloser, recvVars>>

\* Variant: okCh has a buffer, so that nobody knows what the closer does.
ClaimBuffered(c) ==
    /\ handler[c] = "claim"
    /\ handler' = [handler EXCEPT ![c] = "ready"]
    /\ UNCHANGED <<fate, netVars, acc, winner, cancelled, closer, relayCloser, recvVars>>

\* The first select: okCh has no buffer, its sender meets the closer.
Claim(c) ==
    /\ handler[c] = "claim"
    /\ handler' = [handler EXCEPT ![c] = "ready"]
    /\ \/ closer[c] = "waiting" /\ closer' = [closer EXCEPT ![c] = "done"]
       \/ cancelled /\ UNCHANGED closer
    /\ UNCHANGED <<fate, netVars, acc, winner, cancelled, relayCloser, recvVars>>

\* Variant: a handler that loses just ends.
LeaveOpen(c) ==
    /\ handler[c] = "ready"
    /\ cancelled
    /\ handler' = [handler EXCEPT ![c] = "done"]
    /\ UNCHANGED <<fate, netVars, acc, winner, cancelled, closer, relayCloser, recvVars>>

\* The second select: cancelCh, or (in Choose) readyCh.
Nevermind(c) ==
    /\ handler[c] = "ready"
    /\ cancelled
    /\ handler' = [handler EXCEPT ![c] = "done"]
    /\ toRecv' = IF c \in sOpen THEN Put(toRecv, c, "nevermind") ELSE toRecv
    /\ sOpen' = sOpen \ {c}
    /\ UNCHANGED <<fate, tcp, rOpen, toSend, acc, winner, cancelled, closer, relayCloser, recvVars>>

Closer(c) ==
    /\ closer[c] = "waiting"
    /\ cancelled
    /\ closer' = [closer EXCEPT ![c] = "done"]
    /\ sOpen' = sOpen \ {c}
    /\ UNCHANGED <<fate, tcp, rOpen, toRecv, toSend, acc, winner, cancelled, handler, relayCloser,
                   recvVars>>

\* Variant: the goroutine of waitForRelayPeer waits for okCh only.
RelayCloserIdle(c) ==
    /\ c \in Relays
    /\ relayCloser = "okClosed"
    /\ relayCloser' = "done"
    /\ UNCHANGED <<fate, netVars, acc, winner, cancelled, handler, closer, recvVars>>

\* Its okCh is closed, not sent to: when cancelCh is closed too it takes either.
RelayCloser(c) ==
    /\ c \in Relays
    /\ relayCloser' = "done"
    /\ \/ relayCloser = "okClosed" /\ UNCHANGED sOpen
       \/ relayCloser \in {"waiting", "okClosed"} /\ cancelled /\ sOpen' = sOpen \ {c}
    /\ UNCHANGED <<fate, tcp, rOpen, toRecv, toSend, acc, winner, cancelled, handler, closer,
                   recvVars>>

\* The listener is closed on return, and the kernel closes what nobody accepted.
Unlisten == sOpen' = sOpen \ {c \in Addrs : handler[c] = "off"}

Choose(c) ==
    /\ acc = "waiting"
    /\ handler[c] = "ready"
    /\ winner' = c
    /\ cancelled' = TRUE
    /\ acc' = "go"
    /\ handler' = [handler EXCEPT ![c] = "won"]
    /\ UNCHANGED <<fate, netVars, closer, relayCloser, recvVars>>

WriteGo ==
    /\ acc = "go"
    /\ \/ /\ winner \in sOpen /\ tcp[winner] = "up"
          /\ toRecv' = Put(toRecv, winner, "go")
          /\ acc' = "accepted"
       \/ /\ winner \notin sOpen \/ tcp[winner] = "broken"
          /\ acc' = "failed"
          /\ UNCHANGED toRecv
    /\ Unlisten
    /\ UNCHANGED <<fate, tcp, rOpen, toSend, winner, cancelled, handler, closer, relayCloser, recvVars>>

\* The context ends, or Accept fails.
GiveUp ==
    /\ acc = "waiting"
    /\ acc' = "failed"
    /\ cancelled' = TRUE
    /\ Unlisten
    /\ UNCHANGED <<fate, tcp, rOpen, toRecv, toSend, winner, handler, closer, relayCloser, recvVars>>

-----------------------------------------------------------------------------
(* The receiver: connectDirect, then connectViaRelay.                      *)

\* The goroutines of one of them, one per address.
Start(hints) ==
    /\ dialer' = [c \in Conn |-> IF c \in hints THEN "dial" ELSE dialer[c]]
    /\ left' = Cardinality(hints)
    /\ timer' = "armed"

ConnectDirect ==
    /\ recv = "off"
    /\ recv' = "direct"
    /\ Start(Addrs)
    /\ UNCHANGED <<fate, netVars, sendVars, conn>>

\* The relay takes the receiver's header and says "ok" to both, also when the sender's
\* half is gone: the one of the tests does.
Meets(c) ==
    /\ fate[c] = "sender"
    /\ \/ /\ c \in Addrs
          /\ Listening
          /\ tcp' = [tcp EXCEPT ![c] = "up"]
          /\ sOpen' = sOpen \cup {c}
          /\ dialer' = [dialer EXCEPT ![c] = "header"]
          /\ UNCHANGED <<toRecv, toSend>>
       \/ /\ c \in Relays
          /\ tcp' = [tcp EXCEPT ![c] = IF @ = "half" THEN "up" ELSE @]
          /\ toRecv' = Put(toRecv, c, "ok")
          /\ toSend' = Put(toSend, c, "ok")
          /\ dialer' = [dialer EXCEPT ![c] = "paired"]
          /\ UNCHANGED sOpen
    /\ rOpen' = rOpen \cup {c}

\* A relay that knows that the sender's half is gone says nothing.
WaitsAtRelay(c) ==
    /\ fate[c] = "sender"
    /\ c \in Relays
    /\ c \notin sOpen \/ tcp[c] = "broken"
    /\ tcp' = [tcp EXCEPT ![c] = "alone"]
    /\ rOpen' = rOpen \cup {c}
    /\ dialer' = [dialer EXCEPT ![c] = "paired"]
    /\ UNCHANGED <<sOpen, toRecv, toSend>>

Strays(c) ==
    /\ fate[c] = "mute"
    /\ tcp' = [tcp EXCEPT ![c] = "stray"]
    /\ rOpen' = rOpen \cup {c}
    /\ dialer' = [dialer EXCEPT ![c] = IF c \in Relays THEN "paired" ELSE "header"]
    /\ UNCHANGED <<sOpen, toRecv, toSend>>

\* cancel() ends a dial, and nothing but a dial.
DialFails(c) ==
    /\ \/ fate[c] = "refused"
       \/ timer = "fired"
       \/ fate[c] = "sender" /\ c \in Addrs /\ ~Listening
    /\ dialer' = [dialer EXCEPT ![c] = "fail"]
    /\ UNCHANGED netVars

Dial(c) ==
    /\ dialer[c] = "dial"
    /\ Meets(c) \/ WaitsAtRelay(c) \/ Strays(c) \/ DialFails(c)
    /\ UNCHANGED <<fate, sendVars, recv, left, timer, conn>>

\* What a dialer expects to read next, and where it is when it has.
Expected == [paired |-> "ok", header |-> "header", go |-> "go"]
Then == [paired |-> "header", header |-> "go", go |-> "success"]

Read(c) ==
    /\ dialer[c] \in DOMAIN Expected
    /\ \/ /\ ReceiverReads(c)
          /\ Head(toRecv[c]) = Expected[dialer[c]]
          /\ toRecv' = Drop(toRecv, c)
          /\ toSend' = IF dialer[c] = "header" THEN Put(toSend, c, "header") ELSE toSend
          /\ dialer' = [dialer EXCEPT ![c] = Then[@]]
          /\ UNCHANGED rOpen
       \/ /\ ReceiverReads(c) => Head(toRecv[c]) # Expected[dialer[c]]
          /\ ReceiverReads(c) \/ ReceiverReadFails(c)
          /\ dialer' = [dialer EXCEPT ![c] = "fail"]
          /\ rOpen' = rOpen \ {c}
          /\ UNCHANGED <<toRecv, toSend>>
    /\ UNCHANGED <<fate, tcp, sOpen, sendVars, recv, left, timer, conn>>

\* failChan and successChan have no buffer: a dialer meets the loop.
Result(c) ==
    /\ recv \in {"direct", "relay"}
    /\ left > 0
    /\ dialer[c] \in {"fail", "success"}
    /\ conn' = IF dialer[c] = "success" THEN c ELSE conn
    /\ dialer' = [dialer EXCEPT ![c] = "done"]
    /\ left' = left - 1
    /\ UNCHANGED <<fate, netVars, sendVars, recv, timer>>

\* Variant: connectDirect does not count the timeout.
TimeoutUncounted ==
    /\ recv \in {"direct", "relay"}
    /\ left > 0
    /\ timer = "armed"
    /\ timer' = "fired"
    /\ left' = left - 1
    /\ UNCHANGED <<fate, netVars, sendVars, recv, dialer, conn>>

\* Variant: it counts it for one more result.
TimeoutCountedTwice ==
    /\ recv \in {"direct", "relay"}
    /\ left > 0
    /\ timer = "armed"
    /\ timer' = "fired"
    /\ left' = left + 1
    /\ UNCHANGED <<fate, netVars, sendVars, recv, dialer, conn>>

\* connectDirect increments its count, connectViaRelay does not.
Timeout ==
    /\ recv \in {"direct", "relay"}
    /\ left > 0
    /\ timer = "armed"
    /\ timer' = "fired"
    /\ left' = IF recv = "relay" THEN left - 1 ELSE left
    /\ UNCHANGED <<fate, netVars, sendVars, recv, dialer, conn>>

Return ==
    /\ left = 0
    /\ \/ /\ recv = "direct" /\ conn = None
          /\ recv' = "relay"
          /\ Start(Relays)
       \/ /\ \/ recv = "relay"
             \/ recv = "direct" /\ conn # None
          /\ recv' = "returned"
          /\ UNCHANGED <<dialer, left, timer>>
    /\ UNCHANGED <<fate, netVars, sendVars, conn>>

-----------------------------------------------------------------------------
Sender(c) ==
    \/ Accept(c) \/ RelayPeer(c) \/ ReadHeader(c) \/ Claim(c) \/ Nevermind(c)
    \/ Closer(c) \/ RelayCloser(c)

Dialer(c) == Dial(c) \/ Read(c)

\* Both calls, the goroutines they start, and the timers.
Goroutines ==
    \/ AcceptConnection \/ WriteGo
    \/ ConnectDirect \/ Timeout \/ Return
    \/ \E c \in Conn : Sender(c) \/ Choose(c) \/ Dialer(c) \/ Result(c)

Next == Goroutines \/ GiveUp \/ \E c \in Conn : Break(c)

Spec == Init /\ [][Next]_vars

\* Both calls are made, every goroutine is scheduled, and a timer fires in the end.  Each
\* step uses up something of a bounded supply, so that one fairness for all lets none starve.
Fairness == WF_vars(Goroutines)

FairSpec == Spec /\ Fairness

-----------------------------------------------------------------------------
(* Properties.                                                             *)

\* The two ends never end up with different connections.
SameConnection == conn # None => conn = winner

\* A direct connection that has been chosen is not shut down by the goroutines
\* that shut down the others.
WinnerKept == winner \in Addrs => winner \in sOpen

\* connectDirect leaves no goroutine behind: each has given its result.
AllConsumed ==
    recv \in {"relay", "returned"} => \A c \in Addrs : dialer[c] = "done"

\* Once acceptConnection has returned, every connection is closed in the end but the
\* one that it took from readyCh: returned, or left open and without an owner when its
\* "go" could not be written (acceptConnection returns the error and closes nothing).
LosersClosed ==
    acc \in {"accepted", "failed"} ~> \A c \in Conn : c \in sOpen => c = winner

\* The receiver comes to an end, unless an address leads to a stranger that holds
\* the connection and says nothing: the handshake has no deadline.
ReceiverReturns ==
    (\A c \in Addrs : fate[c] # "mute") => <>(recv = "returned")

\* The direct connection that the sender returns is the one that the receiver
\* returns, unless it breaks (or the receiver is held up by a stranger).
GoHonoured ==
    acc = "accepted" /\ winner \in Addrs ~>
       conn = winner \/ tcp[winner] = "broken" \/ \E c \in Addrs : fate[c] = "mute"
=============================================================================
