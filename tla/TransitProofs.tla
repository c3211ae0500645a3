----------------------------- MODULE TransitProofs -----------------------------
(***************************************************************************)
(* The two ends of Transit take the same connection, the one that is       *)
(* chosen stays open, and connectDirect leaves no goroutine behind: for    *)
(* any number of addresses, with or without a relay, and whatever happens  *)
(* to the dials.                                                           *)
(***************************************************************************)
EXTENDS Transit, FiniteSetTheorems, SequenceTheorems, TLAPS

\* The hints can be counted.
LEMMA Counts ==
  /\ IsFiniteSet(Addrs) /\ IsFiniteSet(Relays)
  /\ Cardinality(Addrs) \in Nat /\ Cardinality(Relays) \in Nat
<1>1. Addrs \subseteq Conn /\ Relays \subseteq Conn
  BY DEF Conn
<1>2. IsFiniteSet(Addrs) /\ IsFiniteSet(Relays)
  BY <1>1, HintsAssumption, FS_Subset
<1> QED BY <1>2, FS_CardinalityType

\* A message that is put into a channel, or taken out of one.
LEMMA PutType ==
  ASSUME TypeOK, NEW c \in Conn
  PROVE  /\ \A m \in FromSender : Put(toRecv, c, m) \in [Conn -> Seq(FromSender)]
         /\ \A m \in FromReceiver : Put(toSend, c, m) \in [Conn -> Seq(FromReceiver)]
<1>1. ASSUME NEW S, NEW q \in [Conn -> Seq(S)], NEW m \in S
      PROVE  Put(q, c, m) \in [Conn -> Seq(S)]
  <2>1. Append(q[c], m) \in Seq(S)
    OBVIOUS
  <2> QED BY <2>1 DEF Put
<1>2. toRecv \in [Conn -> Seq(FromSender)] /\ toSend \in [Conn -> Seq(FromReceiver)]
  BY DEF TypeOK
<1> QED BY <1>1, <1>2

LEMMA DropType ==
  ASSUME TypeOK, NEW c \in Conn
  PROVE  /\ toRecv[c] # <<>> => Drop(toRecv, c) \in [Conn -> Seq(FromSender)]
         /\ toSend[c] # <<>> => Drop(toSend, c) \in [Conn -> Seq(FromReceiver)]
<1>1. ASSUME NEW S, NEW q \in [Conn -> Seq(S)], q[c] # <<>>
      PROVE  Drop(q, c) \in [Conn -> Seq(S)]
  <2>1. Tail(q[c]) \in Seq(S)
    BY <1>1, HeadTailProperties
  <2> QED BY <2>1 DEF Drop
<1>2. toRecv \in [Conn -> Seq(FromSender)] /\ toSend \in [Conn -> Seq(FromReceiver)]
  BY DEF TypeOK
<1> QED BY <1>1, <1>2

-----------------------------------------------------------------------------
(* Types.                                                                  *)

\* The initial states.
LEMMA InitType == Init => TypeOK
<1> SUFFICES ASSUME Init PROVE TypeOK
  OBVIOUS
<1>1. Relays \subseteq Conn
  BY DEF Conn
<1>2. fate \in [Conn -> Fate]
  BY FatesAssumption DEF Init
<1>3. left \in 0..Cardinality(Addrs) /\ recv # "relay"
  BY Counts DEF Init
<1>4. toRecv \in [Conn -> Seq(FromSender)] /\ toSend \in [Conn -> Seq(FromReceiver)]
  <2>1. <<>> \in Seq(FromSender) /\ <<>> \in Seq(FromReceiver)
    OBVIOUS
  <2> QED BY <2>1 DEF Init
<1> QED BY <1>1, <1>2, <1>3, <1>4 DEF Init, TypeOK

\* acceptConnection itself.
LEMMA AcceptorType ==
  ASSUME TypeOK, AcceptConnection \/ WriteGo \/ GiveUp \/ \E c \in Conn : Choose(c)
  PROVE  TypeOK'
<1>1. CASE AcceptConnection
  BY <1>1 DEF AcceptConnection, TypeOK, netVars, recvVars
<1>2. CASE WriteGo
  <2>1. toRecv' \in [Conn -> Seq(FromSender)]
    BY <1>2, PutType DEF WriteGo, FromSender, TypeOK
  <2> QED BY <1>2, <2>1 DEF WriteGo, Unlisten, TypeOK, recvVars
<1>3. CASE GiveUp
  BY <1>3 DEF GiveUp, Unlisten, TypeOK, recvVars
<1>4. ASSUME NEW c \in Conn, Choose(c) PROVE TypeOK'
  BY <1>4 DEF Choose, TypeOK, netVars, recvVars
<1> QED BY <1>1, <1>2, <1>3, <1>4

\* The goroutines of a connection at the sender.
LEMMA SenderType ==
  ASSUME TypeOK, NEW c \in Conn, Sender(c)
  PROVE  TypeOK'
<1>1. CASE Accept(c)
  <2>1. toRecv' \in [Conn -> Seq(FromSender)]
    BY <1>1, PutType DEF Accept, Greet, FromSender, TypeOK
  <2> QED BY <1>1, <2>1 DEF Accept, Greet, TypeOK, recvVars
<1>2. CASE RelayPeer(c)
  <2>1. toRecv' \in [Conn -> Seq(FromSender)]
    BY <1>2, PutType DEF RelayPeer, Greet, FromSender, TypeOK
  <2>2. toSend' \in [Conn -> Seq(FromReceiver)]
    BY <1>2, DropType DEF RelayPeer, SenderReads, TypeOK
  <2>3. handler' \in [Conn -> {"off", "paired", "read", "claim", "ready", "won", "done"}]
        /\ closer' \in [Conn -> {"off", "waiting", "done"}] /\ sOpen' \subseteq Conn
    BY <1>2 DEF RelayPeer, Greet, Dismiss, TypeOK
  <2>4. relayCloser' \in {"off", "waiting", "okClosed", "done"}
    BY <1>2 DEF RelayPeer, TypeOK
  <2>5. UNCHANGED <<fate, tcp, rOpen, acc, winner, cancelled, recvVars>>
    BY <1>2 DEF RelayPeer
  <2> QED BY <2>1, <2>2, <2>3, <2>4, <2>5 DEF TypeOK, recvVars
<1>3. CASE ReadHeader(c)
  <2>1. toSend' \in [Conn -> Seq(FromReceiver)]
    BY <1>3, DropType DEF ReadHeader, SenderReads, TypeOK
  <2>2. /\ sOpen' \subseteq Conn
        /\ handler' \in [Conn -> {"off", "paired", "read", "claim", "ready", "won", "done"}]
        /\ closer' \in [Conn -> {"off", "waiting", "done"}]
    BY <1>3 DEF ReadHeader, Dismiss, TypeOK
  <2>3. UNCHANGED <<fate, tcp, rOpen, toRecv, acc, winner, cancelled, relayCloser, recvVars>>
    BY <1>3 DEF ReadHeader
  <2> QED BY <2>1, <2>2, <2>3 DEF TypeOK, recvVars
<1>4. CASE Claim(c)
  <2>1. /\ handler' \in [Conn -> {"off", "paired", "read", "claim", "ready", "won", "done"}]
        /\ closer' \in [Conn -> {"off", "waiting", "done"}]
    BY <1>4 DEF Claim, TypeOK
  <2>2. UNCHANGED <<fate, netVars, acc, winner, cancelled, relayCloser, recvVars>>
    BY <1>4 DEF Claim
  <2> QED BY <2>1, <2>2 DEF TypeOK, netVars, recvVars
<1>5. CASE Nevermind(c)
  <2>1. toRecv' \in [Conn -> Seq(FromSender)]
    BY <1>5, PutType DEF Nevermind, FromSender, TypeOK
  <2> QED BY <1>5, <2>1 DEF Nevermind, TypeOK, recvVars
<1>6. CASE Closer(c)
  BY <1>6 DEF Closer, TypeOK, recvVars
<1>7. CASE RelayCloser(c)
  BY <1>7 DEF RelayCloser, TypeOK, recvVars
<1> QED BY <1>1, <1>2, <1>3, <1>4, <1>5, <1>6, <1>7 DEF Sender

\* A dialer.
LEMMA DialerType ==
  ASSUME TypeOK, NEW c \in Conn, Dialer(c)
  PROVE  TypeOK'
<1>1. CASE Dial(c)
  <2>1. CASE Meets(c)
    <3>1. toRecv' \in [Conn -> Seq(FromSender)]
      BY <2>1, PutType DEF Meets, FromSender, TypeOK
    <3>2. toSend' \in [Conn -> Seq(FromReceiver)]
      BY <2>1, PutType DEF Meets, FromReceiver, TypeOK
    <3>3. /\ tcp' \in [Conn -> {"none", "half", "alone", "up", "stray", "broken"}]
          /\ sOpen' \subseteq Conn /\ rOpen' \subseteq Conn
          /\ dialer' \in [Conn -> {"off", "dial", "paired", "header", "go", "fail", "success", "done"}]
      BY <2>1 DEF Meets, TypeOK
    <3> QED BY <1>1, <3>1, <3>2, <3>3 DEF Dial, TypeOK, sendVars
  <2>2. CASE Strays(c)
    BY <1>1, <2>2 DEF Dial, Strays, TypeOK, sendVars
  <2>3. CASE DialFails(c)
    BY <1>1, <2>3 DEF Dial, DialFails, TypeOK, sendVars, netVars
  <2>4. CASE WaitsAtRelay(c)
    BY <1>1, <2>4 DEF Dial, WaitsAtRelay, TypeOK, sendVars
  <2> QED BY <1>1, <2>1, <2>2, <2>3, <2>4 DEF Dial
<1>2. CASE Read(c)
  <2>1. toRecv' \in [Conn -> Seq(FromSender)]
    BY <1>2, DropType DEF Read, ReceiverReads, TypeOK
  <2>2. toSend' \in [Conn -> Seq(FromReceiver)]
    BY <1>2, PutType DEF Read, FromReceiver, TypeOK
  <2>3. DOMAIN Expected = {"paired", "header", "go"}
    BY DEF Expected
  <2>4. dialer[c] \in {"paired", "header", "go"} => Then[dialer[c]] \in {"header", "go", "success"}
    BY DEF Then
  <2>5. dialer' \in [Conn -> {"off", "dial", "paired", "header", "go", "fail", "success", "done"}]
    BY <1>2, <2>3, <2>4 DEF Read, TypeOK
  <2>6. rOpen' \subseteq Conn
    BY <1>2 DEF Read, TypeOK
  <2>7. UNCHANGED <<fate, tcp, sOpen, sendVars, recv, left, timer, conn>>
    BY <1>2 DEF Read
  <2> QED BY <2>1, <2>2, <2>5, <2>6, <2>7 DEF TypeOK, sendVars
<1> QED BY <1>1, <1>2 DEF Dialer

\* The loops of connectDirect and connectViaRelay.
LEMMA LoopType ==
  ASSUME TypeOK, ConnectDirect \/ Timeout \/ Return \/ \E c \in Conn : Result(c)
  PROVE  TypeOK'
<1>1. CASE ConnectDirect
  BY <1>1, Counts DEF ConnectDirect, Start, TypeOK, netVars, sendVars
<1>2. CASE Timeout
  BY <1>2, Counts DEF Timeout, TypeOK, netVars, sendVars
<1>3. CASE Return
  BY <1>3, Counts DEF Return, Start, TypeOK, netVars, sendVars
<1>4. ASSUME NEW c \in Conn, Result(c) PROVE TypeOK'
  BY <1>4, Counts DEF Result, TypeOK, netVars, sendVars
<1> QED BY <1>1, <1>2, <1>3, <1>4

\* Every step.
LEMMA NextType ==
  ASSUME TypeOK, [Next]_vars
  PROVE  TypeOK'
<1>1. CASE UNCHANGED vars
  BY <1>1 DEF vars, netVars, sendVars, recvVars, TypeOK
<1>2. ASSUME NEW c \in Conn, Break(c) PROVE TypeOK'
  BY <1>2 DEF Break, TypeOK, sendVars, recvVars
<1> QED BY <1>1, <1>2, AcceptorType, SenderType, DialerType, LoopType DEF Next, Goroutines

\* The types of all variables, among them the count of results that connectDirect and
\* connectViaRelay wait for, which never exceeds the addresses they dial.
THEOREM TypeCorrect == Spec => []TypeOK
<1>1. Init => TypeOK
  BY InitType
<1>2. TypeOK /\ [Next]_vars => TypeOK'
  BY NextType
<1> QED BY <1>1, <1>2, PTL DEF Spec

-----------------------------------------------------------------------------
(* The same connection.  The receiver has a result only after it has read  *)
(* "go", and "go" is on the way only to the connection that                *)
(* acceptConnection took, of which there is never more than one.           *)

NoGo == FromSender \ {"go"}

Unchosen == acc \in {"off", "waiting"} => winner = None /\ ~cancelled
GoToWinner == \A c \in Conn : winner # c => toRecv[c] \in Seq(NoGo)
SuccessOfWinner == \A c \in Conn : dialer[c] = "success" => winner = c

SameInv == Unchosen /\ GoToWinner /\ SuccessOfWinner /\ SameConnection

LEMMA UnchosenStep ==
  ASSUME TypeOK, Unchosen, [Next]_vars
  PROVE  Unchosen'
<1>1. CASE AcceptConnection
  BY <1>1 DEF AcceptConnection, Unchosen
<1>2. CASE WriteGo
  BY <1>2 DEF WriteGo, Unchosen
<1>3. CASE GiveUp
  BY <1>3 DEF GiveUp, Unchosen
<1>4. ASSUME NEW c \in Conn, Choose(c) PROVE Unchosen'
  BY <1>4 DEF Choose, Unchosen
<1>5. ASSUME UNCHANGED <<acc, winner, cancelled>> PROVE Unchosen'
  BY <1>5 DEF Unchosen
<1>6. ASSUME NEW c \in Conn, Sender(c) PROVE UNCHANGED <<acc, winner, cancelled>>
  BY <1>6 DEF Sender, Accept, RelayPeer, ReadHeader, Claim, Nevermind, Closer, RelayCloser
<1>7. ASSUME NEW c \in Conn, Dialer(c) \/ Result(c) \/ Break(c)
      PROVE  UNCHANGED <<acc, winner, cancelled>>
  BY <1>7 DEF Dialer, Dial, Read, Result, Break, sendVars
<1>8. ASSUME ConnectDirect \/ Timeout \/ Return \/ UNCHANGED vars
      PROVE  UNCHANGED <<acc, winner, cancelled>>
  BY <1>8 DEF ConnectDirect, Timeout, Return, vars, sendVars
<1> QED BY <1>1, <1>2, <1>3, <1>4, <1>5, <1>6, <1>7, <1>8 DEF Next, Goroutines

\* What a step does to the channels to the receiver: only WriteGo puts a "go" into one.
Quiet(c) == \/ toRecv' = toRecv
            \/ \E m \in NoGo : toRecv' = Put(toRecv, c, m)
            \/ toRecv[c] # <<>> /\ toRecv' = Drop(toRecv, c)

LEMMA QuietKeeps ==
  ASSUME TypeOK, GoToWinner, NEW c \in Conn, Quiet(c), winner' = winner
  PROVE  GoToWinner'
<1> SUFFICES ASSUME NEW d \in Conn, winner # d PROVE toRecv'[d] \in Seq(NoGo)
  BY DEF GoToWinner
<1>1. toRecv[d] \in Seq(NoGo)
  BY DEF GoToWinner
<1>2. CASE toRecv' = toRecv
  BY <1>1, <1>2
<1>3. ASSUME NEW m \in NoGo, toRecv' = Put(toRecv, c, m) PROVE toRecv'[d] \in Seq(NoGo)
  <2>1. Append(toRecv[d], m) \in Seq(NoGo)
    BY <1>1
  <2> QED BY <1>1, <1>3, <2>1 DEF Put, TypeOK
<1>4. CASE toRecv[c] # <<>> /\ toRecv' = Drop(toRecv, c)
  <2>1. toRecv[d] # <<>> => Tail(toRecv[d]) \in Seq(NoGo)
    BY <1>1, HeadTailProperties
  <2> QED BY <1>1, <1>4, <2>1 DEF Drop, TypeOK
<1> QED BY <1>2, <1>3, <1>4 DEF Quiet

LEMMA GoStep ==
  ASSUME TypeOK, Unchosen, GoToWinner, [Next]_vars
  PROVE  GoToWinner'
<1>1. CASE WriteGo
  <2>1. \A d \in Conn : winner # d => toRecv'[d] = toRecv[d]
    BY <1>1 DEF WriteGo, Put, TypeOK
  <2> QED BY <1>1, <2>1 DEF WriteGo, GoToWinner
<1>2. ASSUME NEW c \in Conn, Choose(c) PROVE GoToWinner'
  <2>1. winner = None /\ toRecv' = toRecv
    BY <1>2 DEF Choose, Unchosen, netVars
  <2> QED BY <2>1, HintsAssumption DEF GoToWinner
<1>3. "ok" \in NoGo /\ "header" \in NoGo /\ "nevermind" \in NoGo
  BY DEF NoGo, FromSender
<1>4. ASSUME NEW c \in Conn, Sender(c) PROVE winner' = winner /\ Quiet(c)
  BY <1>3, <1>4 DEF Sender, Accept, RelayPeer, Greet, ReadHeader, Claim, Nevermind, Closer,
                    RelayCloser, Quiet, netVars
<1>5. ASSUME NEW c \in Conn, Dialer(c) PROVE winner' = winner /\ Quiet(c)
  <2>1. CASE Dial(c)
    BY <1>3, <2>1 DEF Dial, Meets, WaitsAtRelay, Strays, DialFails, Quiet, netVars, sendVars
  <2>2. CASE Read(c)
    BY <2>2 DEF Read, ReceiverReads, Quiet, sendVars
  <2> QED BY <1>5, <2>1, <2>2 DEF Dialer
<1>6. ASSUME UNCHANGED <<winner, toRecv>> PROVE GoToWinner'
  BY <1>6 DEF GoToWinner
<1>7. ASSUME NEW c \in Conn, Result(c) \/ Break(c) PROVE UNCHANGED <<winner, toRecv>>
  BY <1>7 DEF Result, Break, netVars, sendVars
<1>8. ASSUME AcceptConnection \/ GiveUp \/ ConnectDirect \/ Timeout \/ Return \/ UNCHANGED vars
      PROVE  UNCHANGED <<winner, toRecv>>
  BY <1>8 DEF AcceptConnection, GiveUp, ConnectDirect, Timeout, Return, vars, netVars, sendVars
<1> QED BY <1>1, <1>2, <1>4, <1>5, <1>6, <1>7, <1>8, QuietKeeps DEF Next, Goroutines

\* The dialers and the result.
LEMMA SuccessStep ==
  ASSUME TypeOK, SameInv, [Next]_vars
  PROVE  SuccessOfWinner' /\ SameConnection'
<1>1. ASSUME NEW c \in Conn, Choose(c) PROVE SuccessOfWinner' /\ SameConnection'
  <2>1. winner = None /\ UNCHANGED <<dialer, conn>>
    BY <1>1 DEF Choose, SameInv, Unchosen, recvVars
  <2> QED BY <2>1, HintsAssumption DEF SameInv, SuccessOfWinner, SameConnection
<1>2. ASSUME NEW c \in Conn, Dialer(c) PROVE SuccessOfWinner' /\ SameConnection'
  <2>1. UNCHANGED <<winner, conn>>
    BY <1>2 DEF Dialer, Dial, Read, sendVars
  <2>2. CASE Dial(c)
    BY <2>1, <2>2 DEF Dial, Meets, WaitsAtRelay, Strays, DialFails, SameInv, SuccessOfWinner, SameConnection,
                      TypeOK
  <2>3. CASE Read(c)
    <3>1. CASE winner = c
      <4>1. \A d \in Conn \ {c} : dialer'[d] = dialer[d]
        BY <2>3 DEF Read, TypeOK
      <4> QED BY <2>1, <3>1, <4>1 DEF SameInv, SuccessOfWinner, SameConnection
    <3>2. CASE winner # c
      <4>1. toRecv[c] # <<>> => Head(toRecv[c]) # "go"
        <5>1. toRecv[c] \in Seq(NoGo)
          BY <3>2 DEF SameInv, GoToWinner
        <5> QED BY <5>1, HeadTailProperties DEF NoGo
      <4>2. dialer'[c] # "success"
        BY <2>3, <4>1 DEF Read, ReceiverReads, Expected, Then, TypeOK
      <4>3. \A d \in Conn \ {c} : dialer'[d] = dialer[d]
        BY <2>3 DEF Read, TypeOK
      <4> QED BY <2>1, <4>2, <4>3 DEF SameInv, SuccessOfWinner, SameConnection
    <3> QED BY <3>1, <3>2
  <2> QED BY <1>2, <2>2, <2>3 DEF Dialer
<1>3. ASSUME NEW c \in Conn, Result(c) PROVE SuccessOfWinner' /\ SameConnection'
  BY <1>3 DEF Result, SameInv, SuccessOfWinner, SameConnection, TypeOK, sendVars
<1>4. ASSUME ConnectDirect \/ Return PROVE SuccessOfWinner' /\ SameConnection'
  BY <1>4 DEF ConnectDirect, Return, Start, SameInv, SuccessOfWinner, SameConnection, sendVars
<1>5. ASSUME UNCHANGED <<winner, dialer, conn>> PROVE SuccessOfWinner' /\ SameConnection'
  BY <1>5 DEF SameInv, SuccessOfWinner, SameConnection
<1>6. ASSUME NEW c \in Conn, Sender(c) PROVE UNCHANGED <<winner, dialer, conn>>
  BY <1>6 DEF Sender, Accept, RelayPeer, ReadHeader, Claim, Nevermind, Closer, RelayCloser,
              recvVars
<1>7. ASSUME NEW c \in Conn, Break(c) PROVE UNCHANGED <<winner, dialer, conn>>
  BY <1>7 DEF Break, sendVars, recvVars
<1>8. ASSUME AcceptConnection \/ WriteGo \/ GiveUp \/ Timeout \/ UNCHANGED vars
      PROVE  UNCHANGED <<winner, dialer, conn>>
  BY <1>8 DEF AcceptConnection, WriteGo, GiveUp, Timeout, vars, sendVars, recvVars
<1> QED BY <1>1, <1>2, <1>3, <1>4, <1>5, <1>6, <1>7, <1>8 DEF Next, Goroutines

\* The sender never takes one connection and the receiver another: connectDirect and
\* connectViaRelay return the connection that acceptConnection took from readyCh.
THEOREM OneConnection == Spec => []SameConnection
<1>1. Init => SameInv
  <2>1. <<>> \in Seq(NoGo)
    OBVIOUS
  <2> QED BY <2>1 DEF Init, SameInv, Unchosen, GoToWinner, SuccessOfWinner, SameConnection
<1>2. TypeOK /\ SameInv /\ [Next]_vars => SameInv'
  BY UnchosenStep, GoStep, SuccessStep DEF SameInv
<1>3. SameInv => SameConnection
  BY DEF SameInv
<1> QED BY <1>1, <1>2, <1>3, TypeCorrect, PTL DEF Spec

-----------------------------------------------------------------------------
(* The chosen connection.  Before cancelCh is closed, the closer of a      *)
(* handler that is ready has gone; afterwards the handlers and closers     *)
(* that are left are those of other connections.                           *)

OpenUntilReady ==
    \A c \in Addrs : /\ handler[c] # "paired"
                     /\ ~cancelled /\ handler[c] \in {"read", "claim", "ready"} => c \in sOpen
                     /\ ~cancelled /\ handler[c] = "ready" => closer[c] = "done"

WinnerSafe ==
    winner \in Addrs => /\ handler[winner] = "won"
                        /\ closer[winner] = "done"
                        /\ winner \in sOpen

KeptInv == Unchosen /\ OpenUntilReady /\ WinnerSafe

\* acceptConnection.
LEMMA AcceptorKeeps ==
  ASSUME TypeOK, KeptInv, AcceptConnection \/ WriteGo \/ GiveUp \/ \E c \in Conn : Choose(c)
  PROVE  OpenUntilReady' /\ WinnerSafe'
<1> USE HintsAssumption DEF KeptInv, Unchosen, OpenUntilReady, WinnerSafe, Conn
<1>1. CASE AcceptConnection
  BY <1>1 DEF AcceptConnection, TypeOK, netVars
<1>2. CASE WriteGo
  BY <1>2 DEF WriteGo, Unlisten, TypeOK
<1>3. CASE GiveUp
  BY <1>3 DEF GiveUp, Unlisten, TypeOK
<1>4. ASSUME NEW c \in Conn, Choose(c) PROVE OpenUntilReady' /\ WinnerSafe'
  BY <1>4 DEF Choose, TypeOK, netVars
<1> QED BY <1>1, <1>2, <1>3, <1>4

\* The goroutines of a connection: none of them is left for the winner.
LEMMA SenderKeeps ==
  ASSUME TypeOK, KeptInv, NEW c \in Conn, Sender(c)
  PROVE  OpenUntilReady' /\ WinnerSafe'
<1> USE HintsAssumption DEF KeptInv, OpenUntilReady, WinnerSafe, Conn
<1>1. CASE Accept(c)
  BY <1>1 DEF Accept, Greet, TypeOK
<1>2. CASE RelayPeer(c)
  BY <1>2, ZenonT(40) DEF RelayPeer, Greet, Dismiss, TypeOK
<1>3. CASE ReadHeader(c)
  <2>1. handler[c] = "read" /\ c \in Conn /\ UNCHANGED <<acc, winner, cancelled>>
    BY <1>3 DEF ReadHeader
  <2>2. CASE handler' = [handler EXCEPT ![c] = "claim"] /\ UNCHANGED <<closer, sOpen>>
    BY <2>1, <2>2 DEF TypeOK
  <2>3. CASE Dismiss(c)
    BY <2>1, <2>3, ZenonT(40) DEF Dismiss, TypeOK
  <2> QED BY <1>3, <2>2, <2>3 DEF ReadHeader
<1>4. CASE Claim(c)
  BY <1>4 DEF Claim, TypeOK, netVars
<1>5. CASE Nevermind(c)
  BY <1>5 DEF Nevermind, TypeOK
<1>6. CASE Closer(c)
  BY <1>6 DEF Closer, TypeOK
<1>7. CASE RelayCloser(c)
  BY <1>7 DEF RelayCloser, TypeOK
<1> QED BY <1>1, <1>2, <1>3, <1>4, <1>5, <1>6, <1>7 DEF Sender

\* The receiver only opens connections at the sender.
LEMMA OthersKeep ==
  ASSUME TypeOK, KeptInv,
         \/ \E c \in Conn : Dialer(c) \/ Result(c) \/ Break(c)
         \/ ConnectDirect \/ Timeout \/ Return
         \/ UNCHANGED vars
  PROVE  OpenUntilReady' /\ WinnerSafe'
<1>1. ASSUME NEW c \in Conn, Dialer(c) PROVE UNCHANGED sendVars /\ sOpen \subseteq sOpen'
  BY <1>1 DEF Dialer, Dial, Meets, WaitsAtRelay, Strays, DialFails, Read, netVars
<1>2. ASSUME NEW c \in Conn, Result(c) \/ Break(c)
      PROVE  UNCHANGED sendVars /\ sOpen \subseteq sOpen'
  BY <1>2 DEF Result, Break, netVars
<1>3. ASSUME ConnectDirect \/ Timeout \/ Return \/ UNCHANGED vars
      PROVE  UNCHANGED sendVars /\ sOpen \subseteq sOpen'
  BY <1>3 DEF ConnectDirect, Timeout, Return, vars, netVars
<1>4. UNCHANGED sendVars /\ sOpen \subseteq sOpen'
  BY <1>1, <1>2, <1>3
<1> QED BY <1>4 DEF KeptInv, OpenUntilReady, WinnerSafe, sendVars

\* The direct connection that acceptConnection has chosen is closed by none of the
\* goroutines that close the others.
THEOREM WinnerStaysOpen == Spec => []WinnerKept
<1>1. Init => KeptInv
  BY HintsAssumption DEF Init, KeptInv, Unchosen, OpenUntilReady, WinnerSafe, Conn
<1>2. TypeOK /\ KeptInv /\ [Next]_vars => KeptInv'
  BY UnchosenStep, AcceptorKeeps, SenderKeeps, OthersKeep DEF KeptInv, Next, Goroutines
<1>3. KeptInv => WinnerKept
  BY DEF KeptInv, WinnerSafe, WinnerKept
<1> QED BY <1>1, <1>2, <1>3, TypeCorrect, PTL DEF Spec

-----------------------------------------------------------------------------
(* connectDirect waits for as many results as there are dialers that have  *)
(* not given theirs, whether its timer fires or not.                       *)

Owing == {c \in Addrs : dialer[c] # "done"}

RelayIdle == recv \in {"off", "direct"} => \A c \in Relays : dialer[c] = "off"
Counted == recv = "direct" => left = Cardinality(Owing)

CountInv == RelayIdle /\ Counted /\ AllConsumed

\* A dialer that goes on still owes its result.
LEMMA DialerCounts ==
  ASSUME TypeOK, CountInv, NEW c \in Conn, Dialer(c)
  PROVE  CountInv'
<1>1. /\ dialer[c] \in {"dial", "paired", "header", "go"}
      /\ dialer'[c] # "done"
      /\ \A d \in Conn \ {c} : dialer'[d] = dialer[d]
      /\ UNCHANGED <<recv, left>>
  <2>1. CASE Dial(c)
    BY <2>1 DEF Dial, Meets, WaitsAtRelay, Strays, DialFails, TypeOK
  <2>2. CASE Read(c)
    BY <2>2 DEF Read, Expected, Then, TypeOK
  <2> QED BY <2>1, <2>2 DEF Dialer
<1>2. Owing' = Owing
  BY <1>1 DEF Owing, Conn
<1>3. c \in Relays => recv \notin {"off", "direct"}
  BY <1>1 DEF CountInv, RelayIdle
<1> QED BY <1>1, <1>2, <1>3, HintsAssumption DEF CountInv, RelayIdle, Counted, AllConsumed, Conn

\* A result is taken from one that owed it.
LEMMA ResultCounts ==
  ASSUME TypeOK, CountInv, NEW c \in Conn, Result(c)
  PROVE  CountInv'
<1>1. /\ dialer[c] \in {"fail", "success"}
      /\ dialer'[c] = "done"
      /\ \A d \in Conn \ {c} : dialer'[d] = dialer[d]
      /\ recv' = recv /\ recv \in {"direct", "relay"}
      /\ left' = left - 1
  BY DEF Result, TypeOK
<1>2. CASE recv = "direct"
  <2>1. c \in Addrs
    BY <1>1, <1>2 DEF CountInv, RelayIdle, Conn
  <2>2. c \in Owing /\ Owing' = Owing \ {c}
    BY <1>1, <2>1 DEF Owing, Conn
  <2>3. IsFiniteSet(Owing)
    BY Counts, FS_Subset DEF Owing
  <2>4. Cardinality(Owing') = Cardinality(Owing) - 1
    BY <2>2, <2>3, FS_RemoveElement
  <2> QED BY <1>1, <1>2, <2>1, <2>4, HintsAssumption
          DEF CountInv, RelayIdle, Counted, AllConsumed, Conn
<1>3. CASE recv = "relay"
  BY <1>1, <1>3 DEF CountInv, RelayIdle, Counted, AllConsumed, Conn
<1> QED BY <1>1, <1>2, <1>3

\* connectDirect, which returns when nobody owes it a result, and connectViaRelay.
LEMMA LoopCounts ==
  ASSUME TypeOK, CountInv, ConnectDirect \/ Timeout \/ Return
  PROVE  CountInv'
<1>1. CASE ConnectDirect
  <2>1. Owing' = Addrs
    BY <1>1 DEF ConnectDirect, Start, Owing, Conn
  <2> QED BY <1>1, <2>1, HintsAssumption
          DEF ConnectDirect, Start, CountInv, RelayIdle, Counted, AllConsumed, Conn
<1>2. CASE Timeout
  <2>1. Owing' = Owing
    BY <1>2 DEF Timeout, Owing
  <2> QED BY <1>2, <2>1 DEF Timeout, CountInv, RelayIdle, Counted, AllConsumed
<1>3. CASE Return
  <2>1. \A c \in Addrs : dialer[c] = "done"
    <3>1. CASE recv = "direct"
      <4>1. IsFiniteSet(Owing) /\ Cardinality(Owing) = 0
        BY <1>3, <3>1, Counts, FS_Subset DEF Return, CountInv, Counted, Owing
      <4>2. Owing = {}
        BY <4>1, FS_EmptySet
      <4> QED BY <4>2 DEF Owing
    <3>2. CASE recv = "relay"
      BY <3>2 DEF CountInv, AllConsumed
    <3> QED BY <1>3, <3>1, <3>2 DEF Return
  <2>2. \A c \in Addrs : dialer'[c] = "done"
    BY <1>3, <2>1, HintsAssumption DEF Return, Start, Conn
  <2>3. recv' \in {"relay", "returned"}
    BY <1>3 DEF Return
  <2> QED BY <2>2, <2>3 DEF CountInv, RelayIdle, Counted, AllConsumed
<1> QED BY <1>1, <1>2, <1>3

\* The sender does not touch any of it.
LEMMA OthersCount ==
  ASSUME CountInv,
         \/ AcceptConnection \/ WriteGo \/ GiveUp
         \/ \E c \in Conn : Sender(c) \/ Choose(c) \/ Break(c)
         \/ UNCHANGED vars
  PROVE  CountInv'
<1>1. UNCHANGED recvVars
  BY DEF AcceptConnection, WriteGo, GiveUp, Sender, Accept, RelayPeer, ReadHeader, Claim,
         Nevermind, Closer, RelayCloser, Choose, Break, vars
<1>2. Owing' = Owing
  BY <1>1 DEF Owing, recvVars
<1> QED BY <1>1, <1>2 DEF CountInv, RelayIdle, Counted, AllConsumed, recvVars

\* When connectDirect has returned, each of its goroutines has given its result: none is
\* left sending to a channel that nobody reads.
THEOREM NobodyLeft == Spec => []AllConsumed
<1>1. Init => CountInv
  BY DEF Init, CountInv, RelayIdle, Counted, AllConsumed, Conn
<1>2. TypeOK /\ CountInv /\ [Next]_vars => CountInv'
  BY DialerCounts, ResultCounts, LoopCounts, OthersCount DEF Next, Goroutines
<1>3. CountInv => AllConsumed
  BY DEF CountInv
<1> QED BY <1>1, <1>2, <1>3, TypeCorrect, PTL DEF Spec
=============================================================================
