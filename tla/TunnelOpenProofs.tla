---------------------------- MODULE TunnelOpenProofs ----------------------------
(***************************************************************************)
(* The life of a connection ID of TunnelSession when one side dials, as in *)
(* a tunnel: OPEN goes ahead of everything else that is sent for the ID,   *)
(* so that each table leads to exactly the open connections, and a record  *)
(* finds its connection unless that is closed or was refused.  With two    *)
(* dialing sides this is false (run session_two_dialers), which is why the *)
(* theorems assume OneDialer.                                              *)
(***************************************************************************)
EXTENDS TunnelSessionProofs, SequenceTheorems

OneDialer == \E d \in Side : Dialers \subseteq {d}
Dialer == CHOOSE d \in Side : Dialers \subseteq {d}
Acceptor == Peer(Dialer)

\* The ends of the connections that the dialing side dials: those with ID i.
Ends == {e \in End : e.origin = Dialer}
Dialed(i) == TheEnd(Dialer, Dialer, i)
Accepted(i) == TheEnd(Acceptor, Dialer, i)

Holds(q, x) == \E k \in 1..Len(q) : q[k] = x
NoTwice(q) == \A j, k \in 1..Len(q) : q[j] = q[k] => j = k

HasEnd(s) == reader[s].at \in {"open", "reject", "remoteClose", "deliver"}
Called(op, e) == call[Req(op, e)] # "idle"

-----------------------------------------------------------------------------
(* What each step does to one variable.                                    *)

\* The two sides.
LEMMA TwoSides ==
  ASSUME OneDialer
  PROVE  /\ Dialer \in Side /\ Acceptor \in Side /\ Dialer # Acceptor
         /\ Dialers \subseteq {Dialer}
         /\ \A s \in Side : s = Dialer \/ s = Acceptor
         /\ Peer(Dialer) = Acceptor /\ Peer(Acceptor) = Dialer
<1>1. Dialer \in Side /\ Dialers \subseteq {Dialer}
  BY DEF OneDialer, Dialer
<1> QED BY <1>1 DEF Acceptor, Peer, Side

\* A request is determined by its operation and its end, an end by its three parts.
LEMMA Parts ==
  /\ \A r \in Request : r = Req(r.op, r.end) /\ r.op \in {"open", "data", "close", "reject"}
  /\ \A e \in End : e = TheEnd(e.side, e.origin, e.id)
  /\ \A s \in Side, o \in Side, i \in Id :
        /\ TheEnd(s, o, i) \in End
        /\ TheEnd(s, o, i).side = s /\ TheEnd(s, o, i).origin = o /\ TheEnd(s, o, i).id = i
BY DEF Request, Req, End, TheEnd

\* A call begins in Dial, handleOpen, Write or conn.Close.
LEMMA CallBegins ==
  ASSUME TypeOK, [Next]_vars, NEW r \in Request, call[r] = "idle", call'[r] # "idle"
  PROVE  \/ \E s \in Side : DialOpen(s) /\ r = Req("open", TheEnd(s, s, nextID[s] + 1))
         \/ \E s \in Side : RefuseOpen(s) /\ r = Req("reject", reader[s].end)
         \/ Write(r.end) /\ r.op = "data"
         \/ Close(r.end) /\ r.op = "close"
<1>1. ASSUME NEW q, Submit(q) PROVE r = q
  BY <1>1 DEF Submit, TypeOK
<1>2. ASSUME NEW q \in Request, Call(q) PROVE FALSE
  BY <1>2 DEF Call, Enqueue, GiveUp, Return, Pending, TypeOK
<1>3. ASSUME NEW s \in Side, WriteLoop(s) PROVE FALSE
  <2>1. CASE RecordWritten(s) \/ WriteFails(s)
    <3>1. PICK ok \in BOOLEAN : Answer(s, ok)
      BY <2>1 DEF RecordWritten, WriteFails
    <3>2. writer[s].req \in Request
      BY <2>1, WriterType DEF RecordWritten, WriteFails
    <3>3. call'[r] = call[r] \/ (call[writer[s].req] = "wait" /\ Return(writer[s].req, ok))
      BY <3>1 DEF Answer
    <3> QED BY <3>2, <3>3 DEF Return, TypeOK
  <2> QED BY <1>3, <2>1 DEF WriteLoop, TakeControl, TakeData, Take, NoControl,
             WriterStops, MoveWriter
<1>4. ASSUME NEW s \in Side, ReadLoop(s) PROVE RefuseOpen(s) /\ r = Req("reject", reader[s].end)
  <2>1. CASE Refusing(s)
    <3>1. Req("reject", reader[s].end) \in Request
      BY <2>1, ReaderType, ReqType DEF Refusing
    <3> QED BY <1>2, <2>1, <3>1 DEF Refusing
  <2> QED BY <1>1, <1>4, <2>1 DEF ReadLoop, Receive, OfferOpen, RefuseOpen, Deliver, RemoteClose,
             ReadFails, ReadLoopEnds
<1>5. ASSUME NEW s \in Side, Serve(s) \/ Shutdown(s)
      PROVE  DialOpen(s) /\ r = Req("open", TheEnd(s, s, nextID[s] + 1))
  BY <1>1, <1>5 DEF Serve, DialCheck, DialOpen, Accept, Shutdown, SessionClose, CloseAll,
                    TransportClose, SessionCloseReturns
<1>6. ASSUME NEW e \in End, Use(e)
      PROVE  (Write(r.end) /\ r.op = "data") \/ (Close(r.end) /\ r.op = "close")
  <2>1. CASE CallsOn(e)
    BY <1>2, <2>1, ReqType DEF CallsOn
  <2>2. CASE Write(e)
    <3>1. r = Req("data", e)
      BY <1>1, <2>2 DEF Write
    <3> QED BY <2>2, <3>1, ReqType
  <2>3. CASE Close(e)
    <3>1. r = Req("close", e)
      BY <1>1, <2>3 DEF Close
    <3> QED BY <2>3, <3>1, ReqType
  <2> QED BY <1>6, <2>1, <2>2, <2>3 DEF Use, Read
<1>7. ASSUME LinkBreaks \/ UNCHANGED vars PROVE FALSE
  BY <1>7 DEF LinkBreaks, vars
<1> QED BY <1>3, <1>4, <1>5, <1>6, <1>7 DEF Next

\* writeLoop takes a request in hand, goes to its other select or returns.
HandStep(s) ==
    \/ TakeControl(s, "first", "second") \/ TakeControl(s, "second", "first")
    \/ TakeData(s) \/ NoControl(s) \/ WriterStops(s)

\* The shutdown up to closeAll and after it, and what breaks.
QuietStep ==
    \/ \E s \in Side : \/ ReadFails(s) \/ ReadLoopEnds(s)
                       \/ SessionClose(s) \/ TransportClose(s) \/ SessionCloseReturns(s)
    \/ LinkBreaks \/ UNCHANGED vars

LEMMA HandFrame ==
  ASSUME NEW s, HandStep(s)
  PROVE  /\ UNCHANGED <<sess, app, linkUp, wire, nextID, checked, readCh, sent, got>>
         /\ UNCHANGED <<conns, reader, backlog, call, closed, held>>
BY DEF HandStep, TakeControl, TakeData, Take, NoControl, WriterStops, MoveWriter, shutVars, dialVars, ioVars

LEMMA QuietFrame ==
  ASSUME QuietStep
  PROVE  /\ UNCHANGED <<ctl, dat, writer, wire, nextID, checked, readCh, sent, got>>
         /\ UNCHANGED <<conns, backlog, call, closed, held>>
BY DEF QuietStep, ReadFails, ReadLoopEnds, SessionClose, TransportClose, SessionCloseReturns,
       LinkBreaks, vars, outVars, dialVars, ioVars

\* The actions, one by one: what Next comes to.
LEMMA Steps ==
  ASSUME TypeOK, [Next]_vars
  PROVE  \/ \E r \in Request : Enqueue(r) \/ GiveUp(r)
         \/ \E s \in Side : HandStep(s) \/ RecordWritten(s) \/ WriteFails(s)
         \/ \E s \in Side : Receive(s) \/ OfferOpen(s) \/ RefuseOpen(s) \/ Deliver(s) \/ RemoteClose(s)
         \/ \E s \in Side : CloseAll(s) \/ DialCheck(s) \/ DialOpen(s) \/ Accept(s)
         \/ \E e \in End : Write(e) \/ Read(e) \/ Close(e)
         \/ QuietStep
<1>1. ASSUME NEW s \in Side, Refusing(s) PROVE \E r \in Request : Enqueue(r) \/ GiveUp(r)
  <2>1. Req("reject", reader[s].end) \in Request
    BY <1>1, ReaderType, ReqType DEF Refusing
  <2> QED BY <1>1, <2>1 DEF Refusing, Call
<1>2. ASSUME NEW e \in End, CallsOn(e) PROVE \E r \in Request : Enqueue(r) \/ GiveUp(r)
  BY <1>2, ReqType DEF CallsOn, Call
<1> QED BY <1>1, <1>2 DEF Next, WriteLoop, ReadLoop, Serve, Shutdown, Use, HandStep, QuietStep

\* What becomes of the call whose record has been written, or not.
LEMMA Answered ==
  ASSUME TypeOK, NEW s \in Side, RecordWritten(s) \/ WriteFails(s)
  PROVE  /\ writer[s].at = "write" /\ writer[s].req \in Request
         /\ writer' = [writer EXCEPT ![s] = [at |-> writer[s].next]]
         /\ writer[s].next \in {"first", "second"}
         /\ \/ UNCHANGED <<call, held, conns, reader>>
            \/ call[writer[s].req] = "wait" /\ RecordWritten(s) /\ Return(writer[s].req, TRUE)
            \/ call[writer[s].req] = "wait" /\ WriteFails(s) /\ Return(writer[s].req, FALSE)
         /\ UNCHANGED <<shutVars, ctl, dat, dialVars, ioVars, backlog, closed>>
BY WriterType DEF RecordWritten, WriteFails, Answer

\* A call that has begun is queued or answered, and does not begin again before that.
LEMMA CallGoesOn ==
  ASSUME TypeOK, [Next]_vars, NEW r \in Request, call'[r] # call[r], call[r] # "idle"
  PROVE  \/ Enqueue(r) /\ call[r] = "enqueue"
         \/ GiveUp(r)
         \/ \E s \in Side : /\ RecordWritten(s) \/ WriteFails(s)
                            /\ r = writer[s].req /\ call[r] = "wait"
         \/ \E s \in Side : DialOpen(s) /\ r = Req("open", TheEnd(s, s, nextID[s] + 1))
         \/ \E s \in Side : RefuseOpen(s) /\ r = Req("reject", reader[s].end)
         \/ Close(r.end) /\ r.op = "close"
<1>1. ASSUME NEW q, Submit(q) PROVE r = q
  BY <1>1 DEF Submit, TypeOK
<1>2. ASSUME NEW q \in Request, Enqueue(q) \/ GiveUp(q) PROVE q = r
  BY <1>2 DEF Enqueue, GiveUp, Return, TypeOK
<1>3. ASSUME NEW s \in Side, RecordWritten(s) \/ WriteFails(s)
      PROVE  r = writer[s].req /\ call[r] = "wait"
  <2>1. \E ok \in BOOLEAN : call[writer[s].req] = "wait" /\ Return(writer[s].req, ok)
    BY <1>3, Answered
  <2>2. \A q, ok : Return(q, ok) => q = r
    BY DEF Return, TypeOK
  <2> QED BY <2>1, <2>2
<1>4. ASSUME NEW e \in End, Write(e) PROVE FALSE
  BY <1>1, <1>4, ReqType DEF Write
<1>5. ASSUME NEW e \in End, Close(e) PROVE e = r.end /\ r.op = "close"
  BY <1>1, <1>5, ReqType DEF Close
<1>6. ASSUME NEW s \in Side, RefuseOpen(s) PROVE r = Req("reject", reader[s].end)
  BY <1>1, <1>6 DEF RefuseOpen
<1>7. ASSUME NEW s \in Side, DialOpen(s) PROVE r = Req("open", TheEnd(s, s, nextID[s] + 1))
  BY <1>1, <1>7 DEF DialOpen
<1>8. ASSUME NEW s \in Side, HandStep(s) \/ QuietStep PROVE FALSE
  BY <1>8, HandFrame, QuietFrame
<1>9. ASSUME NEW s \in Side, \/ Receive(s) \/ OfferOpen(s) \/ Deliver(s) \/ RemoteClose(s)
                             \/ CloseAll(s) \/ DialCheck(s) \/ Accept(s)
      PROVE  FALSE
  BY <1>9 DEF Receive, OfferOpen, Deliver, RemoteClose, CloseAll, DialCheck, Accept
<1>10. ASSUME NEW e \in End, Read(e) PROVE FALSE
  BY <1>10 DEF Read
<1>11. ASSUME NEW q \in Request, Enqueue(q) PROVE call[q] = "enqueue"
  BY <1>11 DEF Enqueue
<1> QED BY Steps, <1>1, <1>2, <1>3, <1>4, <1>5, <1>6, <1>7, <1>8, <1>9, <1>10, <1>11 DEF Side

\* The application gets a connection from Dial or from Accept, and keeps it.
LEMMA HeldGrows ==
  ASSUME TypeOK, [Next]_vars
  PROVE  /\ held \subseteq held'
         /\ \A e \in held' \ held :
               \/ \E s \in Side : Accept(s) /\ e = Head(backlog[s])
               \/ \E s \in Side : /\ RecordWritten(s) /\ writer[s].req = Req("open", e)
                                  /\ call[Req("open", e)] = "wait"
<1>1. ASSUME NEW r \in Request, Enqueue(r) \/ GiveUp(r) PROVE UNCHANGED held
  BY <1>1 DEF Enqueue, GiveUp, Return
<1>2. ASSUME NEW s \in Side, RecordWritten(s) \/ WriteFails(s)
      PROVE  /\ held \subseteq held'
             /\ \A e \in held' \ held : /\ RecordWritten(s) /\ writer[s].req = Req("open", e)
                                        /\ call[Req("open", e)] = "wait"
  BY <1>2, Answered, Parts DEF Return
<1>3. ASSUME NEW s \in Side, Accept(s)
      PROVE  held \subseteq held' /\ \A e \in held' \ held : e = Head(backlog[s])
  BY <1>3 DEF Accept
<1>4. ASSUME NEW s \in Side, HandStep(s) \/ QuietStep PROVE UNCHANGED held
  BY <1>4, HandFrame, QuietFrame
<1> QED BY Steps, <1>1, <1>2, <1>3, <1>4, TwoSides DEF Receive, OfferOpen, RefuseOpen, Deliver, RemoteClose,
      CloseAll, DialCheck, DialOpen, Write, Read, Close, Side

\* What readLoop does with the record it reads.
LEMMA Received ==
  ASSUME TypeOK, NEW s \in Side, Receive(s)
  PROVE  LET q == wire[Peer(s)]
             m == Head(q)
             o == conns[s][m.id]
         IN  /\ reader[s].at = "read" /\ q # <<>> /\ q \in Seq(Message) /\ Peer(s) \in Side
             /\ m \in Message /\ m.id \in Id /\ m = q[1]
             /\ wire' = [wire EXCEPT ![Peer(s)] = Tail(q)]
             /\ \A t \in Side \ {s} : reader'[t] = reader[t]
             /\ \/ /\ m.type = "open" /\ Register(TheEnd(s, Peer(s), m.id))
                   /\ reader'[s] = [at |-> "open", end |-> TheEnd(s, Peer(s), m.id)]
                \/ /\ m.type # "open" /\ o = "none" /\ UNCHANGED <<conns, reader>>
                \/ /\ m.type = "data" /\ o \in Side /\ UNCHANGED conns /\ m.data \in Payload
                   /\ reader'[s] = [at |-> "deliver", end |-> TheEnd(s, o, m.id), data |-> m.data]
                \/ /\ m.type = "close" /\ o \in Side /\ UNCHANGED conns
                   /\ reader'[s] = [at |-> "remoteClose", end |-> TheEnd(s, o, m.id)]
             /\ UNCHANGED <<shutVars, ctl, dat, writer, dialVars, ioVars, backlog, call, closed, held>>
<1> DEFINE q == wire[Peer(s)]
           m == Head(q)
           o == conns[s][m.id]
<1>1. /\ reader[s].at = "read" /\ q # <<>> /\ q \in Seq(Message) /\ Peer(s) \in Side
      /\ wire' = [wire EXCEPT ![Peer(s)] = Tail(@)]
      /\ UNCHANGED <<shutVars, ctl, dat, writer, dialVars, ioVars, backlog, call, closed, held>>
  BY PeerType DEF Receive, TypeOK
<1>2. m \in Message /\ m = q[1]
  BY <1>1, HeadTailProperties
<1>3. m.id \in Id /\ (m.type = "data" => m.data \in Payload)
  BY <1>2 DEF Message
<1>4. o \in Side \cup {"none"}
  BY <1>3, SMTT(30) DEF TypeOK
<1>5. wire' = [wire EXCEPT ![Peer(s)] = Tail(q)]
  BY <1>1
<1>6. \A r : reader' = [reader EXCEPT ![s] = r] => reader'[s] = r /\ \A t \in Side \ {s} : reader'[t] = reader[t]
  BY DEF TypeOK
<1>7. \/ /\ m.type = "open" /\ Register(TheEnd(s, Peer(s), m.id))
         /\ reader' = [reader EXCEPT ![s] = [at |-> "open", end |-> TheEnd(s, Peer(s), m.id)]]
      \/ /\ m.type # "open" /\ o = "none" /\ UNCHANGED <<conns, reader>>
      \/ /\ m.type = "data" /\ o # "none" /\ UNCHANGED conns
         /\ reader' = [reader EXCEPT ![s] = [at |-> "deliver", end |-> TheEnd(s, o, m.id), data |-> m.data]]
      \/ /\ m.type = "close" /\ o # "none" /\ UNCHANGED conns
         /\ reader' = [reader EXCEPT ![s] = [at |-> "remoteClose", end |-> TheEnd(s, o, m.id)]]
  BY Zenon DEF Receive, AtEnd
<1> HIDE DEF q, m, o
<1>8. /\ \A t \in Side \ {s} : reader'[t] = reader[t]
      /\ \/ /\ m.type = "open" /\ Register(TheEnd(s, Peer(s), m.id))
            /\ reader'[s] = [at |-> "open", end |-> TheEnd(s, Peer(s), m.id)]
         \/ /\ m.type # "open" /\ o = "none" /\ UNCHANGED <<conns, reader>>
         \/ /\ m.type = "data" /\ o \in Side /\ UNCHANGED conns
            /\ reader'[s] = [at |-> "deliver", end |-> TheEnd(s, o, m.id), data |-> m.data]
         \/ /\ m.type = "close" /\ o \in Side /\ UNCHANGED conns
            /\ reader'[s] = [at |-> "remoteClose", end |-> TheEnd(s, o, m.id)]
  <2>1. CASE m.type = "open" /\ Register(TheEnd(s, Peer(s), m.id))
             /\ reader' = [reader EXCEPT ![s] = [at |-> "open", end |-> TheEnd(s, Peer(s), m.id)]]
    BY <1>6, <2>1
  <2>2. CASE m.type # "open" /\ o = "none" /\ UNCHANGED <<conns, reader>>
    BY <2>2
  <2>3. CASE m.type = "data" /\ o # "none" /\ UNCHANGED conns
             /\ reader' = [reader EXCEPT ![s] = [at |-> "deliver", end |-> TheEnd(s, o, m.id), data |-> m.data]]
    BY <1>4, <1>6, <2>3
  <2>4. CASE m.type = "close" /\ o # "none" /\ UNCHANGED conns
             /\ reader' = [reader EXCEPT ![s] = [at |-> "remoteClose", end |-> TheEnd(s, o, m.id)]]
    BY <1>4, <1>6, <2>4
  <2> QED BY <1>7, <2>1, <2>2, <2>3, <2>4
<1> QED BY <1>1, <1>2, <1>3, <1>5, <1>8 DEF q, m, o

\* The entry of one connection is stored or deleted.
LEMMA TableMoves ==
  ASSUME TypeOK, NEW f \in End
  PROVE  /\ Register(f) => /\ Registered(f)'
                           /\ \A e \in End : (e.side # f.side \/ e.id # f.id) =>
                                 (Registered(e)' <=> Registered(e))
         /\ Unregister(f) => /\ ~Registered(f)'
                             /\ \A e \in End : Registered(e)' => Registered(e)
                             /\ \A e \in End : (e.side # f.side \/ e.id # f.id) =>
                                 (Registered(e)' <=> Registered(e))
<1>1. f.side \in Side /\ f.id \in Id /\ f.origin \in Side /\ "none" \notin Side
  BY DEF End, Side
<1>2. ASSUME Register(f)
      PROVE  \A t \in Side, i \in Id :
                conns'[t][i] = IF t = f.side /\ i = f.id THEN f.origin ELSE conns[t][i]
  BY <1>1, <1>2 DEF TypeOK, Register
<1>3. ASSUME Unregister(f)
      PROVE  \A t \in Side, i \in Id :
                conns'[t][i] = IF t = f.side /\ i = f.id THEN "none" ELSE conns[t][i]
  BY <1>1, <1>3 DEF TypeOK, Unregister
<1>4. \A e \in End : e.side \in Side /\ e.id \in Id /\ e.origin \in Side
  BY DEF End
<1> QED BY <1>1, <1>2, <1>3, <1>4 DEF Registered

\* A connection enters the table when it is dialed, or when its OPEN is read.
LEMMA Registers ==
  ASSUME TypeOK, TypeOK', [Next]_vars, NEW e \in End, Registered(e)', ~Registered(e)
  PROVE  \/ \E s \in Side : /\ Receive(s) /\ Head(wire[Peer(s)]).type = "open"
                            /\ e = TheEnd(s, Peer(s), Head(wire[Peer(s)]).id)
         \/ \E s \in Side : DialOpen(s) /\ e = TheEnd(s, s, nextID[s] + 1)
<1>1. ASSUME NEW f \in End, Unregister(f) PROVE FALSE
  BY <1>1, TableMoves
<1>2. ASSUME UNCHANGED conns PROVE FALSE
  BY <1>2 DEF Registered
<1>3. ASSUME NEW f \in End, Register(f) PROVE e = f
  <2>1. e.side = f.side /\ e.id = f.id
    BY <1>3, TableMoves
  <2>2. e.origin = f.origin
    BY <1>3, <2>1, TableMoves DEF Registered
  <2> QED BY <2>1, <2>2, Parts
<1>4. ASSUME NEW r \in Request, NEW ok, Return(r, ok) PROVE FALSE
  BY <1>1, <1>2, <1>4, RequestType DEF Return
<1>5. ASSUME NEW r \in Request, Enqueue(r) \/ GiveUp(r) PROVE FALSE
  BY <1>2, <1>4, <1>5 DEF Enqueue, GiveUp
<1>6. ASSUME NEW s \in Side, RecordWritten(s) \/ WriteFails(s) PROVE FALSE
  BY <1>2, <1>4, <1>6, Answered
<1>7. ASSUME NEW s \in Side, Receive(s)
      PROVE  /\ Head(wire[Peer(s)]).type = "open"
             /\ e = TheEnd(s, Peer(s), Head(wire[Peer(s)]).id)
  <2> DEFINE m == Head(wire[Peer(s)])
  <2>1. m.type = "open" /\ Register(TheEnd(s, Peer(s), m.id)) /\ m.id \in Id /\ Peer(s) \in Side
    BY <1>2, <1>7, Received
  <2>2. TheEnd(s, Peer(s), m.id) \in End
    BY <2>1, Parts
  <2> QED BY <2>1, <2>2, <1>3
<1>8. ASSUME NEW s \in Side, RemoteClose(s) PROVE FALSE
  BY <1>1, <1>2, <1>8, ReaderType DEF RemoteClose
<1>9. ASSUME NEW s \in Side, CloseAll(s) PROVE FALSE
  <2>1. e.side \in Side /\ e.id \in Id /\ e.origin \in Side /\ "none" \notin Side
    BY DEF End, Side
  <2>2. conns'[e.side][e.id] \in {"none", conns[e.side][e.id]}
    BY <1>9, <2>1 DEF CloseAll, TypeOK
  <2> QED BY <2>1, <2>2 DEF Registered
<1>10. ASSUME NEW s \in Side, DialOpen(s) PROVE e = TheEnd(s, s, nextID[s] + 1)
  <2> DEFINE f == TheEnd(s, s, nextID[s] + 1)
  <2>1. Register(f) /\ nextID' = [nextID EXCEPT ![s] = nextID[s] + 1]
    BY <1>10 DEF DialOpen
  <2>2. nextID[s] \in 0..MaxDials /\ nextID'[s] = nextID[s] + 1 /\ nextID'[s] \in 0..MaxDials
    BY <2>1 DEF TypeOK
  <2>3. f \in End
    BY <2>2, BoundsAssumption, Parts DEF Id
  <2> HIDE DEF f
  <2>4. e = f
    BY <2>1, <2>3, <1>3
  <2> QED BY <2>4 DEF f
<1>11. ASSUME NEW f \in End, Close(f) PROVE FALSE
  BY <1>1, <1>11 DEF Close
<1>12. ASSUME NEW s \in Side, HandStep(s) \/ QuietStep PROVE FALSE
  BY <1>2, <1>12, HandFrame, QuietFrame
<1>13. ASSUME NEW s \in Side, \/ OfferOpen(s) \/ RefuseOpen(s) \/ Deliver(s)
                              \/ DialCheck(s) \/ Accept(s)
      PROVE  FALSE
  BY <1>2, <1>13 DEF OfferOpen, RefuseOpen, Deliver, DialCheck, Accept
<1>14. ASSUME NEW f \in End, Read(f) \/ Write(f) PROVE FALSE
  BY <1>2, <1>14 DEF Read, Write
<1> QED BY Steps, <1>5, <1>6, <1>7, <1>8, <1>9, <1>10, <1>11, <1>12, <1>13, <1>14 DEF Side

\* readLoop comes to hold a connection by reading a record, or goes on to refuse the one it
\* has just read an OPEN for.
LEMMA ReaderTakes ==
  ASSUME TypeOK, [Next]_vars, NEW s \in Side, HasEnd(s)'
  PROVE  \/ reader'[s] = reader[s]
         \/ /\ RefuseOpen(s) /\ reader[s].at = "open"
            /\ reader'[s] = [at |-> "reject", end |-> reader[s].end]
         \/ Receive(s)
<1>1. ASSUME NEW t \in Side, NEW at \in {"read", "closing", "done"}, At(t, at)
      PROVE  reader'[s] = reader[s]
  BY <1>1 DEF At, TypeOK, HasEnd
<1>2. ASSUME NEW r \in Request, NEW ok, Return(r, ok) PROVE reader'[s] = reader[s]
  BY <1>1, <1>2, RequestType DEF Return
<1>3. ASSUME NEW r \in Request, Enqueue(r) \/ GiveUp(r) PROVE reader'[s] = reader[s]
  BY <1>2, <1>3 DEF Enqueue, GiveUp
<1>4. ASSUME NEW t \in Side, RecordWritten(t) \/ WriteFails(t) PROVE reader'[s] = reader[s]
  BY <1>2, <1>4, Answered
<1>5. ASSUME NEW t \in Side, Receive(t) PROVE t = s \/ reader'[s] = reader[s]
  BY <1>5, Received
<1>6. ASSUME NEW t \in Side, RefuseOpen(t)
      PROVE  \/ reader'[s] = reader[s]
             \/ t = s /\ reader[s].at = "open" /\ reader'[s] = [at |-> "reject", end |-> reader[s].end]
  BY <1>6 DEF RefuseOpen, AtEnd, TypeOK
<1>7. ASSUME NEW t \in Side, OfferOpen(t) \/ Deliver(t) \/ RemoteClose(t)
      PROVE  reader'[s] = reader[s]
  BY <1>1, <1>7 DEF OfferOpen, Deliver, RemoteClose
<1>8. ASSUME NEW t \in Side, HandStep(t) PROVE reader'[s] = reader[s]
  BY <1>8, HandFrame
<1>9. CASE QuietStep
  <2>1. ASSUME NEW t \in Side, ReadFails(t) \/ ReadLoopEnds(t) PROVE reader'[s] = reader[s]
    BY <1>1, <2>1 DEF ReadFails, ReadLoopEnds
  <2> QED BY <1>9, <2>1 DEF QuietStep, SessionClose, TransportClose, SessionCloseReturns,
             LinkBreaks, vars
<1>10. ASSUME NEW t \in Side, CloseAll(t) \/ DialCheck(t) \/ DialOpen(t) \/ Accept(t)
       PROVE  reader'[s] = reader[s]
  BY <1>10 DEF CloseAll, DialCheck, DialOpen, Accept
<1>11. ASSUME NEW e \in End, Write(e) \/ Read(e) \/ Close(e) PROVE reader'[s] = reader[s]
  BY <1>11 DEF Write, Read, Close
<1> QED BY Steps, <1>3, <1>4, <1>5, <1>6, <1>7, <1>8, <1>9, <1>10, <1>11

\* The backlog is filled by readLoop and emptied by Accept, one connection at a time.
LEMMA BacklogMoves ==
  ASSUME TypeOK, [Next]_vars, NEW s \in Side
  PROVE  \/ backlog'[s] = backlog[s]
         \/ /\ OfferOpen(s) /\ reader[s].at = "open" /\ reader'[s].at = "read"
            /\ backlog'[s] = Append(backlog[s], reader[s].end)
         \/ /\ Accept(s) /\ backlog[s] # <<>>
            /\ backlog'[s] = Tail(backlog[s])
<1>1. ASSUME NEW t \in Side, OfferOpen(t)
      PROVE  \/ backlog'[s] = backlog[s]
             \/ /\ t = s /\ reader[s].at = "open" /\ reader'[s].at = "read"
                /\ backlog'[s] = Append(backlog[s], reader[s].end)
  BY <1>1 DEF OfferOpen, At, TypeOK
<1>2. ASSUME NEW t \in Side, Accept(t)
      PROVE  \/ backlog'[s] = backlog[s]
             \/ t = s /\ backlog[s] # <<>> /\ backlog'[s] = Tail(backlog[s])
  BY <1>2 DEF Accept, TypeOK
<1>3. ASSUME NEW r \in Request, Enqueue(r) \/ GiveUp(r) PROVE UNCHANGED backlog
  BY <1>3 DEF Enqueue, GiveUp
<1>4. ASSUME NEW t \in Side, RecordWritten(t) \/ WriteFails(t) PROVE UNCHANGED backlog
  BY <1>4, Answered
<1>5. ASSUME NEW t \in Side, HandStep(t) \/ QuietStep PROVE UNCHANGED backlog
  BY <1>5, HandFrame, QuietFrame
<1>6. ASSUME NEW t \in Side, \/ Receive(t) \/ RefuseOpen(t) \/ Deliver(t) \/ RemoteClose(t)
                             \/ CloseAll(t) \/ DialCheck(t) \/ DialOpen(t)
      PROVE  UNCHANGED backlog
  BY <1>6 DEF Receive, RefuseOpen, Deliver, RemoteClose, CloseAll, DialCheck, DialOpen
<1>7. ASSUME NEW e \in End, Write(e) \/ Read(e) \/ Close(e) PROVE UNCHANGED backlog
  BY <1>7 DEF Write, Read, Close
<1> QED BY Steps, <1>1, <1>2, <1>3, <1>4, <1>5, <1>6, <1>7

\* A connection is closed by its application, by readLoop or by closeAll, and stays closed.
LEMMA ClosedGrows ==
  ASSUME TypeOK, [Next]_vars
  PROVE  /\ closed \subseteq closed'
         /\ \A e \in closed' \ closed :
               \/ Close(e)
               \/ \E s \in Side : RemoteClose(s) /\ reader[s].at = "remoteClose" /\ e = reader[s].end
               \/ \E s \in Side : CloseAll(s) /\ sess[s] = "stopped" /\ e.side = s /\ Registered(e)
<1>1. ASSUME NEW s \in Side, RemoteClose(s)
      PROVE  closed \subseteq closed' /\ \A e \in closed' \ closed : reader[s].at = "remoteClose" /\ e = reader[s].end
  BY <1>1 DEF RemoteClose
<1>2. ASSUME NEW s \in Side, CloseAll(s)
      PROVE  /\ closed \subseteq closed'
             /\ \A e \in closed' \ closed : sess[s] = "stopped" /\ e.side = s /\ Registered(e)
  BY <1>2 DEF CloseAll, Open
<1>3. ASSUME NEW f \in End, Close(f)
      PROVE  closed \subseteq closed' /\ \A e \in closed' \ closed : Close(e)
  BY <1>3 DEF Close
<1> QED BY <1>1, <1>2, <1>3, ClosedMoves

\* Chunks are counted by Write, queued by deliverData and taken by Read.
LEMMA DataMoves ==
  ASSUME TypeOK, [Next]_vars
  PROVE  /\ UNCHANGED sent \/ \E e \in End : Write(e)
         /\ UNCHANGED got \/ \E e \in End : Read(e)
         /\ UNCHANGED readCh \/ (\E e \in End : Read(e)) \/ (\E s \in Side : Deliver(s))
         /\ UNCHANGED <<nextID, checked>> \/ \E s \in Side : DialCheck(s) \/ DialOpen(s)
<1>1. ASSUME NEW r \in Request, Enqueue(r) \/ GiveUp(r)
      PROVE  UNCHANGED <<sent, got, readCh, nextID, checked>>
  BY <1>1 DEF Enqueue, GiveUp, ioVars, dialVars
<1>2. ASSUME NEW s \in Side, RecordWritten(s) \/ WriteFails(s)
      PROVE  UNCHANGED <<sent, got, readCh, nextID, checked>>
  BY <1>2, Answered DEF ioVars, dialVars
<1>3. ASSUME NEW s \in Side, HandStep(s) \/ QuietStep
      PROVE  UNCHANGED <<sent, got, readCh, nextID, checked>>
  BY <1>3, HandFrame, QuietFrame
<1>4. ASSUME NEW s \in Side, \/ Receive(s) \/ OfferOpen(s) \/ RefuseOpen(s) \/ RemoteClose(s)
                             \/ CloseAll(s) \/ Accept(s)
      PROVE  UNCHANGED <<sent, got, readCh, nextID, checked>>
  BY <1>4 DEF Receive, OfferOpen, RefuseOpen, RemoteClose, CloseAll, Accept, ioVars, dialVars
<1>5. ASSUME NEW s \in Side, DialCheck(s) \/ DialOpen(s) PROVE UNCHANGED <<sent, got, readCh>>
  BY <1>5 DEF DialCheck, DialOpen, ioVars
<1>6. ASSUME NEW s \in Side, Deliver(s) PROVE UNCHANGED <<sent, got, nextID, checked>>
  BY <1>6 DEF Deliver, dialVars
<1>7. ASSUME NEW e \in End, Write(e) PROVE UNCHANGED <<got, readCh, nextID, checked>>
  BY <1>7 DEF Write, dialVars
<1>8. ASSUME NEW e \in End, Read(e) PROVE UNCHANGED <<sent, nextID, checked>>
  BY <1>8 DEF Read, dialVars
<1>9. ASSUME NEW e \in End, Close(e) PROVE UNCHANGED <<sent, got, readCh, nextID, checked>>
  BY <1>9 DEF Close, ioVars, dialVars
<1> QED BY Steps, <1>1, <1>2, <1>3, <1>4, <1>5, <1>6, <1>7, <1>8, <1>9, Zenon DEF Side

\* A record is added to the wire of its side at the end, and taken at the head.
LEMMA WireOf ==
  ASSUME TypeOK, [Next]_vars, NEW s \in Side
  PROVE  /\ Len(wire[s]) \in Nat /\ \A k \in 1..Len(wire[s]) : wire[s][k] \in Message
         /\ \/ wire'[s] = wire[s] /\ ~RecordWritten(s)
            \/ /\ RecordWritten(s) /\ writer[s].req \in Request
               /\ Len(wire'[s]) = Len(wire[s]) + 1
               /\ wire'[s][Len(wire[s]) + 1] = Encode(writer[s].req)
               /\ \A k \in 1..Len(wire[s]) : wire'[s][k] = wire[s][k]
            \/ /\ Receive(Peer(s)) /\ ~RecordWritten(s) /\ Len(wire[s]) >= 1 /\ Head(wire[s]) = wire[s][1]
               /\ Len(wire'[s]) = Len(wire[s]) - 1
               /\ \A k \in 1..Len(wire'[s]) : wire'[s][k] = wire[s][k + 1]
<1> DEFINE q == wire[s]
           p == wire'[s]
<1>0. q \in Seq(Message) /\ wire \in [Side -> Seq(Message)] /\ s \in {Peer(t) : t \in Side} /\ Peer(Peer(s)) = s
  BY DEF TypeOK, Peer, Side
<1>1. Len(q) \in Nat /\ \A k \in 1..Len(q) : q[k] \in Message
  BY <1>0, LenProperties
<1>2. ASSUME NEW x, p = Append(q, x)
      PROVE  Len(p) = Len(q) + 1 /\ p[Len(q) + 1] = x /\ \A k \in 1..Len(q) : p[k] = q[k]
  <2>1. q \in Seq(Message \cup {x}) /\ x \in Message \cup {x}
    BY <1>0
  <2> QED BY <1>1, <1>2, <2>1, AppendProperties
<1>3. ASSUME p = Tail(q), q # <<>>
      PROVE  /\ Len(p) = Len(q) - 1 /\ Len(q) >= 1 /\ Head(q) = q[1]
             /\ \A k \in 1..Len(p) : p[k] = q[k + 1]
  BY <1>0, <1>1, <1>3, HeadTailProperties, EmptySeq
<1>4. ASSUME RecordWritten(s)
      PROVE  writer[s].req \in Request /\ p = Append(q, Encode(writer[s].req))
  BY <1>0, <1>4, WriterType DEF RecordWritten
<1>5. ASSUME NEW t \in Side, t # s, RecordWritten(t) PROVE p = q
  BY <1>0, <1>5 DEF RecordWritten
<1>6. ASSUME NEW t \in Side, Receive(t)
      PROVE  (t = Peer(s) /\ p = Tail(q) /\ q # <<>>) \/ p = q
  <2>1. wire[Peer(t)] # <<>> /\ wire' = [wire EXCEPT ![Peer(t)] = Tail(wire[Peer(t)])] /\ Peer(t) \in Side
    BY <1>6, Received
  <2>2. CASE Peer(t) = s
    <3>1. t = Peer(s)
      BY <2>2 DEF Peer, Side
    <3> QED BY <1>0, <2>1, <2>2, <3>1
  <2>3. CASE Peer(t) # s
    BY <1>0, <2>1, <2>3
  <2> QED BY <2>2, <2>3
<1> HIDE DEF p, q
<1>7. \/ p = q
      \/ RecordWritten(s)
      \/ Receive(Peer(s)) /\ p = Tail(q) /\ q # <<>>
  <2>1. CASE UNCHANGED wire
    BY <2>1 DEF p, q
  <2> QED BY <1>5, <1>6, <2>1, WireMoves
<1>8. CASE RecordWritten(s)
  BY <1>1, <1>2, <1>4, <1>8 DEF p, q
<1>9. CASE ~RecordWritten(s)
  BY <1>1, <1>3, <1>7, <1>9 DEF p, q
<1> QED BY <1>8, <1>9

-----------------------------------------------------------------------------
(* The queues.                                                             *)

InHand(s, r) == writer[s].at = "write" /\ writer[s].req = r

\* A request that is queued or in the hand of writeLoop.
Unsent(r) == LET s == r.end.side IN InHand(s, r) \/ Holds(ctl[s], r) \/ Holds(dat[s], r)

\* A request is in one place, of its own side, and its call waits for it or has left.
Queueing ==
    \A s \in Side :
       /\ NoTwice(ctl[s]) /\ NoTwice(dat[s])
       /\ \A r \in Request :
             /\ Holds(ctl[s], r) => r.op # "data"
             /\ Holds(dat[s], r) => r.op = "data"
             /\ InHand(s, r) => ~Holds(ctl[s], r) /\ ~Holds(dat[s], r)
             /\ Holds(ctl[s], r) \/ Holds(dat[s], r) \/ InHand(s, r) =>
                   r.end.side = s /\ call[r] \in {"wait", "done"}

\* What is in a queue when something is added to it, and when its head is taken.
LEMMA QueueHolds ==
  ASSUME NEW S, NEW q \in Seq(S)
  PROVE  /\ \A x \in S : /\ \A y \in S : Holds(Append(q, x), y) <=> Holds(q, y) \/ y = x
                         /\ NoTwice(q) /\ ~Holds(q, x) => NoTwice(Append(q, x))
         /\ q # <<>> => /\ Head(q) \in S /\ Holds(q, Head(q))
                        /\ \A y \in S : Holds(q, y) <=> y = Head(q) \/ Holds(Tail(q), y)
                        /\ NoTwice(q) => NoTwice(Tail(q)) /\ ~Holds(Tail(q), Head(q))
         /\ \A y : Holds(q, y) => y \in S
<1>0. Len(q) \in Nat /\ \A k \in 1..Len(q) : q[k] \in S
  BY LenProperties
<1>1. ASSUME NEW x \in S
      PROVE  /\ \A y \in S : Holds(Append(q, x), y) <=> Holds(q, y) \/ y = x
             /\ NoTwice(q) /\ ~Holds(q, x) => NoTwice(Append(q, x))
  <2> DEFINE p == Append(q, x)
  <2>1. /\ Len(p) = Len(q) + 1 /\ p[Len(q) + 1] = x
        /\ \A k \in 1..Len(q) : p[k] = q[k]
    BY <1>0, AppendProperties
  <2> HIDE DEF p
  <2>2. \A y \in S : Holds(p, y) <=> Holds(q, y) \/ y = x
    BY <1>0, <2>1 DEF Holds
  <2>3. NoTwice(q) /\ ~Holds(q, x) => NoTwice(p)
    BY <1>0, <2>1 DEF Holds, NoTwice
  <2> QED BY <2>2, <2>3 DEF p
<1>2. ASSUME q # <<>>
      PROVE  /\ Head(q) \in S /\ Holds(q, Head(q))
             /\ \A y \in S : Holds(q, y) <=> y = Head(q) \/ Holds(Tail(q), y)
             /\ NoTwice(q) => NoTwice(Tail(q)) /\ ~Holds(Tail(q), Head(q))
  <2> DEFINE p == Tail(q)
             h == Head(q)
  <2>1. /\ Len(p) = Len(q) - 1 /\ h = q[1] /\ h \in S /\ Len(q) >= 1
        /\ \A k \in 1..Len(p) : p[k] = q[k + 1]
    BY <1>0, <1>2, HeadTailProperties, EmptySeq
  <2> HIDE DEF p, h
  <2>2. Holds(q, h)
    BY <1>0, <2>1 DEF Holds
  <2>3. \A y \in S : Holds(p, y) => Holds(q, y)
    BY <1>0, <2>1 DEF Holds
  <2>4. ASSUME NEW y \in S, Holds(q, y), y # h PROVE Holds(p, y)
    <3>1. PICK k \in 1..Len(q) : q[k] = y
      BY <2>4 DEF Holds
    <3>2. k - 1 \in 1..Len(p) /\ p[k - 1] = y
      BY <1>0, <2>1, <2>4, <3>1
    <3> QED BY <3>2 DEF Holds
  <2>5. NoTwice(q) => NoTwice(p)
    BY <1>0, <2>1 DEF NoTwice
  <2>6. NoTwice(q) => ~Holds(p, h)
    BY <1>0, <2>1 DEF NoTwice, Holds
  <2> QED BY <2>1, <2>2, <2>3, <2>4, <2>5, <2>6 DEF p, h
<1> QED BY <1>0, <1>1, <1>2 DEF Holds

\* What a step does to the channels and the hand of writeLoop of one side.
LEMMA QueueMoves ==
  ASSUME TypeOK, [Next]_vars, NEW s \in Side
  PROVE  \/ /\ ctl'[s] = ctl[s] /\ dat'[s] = dat[s]
            /\ \A r : InHand(s, r)' <=> InHand(s, r)
            /\ ~RecordWritten(s) /\ ~WriteFails(s)
         \/ \E r \in Request :
              /\ Enqueue(r) /\ r.end.side = s /\ writer' = writer
              /\ \/ r.op = "data" /\ ctl'[s] = ctl[s] /\ dat'[s] = Append(dat[s], r)
                 \/ r.op # "data" /\ dat'[s] = dat[s] /\ ctl'[s] = Append(ctl[s], r)
         \/ /\ \/ ctl[s] # <<>> /\ ctl'[s] = Tail(ctl[s]) /\ dat'[s] = dat[s]
                  /\ writer'[s].req = Head(ctl[s])
               \/ dat[s] # <<>> /\ dat'[s] = Tail(dat[s]) /\ ctl'[s] = ctl[s]
                  /\ writer'[s].req = Head(dat[s])
            /\ writer'[s].at = "write" /\ writer[s].at # "write" /\ UNCHANGED call
         \/ /\ RecordWritten(s) \/ WriteFails(s)
            /\ ctl'[s] = ctl[s] /\ dat'[s] = dat[s]
            /\ writer[s].at = "write" /\ writer'[s].at # "write"
<1>0. /\ ctl \in [Side -> Seq(Request)] /\ dat \in [Side -> Seq(Request)]
      /\ writer \in [Side -> WriterState]
  BY DEF TypeOK
<1>1. ASSUME NEW t \in Side, RecordWritten(t) \/ WriteFails(t)
      PROVE  /\ ctl'[s] = ctl[s] /\ dat'[s] = dat[s]
             /\ t = s => writer[s].at = "write" /\ writer'[s].at # "write"
             /\ t # s => writer'[s] = writer[s]
             /\ t # s => ~RecordWritten(s) /\ ~WriteFails(s)
  <2>1. /\ ctl' = ctl /\ dat' = dat
        /\ writer[t].at = "write" /\ writer' = [writer EXCEPT ![t] = [at |-> writer[t].next]]
        /\ writer[t].next \in {"first", "second"}
    BY <1>1, Answered
  <2>2. writer'[t] = [at |-> writer[t].next] /\ (t # s => writer'[s] = writer[s])
    BY <1>0, <2>1
  <2>3. ASSUME t # s, RecordWritten(s) \/ WriteFails(s) PROVE FALSE
    <3>1. writer[s].at = "write" /\ writer' = [writer EXCEPT ![s] = [at |-> writer[s].next]]
          /\ writer[s].next \in {"first", "second"}
      BY <2>3, Answered
    <3>2. writer'[s].at # "write"
      BY <3>1, <1>0
    <3> QED BY <2>2, <2>3, <3>1, <3>2
  <2> QED BY <2>1, <2>2, <2>3
<1>2. ASSUME UNCHANGED writer PROVE ~RecordWritten(s) /\ ~WriteFails(s)
  <2>1. ASSUME RecordWritten(s) \/ WriteFails(s) PROVE FALSE
    BY <1>0, <1>1, <1>2, <2>1
  <2> QED BY <2>1
<1>3. ASSUME UNCHANGED <<ctl, dat, writer>>
      PROVE  /\ ctl'[s] = ctl[s] /\ dat'[s] = dat[s]
             /\ \A r : InHand(s, r)' <=> InHand(s, r)
             /\ ~RecordWritten(s) /\ ~WriteFails(s)
  BY <1>2, <1>3 DEF InHand
<1>4. ASSUME NEW r \in Request, Enqueue(r), r.end.side # s PROVE UNCHANGED <<ctl[s], dat[s], writer>>
  BY <1>0, <1>4 DEF Enqueue
<1>5. ASSUME NEW r \in Request, Enqueue(r), r.end.side = s
      PROVE  /\ writer' = writer
             /\ \/ r.op = "data" /\ ctl'[s] = ctl[s] /\ dat'[s] = Append(dat[s], r)
                \/ r.op # "data" /\ dat'[s] = dat[s] /\ ctl'[s] = Append(ctl[s], r)
  BY <1>0, <1>5 DEF Enqueue
<1>6. ASSUME NEW t \in Side, NEW at \in {"first", "second"}, NEW next \in {"first", "second"}, TakeControl(t, at, next)
      PROVE  /\ t # s => UNCHANGED <<ctl[s], dat[s], writer[s]>>
             /\ t = s => /\ ctl[s] # <<>> /\ ctl'[s] = Tail(ctl[s]) /\ dat'[s] = dat[s]
                         /\ writer'[s].req = Head(ctl[s])
                         /\ writer'[s].at = "write" /\ writer[s].at # "write" /\ UNCHANGED call
  BY <1>0, <1>6 DEF TakeControl, Take
<1>7. ASSUME NEW t \in Side, TakeData(t)
      PROVE  /\ t # s => UNCHANGED <<ctl[s], dat[s], writer[s]>>
             /\ t = s => /\ dat[s] # <<>> /\ dat'[s] = Tail(dat[s]) /\ ctl'[s] = ctl[s]
                         /\ writer'[s].req = Head(dat[s])
                         /\ writer'[s].at = "write" /\ writer[s].at # "write" /\ UNCHANGED call
  BY <1>0, <1>7 DEF TakeData, Take
<1>8. ASSUME NEW t \in Side, NoControl(t) \/ WriterStops(t)
      PROVE  /\ UNCHANGED <<ctl, dat>>
             /\ \A r : InHand(s, r)' <=> InHand(s, r)
  <2>1. /\ writer[t].at # "write" /\ UNCHANGED <<ctl, dat>>
        /\ \E at \in {"second", "done"} : writer' = [writer EXCEPT ![t] = [at |-> at]]
    BY <1>8 DEF NoControl, WriterStops, MoveWriter
  <2>2. IF t = s THEN writer'[s].at # "write" ELSE writer'[s] = writer[s]
    BY <1>0, <2>1
  <2> QED BY <2>1, <2>2 DEF InHand
<1>9. ASSUME UNCHANGED <<ctl[s], dat[s], writer[s]>>
      PROVE  /\ \A r : InHand(s, r)' <=> InHand(s, r)
             /\ ~RecordWritten(s) /\ ~WriteFails(s)
  <2>1. ASSUME RecordWritten(s) \/ WriteFails(s) PROVE FALSE
    BY <1>1, <1>9, <2>1
  <2> QED BY <1>9, <2>1 DEF InHand
<1>10. ASSUME NEW t \in Side, NoControl(t) \/ WriterStops(t)
       PROVE  ~RecordWritten(s) /\ ~WriteFails(s)
  <2>1. ASSUME RecordWritten(s) \/ WriteFails(s) PROVE FALSE
    <3>1. writer[s].at = "write" /\ writer'[s].at # "write"
      BY <1>1, <2>1
    <3>2. \E r : InHand(s, r) /\ ~InHand(s, r)'
      BY <3>1 DEF InHand
    <3> QED BY <1>8, <1>10, <3>2
  <2> QED BY <2>1
<1>11. ASSUME NEW r \in Request, GiveUp(r) PROVE UNCHANGED <<ctl, dat, writer>>
  BY <1>11 DEF GiveUp, outVars
<1>12. ASSUME NEW t \in Side, \/ Receive(t) \/ OfferOpen(t) \/ RefuseOpen(t) \/ Deliver(t) \/ RemoteClose(t)
                              \/ CloseAll(t) \/ DialCheck(t) \/ DialOpen(t) \/ Accept(t)
       PROVE  UNCHANGED <<ctl, dat, writer>>
  BY <1>12 DEF Receive, OfferOpen, RefuseOpen, Deliver, RemoteClose, CloseAll, DialCheck, DialOpen,
               Accept, outVars
<1>13. ASSUME NEW e \in End, Write(e) \/ Read(e) \/ Close(e) PROVE UNCHANGED <<ctl, dat, writer>>
  BY <1>13 DEF Write, Read, Close, outVars
<1>14. CASE UNCHANGED <<ctl, dat, writer>>
  BY <1>3, <1>14
<1>15. ASSUME NEW t \in Side, HandStep(t)
       PROVE  \/ \E at, next \in {"first", "second"} : TakeControl(t, at, next)
              \/ TakeData(t) \/ NoControl(t) \/ WriterStops(t)
  BY <1>15 DEF HandStep
<1>16. CASE \E t \in Side : HandStep(t)
  <2>1. CASE \E t \in Side : \E at, next \in {"first", "second"} : TakeControl(t, at, next)
    BY <1>6, <1>9, <2>1
  <2>2. CASE \E t \in Side : TakeData(t)
    BY <1>7, <1>9, <2>2
  <2>3. CASE \E t \in Side : NoControl(t) \/ WriterStops(t)
    BY <1>8, <1>10, <2>3
  <2> QED BY <1>15, <1>16, <2>1, <2>2, <2>3
<1>17. CASE \E r \in Request : Enqueue(r)
  BY <1>4, <1>5, <1>9, <1>17
<1>18. CASE \E t \in Side : RecordWritten(t) \/ WriteFails(t)
  BY <1>1, <1>9, <1>18
<1> QED BY Steps, <1>11, <1>12, <1>13, <1>14, <1>16, <1>17, <1>18, QuietFrame

-----------------------------------------------------------------------------
(* The invariant.                                                          *)

\* One side dials, the other accepts: every connection in use is of that side.
OneSide ==
    /\ OneDialer
    /\ nextID[Acceptor] = 0 /\ checked[Acceptor] = 0
    /\ \A s \in Side, i \in Id : conns[s][i] \in {Dialer, "none"}
    /\ \A r \in Request : call[r] # "idle" => /\ r.end \in Ends
                                              /\ r.op = "open" => r.end.side = Dialer
                                              /\ r.op = "reject" => r.end.side = Acceptor
    /\ closed \subseteq Ends /\ held \subseteq Ends
    /\ \A s \in Side : \A k \in 1..Len(backlog[s]) :
          s = Acceptor /\ backlog[s][k] \in Ends /\ backlog[s][k].side = s
    /\ \A s \in Side : HasEnd(s) => /\ reader[s].end \in Ends /\ reader[s].end.side = s
                                    /\ reader[s].at \in {"open", "reject"} => s = Acceptor
    /\ \A e \in End \ Ends : readCh[e] = <<>> /\ got[e] = <<>>
    /\ \A k \in 1..Len(wire[Acceptor]) : wire[Acceptor][k].type # "open"

\* The side of e has had e in its table, or in its hands.
Known(e) == Registered(e) \/ e \in closed \/ Called("reject", e)
Reading(e) == HasEnd(e.side) /\ reader[e.side].end = e

\* Who has a connection, and what it has called on it.
Holding ==
    \A e \in Ends :
       /\ Registered(e) => e \notin closed
       /\ Called("data", e) \/ Called("close", e) \/ sent[e] > 0 => e \in held
       /\ Called("close", e) => e \in closed
       /\ Called("reject", e) => e \notin held /\ ~Holds(backlog[e.side], e)
       /\ Reading(e) /\ reader[e.side].at = "open" =>
             ~Called("reject", e) /\ e \notin held /\ ~Holds(backlog[e.side], e)
       /\ e.side = Acceptor /\ (e \in held \/ Reading(e) \/ Holds(backlog[e.side], e)) => Known(e)
       /\ e.side = Dialer /\ (Known(e) \/ Reading(e)) => Called("open", e)

OpenAt(i, k) == wire[Dialer][k].type = "open" /\ wire[Dialer][k].id = i
OpenSent(i) == \E k \in 1..Len(wire[Dialer]) : OpenAt(i, k)
ToOpen(i) == LET r == Req("open", Dialed(i)) IN call[r] = "enqueue" \/ Unsent(r)

\* OPEN is sent once, ahead of all else; the accepting side knows the connection when it has
\* read it, and not before; all the while the dialing side knows it, or has stopped.
Opening ==
    \A i \in Id :
       /\ i > nextID[Dialer] => ~Called("open", Dialed(i))
       /\ ~Called("open", Dialed(i)) \/ ToOpen(i) => ~Known(Accepted(i)) /\ ~OpenSent(i)
       /\ OpenSent(i) => ~Known(Accepted(i))
       /\ \A j, k \in 1..Len(wire[Dialer]) : OpenAt(i, j) /\ OpenAt(i, k) => j = k
       /\ \A k \in 1..Len(wire[Dialer]) :
             wire[Dialer][k].id = i => Known(Accepted(i)) \/ \E j \in 1..k : OpenAt(i, j)
       /\ \A k \in 1..Len(wire[Acceptor]) : wire[Acceptor][k].id = i => Known(Accepted(i))
       /\ ToOpen(i) \/ OpenSent(i) \/ Known(Accepted(i)) => Known(Dialed(i)) \/ Stopped(Dialer)
       /\ Dialed(i) \in held => Known(Accepted(i)) \/ OpenSent(i)

OpenInv == TypeOK /\ OneSide /\ Queueing /\ Holding /\ Opening

-----------------------------------------------------------------------------
(* What the invariant says of single steps.                                *)

\* The ends of the two sides, and their requests.
LEMMA SideEnds ==
  ASSUME OneDialer
  PROVE  /\ \A i \in Id : Dialed(i) \in Ends /\ Dialed(i).side = Dialer /\ Dialed(i).id = i
         /\ \A i \in Id : Accepted(i) \in Ends /\ Accepted(i).side = Acceptor /\ Accepted(i).id = i
         /\ \A e \in Ends : e \in End /\ e.id \in Id /\ (e.side = Dialer \/ e.side = Acceptor)
         /\ \A e \in Ends : e.side = Dialer => e = Dialed(e.id)
         /\ \A e \in Ends : e.side = Acceptor => e = Accepted(e.id)
         /\ \A e \in Ends, op \in {"open", "data", "close", "reject"} : Req(op, e) \in Request
<1>1. \A e \in Ends : e \in End /\ e.id \in Id /\ e.side \in Side /\ e.origin = Dialer
  BY DEF Ends, End
<1> QED BY <1>1, TwoSides, Parts, ReqType DEF Ends, Dialed, Accepted

\* A call once begun is never as if it had not been made, but for Write.
LEMMA CalledStays ==
  ASSUME OpenInv, [Next]_vars, NEW e \in Ends, NEW op \in {"open", "close", "reject"}, Called(op, e)
  PROVE  Called(op, e)'
<1>1. Req(op, e) \in Request /\ Req(op, e).op = op
  BY ReqType DEF Ends
<1> QED BY <1>1, StepKept DEF OpenInv, Kept, Called

\* readLoop takes an OPEN on the accepting side, for a connection that nobody knows.
LEMMA OpenIsRead ==
  ASSUME OpenInv, NEW s \in Side, Receive(s), Head(wire[Peer(s)]).type = "open"
  PROVE  LET i == Head(wire[Dialer]).id IN
         /\ s = Acceptor /\ i \in Id /\ OpenAt(i, 1) /\ OpenSent(i)
         /\ wire[Dialer] \in Seq(Message) /\ Len(wire[Dialer]) >= 1
         /\ ~Known(Accepted(i)) /\ TheEnd(s, Peer(s), i) = Accepted(i)
<1> DEFINE q == wire[Peer(s)]
<1>1. /\ q # <<>> /\ q \in Seq(Message) /\ Head(q) = q[1] /\ Head(q).id \in Id /\ Peer(s) \in Side
  BY Received DEF OpenInv
<1>2. Len(q) \in Nat /\ Len(q) >= 1
  BY <1>1, EmptySeq, LenProperties
<1>3. Peer(s) = Dialer /\ s = Acceptor
  <2>1. Peer(s) # Acceptor
    BY <1>1, <1>2 DEF OpenInv, OneSide
  <2> QED BY <1>1, <2>1, TwoSides DEF OpenInv, OneSide
<1>4. OpenAt(Head(q).id, 1) /\ OpenSent(Head(q).id)
  BY <1>1, <1>2, <1>3 DEF OpenAt, OpenSent
<1> QED BY <1>1, <1>2, <1>3, <1>4 DEF OpenInv, Opening, Accepted

\* A Dial takes the next ID, for which no connection has been used.
LEMMA DialIsFresh ==
  ASSUME OpenInv, TypeOK', NEW s \in Side, DialOpen(s)
  PROVE  LET i == nextID[Dialer] + 1 IN
         /\ s = Dialer /\ i \in Id /\ TheEnd(s, s, nextID[s] + 1) = Dialed(i)
         /\ nextID' = [nextID EXCEPT ![Dialer] = i]
         /\ Register(Dialed(i)) /\ Submit(Req("open", Dialed(i)))
         /\ ~Called("open", Dialed(i)) /\ ~Known(Accepted(i)) /\ ~OpenSent(i) /\ ~Known(Dialed(i))
         /\ UNCHANGED <<shutVars, outVars, ioVars, reader, backlog, closed, held>>
<1>1. checked[s] > 0 /\ nextID' = [nextID EXCEPT ![s] = nextID[s] + 1]
  BY DEF DialOpen
<1>2. s = Dialer
  BY <1>1, TwoSides DEF OpenInv, OneSide
<1>3. nextID[s] \in 0..MaxDials /\ nextID'[s] = nextID[s] + 1 /\ nextID'[s] \in 0..MaxDials
  BY <1>1 DEF OpenInv, TypeOK
<1> DEFINE i == nextID[Dialer] + 1
<1>4. i \in Id /\ i > nextID[Dialer]
  BY <1>2, <1>3, BoundsAssumption DEF Id
<1>5. TheEnd(s, s, nextID[s] + 1) = Dialed(i)
  BY <1>2 DEF Dialed
<1>6. Register(Dialed(i)) /\ Submit(Req("open", Dialed(i)))
  BY <1>5 DEF DialOpen
<1> HIDE DEF i
<1>7. ~Called("open", Dialed(i))
  BY <1>4 DEF OpenInv, Opening
<1>8. ~Known(Accepted(i)) /\ ~OpenSent(i)
  BY <1>4, <1>7 DEF OpenInv, Opening
<1>9. ~Known(Dialed(i))
  BY <1>4, <1>7, SideEnds DEF OpenInv, OneSide, Holding
<1>10. UNCHANGED <<shutVars, outVars, ioVars, reader, backlog, closed, held>>
  BY DEF DialOpen
<1> QED BY <1>1, <1>2, <1>4, <1>5, <1>6, <1>7, <1>8, <1>9, <1>10 DEF i

\* A request is unsent from its place in a queue on until its record is written, or not.
LEMMA UnsentMoves ==
  ASSUME OpenInv, [Next]_vars, NEW r \in Request
  PROVE  /\ Unsent(r) => call[r] \in {"wait", "done"}
         /\ Unsent(r)' => Unsent(r) \/ Enqueue(r)
         /\ \A s \in Side : (RecordWritten(s) \/ WriteFails(s)) /\ writer[s].req = r =>
               r.end.side = s /\ Unsent(r) /\ ~Unsent(r)'
<1> DEFINE s == r.end.side
<1>0. /\ s \in Side /\ ctl[s] \in Seq(Request) /\ dat[s] \in Seq(Request)
  BY RequestType DEF OpenInv, TypeOK
<1>1. Unsent(r) => call[r] \in {"wait", "done"}
  BY <1>0 DEF OpenInv, Queueing, Unsent
<1>2. ASSUME NEW q \in Request, Enqueue(q), q.end.side = s,
             \/ ctl'[s] = ctl[s] /\ dat'[s] = Append(dat[s], q)
             \/ dat'[s] = dat[s] /\ ctl'[s] = Append(ctl[s], q),
             writer' = writer, Unsent(r)'
      PROVE  Unsent(r) \/ r = q
  <2>1. /\ Holds(Append(dat[s], q), r) => Holds(dat[s], r) \/ r = q
        /\ Holds(Append(ctl[s], q), r) => Holds(ctl[s], r) \/ r = q
    BY <1>0, QueueHolds
  <2>2. InHand(s, r)' => InHand(s, r)
    BY <1>2 DEF InHand
  <2>3. InHand(s, r)' \/ Holds(ctl'[s], r) \/ Holds(dat'[s], r)
    BY <1>2 DEF Unsent
  <2> QED BY <1>2, <2>1, <2>2, <2>3 DEF Unsent
<1>3. ASSUME Unsent(r)', ~Unsent(r) PROVE Enqueue(r)
  <2>1. InHand(s, r)' \/ Holds(ctl'[s], r) \/ Holds(dat'[s], r)
    BY <1>3 DEF Unsent
  <2>2. ~InHand(s, r) /\ ~Holds(ctl[s], r) /\ ~Holds(dat[s], r)
    BY <1>3 DEF Unsent
  <2>3. CASE \E q \in Request :
              /\ Enqueue(q) /\ q.end.side = s /\ writer' = writer
              /\ \/ q.op = "data" /\ ctl'[s] = ctl[s] /\ dat'[s] = Append(dat[s], q)
                 \/ q.op # "data" /\ dat'[s] = dat[s] /\ ctl'[s] = Append(ctl[s], q)
    BY <1>2, <1>3, <2>3
  <2>4. CASE ctl[s] # <<>> /\ ctl'[s] = Tail(ctl[s]) /\ dat'[s] = dat[s]
                  /\ writer'[s].req = Head(ctl[s])
    BY <1>0, <2>1, <2>2, <2>4, QueueHolds DEF InHand
  <2>5. CASE dat[s] # <<>> /\ dat'[s] = Tail(dat[s]) /\ ctl'[s] = ctl[s]
                  /\ writer'[s].req = Head(dat[s])
    BY <1>0, <2>1, <2>2, <2>5, QueueHolds DEF InHand
  <2>6. CASE /\ ctl'[s] = ctl[s] /\ dat'[s] = dat[s]
             /\ (\A q : InHand(s, q)' <=> InHand(s, q)) \/ writer'[s].at # "write"
    BY <2>1, <2>2, <2>6 DEF InHand
  <2> QED BY <1>0, <2>3, <2>4, <2>5, <2>6, QueueMoves DEF OpenInv
<1>4. ASSUME NEW t \in Side, RecordWritten(t) \/ WriteFails(t), writer[t].req = r
      PROVE  t = s /\ Unsent(r) /\ ~Unsent(r)'
  <2>1. writer[t].at = "write" /\ writer' = [writer EXCEPT ![t] = [at |-> writer[t].next]]
        /\ writer[t].next \in {"first", "second"} /\ ctl' = ctl /\ dat' = dat
    BY <1>4, Answered DEF OpenInv
  <2>2. InHand(t, r)
    BY <1>4, <2>1 DEF InHand
  <2>3. t = s /\ ~Holds(ctl[s], r) /\ ~Holds(dat[s], r)
    BY <1>4, <2>2 DEF OpenInv, Queueing
  <2>4. writer'[s].at # "write"
    BY <2>1, <2>3 DEF OpenInv, TypeOK
  <2>5. ~InHand(s, r)'
    BY <2>4 DEF InHand
  <2> QED BY <2>1, <2>2, <2>3, <2>5 DEF Unsent
<1> QED BY <1>1, <1>3, <1>4

\* A connection leaves the table when it is closed or refused, or when its Dial has failed.
LEMMA Unregisters ==
  ASSUME OpenInv, TypeOK', [Next]_vars, NEW e \in Ends, Registered(e), ~Registered(e)'
  PROVE  \/ e \in closed' \/ Called("reject", e)'
         \/ /\ e.side = Dialer
            /\ Stopped(Dialer) \/ (WriteFails(Dialer) /\ writer[Dialer].req = Req("open", e))
<1>0. e \in End /\ e.origin = Dialer /\ TypeOK /\ OneDialer /\ \A f \in Ends : f \in End /\ f.origin = Dialer
  BY DEF Ends, OpenInv, OneSide
<1>1. ASSUME NEW f \in End, f.origin = Dialer, Register(f) PROVE FALSE
  <2>1. CASE e.side = f.side /\ e.id = f.id
    <3>1. e = f
      BY <1>0, <1>1, <2>1, Parts
    <3> QED BY <1>0, <1>1, <3>1, TableMoves
  <2> QED BY <1>0, <1>1, <2>1, TableMoves
<1>2. ASSUME NEW f \in Ends, Unregister(f) PROVE e = f
  <2>1. e.side = f.side /\ e.id = f.id
    BY <1>0, <1>2, TableMoves
  <2> QED BY <1>0, <2>1, Parts
<1>3. ASSUME UNCHANGED conns PROVE FALSE
  BY <1>3 DEF Registered
<1>4. ASSUME NEW r \in Request, NEW ok, call[r] # "idle", Return(r, ok)
      PROVE  r.end = e /\ (Called("reject", e)' \/ (r = Req("open", e) /\ ~ok /\ e.side = Dialer))
  <2>1. /\ r.op = "reject" \/ (r.op = "open" /\ ~ok)
        /\ r.end \in Ends /\ (r.op = "open" => r.end.side = Dialer)
    BY <1>3, <1>4 DEF Return, OpenInv, OneSide
  <2>2. r.end = e
    BY <1>2, <1>3, <1>4, <2>1 DEF Return
  <2>3. CASE r.op = "open"
    BY <2>1, <2>2, <2>3, Parts
  <2>4. CASE r.op = "reject"
    <3>1. call'[r] = "done"
      BY <1>0, <1>4, <2>4 DEF Return, TypeOK
    <3> QED BY <2>2, <2>4, <3>1, Parts DEF Called
  <2> QED BY <2>1, <2>2, <2>3, <2>4
<1>5. ASSUME NEW r \in Request, Enqueue(r) \/ GiveUp(r)
      PROVE  Called("reject", e)' \/ (e.side = Dialer /\ Stopped(Dialer))
  <2>1. CASE Enqueue(r)
    BY <1>3, <2>1 DEF Enqueue
  <2>2. CASE GiveUp(r)
    <3>1. call[r] # "idle" /\ Return(r, FALSE) /\ Stopped(r.end.side)
      BY <2>2 DEF GiveUp, Pending
    <3> QED BY <1>4, <3>1
  <2> QED BY <1>5, <2>1, <2>2
<1>6. ASSUME NEW s \in Side, RecordWritten(s) \/ WriteFails(s)
      PROVE  Called("reject", e)' \/ (e.side = Dialer /\ s = Dialer /\ WriteFails(s) /\ writer[s].req = Req("open", e))
  <2> DEFINE r == writer[s].req
  <2>1. r \in Request
    BY <1>0, <1>6, Answered
  <2>2. r.end.side = s
    BY <1>6, <2>1, UnsentMoves
  <2>3. PICK ok \in BOOLEAN : call[r] = "wait" /\ Return(r, ok) /\ (~ok => WriteFails(s))
    BY <1>0, <1>3, <1>6, Answered
  <2> HIDE DEF r
  <2>4. r.end = e /\ (Called("reject", e)' \/ (r = Req("open", e) /\ ~ok /\ e.side = Dialer))
    BY <1>4, <2>1, <2>3
  <2> QED BY <2>2, <2>3, <2>4 DEF r
<1>7. ASSUME NEW s \in Side, Receive(s) PROVE FALSE
  <2>1. CASE Head(wire[Peer(s)]).type = "open"
    <3> DEFINE i == Head(wire[Dialer]).id
    <3>1. s = Acceptor /\ i \in Id /\ TheEnd(s, Peer(s), i) = Accepted(i) /\ Peer(s) = Dialer
      BY <1>0, <1>7, <2>1, OpenIsRead, TwoSides
    <3>2. Register(Accepted(i))
      BY <1>0, <1>7, <2>1, <3>1, Received, ZenonT(40)
    <3> QED BY <1>0, <1>1, <3>1, <3>2, SideEnds
  <2>2. CASE Head(wire[Peer(s)]).type # "open"
    BY <1>0, <1>3, <1>7, <2>2, Received
  <2> QED BY <2>1, <2>2
<1>8. ASSUME NEW s \in Side, RemoteClose(s) PROVE e \in closed'
  <2>1. reader[s].end \in Ends
    BY <1>8 DEF RemoteClose, OpenInv, OneSide, HasEnd
  <2> QED BY <1>2, <1>3, <1>8, <2>1 DEF RemoteClose
<1>9. ASSUME NEW s \in Side, CloseAll(s) PROVE e \in closed'
  <2>1. e.side \in Side /\ e.id \in Id
    BY <1>0 DEF End
  <2>2. conns'[e.side][e.id] # conns[e.side][e.id]
    BY <1>0 DEF Registered
  <2>3. s = e.side /\ \E o \in Side : Open(TheEnd(s, o, e.id))
    BY <1>0, <1>9, <2>1, <2>2 DEF CloseAll, TypeOK
  <2>4. PICK o \in Side : Open(TheEnd(s, o, e.id))
    BY <2>3
  <2>5. o = e.origin
    BY <2>1, <2>3, <2>4, Parts DEF Open, Registered
  <2>6. TheEnd(s, o, e.id) = e
    BY <1>0, <2>3, <2>5, Parts
  <2> QED BY <1>0, <1>9, <2>3, <2>4, <2>6 DEF CloseAll
<1>10. ASSUME NEW s \in Side, DialOpen(s) PROVE FALSE
  <2>1. \E f \in Ends : Register(f)
    BY <1>0, <1>10, DialIsFresh, SideEnds
  <2> QED BY <1>0, <1>1, <2>1
<1>11. ASSUME NEW f \in End, Close(f) PROVE e \in closed'
  <2>1. f \in Ends
    BY <1>11 DEF Close, OpenInv, OneSide
  <2> QED BY <1>2, <1>11, <2>1 DEF Close
<1>12. ASSUME NEW s \in Side, HandStep(s) \/ QuietStep PROVE FALSE
  BY <1>3, <1>12, HandFrame, QuietFrame
<1>13. ASSUME NEW s \in Side, \/ OfferOpen(s) \/ RefuseOpen(s) \/ Deliver(s)
                              \/ DialCheck(s) \/ Accept(s)
      PROVE  FALSE
  BY <1>3, <1>13 DEF OfferOpen, RefuseOpen, Deliver, DialCheck, Accept
<1>14. ASSUME NEW f \in End, Read(f) \/ Write(f) PROVE FALSE
  BY <1>3, <1>14 DEF Read, Write
<1> QED BY <1>0, Steps, <1>5, <1>6, <1>7, <1>8, <1>9, <1>10, <1>11, <1>12, <1>13, <1>14 DEF Side

\* The accepting side does not forget a connection, the dialing side only one whose Dial failed.
LEMMA KnownStays ==
  ASSUME OpenInv, TypeOK', [Next]_vars, NEW e \in Ends, Known(e)
  PROVE  \/ Known(e)'
         \/ /\ e.side = Dialer
            /\ Stopped(Dialer) \/ (WriteFails(Dialer) /\ writer[Dialer].req = Req("open", e))
<1>1. Called("reject", e) => Called("reject", e)'
  BY CalledStays
<1>2. e \in closed => e \in closed'
  BY ClosedGrows DEF OpenInv
<1>3. CASE Registered(e)
  <2>1. CASE Registered(e)'
    BY <2>1 DEF Known
  <2>2. CASE ~Registered(e)'
    BY <1>3, <2>2, Unregisters DEF Known
  <2> QED BY <2>1, <2>2
<1> QED BY <1>1, <1>2, <1>3 DEF Known

\* The accepting side learns of a connection only by reading its OPEN.
LEMMA KnownGrows ==
  ASSUME OpenInv, TypeOK', [Next]_vars, NEW i \in Id, Known(Accepted(i))', ~Known(Accepted(i))
  PROVE  Receive(Acceptor) /\ Head(wire[Dialer]).type = "open" /\ Head(wire[Dialer]).id = i
<1> DEFINE f == Accepted(i)
<1>0. /\ f \in Ends /\ f \in End /\ f.side = Acceptor /\ f.id = i /\ OneDialer /\ TypeOK
      /\ Acceptor \in Side /\ Dialer # Acceptor /\ Peer(Acceptor) = Dialer
  BY SideEnds, TwoSides DEF OpenInv, OneSide, Ends
<1>1. ~Registered(f) /\ f \notin closed /\ ~Called("reject", f)
  BY DEF Known
<1>2. f \notin held /\ ~Reading(f)
  BY <1>0 DEF OpenInv, Holding
<1>3. CASE Registered(f)'
  <2>1. \/ \E s \in Side : /\ Receive(s) /\ Head(wire[Peer(s)]).type = "open"
                           /\ f = TheEnd(s, Peer(s), Head(wire[Peer(s)]).id)
        \/ \E s \in Side : DialOpen(s) /\ f = TheEnd(s, s, nextID[s] + 1)
    BY <1>0, <1>1, <1>3, Registers
  <2>2. ASSUME NEW s \in Side, DialOpen(s), f = TheEnd(s, s, nextID[s] + 1) PROVE FALSE
    BY <1>0, <2>2, DialIsFresh, SideEnds
  <2>3. ASSUME NEW s \in Side, Receive(s), Head(wire[Peer(s)]).type = "open",
               f = TheEnd(s, Peer(s), Head(wire[Peer(s)]).id)
        PROVE  s = Acceptor /\ Head(wire[Dialer]).id = i
    BY <1>0, <2>3, OpenIsRead, SideEnds
  <2> QED BY <1>0, <2>1, <2>2, <2>3
<1>4. CASE f \in closed'
  <2>1. ASSUME NEW s \in Side, reader[s].at = "remoteClose", f = reader[s].end PROVE Reading(f)
    BY <2>1, <1>0 DEF OpenInv, OneSide, HasEnd, Reading
  <2> QED BY <1>0, <1>1, <1>2, <1>4, <2>1, ClosedGrows DEF Close
<1>5. CASE Called("reject", f)'
  <2>1. Req("reject", f) \in Request /\ Req("reject", f).op = "reject" /\ Req("reject", f).end = f
    BY <1>0, ReqType
  <2>2. PICK s \in Side : RefuseOpen(s) /\ Req("reject", f) = Req("reject", reader[s].end)
    BY <1>0, <1>1, <1>5, <2>1, CallBegins DEF Called, Req
  <2>3. f = reader[s].end /\ HasEnd(s)
    BY <2>2 DEF Req, RefuseOpen, HasEnd
  <2>4. Reading(f)
    BY <2>3, <1>0 DEF OpenInv, OneSide, Reading
  <2> QED BY <1>2, <2>4
<1> QED BY <1>3, <1>4, <1>5 DEF Known

-----------------------------------------------------------------------------
(* Every step preserves the invariant.                                     *)

\* A call whose request is queued stays with it: it waits, or has left.
LEMMA CallSettled ==
  ASSUME OpenInv, TypeOK', [Next]_vars, NEW r \in Request, call[r] \in {"wait", "done"}
  PROVE  \/ call'[r] \in {"wait", "done"}
         \/ \E s \in Side : RecordWritten(s) /\ writer[s].req = r
<1>0. r = Req(r.op, r.end) /\ r.end \in Ends /\ r.end \in End
  BY Parts, RequestType DEF OpenInv, OneSide
<1>1. ASSUME NEW s \in Side, DialOpen(s), r = Req("open", TheEnd(s, s, nextID[s] + 1)) PROVE FALSE
  BY <1>1, DialIsFresh DEF Called
<1>2. ASSUME NEW s \in Side, RefuseOpen(s), r = Req("reject", reader[s].end) PROVE FALSE
  <2>1. reader[s].at = "open" /\ HasEnd(s)
    BY <1>2 DEF RefuseOpen, HasEnd
  <2>2. reader[s].end \in Ends /\ Reading(reader[s].end) /\ reader[reader[s].end.side].at = "open"
    BY <2>1 DEF OpenInv, OneSide, Reading
  <2> QED BY <1>2, <2>2 DEF OpenInv, Holding, Called
<1>3. ASSUME Close(r.end), r.op = "close" PROVE FALSE
  BY <1>0, <1>3 DEF Close, OpenInv, Holding, Called
<1>4. ASSUME GiveUp(r) PROVE call'[r] = "done"
  BY <1>4 DEF GiveUp, Return, OpenInv, TypeOK
<1>5. ASSUME NEW s \in Side, WriteFails(s), r = writer[s].req, call'[r] # call[r]
      PROVE  call'[r] = "done" \/ RecordWritten(s)
  BY <1>5, Answered, SMTT(30) DEF Return, OpenInv, TypeOK
<1> QED BY <1>1, <1>2, <1>3, <1>4, <1>5, CallGoesOn DEF OpenInv

\* A request is in one place.
LEMMA QueueingStep ==
  ASSUME OpenInv, TypeOK', [Next]_vars
  PROVE  Queueing'
<1> SUFFICES ASSUME NEW s \in Side
             PROVE  /\ NoTwice(ctl'[s]) /\ NoTwice(dat'[s])
                    /\ \A r \in Request :
                          /\ Holds(ctl'[s], r) => r.op # "data"
                          /\ Holds(dat'[s], r) => r.op = "data"
                          /\ InHand(s, r)' => ~Holds(ctl'[s], r) /\ ~Holds(dat'[s], r)
                          /\ Holds(ctl'[s], r) \/ Holds(dat'[s], r) \/ InHand(s, r)' =>
                                r.end.side = s /\ call'[r] \in {"wait", "done"}
  BY DEF Queueing
<1>0. TypeOK /\ ctl[s] \in Seq(Request) /\ dat[s] \in Seq(Request)
  BY DEF OpenInv, TypeOK
<1>1. /\ NoTwice(ctl[s]) /\ NoTwice(dat[s])
      /\ \A r \in Request :
            /\ Holds(ctl[s], r) => r.op # "data"
            /\ Holds(dat[s], r) => r.op = "data"
            /\ InHand(s, r) => ~Holds(ctl[s], r) /\ ~Holds(dat[s], r)
            /\ Holds(ctl[s], r) \/ Holds(dat[s], r) \/ InHand(s, r) =>
                  r.end.side = s /\ call[r] \in {"wait", "done"}
  BY DEF OpenInv, Queueing
<1>2. ASSUME NEW r \in Request, Holds(ctl[s], r) \/ Holds(dat[s], r) \/ InHand(s, r)
      PROVE  \/ call'[r] \in {"wait", "done"}
             \/ RecordWritten(s) /\ writer[s].req = r
  BY <1>1, <1>2, CallSettled, UnsentMoves
<1>3. CASE /\ ctl'[s] = ctl[s] /\ dat'[s] = dat[s]
           /\ \A r : InHand(s, r)' <=> InHand(s, r)
           /\ ~RecordWritten(s) /\ ~WriteFails(s)
  BY <1>1, <1>2, <1>3
<1>4. ASSUME NEW q \in Request, Enqueue(q), q.end.side = s, writer' = writer,
             \/ q.op = "data" /\ ctl'[s] = ctl[s] /\ dat'[s] = Append(dat[s], q)
             \/ q.op # "data" /\ dat'[s] = dat[s] /\ ctl'[s] = Append(ctl[s], q)
      PROVE  /\ NoTwice(ctl'[s]) /\ NoTwice(dat'[s])
             /\ \A r \in Request :
                   /\ Holds(ctl'[s], r) => r.op # "data"
                   /\ Holds(dat'[s], r) => r.op = "data"
                   /\ InHand(s, r)' => ~Holds(ctl'[s], r) /\ ~Holds(dat'[s], r)
                   /\ Holds(ctl'[s], r) \/ Holds(dat'[s], r) \/ InHand(s, r)' =>
                         r.end.side = s /\ call'[r] \in {"wait", "done"}
  <2>1. call[q] = "enqueue" /\ call' = [call EXCEPT ![q] = "wait"]
    BY <1>4 DEF Enqueue
  <2>2. ~Holds(ctl[s], q) /\ ~Holds(dat[s], q) /\ ~InHand(s, q)
    BY <1>1, <2>1
  <2>3. call'[q] = "wait" /\ \A r \in Request : call'[r] = call[r] \/ r = q
    BY <1>0, <2>1 DEF TypeOK
  <2>4. \A r : InHand(s, r)' <=> InHand(s, r)
    BY <1>4 DEF InHand
  <2>5. CASE q.op = "data" /\ ctl'[s] = ctl[s] /\ dat'[s] = Append(dat[s], q)
    <3>1. NoTwice(dat'[s]) /\ \A r \in Request : Holds(dat'[s], r) <=> Holds(dat[s], r) \/ r = q
      BY <1>0, <1>1, <2>2, <2>5, QueueHolds
    <3> QED BY <1>1, <1>4, <2>2, <2>3, <2>4, <2>5, <3>1
  <2>6. CASE q.op # "data" /\ dat'[s] = dat[s] /\ ctl'[s] = Append(ctl[s], q)
    <3>1. NoTwice(ctl'[s]) /\ \A r \in Request : Holds(ctl'[s], r) <=> Holds(ctl[s], r) \/ r = q
      BY <1>0, <1>1, <2>2, <2>6, QueueHolds
    <3> QED BY <1>1, <1>4, <2>2, <2>3, <2>4, <2>6, <3>1
  <2> QED BY <1>4, <2>5, <2>6
<1>5. CASE /\ ctl[s] # <<>> /\ ctl'[s] = Tail(ctl[s]) /\ dat'[s] = dat[s]
           /\ writer'[s].req = Head(ctl[s])
           /\ writer'[s].at = "write" /\ writer[s].at # "write" /\ UNCHANGED call
  <2> DEFINE h == Head(ctl[s])
  <2>1. /\ h \in Request /\ Holds(ctl[s], h) /\ NoTwice(ctl'[s]) /\ ~Holds(ctl'[s], h)
        /\ \A r \in Request : Holds(ctl[s], r) <=> r = h \/ Holds(ctl'[s], r)
    BY <1>0, <1>1, <1>5, QueueHolds
  <2>2. \A r : InHand(s, r)' <=> r = h
    BY <1>5 DEF InHand
  <2> HIDE DEF h
  <2> QED BY <1>1, <1>5, <2>1, <2>2
<1>6. CASE /\ dat[s] # <<>> /\ dat'[s] = Tail(dat[s]) /\ ctl'[s] = ctl[s]
           /\ writer'[s].req = Head(dat[s])
           /\ writer'[s].at = "write" /\ writer[s].at # "write" /\ UNCHANGED call
  <2> DEFINE h == Head(dat[s])
  <2>1. /\ h \in Request /\ Holds(dat[s], h) /\ NoTwice(dat'[s]) /\ ~Holds(dat'[s], h)
        /\ \A r \in Request : Holds(dat[s], r) <=> r = h \/ Holds(dat'[s], r)
    BY <1>0, <1>1, <1>6, QueueHolds
  <2>2. \A r : InHand(s, r)' <=> r = h
    BY <1>6 DEF InHand
  <2> HIDE DEF h
  <2> QED BY <1>1, <1>6, <2>1, <2>2
<1>7. CASE /\ RecordWritten(s) \/ WriteFails(s)
           /\ ctl'[s] = ctl[s] /\ dat'[s] = dat[s]
           /\ writer[s].at = "write" /\ writer'[s].at # "write"
  <2>1. \A r : ~InHand(s, r)'
    BY <1>7 DEF InHand
  <2>2. InHand(s, writer[s].req) /\ writer[s].req \in Request
    BY <1>0, <1>7, Answered DEF InHand
  <2> QED BY <1>1, <1>2, <1>7, <2>1, <2>2
<1> QED BY <1>0, <1>3, <1>4, <1>5, <1>6, <1>7, QueueMoves

\* One side dials.
LEMMA OneSideStep ==
  ASSUME OpenInv, TypeOK', [Next]_vars
  PROVE  OneSide'
<1>0. /\ TypeOK /\ OneSide /\ OneDialer /\ Dialer \in Side /\ Acceptor \in Side /\ Dialer # Acceptor
      /\ \A e \in Ends : e \in End /\ e.origin = Dialer /\ e.side \in Side
  BY TwoSides DEF OpenInv, OneSide, Ends, End
<1>1. nextID'[Acceptor] = 0 /\ checked'[Acceptor] = 0
  <2>1. ASSUME NEW s \in Side, DialCheck(s) PROVE s = Dialer /\ UNCHANGED nextID
        /\ checked' = [checked EXCEPT ![s] = @ + 1]
    BY <1>0, <2>1, TwoSides DEF DialCheck
  <2>2. ASSUME NEW s \in Side, DialOpen(s) PROVE s = Dialer
        /\ nextID' = [nextID EXCEPT ![s] = @ + 1] /\ checked' = [checked EXCEPT ![s] = @ - 1]
    BY <2>2, DialIsFresh DEF DialOpen
  <2>3. CASE UNCHANGED <<nextID, checked>>
    BY <1>0, <2>3 DEF OneSide
  <2>4. CASE \E s \in Side : DialCheck(s)
    BY <1>0, <2>1, <2>4 DEF OneSide, TypeOK
  <2>5. CASE \E s \in Side : DialOpen(s)
    BY <1>0, <2>2, <2>5, SMTT(30) DEF OneSide, TypeOK
  <2> QED BY <1>0, <2>3, <2>4, <2>5, DataMoves
<1>2. ASSUME NEW s \in Side, NEW i \in Id PROVE conns'[s][i] \in {Dialer, "none"}
  <2> DEFINE e == TheEnd(s, conns'[s][i], i)
  <2>1. conns'[s][i] \in Side \cup {"none"} /\ conns[s][i] \in {Dialer, "none"}
    BY <1>0 DEF TypeOK, OneSide
  <2>2. CASE conns'[s][i] \in Side
    <3>1. e \in End /\ e.origin = conns'[s][i] /\ e.side = s /\ e.id = i
      BY <2>2, Parts
    <3>2. PICK f \in End : f = e
      BY <3>1
    <3>3. Registered(f)'
      BY <3>1, <3>2 DEF Registered
    <3>4. CASE Registered(f)
      BY <2>1, <2>2, <3>1, <3>2, <3>4 DEF Registered, Side
    <3>5. CASE ~Registered(f)
      <4>1. \/ \E t \in Side : /\ Receive(t) /\ Head(wire[Peer(t)]).type = "open"
                               /\ f = TheEnd(t, Peer(t), Head(wire[Peer(t)]).id)
            \/ \E t \in Side : DialOpen(t) /\ f = TheEnd(t, t, nextID[t] + 1)
        BY <1>0, <3>3, <3>5, Registers
      <4>2. ASSUME NEW t \in Side, DialOpen(t), f = TheEnd(t, t, nextID[t] + 1) PROVE f.origin = Dialer
        BY <4>2, DialIsFresh, SideEnds, <1>0
      <4>3. ASSUME NEW t \in Side, Receive(t), Head(wire[Peer(t)]).type = "open",
                   f = TheEnd(t, Peer(t), Head(wire[Peer(t)]).id)
            PROVE  f.origin = Dialer
        <5>1. t = Acceptor /\ Peer(t) = Dialer
          BY <4>3, OpenIsRead, TwoSides, <1>0
        <5> QED BY <4>3, <5>1 DEF TheEnd
      <4> QED BY <3>1, <3>2, <4>1, <4>2, <4>3
    <3> QED BY <3>4, <3>5
  <2> QED BY <2>1, <2>2
<1>3. ASSUME NEW r \in Request, call'[r] # "idle"
      PROVE  /\ r.end \in Ends
             /\ r.op = "open" => r.end.side = Dialer
             /\ r.op = "reject" => r.end.side = Acceptor
  <2>1. CASE call[r] # "idle"
    BY <1>0, <2>1 DEF OneSide
  <2>2. CASE call[r] = "idle"
    <3>1. ASSUME NEW s \in Side, DialOpen(s), r = Req("open", TheEnd(s, s, nextID[s] + 1))
          PROVE  r.end \in Ends /\ r.end.side = Dialer /\ r.op = "open"
      <4>1. r = Req("open", Dialed(nextID[Dialer] + 1)) /\ nextID[Dialer] + 1 \in Id
        BY <3>1, DialIsFresh
      <4> QED BY <4>1, <1>0, SideEnds, ReqType
    <3>2. ASSUME NEW s \in Side, RefuseOpen(s), r = Req("reject", reader[s].end)
          PROVE  r.end \in Ends /\ r.end.side = Acceptor /\ r.op = "reject"
      <4>1. reader[s].end \in Ends /\ reader[s].end.side = Acceptor
        BY <1>0, <3>2 DEF RefuseOpen, OneSide, HasEnd
      <4> QED BY <1>0, <3>2, <4>1, ReqType
    <3>3. ASSUME Write(r.end) \/ Close(r.end) PROVE r.end \in Ends
      BY <1>0, <3>3 DEF Write, Close, OneSide
    <3> QED BY <1>0, <1>3, <2>2, <3>1, <3>2, <3>3, CallBegins
  <2> QED BY <2>1, <2>2
<1>4. held' \subseteq Ends
  <2>1. ASSUME NEW s \in Side, Accept(s) PROVE Head(backlog[s]) \in Ends
    <3>1. backlog[s] \in Seq(End) /\ backlog[s] # <<>>
      BY <1>0, <2>1 DEF Accept, TypeOK
    <3>2. Head(backlog[s]) = backlog[s][1] /\ 1 \in 1..Len(backlog[s])
      BY <3>1, HeadTailProperties, EmptySeq, LenProperties
    <3> QED BY <3>2, <1>0 DEF OneSide
  <2>2. ASSUME NEW e \in held', call[Req("open", e)] = "wait" PROVE e \in Ends
    <3>1. Req("open", e) \in Request /\ Req("open", e).end = e
      BY ReqType DEF TypeOK
    <3> QED BY <1>0, <2>2, <3>1 DEF OneSide
  <2> QED BY <1>0, <2>1, <2>2, HeldGrows DEF OneSide
<1>5. closed' \subseteq Ends
  <2>1. ASSUME NEW e \in closed', Registered(e) PROVE e \in Ends
    <3>1. e \in End /\ e.side \in Side /\ e.id \in Id /\ e.origin \in Side
      BY DEF TypeOK, End
    <3> QED BY <1>0, <2>1, <3>1 DEF Registered, OneSide, Ends, Side
  <2>2. ASSUME NEW s \in Side, reader[s].at = "remoteClose" PROVE reader[s].end \in Ends
    BY <1>0, <2>2 DEF OneSide, HasEnd
  <2>3. ASSUME NEW e \in closed', Close(e) PROVE e \in Ends
    BY <1>0, <2>3 DEF Close, OneSide
  <2> QED BY <1>0, <2>1, <2>2, <2>3, ClosedGrows DEF OneSide
<1>6. ASSUME NEW s \in Side, NEW k \in 1..Len(backlog'[s])
      PROVE  s = Acceptor /\ backlog'[s][k] \in Ends /\ backlog'[s][k].side = s
  <2>1. /\ backlog[s] \in Seq(End) /\ Len(backlog[s]) \in Nat
        /\ \A j \in 1..Len(backlog[s]) :
              s = Acceptor /\ backlog[s][j] \in Ends /\ backlog[s][j].side = s
    BY <1>0, LenProperties DEF OneSide, TypeOK
  <2>2. CASE backlog'[s] = backlog[s]
    BY <2>1, <2>2
  <2>3. CASE OfferOpen(s) /\ reader[s].at = "open" /\ backlog'[s] = Append(backlog[s], reader[s].end)
    <3>1. s = Acceptor /\ reader[s].end \in Ends /\ reader[s].end.side = s /\ reader[s].end \in End
      BY <1>0, <2>3 DEF OneSide, HasEnd
    <3>2. (backlog'[s][k] = backlog[s][k] /\ k \in 1..Len(backlog[s])) \/ backlog'[s][k] = reader[s].end
      BY <2>1, <2>3, <3>1, AppendProperties
    <3> QED BY <2>1, <3>1, <3>2
  <2>4. CASE backlog[s] # <<>> /\ backlog'[s] = Tail(backlog[s])
    <3>1. backlog'[s][k] = backlog[s][k + 1] /\ k + 1 \in 1..Len(backlog[s])
      BY <2>1, <2>4, HeadTailProperties, EmptySeq
    <3> QED BY <2>1, <3>1
  <2> QED BY <1>0, <2>2, <2>3, <2>4, BacklogMoves
<1>7. ASSUME NEW s \in Side, HasEnd(s)'
      PROVE  /\ reader'[s].end \in Ends /\ reader'[s].end.side = s
             /\ reader'[s].at \in {"open", "reject"} => s = Acceptor
  <2>1. CASE reader'[s] = reader[s]
    BY <1>0, <1>7, <2>1 DEF OneSide, HasEnd
  <2>2. CASE RefuseOpen(s) /\ reader[s].at = "open" /\ reader'[s] = [at |-> "reject", end |-> reader[s].end]
    BY <1>0, <2>2 DEF OneSide, HasEnd
  <2>3. CASE Receive(s)
    <3> DEFINE m == Head(wire[Peer(s)])
               o == conns[s][m.id]
    <3>1. CASE m.type = "open"
      <4>1. s = Acceptor /\ m.id \in Id /\ TheEnd(s, Peer(s), m.id) = Accepted(m.id)
        BY <1>0, <2>3, <3>1, OpenIsRead, TwoSides
      <4>2. reader'[s] = [at |-> "open", end |-> TheEnd(s, Peer(s), m.id)]
        BY <1>0, <2>3, <3>1, Received, Zenon
      <4>3. reader'[s].end = Accepted(m.id)
        BY <4>1, <4>2
      <4> QED BY <1>0, <4>1, <4>3, SideEnds
    <3>2. CASE m.type # "open" /\ reader'[s] # reader[s]
      <4>0. /\ m.id \in Id /\ o \in Side
            /\ \/ reader'[s] = [at |-> "deliver", end |-> TheEnd(s, o, m.id), data |-> m.data]
               \/ reader'[s] = [at |-> "remoteClose", end |-> TheEnd(s, o, m.id)]
        BY <1>0, <2>3, <3>2, Received, Zenon
      <4>1. reader'[s].end = TheEnd(s, o, m.id) /\ reader'[s].at \notin {"open", "reject"}
        BY <4>0
      <4>2. o = Dialer
        BY <1>0, <4>0 DEF OneSide, Side
      <4>3. TheEnd(s, o, m.id) \in Ends /\ TheEnd(s, o, m.id).side = s
        BY <1>0, <4>0, <4>2, Parts DEF Ends
      <4> QED BY <4>1, <4>3
    <3> QED BY <2>1, <3>1, <3>2
  <2> QED BY <1>0, <1>7, <2>1, <2>2, <2>3, ReaderTakes
<1>8. ASSUME NEW e \in End \ Ends PROVE readCh'[e] = <<>> /\ got'[e] = <<>>
  <2>1. readCh[e] = <<>> /\ got[e] = <<>>
    BY <1>0 DEF OneSide
  <2>2. ASSUME NEW f \in End, Read(f) PROVE readCh'[e] = readCh[e] /\ got'[e] = got[e]
    <3>1. f \in Ends
      BY <1>0, <2>2 DEF Read, OneSide
    <3> QED BY <1>0, <2>2, <3>1 DEF Read, TypeOK
  <2>3. ASSUME NEW s \in Side, Deliver(s) PROVE readCh'[e] = readCh[e] /\ got'[e] = got[e]
    <3>1. reader[s].end \in Ends
      BY <1>0, <2>3 DEF Deliver, OneSide, HasEnd
    <3> QED BY <1>0, <2>3, <3>1 DEF Deliver, TypeOK
  <2> QED BY <1>0, <2>1, <2>2, <2>3, DataMoves
<1>9. ASSUME NEW k \in 1..Len(wire'[Acceptor]) PROVE wire'[Acceptor][k].type # "open"
  <2> DEFINE q == wire[Acceptor]
             r == writer[Acceptor].req
  <2>1. \A j \in 1..Len(q) : q[j].type # "open"
    BY <1>0 DEF OneSide
  <2>2. ASSUME RecordWritten(Acceptor), r \in Request PROVE Encode(r).type # "open"
    <3>1. r.end.side = Acceptor /\ call[r] \in {"wait", "done"}
      BY <1>0, <2>2, UnsentMoves
    <3>2. r.op # "open"
      BY <1>0, <2>2, <3>1 DEF OneSide
    <3> QED BY <2>2, <3>2 DEF Encode, Request
  <2>3. Len(q) \in Nat
    BY <1>0, WireOf
  <2>4. CASE wire'[Acceptor] = q
    BY <2>1, <2>4
  <2>5. CASE /\ RecordWritten(Acceptor) /\ r \in Request
             /\ Len(wire'[Acceptor]) = Len(q) + 1
             /\ wire'[Acceptor][Len(q) + 1] = Encode(r)
             /\ \A j \in 1..Len(q) : wire'[Acceptor][j] = q[j]
    <3>1. k \in 1..Len(q) \/ k = Len(q) + 1
      BY <2>3, <2>5
    <3> QED BY <2>1, <2>2, <2>5, <3>1
  <2>6. CASE /\ Len(wire'[Acceptor]) = Len(q) - 1
             /\ \A j \in 1..Len(wire'[Acceptor]) : wire'[Acceptor][j] = q[j + 1]
    <3>1. k + 1 \in 1..Len(q) /\ wire'[Acceptor][k] = q[k + 1]
      BY <2>3, <2>6
    <3> QED BY <2>1, <3>1
  <2> QED BY <1>0, <2>4, <2>5, <2>6, WireOf
<1> QED BY <1>0, <1>1, <1>2, <1>3, <1>4, <1>5, <1>6, <1>7, <1>8, <1>9 DEF OneSide, HasEnd

\* Accept hands out a connection of the backlog, and Dial the one it has opened.
LEMMA HeldFrom ==
  ASSUME OpenInv, [Next]_vars, NEW e \in Ends, e \in held', e \notin held
  PROVE  \/ e.side = Acceptor /\ Holds(backlog[e.side], e)
         \/ /\ e.side = Dialer /\ RecordWritten(Dialer) /\ writer[Dialer].req = Req("open", e)
            /\ call[Req("open", e)] = "wait"
<1>0. TypeOK /\ OneSide /\ OneDialer /\ e \in End
  BY DEF OpenInv, OneSide, Ends
<1>1. ASSUME NEW s \in Side, Accept(s), e = Head(backlog[s])
      PROVE  e.side = Acceptor /\ Holds(backlog[e.side], e)
  <2>1. backlog[s] \in Seq(End) /\ backlog[s] # <<>>
    BY <1>0, <1>1 DEF Accept, TypeOK
  <2>2. e = backlog[s][1] /\ 1 \in 1..Len(backlog[s]) /\ Holds(backlog[s], e)
    BY <1>1, <2>1, HeadTailProperties, EmptySeq, LenProperties, QueueHolds
  <2>3. s = Acceptor /\ e.side = s
    BY <1>0, <2>2 DEF OneSide
  <2> QED BY <2>2, <2>3
<1>2. ASSUME NEW s \in Side, RecordWritten(s), writer[s].req = Req("open", e), call[Req("open", e)] = "wait"
      PROVE  e.side = Dialer /\ s = Dialer
  <2>1. Req("open", e) \in Request /\ Req("open", e).op = "open" /\ Req("open", e).end = e
    BY <1>0, ReqType
  <2>2. e.side = Dialer
    BY <1>0, <1>2, <2>1 DEF OneSide
  <2> QED BY <1>2, <2>1, <2>2, UnsentMoves
<1> QED BY <1>0, <1>1, <1>2, HeldGrows

\* handleOpen puts the connection it has just stored into the backlog.
LEMMA BackloggedFrom ==
  ASSUME OpenInv, [Next]_vars, NEW e \in Ends, Holds(backlog'[e.side], e)
  PROVE  \/ Holds(backlog[e.side], e)
         \/ Reading(e) /\ reader[e.side].at = "open" /\ reader'[e.side].at = "read"
<1>0. TypeOK /\ OneSide /\ e \in End /\ e.side \in Side /\ backlog[e.side] \in Seq(End)
  BY DEF OpenInv, OneSide, Ends, End, TypeOK
<1> DEFINE s == e.side
<1>1. CASE backlog'[s] = backlog[s]
  BY <1>1
<1>2. CASE reader[s].at = "open" /\ reader'[s].at = "read" /\ backlog'[s] = Append(backlog[s], reader[s].end)
  <2>1. reader[s].end \in End /\ HasEnd(s)
    BY <1>0, <1>2 DEF OneSide, HasEnd, Ends
  <2>2. Holds(backlog[s], e) \/ e = reader[s].end
    BY <1>0, <1>2, <2>1, QueueHolds
  <2> QED BY <1>2, <2>1, <2>2 DEF Reading
<1>3. CASE backlog[s] # <<>> /\ backlog'[s] = Tail(backlog[s])
  BY <1>0, <1>3, QueueHolds
<1> QED BY <1>0, <1>1, <1>2, <1>3, BacklogMoves

\* readLoop holds a connection it has found in its table or has stored there for an OPEN.
LEMMA ReadingFrom ==
  ASSUME OpenInv, [Next]_vars, NEW e \in Ends, Reading(e)'
  PROVE  \/ reader'[e.side] = reader[e.side]
         \/ Reading(e) /\ reader'[e.side].at = "reject"
         \/ /\ Receive(e.side) /\ e.side = Acceptor /\ Register(e) /\ ~Known(e)
            /\ e = Accepted(Head(wire[Dialer]).id) /\ OpenSent(e.id)
         \/ Receive(e.side) /\ Registered(e) /\ reader'[e.side].at # "open" /\ UNCHANGED conns
<1> DEFINE s == e.side
           m == Head(wire[Peer(s)])
           o == conns[s][m.id]
<1>0. TypeOK /\ OneSide /\ OneDialer /\ e \in End /\ s \in Side /\ e.origin = Dialer
  BY DEF OpenInv, OneSide, Ends, End
<1>1. HasEnd(s)' /\ reader'[s].end = e
  BY DEF Reading, HasEnd
<1>2. CASE reader[s].at = "open" /\ reader'[s] = [at |-> "reject", end |-> reader[s].end]
  BY <1>1, <1>2 DEF Reading, HasEnd
<1>3. CASE Receive(s) /\ m.type = "open"
  <2>1. s = Acceptor /\ m.id \in Id /\ TheEnd(s, Peer(s), m.id) = Accepted(m.id) /\ Peer(s) = Dialer
    BY <1>0, <1>3, OpenIsRead, TwoSides
  <2>2. ~Known(Accepted(m.id)) /\ OpenSent(m.id)
    BY <1>0, <1>3, <2>1, OpenIsRead
  <2>3. Register(TheEnd(s, Peer(s), m.id)) /\ reader'[s] = [at |-> "open", end |-> TheEnd(s, Peer(s), m.id)]
    BY <1>0, <1>3, Received, Zenon
  <2>4. e = Accepted(m.id)
    BY <1>1, <2>1, <2>3
  <2>5. e.id = m.id
    BY <1>0, <2>1, <2>4, SideEnds
  <2> QED BY <1>3, <2>1, <2>2, <2>3, <2>4, <2>5
<1>4. CASE Receive(s) /\ m.type # "open" /\ reader'[s] # reader[s]
  <2>1. /\ m.id \in Id /\ o \in Side /\ UNCHANGED conns
        /\ \/ reader'[s] = [at |-> "deliver", end |-> TheEnd(s, o, m.id), data |-> m.data]
           \/ reader'[s] = [at |-> "remoteClose", end |-> TheEnd(s, o, m.id)]
    BY <1>0, <1>4, Received, Zenon
  <2>2. e = TheEnd(s, o, m.id) /\ reader'[s].at # "open"
    BY <1>1, <2>1
  <2>3. Registered(e)
    BY <1>0, <2>1, <2>2, Parts DEF Registered
  <2> QED BY <1>4, <2>1, <2>2, <2>3
<1> QED BY <1>0, <1>1, <1>2, <1>3, <1>4, ReaderTakes

\* A connection that is closed has left the table.
LEMMA ClosedIsGone ==
  ASSUME OpenInv, TypeOK', [Next]_vars, NEW e \in Ends
  PROVE  Registered(e)' => e \notin closed'
<1> SUFFICES ASSUME Registered(e)', e \in closed' PROVE FALSE
  OBVIOUS
<1>0. TypeOK /\ OneSide /\ OneDialer /\ e \in End /\ e.side \in Side /\ e.id \in Id
  BY DEF OpenInv, OneSide, Ends, End
<1>1. CASE Registered(e)
  <2>1. e \notin closed
    BY <1>1 DEF OpenInv, Holding
  <2>2. CASE Close(e)
    BY <1>0, <2>2, TableMoves DEF Close
  <2>3. ASSUME NEW s \in Side, RemoteClose(s), e = reader[s].end PROVE FALSE
    BY <1>0, <2>1, <2>3, TableMoves DEF RemoteClose
  <2>4. ASSUME NEW s \in Side, CloseAll(s), e.side = s PROVE FALSE
    <3>1. e.origin \in Side /\ e = TheEnd(s, e.origin, e.id)
      BY <1>0, <2>4, Parts DEF End
    <3>2. \E o \in Side : Open(TheEnd(s, o, e.id))
      BY <1>1, <2>1, <3>1 DEF Open
    <3>3. conns'[s][e.id] = "none"
      BY <1>0, <2>4, <3>2 DEF CloseAll, TypeOK
    <3> QED BY <2>4, <3>1, <3>3 DEF Registered, Side
  <2> QED BY <1>0, <2>1, <2>2, <2>3, <2>4, ClosedGrows
<1>2. CASE ~Registered(e)
  <2>1. ASSUME NEW s \in Side, Receive(s), Head(wire[Peer(s)]).type = "open",
               e = TheEnd(s, Peer(s), Head(wire[Peer(s)]).id)
        PROVE  FALSE
    <3>1. ~Known(e)
      BY <1>0, <2>1, OpenIsRead, TwoSides
    <3> QED BY <2>1, <3>1 DEF Known, Receive
  <2>2. ASSUME NEW s \in Side, DialOpen(s), e = TheEnd(s, s, nextID[s] + 1) PROVE FALSE
    <3>1. ~Known(e) /\ UNCHANGED closed
      BY <2>2, DialIsFresh
    <3> QED BY <3>1 DEF Known
  <2> QED BY <1>0, <1>2, <2>1, <2>2, Registers
<1> QED BY <1>1, <1>2

\* Who has a connection, and what it has called on it.
LEMMA HoldingStep ==
  ASSUME OpenInv, TypeOK', OneSide', [Next]_vars
  PROVE  Holding'
<1> SUFFICES ASSUME NEW e \in Ends
             PROVE  /\ Registered(e)' => e \notin closed'
                    /\ Called("data", e)' \/ Called("close", e)' \/ sent'[e] > 0 => e \in held'
                    /\ Called("close", e)' => e \in closed'
                    /\ Called("reject", e)' => e \notin held' /\ ~Holds(backlog'[e.side], e)
                    /\ Reading(e)' /\ reader'[e.side].at = "open" =>
                          ~Called("reject", e)' /\ e \notin held' /\ ~Holds(backlog'[e.side], e)
                    /\ e.side = Acceptor /\ (e \in held' \/ Reading(e)' \/ Holds(backlog'[e.side], e)) => Known(e)'
                    /\ e.side = Dialer /\ (Known(e)' \/ Reading(e)') => Called("open", e)'
  BY DEF Holding
<1>0. /\ TypeOK /\ OneSide /\ OneDialer /\ e \in End /\ e.side \in Side /\ e.id \in Id
      /\ held \subseteq held' /\ closed \subseteq closed'
      /\ Dialer \in Side /\ Acceptor \in Side /\ Dialer # Acceptor
  BY HeldGrows, ClosedGrows, TwoSides DEF OpenInv, OneSide, Ends, End
<1>1. \A op \in {"open", "data", "close", "reject"} :
         Req(op, e) \in Request /\ Req(op, e).op = op /\ Req(op, e).end = e
  BY <1>0, ReqType
<1>2. /\ Registered(e) => e \notin closed
      /\ Called("data", e) \/ Called("close", e) \/ sent[e] > 0 => e \in held
      /\ Called("close", e) => e \in closed
      /\ Called("reject", e) => e \notin held /\ ~Holds(backlog[e.side], e)
      /\ Reading(e) /\ reader[e.side].at = "open" =>
            ~Called("reject", e) /\ e \notin held /\ ~Holds(backlog[e.side], e)
      /\ e.side = Acceptor /\ (e \in held \/ Reading(e) \/ Holds(backlog[e.side], e)) => Known(e)
      /\ e.side = Dialer /\ (Known(e) \/ Reading(e)) => Called("open", e)
  BY DEF OpenInv, Holding
<1>3. /\ Called("reject", e) \/ Called("reject", e)' => e.side = Acceptor
      /\ Called("open", e) \/ Called("open", e)' => e.side = Dialer
      /\ Reading(e) /\ reader[e.side].at = "open" => e.side = Acceptor
  BY <1>0, <1>1 DEF OneSide, Called, Reading, HasEnd
<1>4. ASSUME NEW op \in {"data", "close", "reject"}, Called(op, e)', ~Called(op, e)
      PROVE  \/ op = "data" /\ Write(e)
             \/ op = "close" /\ Close(e)
             \/ op = "reject" /\ RefuseOpen(e.side) /\ Reading(e) /\ reader[e.side].at = "open"
  <2>1. call[Req(op, e)] = "idle" /\ call'[Req(op, e)] # "idle"
    BY <1>4 DEF Called
  <2>2. ASSUME NEW s \in Side, RefuseOpen(s), Req(op, e) = Req("reject", reader[s].end)
        PROVE  op = "reject" /\ RefuseOpen(e.side) /\ Reading(e) /\ reader[e.side].at = "open"
    <3>1. e = reader[s].end /\ op = "reject" /\ reader[s].at = "open"
      BY <2>2 DEF Req, RefuseOpen
    <3> QED BY <1>0, <2>2, <3>1 DEF OneSide, HasEnd, Reading
  <2>3. ASSUME NEW s \in Side, Req(op, e) = Req("open", TheEnd(s, s, nextID[s] + 1)) PROVE FALSE
    BY <2>3 DEF Req
  <2> QED BY <1>0, <1>1, <2>1, <2>2, <2>3, CallBegins
<1>5. Called("data", e)' \/ Called("close", e)' \/ sent'[e] > 0 => e \in held'
  <2>1. ASSUME sent'[e] > 0, ~(sent[e] > 0) PROVE e \in held
    <3>1. PICK f \in End : Write(f)
      BY <2>1, <1>0, DataMoves
    <3>2. f = e
      BY <1>0, <2>1, <3>1 DEF Write, TypeOK
    <3> QED BY <3>1, <3>2 DEF Write
  <2> QED BY <1>0, <1>2, <1>4, <2>1 DEF Write, Close
<1>6. Called("close", e)' => e \in closed'
  BY <1>0, <1>2, <1>4 DEF Close
<1>7. Called("reject", e)' => e \notin held' /\ ~Holds(backlog'[e.side], e)
  <2>1. ASSUME Called("reject", e) PROVE e \notin held' /\ ~Holds(backlog'[e.side], e)
    BY <1>0, <1>2, <1>3, <2>1, HeldFrom, BackloggedFrom
  <2>2. ASSUME RefuseOpen(e.side), Reading(e) /\ reader[e.side].at = "open"
        PROVE  e \notin held' /\ ~Holds(backlog'[e.side], e)
    BY <1>2, <2>2 DEF RefuseOpen
  <2> QED BY <1>4, <2>1, <2>2
<1>8. Reading(e)' /\ reader'[e.side].at = "open" =>
         ~Called("reject", e)' /\ e \notin held' /\ ~Holds(backlog'[e.side], e)
  <2> SUFFICES ASSUME Reading(e)', reader'[e.side].at = "open"
               PROVE  ~Called("reject", e)' /\ e \notin held' /\ ~Holds(backlog'[e.side], e)
    OBVIOUS
  <2>1. CASE reader'[e.side] = reader[e.side]
    <3>1. Reading(e) /\ reader[e.side].at = "open"
      BY <2>1 DEF Reading, HasEnd
    <3>2. ~Called("reject", e)'
      <4>1. ASSUME RefuseOpen(e.side) PROVE FALSE
        BY <1>0, <3>1, <4>1 DEF RefuseOpen, AtEnd, TypeOK
      <4> QED BY <1>2, <1>4, <3>1, <4>1
    <3>3. e \notin held'
      BY <1>0, <1>2, <1>3, <3>1, HeldFrom
    <3>4. ~Holds(backlog'[e.side], e)
      BY <1>2, <3>1, BackloggedFrom
    <3> QED BY <3>2, <3>3, <3>4
  <2>2. CASE Receive(e.side) /\ e.side = Acceptor /\ ~Known(e)
    <3>1. e \notin held /\ ~Holds(backlog[e.side], e) /\ ~Called("reject", e)
      BY <1>2, <2>2 DEF Known
    <3> QED BY <2>2, <3>1 DEF Receive, Called
  <2> QED BY <2>1, <2>2, ReadingFrom
<1>9. e.side = Acceptor /\ (e \in held' \/ Reading(e)' \/ Holds(backlog'[e.side], e)) => Known(e)'
  <2> SUFFICES ASSUME e.side = Acceptor PROVE e \in held' \/ Reading(e)' \/ Holds(backlog'[e.side], e) => Known(e)'
    OBVIOUS
  <2>1. Known(e) => Known(e)'
    BY <1>0, KnownStays
  <2>2. e \in held' => Known(e)'
    BY <1>0, <1>2, <2>1, HeldFrom
  <2>3. Holds(backlog'[e.side], e) => Known(e)'
    BY <1>2, <2>1, BackloggedFrom
  <2>4. ASSUME Reading(e)' PROVE Known(e)'
    <3>1. Reading(e) => Known(e)'
      BY <1>2, <2>1
    <3>2. CASE reader'[e.side] = reader[e.side]
      BY <2>4, <3>1, <3>2 DEF Reading, HasEnd
    <3>3. CASE Register(e)
      BY <1>0, <3>3, TableMoves DEF Known
    <3>4. CASE Registered(e)
      BY <2>1, <3>4 DEF Known
    <3> QED BY <2>4, <3>1, <3>2, <3>3, <3>4, ReadingFrom
  <2> QED BY <2>2, <2>3, <2>4
<1>10. e.side = Dialer /\ (Known(e)' \/ Reading(e)') => Called("open", e)'
  <2> SUFFICES ASSUME e.side = Dialer PROVE Known(e)' \/ Reading(e)' => Called("open", e)'
    OBVIOUS
  <2>1. Called("open", e) => Called("open", e)'
    BY CalledStays
  <2>2. e \in held => Called("open", e)
    <3>1. e = Dialed(e.id)
      BY <1>0, SideEnds
    <3> QED BY <1>0, <3>1 DEF OpenInv, Opening
  <2>3. ASSUME Registered(e)', ~Registered(e) PROVE Called("open", e)'
    <3>1. ASSUME NEW s \in Side, Receive(s), Head(wire[Peer(s)]).type = "open",
                 e = TheEnd(s, Peer(s), Head(wire[Peer(s)]).id)
          PROVE  FALSE
      BY <1>0, <3>1, OpenIsRead, SideEnds, TwoSides
    <3>2. ASSUME NEW s \in Side, DialOpen(s), e = TheEnd(s, s, nextID[s] + 1) PROVE Called("open", e)'
      <4>1. Submit(Req("open", e))
        BY <3>2, DialIsFresh
      <4> QED BY <1>0, <1>1, <4>1 DEF Submit, Called, TypeOK
    <3> QED BY <1>0, <2>3, <3>1, <3>2, Registers
  <2>4. ASSUME e \in closed', e \notin closed PROVE Called("open", e)
    <3>1. ASSUME NEW s \in Side, reader[s].at = "remoteClose", e = reader[s].end PROVE Reading(e)
      BY <3>1, <1>0 DEF OneSide, HasEnd, Reading
    <3> QED BY <1>0, <1>2, <2>2, <2>4, <3>1, ClosedGrows DEF Close, Known
  <2>5. Known(e)' => Called("open", e)'
    BY <1>0, <1>2, <1>3, <2>1, <2>3, <2>4 DEF Known
  <2>6. ASSUME Reading(e)' PROVE Called("open", e)'
    <3>1. CASE reader'[e.side] = reader[e.side]
      BY <1>2, <2>1, <2>6, <3>1 DEF Reading, HasEnd
    <3> QED BY <1>0, <1>2, <2>1, <2>6, <3>1, ReadingFrom DEF Known
  <2> QED BY <2>5, <2>6
<1> QED BY <1>5, <1>6, <1>7, <1>8, <1>9, <1>10, ClosedIsGone

\* The record that writeLoop writes is that of a request made for its side.
LEMMA Written ==
  ASSUME OpenInv, [Next]_vars, NEW s \in Side, RecordWritten(s), NEW r \in Request, r = writer[s].req
  PROVE  /\ r.end \in Ends /\ r.end.side = s /\ r = Req(r.op, r.end)
         /\ Unsent(r) /\ ~Unsent(r)' /\ call[r] \in {"wait", "done"} /\ call'[r] # "enqueue"
         /\ Encode(r).id = r.end.id /\ (Encode(r).type = "open" <=> r.op = "open")
         /\ Encode(r).type = "data" <=> r.op = "data"
         /\ r.op \in {"data", "close"} => r.end \in held
         /\ \A t \in Side : ~Receive(t)
<1>0. TypeOK /\ OneSide
  BY DEF OpenInv
<1>1. writer[s].at = "write" /\ writer'[s].at # "write"
  <2>1. /\ writer[s].at = "write" /\ writer[s].next \in {"first", "second"}
        /\ writer' = [writer EXCEPT ![s] = [at |-> writer[s].next]]
    BY <1>0, Answered
  <2>2. writer'[s] = [at |-> writer[s].next]
    BY <1>0, <2>1 DEF TypeOK
  <2> QED BY <2>1, <2>2
<1>2. r.end.side = s /\ Unsent(r) /\ ~Unsent(r)' /\ call[r] \in {"wait", "done"}
  BY UnsentMoves
<1>3. r.end \in Ends /\ r = Req(r.op, r.end) /\ r.op \in {"open", "data", "close", "reject"}
  BY <1>0, <1>2, Parts DEF OneSide
<1>4. call'[r] # "enqueue"
  <2>1. UNCHANGED call \/ Return(r, TRUE) \/ Return(r, FALSE)
    BY <1>0, Answered
  <2>2. \A ok : Return(r, ok) => call'[r] # "enqueue"
    BY <1>0 DEF Return, TypeOK
  <2> QED BY <1>2, <2>1, <2>2
<1>5. /\ Encode(r).id = r.end.id /\ (Encode(r).type = "open" <=> r.op = "open")
      /\ Encode(r).type = "data" <=> r.op = "data"
  BY <1>3 DEF Encode
<1>6. r.op \in {"data", "close"} => r.end \in held
  <2>1. Called(r.op, r.end)
    BY <1>2, <1>3 DEF Called
  <2> QED BY <1>3, <2>1 DEF OpenInv, Holding
<1>7. \A t \in Side : ~Receive(t)
  BY <1>1, <1>0 DEF Receive
<1> QED BY <1>2, <1>3, <1>4, <1>5, <1>6, <1>7

\* An OPEN on the wire was that of the Dial, and leaves it when the other side reads it.
LEMMA OpenMoves ==
  ASSUME OpenInv, TypeOK', [Next]_vars, NEW i \in Id
  PROVE  /\ OpenSent(i)' /\ ~OpenSent(i) =>
               RecordWritten(Dialer) /\ writer[Dialer].req = Req("open", Dialed(i))
         /\ OpenSent(i) /\ ~OpenSent(i)' =>
               /\ Receive(Acceptor) /\ Head(wire[Dialer]).type = "open" /\ Head(wire[Dialer]).id = i
               /\ Known(Accepted(i))'
         /\ RecordWritten(Dialer) /\ writer[Dialer].req = Req("open", Dialed(i)) => OpenSent(i)'
         /\ OpenSent(i) => /\ Known(Accepted(i))' <=> ~OpenSent(i)'
                           /\ Known(Accepted(i))' => OpenAt(i, 1)
<1> DEFINE q == wire[Dialer]
           p == wire'[Dialer]
           w == writer[Dialer].req
           f == Accepted(i)
<1>0. /\ TypeOK /\ OneSide /\ OneDialer /\ Dialer \in Side /\ Acceptor \in Side
      /\ Peer(Dialer) = Acceptor /\ Peer(Acceptor) = Dialer /\ Dialer # Acceptor
      /\ f \in Ends /\ f \in End
  BY TwoSides, SideEnds DEF OpenInv, OneSide, Ends
<1>1. Len(q) \in Nat /\ \A k \in 1..Len(q) : q[k] \in Message
  BY <1>0, WireOf
<1>2. /\ OpenSent(i) <=> \E k \in 1..Len(q) : q[k].type = "open" /\ q[k].id = i
      /\ OpenSent(i)' <=> \E k \in 1..Len(p) : p[k].type = "open" /\ p[k].id = i
      /\ \A j, k \in 1..Len(q) : q[j].type = "open" /\ q[j].id = i /\ q[k].type = "open" /\ q[k].id = i => j = k
      /\ OpenSent(i) => ~Known(f)
      /\ \A k : OpenAt(i, k) <=> q[k].type = "open" /\ q[k].id = i
  BY DEF OpenSent, OpenAt, OpenInv, Opening
<1>3. CASE p = q /\ ~RecordWritten(Dialer)
  <2>1. ~(Receive(Acceptor) /\ Head(q).type = "open")
    <3> SUFFICES ASSUME Receive(Acceptor), Head(q).type = "open" PROVE FALSE
      OBVIOUS
    <3>1. q # <<>> /\ q \in Seq(Message) /\ wire' = [wire EXCEPT ![Dialer] = Tail(q)]
      BY <1>0, Received
    <3>2. p = Tail(q)
      BY <1>0, <3>1 DEF TypeOK
    <3> HIDE DEF p, q
    <3> QED BY <1>1, <1>3, <3>1, <3>2, HeadTailProperties
  <2>2. ~Known(f) => ~Known(f)'
    BY <2>1, KnownGrows
  <2> QED BY <1>2, <1>3, <2>2
<1>4. CASE /\ RecordWritten(Dialer) /\ w \in Request
           /\ Len(p) = Len(q) + 1 /\ p[Len(q) + 1] = Encode(w)
           /\ \A k \in 1..Len(q) : p[k] = q[k]
  <2>1. /\ w.end \in Ends /\ w.end.side = Dialer /\ w = Req(w.op, w.end)
        /\ Encode(w).id = w.end.id /\ (Encode(w).type = "open" <=> w.op = "open")
        /\ ~Receive(Acceptor)
    BY <1>0, <1>4, Written
  <2>2. w.end = Dialed(w.end.id)
    BY <1>0, <2>1, SideEnds
  <2>3. Encode(w).type = "open" /\ Encode(w).id = i <=> w = Req("open", Dialed(i))
    <3>1. Dialed(i).id = i /\ Req("open", Dialed(i)).op = "open" /\ Req("open", Dialed(i)).end = Dialed(i)
      BY <1>0, SideEnds, ReqType
    <3> QED BY <2>1, <2>2, <3>1
  <2>4. ~Known(f) => ~Known(f)'
    BY <2>1, KnownGrows
  <2>5. OpenSent(i)' <=> OpenSent(i) \/ (Encode(w).type = "open" /\ Encode(w).id = i)
    <3> HIDE DEF p, q, w
    <3> QED BY <1>1, <1>2, <1>4
  <2> QED BY <1>2, <1>4, <2>3, <2>4, <2>5
<1>5. CASE /\ Receive(Acceptor) /\ ~RecordWritten(Dialer) /\ Len(q) >= 1 /\ Head(q) = q[1]
           /\ Len(p) = Len(q) - 1
           /\ \A k \in 1..Len(p) : p[k] = q[k + 1]
  <2>1. OpenSent(i)' => OpenSent(i)
    <3> HIDE DEF p, q
    <3> SUFFICES ASSUME OpenSent(i)' PROVE OpenSent(i)
      OBVIOUS
    <3>1. PICK k \in 1..Len(p) : p[k].type = "open" /\ p[k].id = i
      BY <1>2
    <3>2. k + 1 \in 1..Len(q) /\ q[k + 1] = p[k]
      BY <1>1, <1>5, <3>1
    <3> QED BY <1>2, <3>1, <3>2
  <2>2. CASE q[1].type = "open" /\ q[1].id = i
    <3>1. ~OpenSent(i)' /\ OpenSent(i)
      <4> HIDE DEF p, q
      <4> QED BY <1>1, <1>2, <1>5, <2>2
    <3>2. Register(f)
      BY <1>0, <1>5, <2>2, Received, ZenonT(40) DEF Accepted
    <3>3. Known(f)'
      BY <1>0, <3>2, TableMoves DEF Known
    <3> QED BY <1>2, <1>5, <2>2, <3>1, <3>3
  <2>3. CASE ~(q[1].type = "open" /\ q[1].id = i)
    <3>1. OpenSent(i) => OpenSent(i)'
      <4> HIDE DEF p, q
      <4> SUFFICES ASSUME OpenSent(i) PROVE OpenSent(i)'
        OBVIOUS
      <4>1. PICK k \in 1..Len(q) : q[k].type = "open" /\ q[k].id = i
        BY <1>2
      <4>2. k - 1 \in 1..Len(p) /\ p[k - 1] = q[k]
        BY <1>1, <1>5, <2>3, <4>1
      <4> QED BY <1>2, <4>1, <4>2
    <3>2. ~Known(f) => ~Known(f)'
      BY <1>5, <2>3, KnownGrows
    <3> QED BY <1>2, <1>5, <2>1, <3>1, <3>2
  <2> QED BY <2>2, <2>3
<1> QED BY <1>0, <1>3, <1>4, <1>5, WireOf

\* The OPEN of a connection is still to be sent if it was, or if it has just been dialed.
LEMMA ToOpenMoves ==
  ASSUME OpenInv, TypeOK', [Next]_vars, NEW i \in Id, ToOpen(i)'
  PROVE  ToOpen(i) \/ (DialOpen(Dialer) /\ i = nextID[Dialer] + 1)
<1> DEFINE r == Req("open", Dialed(i))
<1>0. TypeOK /\ OneSide /\ OneDialer /\ r \in Request /\ Dialed(i) \in Ends /\ Dialed(i).id = i
  BY SideEnds DEF OpenInv, OneSide
<1>1. CASE Unsent(r)'
  <2>1. Enqueue(r) => call[r] = "enqueue"
    BY DEF Enqueue
  <2> QED BY <1>0, <1>1, <2>1, UnsentMoves DEF ToOpen
<1>2. CASE call'[r] = "enqueue" /\ call[r] # "enqueue"
  <2>1. ASSUME NEW s \in Side, DialOpen(s), r = Req("open", TheEnd(s, s, nextID[s] + 1))
        PROVE  DialOpen(Dialer) /\ i = nextID[Dialer] + 1
    <3>1. s = Dialer /\ r = Req("open", Dialed(nextID[Dialer] + 1)) /\ nextID[Dialer] + 1 \in Id
      BY <2>1, DialIsFresh
    <3>2. Dialed(nextID[Dialer] + 1).id = nextID[Dialer] + 1 /\ Dialed(i) = Dialed(nextID[Dialer] + 1)
      BY <1>0, <3>1, SideEnds DEF Req
    <3> QED BY <1>0, <2>1, <3>1, <3>2
  <2>2. r # Req("reject", Dialed(i)) /\ r.op = "open" /\ \A e : r # Req("reject", e)
    BY DEF Req
  <2>3. \/ call'[r] = "wait" \/ call'[r] \in {"idle", "done"}
        \/ \E s \in Side : DialOpen(s) /\ r = Req("open", TheEnd(s, s, nextID[s] + 1))
    <3>1. CASE call[r] = "idle"
      BY <1>0, <1>2, <2>2, <3>1, CallBegins
    <3>2. CASE call[r] # "idle"
      <4>1. ASSUME Enqueue(r) PROVE call'[r] = "wait"
        BY <1>0, <4>1 DEF Enqueue, TypeOK
      <4>2. \A ok : Return(r, ok) => call'[r] \in {"idle", "done"}
        BY <1>0 DEF Return, TypeOK
      <4>3. ASSUME NEW s \in Side, RecordWritten(s) \/ WriteFails(s), r = writer[s].req
            PROVE  call'[r] \in {"idle", "done"}
        BY <1>0, <1>2, <4>2, <4>3, Answered
      <4>4. ASSUME GiveUp(r) PROVE call'[r] \in {"idle", "done"}
        BY <4>2, <4>4 DEF GiveUp
      <4> QED BY <1>0, <1>2, <2>2, <3>2, <4>1, <4>3, <4>4, CallGoesOn
    <3> QED BY <3>1, <3>2
  <2> QED BY <1>2, <2>1, <2>3
<1> QED BY <1>1, <1>2 DEF ToOpen

\* OPEN is sent once, and first.
LEMMA OpeningStep ==
  ASSUME OpenInv, TypeOK', OneSide', [Next]_vars
  PROVE  Opening'
<1> SUFFICES ASSUME NEW i \in Id
             PROVE  /\ i > nextID'[Dialer] => ~Called("open", Dialed(i))'
                    /\ ~Called("open", Dialed(i))' \/ ToOpen(i)' => ~Known(Accepted(i))' /\ ~OpenSent(i)'
                    /\ OpenSent(i)' => ~Known(Accepted(i))'
                    /\ \A j, k \in 1..Len(wire'[Dialer]) : OpenAt(i, j)' /\ OpenAt(i, k)' => j = k
                    /\ \A k \in 1..Len(wire'[Dialer]) : wire'[Dialer][k].id = i =>
                          Known(Accepted(i))' \/ \E j \in 1..k : OpenAt(i, j)'
                    /\ \A k \in 1..Len(wire'[Acceptor]) : wire'[Acceptor][k].id = i => Known(Accepted(i))'
                    /\ ToOpen(i)' \/ OpenSent(i)' \/ Known(Accepted(i))' => Known(Dialed(i))' \/ Stopped(Dialer)'
                    /\ Dialed(i) \in held' => Known(Accepted(i))' \/ OpenSent(i)'
  BY DEF Opening
<1> DEFINE d == Dialed(i)
           f == Accepted(i)
           r == Req("open", d)
           q == wire[Dialer]
           p == wire'[Dialer]
<1>0. /\ TypeOK /\ OneSide /\ OneDialer /\ Dialer \in Side /\ Acceptor \in Side
      /\ Peer(Dialer) = Acceptor /\ Peer(Acceptor) = Dialer /\ Dialer # Acceptor
      /\ f \in Ends /\ f \in End /\ f.side = Acceptor /\ f.id = i
      /\ d \in Ends /\ d \in End /\ d.side = Dialer /\ d.id = i
      /\ r \in Request /\ r.op = "open" /\ r.end = d
  BY TwoSides, SideEnds, ReqType DEF OpenInv, OneSide, Ends
<1>1. /\ i > nextID[Dialer] => ~Called("open", d)
      /\ ~Called("open", d) \/ ToOpen(i) => ~Known(f) /\ ~OpenSent(i)
      /\ OpenSent(i) => ~Known(f)
      /\ \A j, k \in 1..Len(q) : OpenAt(i, j) /\ OpenAt(i, k) => j = k
      /\ \A k \in 1..Len(q) : q[k].id = i => Known(f) \/ \E j \in 1..k : OpenAt(i, j)
      /\ \A k \in 1..Len(wire[Acceptor]) : wire[Acceptor][k].id = i => Known(f)
      /\ ToOpen(i) \/ OpenSent(i) \/ Known(f) => Known(d) \/ Stopped(Dialer)
      /\ d \in held => Known(f) \/ OpenSent(i)
  BY DEF OpenInv, Opening
<1>2. ASSUME DialOpen(Dialer), i = nextID[Dialer] + 1
      PROVE  ~Known(f) /\ ~OpenSent(i) /\ Registered(d)' /\ ~Called("open", d)
  BY <1>0, <1>2, DialIsFresh, TableMoves
<1>3. Known(f) => Known(f)'
  BY <1>0, KnownStays
<1>4. Called("open", d) => Called("open", d)'
  BY <1>0, CalledStays
<1>5. Called("open", d)' /\ ~Called("open", d) => DialOpen(Dialer) /\ i = nextID[Dialer] + 1 /\ i = nextID'[Dialer]
  <2> SUFFICES ASSUME Called("open", d)', ~Called("open", d)
               PROVE  DialOpen(Dialer) /\ i = nextID[Dialer] + 1 /\ i = nextID'[Dialer]
    OBVIOUS
  <2>1. PICK s \in Side : DialOpen(s) /\ r = Req("open", TheEnd(s, s, nextID[s] + 1))
    BY <1>0, CallBegins DEF Called, Req
  <2>2. s = Dialer /\ d = TheEnd(s, s, nextID[s] + 1)
    BY <2>1, DialIsFresh DEF Req
  <2>3. i = nextID[Dialer] + 1
    BY <1>0, <2>2 DEF TheEnd
  <2> QED BY <1>0, <2>1, <2>2, <2>3 DEF DialOpen, TypeOK
<1>6. i > nextID'[Dialer] => ~Called("open", d)'
  <2>1. nextID'[Dialer] >= nextID[Dialer] /\ nextID[Dialer] \in Nat
    <3>1. nextID[Dialer] \in Nat
      BY <1>0, BoundsAssumption DEF TypeOK
    <3>2. ASSUME NEW s \in Side, DialCheck(s) PROVE nextID' = nextID
      BY <3>2 DEF DialCheck
    <3>3. ASSUME NEW s \in Side, DialOpen(s) PROVE nextID'[Dialer] >= nextID[Dialer]
      <4>1. nextID' = [nextID EXCEPT ![s] = nextID[s] + 1] /\ s = Dialer
        BY <3>3, DialIsFresh DEF DialOpen
      <4>2. nextID'[Dialer] = nextID[Dialer] + 1
        BY <1>0, <4>1 DEF TypeOK
      <4> QED BY <3>1, <4>2
    <3> QED BY <1>0, <3>1, <3>2, <3>3, DataMoves
  <2>2. nextID'[Dialer] \in Nat /\ i \in Nat
    BY <1>0, BoundsAssumption DEF TypeOK, Id
  <2> QED BY <1>1, <1>5, <2>1, <2>2
<1>7. ~Called("open", d)' \/ ToOpen(i)' => ~Known(f)' /\ ~OpenSent(i)'
  <2> SUFFICES ASSUME ~Called("open", d)' \/ ToOpen(i)' PROVE ~Known(f)' /\ ~OpenSent(i)'
    OBVIOUS
  <2>1. ~Known(f) /\ ~OpenSent(i)
    BY <1>1, <1>2, <1>4, ToOpenMoves
  <2>2. ~OpenSent(i)'
    <3>1. ASSUME RecordWritten(Dialer), writer[Dialer].req = r PROVE FALSE
      <4>1. ~Unsent(r)' /\ call'[r] # "enqueue" /\ call[r] # "idle"
        BY <1>0, <3>1, Written
      <4> QED BY <1>4, <4>1 DEF ToOpen, Called
    <3> QED BY <1>0, <2>1, <3>1, OpenMoves
  <2>3. ~Known(f)'
    <3>1. ASSUME Known(f)' PROVE OpenSent(i)
      <4>1. Receive(Acceptor) /\ Head(q).type = "open" /\ Head(q).id = i
        BY <2>1, <3>1, KnownGrows
      <4> QED BY <1>0, <4>1, OpenIsRead
    <3> QED BY <2>1, <3>1
  <2> QED BY <2>2, <2>3
<1>8. OpenSent(i)' => ~Known(f)'
  <2> SUFFICES ASSUME OpenSent(i)' PROVE ~Known(f)'
    OBVIOUS
  <2>1. CASE OpenSent(i)
    BY <2>1, OpenMoves
  <2>2. CASE ~OpenSent(i)
    <3>1. RecordWritten(Dialer) /\ writer[Dialer].req = r
      BY <2>2, OpenMoves
    <3>2. Unsent(r) /\ ~Receive(Acceptor)
      BY <1>0, <3>1, Written
    <3> QED BY <1>1, <3>2, KnownGrows DEF ToOpen
  <2> QED BY <2>1, <2>2
<1>9. Len(q) \in Nat
  BY <1>0, WireOf
<1>10. \A k : /\ OpenAt(i, k) <=> q[k].type = "open" /\ q[k].id = i
              /\ OpenAt(i, k)' <=> p[k].type = "open" /\ p[k].id = i
  BY DEF OpenAt
<1>11. /\ \A j, k \in 1..Len(p) : OpenAt(i, j)' /\ OpenAt(i, k)' => j = k
       /\ \A k \in 1..Len(p) : p[k].id = i => Known(f)' \/ \E j \in 1..k : OpenAt(i, j)'
  <2>0. CASE p = q
    <3>1. \A j, k \in 1..Len(p) : OpenAt(i, j)' /\ OpenAt(i, k)' => j = k
      BY <1>1, <1>10, <2>0
    <3>2. \A k \in 1..Len(p) : p[k].id = i => Known(f)' \/ \E j \in 1..k : OpenAt(i, j)'
      BY <1>1, <1>3, <1>10, <2>0
    <3> QED BY <3>1, <3>2
  <2>1. CASE /\ RecordWritten(Dialer) /\ writer[Dialer].req \in Request
             /\ Len(p) = Len(q) + 1 /\ p[Len(q) + 1] = Encode(writer[Dialer].req)
             /\ \A k \in 1..Len(q) : p[k] = q[k]
    <3>1. PICK w \in Request : w = writer[Dialer].req
      BY <2>1
    <3>2. /\ w.end \in Ends /\ w.end.side = Dialer /\ w = Req(w.op, w.end) /\ Unsent(w)
          /\ Encode(w).id = w.end.id /\ (Encode(w).type = "open" <=> w.op = "open")
          /\ w.op \in {"data", "close"} => w.end \in held
          /\ call[w] \in {"wait", "done"}
      BY <1>0, <2>1, <3>1, Written
    <3>3. w.end.id = i => w.end = d
      BY <1>0, <3>2, SideEnds
    <3>4. Encode(w).type = "open" /\ Encode(w).id = i => ~OpenSent(i)
      BY <1>1, <3>2, <3>3 DEF ToOpen
    <3>5. Encode(w).type # "open" /\ Encode(w).id = i => Known(f) \/ OpenSent(i)
      <4>1. w.op # "reject"
        BY <1>0, <3>2 DEF OneSide
      <4>2. w.op \in {"open", "data", "close", "reject"}
        BY Parts
      <4> QED BY <1>1, <3>2, <3>3, <4>1, <4>2
    <3> HIDE DEF p, q
    <3>6. OpenSent(i) <=> \E k \in 1..Len(q) : OpenAt(i, k)
      BY DEF OpenSent, q
    <3>7. \A k \in 1..Len(q) : OpenAt(i, k)' <=> OpenAt(i, k)
      BY <1>10, <2>1
    <3>8. \A k : k = Len(q) + 1 => (OpenAt(i, k)' <=> Encode(w).type = "open" /\ Encode(w).id = i)
      BY <1>10, <2>1, <3>1
    <3>9. \A j, k \in 1..Len(p) : OpenAt(i, j)' /\ OpenAt(i, k)' => j = k
      <4> SUFFICES ASSUME NEW j \in 1..Len(p), NEW k \in 1..Len(p), OpenAt(i, j)', OpenAt(i, k)' PROVE j = k
        OBVIOUS
      <4>1. (j \in 1..Len(q) \/ j = Len(q) + 1) /\ (k \in 1..Len(q) \/ k = Len(q) + 1)
        BY <1>9, <2>1
      <4> QED BY <1>1, <3>4, <3>6, <3>7, <3>8, <4>1 DEF q
    <3>10. ASSUME NEW k \in 1..Len(p), p[k].id = i PROVE Known(f)' \/ \E j \in 1..k : OpenAt(i, j)'
      <4>1. CASE k \in 1..Len(q)
        <5>1. Known(f) \/ \E j \in 1..k : OpenAt(i, j)
          BY <1>1, <2>1, <3>10, <4>1 DEF q
        <5>2. \A j \in 1..k : j \in 1..Len(q)
          BY <1>9, <4>1
        <5> QED BY <1>3, <3>7, <5>1, <5>2
      <4>2. CASE k = Len(q) + 1
        <5>1. CASE Encode(w).type = "open"
          <6>1. OpenAt(i, k)' /\ k \in 1..k
            BY <1>9, <2>1, <3>1, <3>8, <3>10, <4>2, <5>1
          <6> QED BY <6>1
        <5>2. CASE Encode(w).type # "open"
          <6>1. Known(f) \/ \E j \in 1..Len(q) : OpenAt(i, j)
            BY <2>1, <3>1, <3>5, <3>6, <3>10, <4>2, <5>2
          <6>2. \A j \in 1..Len(q) : j \in 1..k
            BY <1>9, <4>2
          <6> QED BY <1>3, <3>7, <6>1, <6>2
        <5> QED BY <5>1, <5>2
      <4> QED BY <1>9, <2>1, <4>1, <4>2
    <3> QED BY <3>9, <3>10
  <2>2. CASE /\ Receive(Acceptor) /\ ~RecordWritten(Dialer) /\ Len(q) >= 1 /\ Head(q) = q[1]
             /\ Len(p) = Len(q) - 1
             /\ \A k \in 1..Len(p) : p[k] = q[k + 1]
    <3> HIDE DEF p, q
    <3>1. \A k \in 1..Len(p) : k + 1 \in 1..Len(q) /\ (OpenAt(i, k)' <=> OpenAt(i, k + 1))
      BY <1>9, <1>10, <2>2
    <3>2. \A j, k \in 1..Len(p) : OpenAt(i, j)' /\ OpenAt(i, k)' => j = k
      BY <1>1, <1>9, <3>1, SMTT(30) DEF q
    <3>3. OpenSent(i) <=> \E k \in 1..Len(q) : OpenAt(i, k)
      BY DEF OpenSent, q
    <3>4. ASSUME NEW k \in 1..Len(p), p[k].id = i PROVE Known(f)' \/ \E j \in 1..k : OpenAt(i, j)'
      <4>1. Known(f) \/ \E j \in 1..k + 1 : OpenAt(i, j)
        BY <1>1, <2>2, <3>1, <3>4 DEF q
      <4>2. ASSUME NEW j \in 1..k + 1, OpenAt(i, j) PROVE Known(f)' \/ \E l \in 1..k : OpenAt(i, l)'
        <5>1. CASE j = 1
          <6>1. OpenSent(i)
            BY <1>9, <2>2, <3>3, <4>2, <5>1
          <6>2. CASE OpenSent(i)'
            <7>1. PICK l \in 1..Len(p) : OpenAt(i, l)'
              BY <6>2 DEF OpenSent, p
            <7>2. l + 1 \in 1..Len(q) /\ OpenAt(i, l + 1) /\ 1 \in 1..Len(q)
              BY <1>9, <2>2, <3>1, <7>1
            <7>3. l + 1 = 1
              BY <1>1, <4>2, <5>1, <7>2 DEF q
            <7> QED BY <1>9, <2>2, <7>1, <7>3
          <6>3. CASE ~OpenSent(i)'
            BY <6>1, <6>3, OpenMoves
          <6> QED BY <6>2, <6>3
        <5>2. CASE j # 1
          <6>1. j - 1 \in 1..k /\ j - 1 \in 1..Len(p) /\ (j - 1) + 1 = j
            BY <1>9, <2>2, <5>2
          <6> QED BY <3>1, <4>2, <6>1
        <5> QED BY <5>1, <5>2
      <4> QED BY <1>3, <4>1, <4>2
    <3> QED BY <3>2, <3>4
  <2> QED BY <1>0, <2>0, <2>1, <2>2, WireOf
<1>12. ASSUME NEW k \in 1..Len(wire'[Acceptor]), wire'[Acceptor][k].id = i PROVE Known(f)'
  <2> DEFINE a == wire[Acceptor]
             b == wire'[Acceptor]
  <2>0. Len(a) \in Nat /\ (\A j \in 1..Len(a) : a[j].id = i => Known(f))
    BY <1>0, <1>1, WireOf
  <2>1. CASE b = a
    BY <1>3, <1>12, <2>0, <2>1
  <2>2. CASE /\ RecordWritten(Acceptor) /\ writer[Acceptor].req \in Request
             /\ Len(b) = Len(a) + 1 /\ b[Len(a) + 1] = Encode(writer[Acceptor].req)
             /\ \A j \in 1..Len(a) : b[j] = a[j]
    <3>1. PICK w \in Request : w = writer[Acceptor].req
      BY <2>2
    <3>2. /\ w.end \in Ends /\ w.end.side = Acceptor /\ w = Req(w.op, w.end)
          /\ Encode(w).id = w.end.id /\ call[w] \in {"wait", "done"}
          /\ w.op \in {"data", "close"} => w.end \in held
      BY <1>0, <2>2, <3>1, Written
    <3>3. w.end.id = i => w.end = f
      BY <1>0, <3>2, SideEnds
    <3>4. w.op \in {"data", "close", "reject"}
      BY <1>0, <3>2, Parts DEF OneSide
    <3>5. w.end.id = i => Known(f)
      <4>1. w.op = "reject" => Called("reject", w.end)
        BY <3>2 DEF Called
      <4> QED BY <1>0, <3>2, <3>3, <3>4, <4>1 DEF OpenInv, Holding, Known
    <3>6. k \in 1..Len(a) \/ k = Len(a) + 1
      BY <2>0, <2>2
    <3> QED BY <1>3, <1>12, <2>0, <2>2, <3>1, <3>2, <3>5, <3>6
  <2>3. CASE /\ Len(b) = Len(a) - 1
             /\ \A j \in 1..Len(b) : b[j] = a[j + 1]
    <3>1. k + 1 \in 1..Len(a) /\ b[k] = a[k + 1]
      BY <2>0, <2>3
    <3> QED BY <1>3, <1>12, <2>0, <3>1
  <2> QED BY <1>0, <2>1, <2>2, <2>3, WireOf
<1>13. ToOpen(i)' \/ OpenSent(i)' \/ Known(f)' => Known(d)' \/ Stopped(Dialer)'
  <2> SUFFICES ASSUME ToOpen(i)' \/ OpenSent(i)' \/ Known(f)' PROVE Known(d)' \/ Stopped(Dialer)'
    OBVIOUS
  <2>1. CASE DialOpen(Dialer) /\ i = nextID[Dialer] + 1
    BY <1>2, <2>1 DEF Known
  <2>2. CASE ~(DialOpen(Dialer) /\ i = nextID[Dialer] + 1)
    <3>1. OpenSent(i)' => ToOpen(i) \/ OpenSent(i)
      <4>1. ASSUME RecordWritten(Dialer), writer[Dialer].req = r PROVE ToOpen(i)
        BY <1>0, <4>1, Written DEF ToOpen
      <4> QED BY <4>1, OpenMoves
    <3>2. Known(f)' => Known(f) \/ OpenSent(i)
      <4>1. ASSUME Receive(Acceptor), Head(q).type = "open", Head(q).id = i PROVE OpenSent(i)
        BY <1>0, <4>1, OpenIsRead
      <4> QED BY <4>1, KnownGrows
    <3>3. Known(d) \/ Stopped(Dialer)
      BY <1>1, <2>2, <3>1, <3>2, ToOpenMoves
    <3>4. Stopped(Dialer) => Stopped(Dialer)'
      BY <1>0, StoppedStays
    <3>5. ASSUME WriteFails(Dialer), writer[Dialer].req = r PROVE FALSE
      <4>1. Unsent(r) /\ ~Unsent(r)' /\ call[r] \in {"wait", "done"}
        BY <1>0, <3>5, UnsentMoves
      <4>2. call'[r] # "enqueue"
        <5>1. UNCHANGED call \/ Return(r, TRUE) \/ Return(r, FALSE)
          BY <1>0, <3>5, Answered
        <5>2. \A ok : Return(r, ok) => call'[r] # "enqueue"
          BY <1>0 DEF Return, TypeOK
        <5> QED BY <4>1, <5>1, <5>2
      <4>3. ~ToOpen(i)'
        BY <4>1, <4>2 DEF ToOpen
      <4>4. ~Known(f) /\ ~OpenSent(i)
        BY <1>1, <4>1 DEF ToOpen
      <4>5. ~RecordWritten(Dialer)
        <5>1. UNCHANGED wire
          BY <3>5 DEF WriteFails
        <5> QED BY <1>0, <1>9, <5>1, WireOf
      <4> QED BY <3>2, <4>3, <4>4, <4>5, OpenMoves
    <3> QED BY <1>0, <3>3, <3>4, <3>5, KnownStays
  <2> QED BY <2>1, <2>2
<1>14. d \in held' => Known(f)' \/ OpenSent(i)'
  <2>1. ASSUME Known(f) \/ OpenSent(i) PROVE Known(f)' \/ OpenSent(i)'
    BY <1>3, <2>1, OpenMoves
  <2>2. ASSUME d \in held', d \notin held PROVE OpenSent(i)'
    BY <1>0, <2>2, HeldFrom, OpenMoves
  <2> QED BY <1>1, <2>1, <2>2
<1> QED BY <1>6, <1>7, <1>8, <1>11, <1>12, <1>13, <1>14

-----------------------------------------------------------------------------
(* The theorems.                                                           *)

\* Nothing is dialed, queued or sent at the start.
LEMMA OpenInit == OneDialer /\ Init => OpenInv
<1> SUFFICES ASSUME OneDialer, Init PROVE OpenInv
  OBVIOUS
<1>1. TypeOK
  BY TypeInvInit DEF TypeInv
<1>2. \A e \in Ends : e \in End /\ e.side \in Side /\ e.id \in Id /\ e.origin = Dialer /\ Dialer \in Side
  BY TwoSides DEF Ends, End
<1>3. Acceptor \in Side /\ Dialer \in Side /\ "none" \notin Side
  BY TwoSides DEF Side
<1>4. \A x : ~Holds(<<>>, x)
  BY DEF Holds
<1>5. \A op \in {"open", "data", "close", "reject"}, e \in Ends : ~Called(op, e)
  BY <1>2, ReqType DEF Called, Init
<1>6. \A e \in Ends : ~Known(e) /\ ~Reading(e)
  BY <1>2, <1>3, <1>5 DEF Init, Known, Registered, Reading, HasEnd
<1>7. OneSide
  BY <1>3 DEF Init, OneSide, HasEnd
<1>8. Queueing
  BY <1>4 DEF Init, Queueing, NoTwice, InHand
<1>9. Holding
  BY <1>2, <1>4, <1>5, <1>6 DEF Init, Holding, Known
<1>10. ASSUME NEW i \in Id PROVE ~ToOpen(i) /\ ~OpenSent(i) /\ ~Known(Accepted(i)) /\ ~Called("open", Dialed(i))
  <2>1. Dialed(i) \in Ends /\ Accepted(i) \in Ends /\ Req("open", Dialed(i)) \in Request
        /\ Req("open", Dialed(i)).end.side = Dialer
    BY SideEnds, ReqType
  <2>2. ~ToOpen(i)
    BY <1>3, <1>4, <2>1 DEF Init, ToOpen, Unsent, InHand
  <2>3. ~OpenSent(i)
    BY <1>3 DEF Init, OpenSent
  <2> QED BY <1>5, <1>6, <2>1, <2>2, <2>3
<1>11. Opening
  BY <1>3, <1>10 DEF Init, Opening
<1> QED BY <1>1, <1>7, <1>8, <1>9, <1>11 DEF OpenInv

\* The invariant is inductive.
LEMMA OpenStep == OpenInv /\ TypeInv' /\ [Next]_vars => OpenInv'
BY OneSideStep, QueueingStep, HoldingStep, OpeningStep DEF OpenInv, TypeInv

\* With one side dialing, it holds in every reachable state.
LEMMA OpenInvHolds ==
  ASSUME OneDialer
  PROVE  Spec => []OpenInv
<1>1. Init => OpenInv
  BY OpenInit
<1>2. OpenInv /\ TypeInv' /\ [Next]_vars => OpenInv'
  BY OpenStep
<1> QED BY <1>1, <1>2, TypeInvHolds, PTL DEF Spec

\* What the invariant says of the tables.
LEMMA TablesExact ==
  ASSUME OpenInv
  PROVE  TableExact
<1> SUFFICES ASSUME NEW e \in End
             PROVE  /\ Registered(e) => e \notin closed
                    /\ e \in held \ closed /\ sess[e.side] = "open" => Registered(e)
  BY DEF TableExact
<1>1. TypeOK /\ OneSide /\ OneDialer
  BY DEF OpenInv, OneSide
<1>2. CASE e \notin Ends
  <2>1. e.side \in Side /\ e.id \in Id /\ e.origin \in Side /\ e.origin # Dialer
    BY <1>2 DEF Ends, End
  <2>2. ~Registered(e) /\ e \notin held
    BY <1>1, <1>2, <2>1 DEF OneSide, Registered, Side
  <2> QED BY <2>2
<1>3. CASE e \in Ends
  <2>1. Registered(e) => e \notin closed
    BY <1>3 DEF OpenInv, Holding
  <2>2. ASSUME e \in held \ closed, sess[e.side] = "open" PROVE Registered(e)
    <3>1. Known(e)
      <4>1. CASE e.side = Acceptor
        BY <1>3, <2>2, <4>1 DEF OpenInv, Holding
      <4>2. CASE e.side = Dialer
        <5>1. e = Dialed(e.id) /\ e.id \in Id
          BY <1>1, <1>3, <4>2, SideEnds
        <5>2. Known(e) \/ Stopped(Dialer)
          BY <2>2, <5>1 DEF OpenInv, Opening
        <5> QED BY <2>2, <4>2, <5>2 DEF Stopped
      <4> QED BY <1>1, <1>3, <4>1, <4>2, SideEnds
    <3>2. ~Called("reject", e)
      BY <1>3, <2>2 DEF OpenInv, Holding
    <3> QED BY <2>2, <3>1, <3>2 DEF Known
  <2> QED BY <2>1, <2>2
<1> QED BY <1>2, <1>3

\* With one side dialing, the table of a running session leads to exactly the open
\* connections its application holds, whatever the number of connections and writes,
\* the capacities of the channels and the order in which the goroutines run.
THEOREM TablesHold ==
  ASSUME OneDialer
  PROVE  Spec => []TableExact
BY OpenInvHolds, TablesExact, PTL

\* A record that finds no connection.
LEMMA DropsAreOfClosed ==
  ASSUME OpenInv, [Next]_vars, NEW s \in Side,
         wire[Peer(s)] # <<>>, wire'[Peer(s)] = Tail(wire[Peer(s)]), Head(wire[Peer(s)]).type # "open"
  PROVE  \/ reader'[s].at # "read"
         \/ Stopped(s)
         \/ \E o \in Side : \/ TheEnd(s, o, Head(wire[Peer(s)]).id) \in closed
                            \/ call[Req("reject", TheEnd(s, o, Head(wire[Peer(s)]).id))] # "idle"
<1> DEFINE q == wire[Peer(s)]
           p == wire'[Peer(s)]
           i == Head(q).id
           o == conns[s][i]
           e == TheEnd(s, Dialer, i)
<1>1. /\ TypeOK /\ OneSide /\ OneDialer /\ Dialer \in Side /\ Acceptor \in Side /\ Dialer # Acceptor
      /\ Peer(Dialer) = Acceptor /\ Peer(Acceptor) = Dialer
      /\ Peer(s) \in Side /\ Peer(Peer(s)) = s /\ (s = Dialer \/ s = Acceptor)
  BY TwoSides DEF OpenInv, OneSide, Peer, Side
<1>2. q \in Seq(Message) /\ Len(q) \in Nat /\ Len(p) = Len(q) - 1
  BY <1>1, HeadTailProperties, LenProperties DEF TypeOK
<1>3. Receive(s) /\ Len(q) >= 1 /\ Head(q) = q[1]
  <2> HIDE DEF p, q
  <2>1. p # q /\ Len(p) # Len(q) + 1
    BY <1>2
  <2> QED BY <1>1, <2>1, WireOf DEF p, q
<1>4. ASSUME reader'[s].at = "read" PROVE o = "none" /\ i \in Id
  <2>1. /\ i \in Id
        /\ \/ o = "none"
           \/ reader'[s] = [at |-> "deliver", end |-> TheEnd(s, o, i), data |-> Head(q).data]
           \/ reader'[s] = [at |-> "remoteClose", end |-> TheEnd(s, o, i)]
    BY <1>1, <1>3, Received, Zenon
  <2> QED BY <1>4, <2>1
<1> SUFFICES ASSUME reader'[s].at = "read", ~Stopped(s)
             PROVE  \/ e \in closed
                    \/ call[Req("reject", e)] # "idle"
  BY <1>1
<1>5. i \in Id /\ ~Registered(e)
  BY <1>1, <1>4, Parts DEF Registered, Side
<1>6. Known(e)
  <2>1. CASE s = Acceptor
    <3>1. e = Accepted(i) /\ q = wire[Dialer] /\ q[1].id = i /\ q[1].type # "open" /\ 1 \in 1..Len(q)
      BY <1>1, <1>2, <1>3, <2>1 DEF Accepted
    <3>2. Known(e) \/ \E j \in 1..1 : OpenAt(i, j)
      BY <1>5, <3>1 DEF OpenInv, Opening
    <3> QED BY <3>1, <3>2 DEF OpenAt
  <2>2. CASE s = Dialer
    <3>1. e = Dialed(i) /\ q = wire[Acceptor] /\ q[1].id = i /\ 1 \in 1..Len(q)
      BY <1>1, <1>2, <1>3, <2>2 DEF Dialed
    <3>2. Known(Accepted(i))
      BY <1>5, <3>1 DEF OpenInv, Opening
    <3> QED BY <1>5, <2>2, <3>1, <3>2 DEF OpenInv, Opening
  <2> QED BY <1>1, <2>1, <2>2
<1> QED BY <1>5, <1>6 DEF Known, Called

\* With one side dialing, no record is dropped but those of a connection this side has
\* closed or refused: no DATA or CLOSE ever gets ahead of the OPEN of its connection,
\* although controlCh is served before dataCh and a Write may begin as soon as Dial returns.
THEOREM DropsHold ==
  ASSUME OneDialer
  PROVE  Spec => DropsOnlyClosed
<1>1. OpenInv /\ [Next]_vars =>
         [\A s \in Side :
             LET m == Head(wire[Peer(s)]) IN
             wire[Peer(s)] # <<>> /\ wire'[Peer(s)] = Tail(wire[Peer(s)]) /\ m.type # "open"
                => \/ reader'[s].at # "read"
                   \/ Stopped(s)
                   \/ \E o \in Side : \/ TheEnd(s, o, m.id) \in closed
                                      \/ call[Req("reject", TheEnd(s, o, m.id))] # "idle"]_vars
  BY DropsAreOfClosed
<1> QED BY <1>1, OpenInvHolds, PTL DEF Spec, DropsOnlyClosed
=============================================================================
