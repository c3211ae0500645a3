----------------------------- MODULE TunnelSession -----------------------------
(***************************************************************************)
(* wormhole/tunnel/session.go: two Sessions, one at each end of a record   *)
(* transport, multiplex the connections that their applications dial and   *)
(* accept.  Per session there is a readLoop goroutine, a writeLoop         *)
(* goroutine, and the application's goroutines inside Dial, Accept, Read,  *)
(* Write, conn.Close and Session.Close.                                    *)
(*                                                                         *)
(* A connection object, a tunnelConn, is an End: the side it lives on, the *)
(* side that dialed it and the connection ID.  The ID alone goes over the  *)
(* wire and indexes the conns table.                                       *)
(***************************************************************************)
EXTENDS Naturals, Sequences, FiniteSets

CONSTANTS
    Dialers,      \* the sides whose application calls Dial (Forward)
    Acceptors,    \* the sides whose application calls Accept (Serve)
    Writers,      \* the sides whose application calls Write
    Leavers,      \* the sides whose application may call conn.Close
    Closers,      \* the sides whose application may call Session.Close
    LinkFails,    \* TRUE if the transport may break by itself
    MaxDials,     \* bound: Dial calls per side
    MaxWrites,    \* bound: Write calls per End
    MaxCalls,     \* bound: Dial and Write calls, all together
    ControlCap, DataCap, ReadCap, BacklogCap,  \* channel capacities (64, 256, 64, 64)
    WireCap       \* records the transport buffers in each direction

Side == {"a", "b"}

ASSUME SidesAssumption == /\ Dialers \subseteq Side
                          /\ Acceptors \subseteq Side
                          /\ Writers \subseteq Side
                          /\ Leavers \subseteq Side
                          /\ Closers \subseteq Side
                          /\ LinkFails \in BOOLEAN
ASSUME BoundsAssumption == /\ MaxDials \in Nat \ {0}
                           /\ MaxWrites \in Nat \ {0}
                           /\ MaxCalls \in Nat
ASSUME CapsAssumption == /\ ControlCap \in Nat \ {0}
                         /\ DataCap \in Nat \ {0}
                         /\ ReadCap \in Nat \ {0}
                         /\ BacklogCap \in Nat \ {0}
                         /\ WireCap \in Nat \ {0}

Peer(s) == IF s = "a" THEN "b" ELSE "a"
Id == 1..MaxDials
End == [side: Side, origin: Side, id: Id]
TheEnd(s, o, i) == [side |-> s, origin |-> o, id |-> i]
PeerEnd(e) == [e EXCEPT !.side = Peer(e.side)]

\* The contents of the n-th Write on a connection; no code looks at it.
Payload == [origin: Side, id: Id, n: 1..MaxWrites]

Message == [type: {"open", "close"}, id: Id]
             \cup [type: {"data"}, id: Id, data: Payload]

\* A writeRequest, named by the call that waits on its err channel: Dial,
\* Write, conn.Close, or handleOpen refusing a connection.
Request == [op: {"open", "data", "close", "reject"}, end: End]
Req(op, e) == [op |-> op, end |-> e]

VARIABLES
    nextID,     \* [Side -> Nat] Session.nextID
    checked,    \* [Side -> Nat] Dial calls past the stopCh check, without an ID yet
    conns,      \* [Side -> [Id -> Side or "none"]] Session.conns: whose dial the entry is
    sess,       \* [Side -> ..] "open", "stopped" (stopCh closed), "closed" (closeAll ran)
    app,        \* [Side -> ..] the goroutine in Session.Close; "waiting" once rw is closed
    linkUp,     \* BOOLEAN the transport itself
    ctl, dat,   \* [Side -> Seq(Request)] controlCh, dataCh
    writer,     \* [Side -> ..] the writeLoop goroutine
    wire,       \* [Side -> Seq(Message)] records sent by the side and not yet read
    reader,     \* [Side -> ..] the readLoop goroutine
    backlog,    \* [Side -> Seq(End)] listener.connCh
    call,       \* [Request -> ..] the call that made the request: in its first
                \* select ("enqueue"), in its second ("wait"), returned ("done")
    closed,     \* set of End: tunnelConn.closed is 1, closeCh is closed, once is taken
    held,       \* set of End the application has got from Dial or Accept
    readCh,     \* [End -> Seq(Payload)] tunnelConn.readCh
    sent,       \* [End -> Nat] Write calls begun
    got         \* [End -> Seq(Payload)] what Read has returned, in order

shutVars == <<sess, app, linkUp>>
outVars  == <<ctl, dat, writer, wire>>
dialVars == <<nextID, checked>>
ioVars   == <<readCh, sent, got>>
vars == <<shutVars, outVars, dialVars, ioVars, conns, reader, backlog, call, closed, held>>

Pending == {"enqueue", "wait"}

\* Where each loop is, and what it has in hand there.
WriterState == [at: {"first", "second", "done"}]
                 \cup [at: {"write"}, req: Request, next: {"first", "second"}]
ReaderState == [at: {"read", "closing", "done"}]
                 \cup [at: {"open", "reject", "remoteClose"}, end: End]
                 \cup [at: {"deliver"}, end: End, data: Payload]

TypeOK ==
    /\ nextID \in [Side -> 0..MaxDials]
    /\ checked \in [Side -> 0..MaxDials]
    /\ conns \in [Side -> [Id -> Side \cup {"none"}]]
    /\ sess \in [Side -> {"open", "stopped", "closed"}]
    /\ app \in [Side -> {"idle", "closing", "waiting", "done"}]
    /\ linkUp \in BOOLEAN
    /\ ctl \in [Side -> Seq(Request)]
    /\ dat \in [Side -> Seq(Request)]
    /\ writer \in [Side -> WriterState]
    /\ wire \in [Side -> Seq(Message)]
    /\ reader \in [Side -> ReaderState]
    /\ backlog \in [Side -> Seq(End)]
    /\ call \in [Request -> Pending \cup {"idle", "done"}]
    /\ closed \subseteq End
    /\ held \subseteq End
    /\ readCh \in [End -> Seq(Payload)]
    /\ sent \in [End -> 0..MaxWrites]
    /\ got \in [End -> Seq(Payload)]

\* NewSession on both sides of a fresh transport.
Init ==
    /\ nextID = [s \in Side |-> 0]
    /\ checked = [s \in Side |-> 0]
    /\ conns = [s \in Side |-> [i \in Id |-> "none"]]
    /\ sess = [s \in Side |-> "open"]
    /\ app = [s \in Side |-> "idle"]
    /\ linkUp = TRUE
    /\ ctl = [s \in Side |-> <<>>]
    /\ dat = [s \in Side |-> <<>>]
    /\ writer = [s \in Side |-> [at |-> "first"]]
    /\ wire = [s \in Side |-> <<>>]
    /\ reader = [s \in Side |-> [at |-> "read"]]
    /\ backlog = [s \in Side |-> <<>>]
    /\ call = [r \in Request |-> "idle"]
    /\ closed = {}
    /\ held = {}
    /\ readCh = [e \in End |-> <<>>]
    /\ sent = [e \in End |-> 0]
    /\ got = [e \in End |-> <<>>]

Stopped(s) == sess[s] # "open"

\* RecordIO.Close has been called on this side.
RwClosed(s) == app[s] \in {"waiting", "done"}

Registered(e) == conns[e.side][e.id] = e.origin
Register(e) == conns' = [conns EXCEPT ![e.side][e.id] = e.origin]
Unregister(e) == conns' = [conns EXCEPT ![e.side][e.id] = "none"]

At(s, at) == reader' = [reader EXCEPT ![s] = [at |-> at]]
AtEnd(s, at, e) == reader' = [reader EXCEPT ![s] = [at |-> at, end |-> e]]

-----------------------------------------------------------------------------
(* Requests: sendControl and enqueueData, and what their callers do next.  *)

Submit(r) == call' = [call EXCEPT ![r] = "enqueue"]

\* Variant: a Write returns as soon as its record is queued.
EnqueueAndForget(r) ==
    LET s == r.end.side IN
    /\ call[r] = "enqueue"
    /\ IF r.op = "data" THEN Len(dat[s]) < DataCap ELSE Len(ctl[s]) < ControlCap
    /\ dat' = [dat EXCEPT ![s] = IF r.op = "data" THEN Append(@, r) ELSE @]
    /\ ctl' = [ctl EXCEPT ![s] = IF r.op = "data" THEN @ ELSE Append(@, r)]
    /\ call' = [call EXCEPT ![r] = IF r.op = "data" THEN "idle" ELSE "wait"]
    /\ UNCHANGED <<shutVars, writer, wire, dialVars, ioVars, conns, reader, backlog,
                   closed, held>>

Enqueue(r) ==
    LET s == r.end.side IN
    /\ call[r] = "enqueue"
    /\ \/ /\ r.op = "data"
          /\ Len(dat[s]) < DataCap
          /\ dat' = [dat EXCEPT ![s] = Append(@, r)]
          /\ UNCHANGED ctl
       \/ /\ r.op # "data"
          /\ Len(ctl[s]) < ControlCap
          /\ ctl' = [ctl EXCEPT ![s] = Append(@, r)]
          /\ UNCHANGED dat
    /\ call' = [call EXCEPT ![r] = "wait"]
    /\ UNCHANGED <<shutVars, writer, wire, dialVars, ioVars, conns, reader, backlog,
                   closed, held>>

\* The caller gets its result.  Dial hands out the connection or forgets it;
\* a writer goes on after nil and gives up after an error; conn.Close leaves
\* once.Do; handleOpen forgets the connection it refused.
Return(r, ok) ==
    LET e == r.end IN
    /\ call' = [call EXCEPT ![r] = IF r.op = "data" /\ ok THEN "idle" ELSE "done"]
    /\ held' = IF r.op = "open" /\ ok THEN held \cup {e} ELSE held
    /\ IF r.op = "reject" \/ (r.op = "open" /\ ~ok) THEN Unregister(e) ELSE UNCHANGED conns
    /\ IF r.op = "reject" THEN At(e.side, "read") ELSE UNCHANGED reader

\* Either select returns net.ErrClosed once stopCh is closed.
GiveUp(r) ==
    /\ call[r] \in Pending
    /\ Stopped(r.end.side)
    /\ Return(r, FALSE)
    /\ UNCHANGED <<shutVars, outVars, dialVars, ioVars, backlog, closed>>

Call(r) == Enqueue(r) \/ GiveUp(r)

-----------------------------------------------------------------------------
(* writeLoop: a select on stopCh and controlCh only, then one on all three *)
(* channels; whichever ready branch the runtime picks.                     *)

Take(s, q, next) ==
    /\ q[s] # <<>>
    /\ writer' = [writer EXCEPT ![s] = [at |-> "write", req |-> Head(q[s]), next |-> next]]
    /\ UNCHANGED <<shutVars, wire, dialVars, ioVars, conns, reader, backlog, call,
                   closed, held>>

TakeControl(s, at, next) ==
    /\ writer[s].at = at
    /\ Take(s, ctl, next)
    /\ ctl' = [ctl EXCEPT ![s] = Tail(@)]
    /\ UNCHANGED dat

TakeData(s) ==
    /\ writer[s].at = "second"
    /\ Take(s, dat, "first")
    /\ dat' = [dat EXCEPT ![s] = Tail(@)]
    /\ UNCHANGED ctl

MoveWriter(s, at) ==
    /\ writer' = [writer EXCEPT ![s] = [at |-> at]]
    /\ UNCHANGED <<shutVars, ctl, dat, wire, dialVars, ioVars, conns, reader, backlog,
                   call, closed, held>>

NoControl(s) ==
    /\ writer[s].at = "first"
    /\ ctl[s] = <<>>
    /\ ~Stopped(s)
    /\ MoveWriter(s, "second")

\* Variant: only the first select looks at stopCh.
WriterStopsFirst(s) ==
    /\ writer[s].at = "first"
    /\ Stopped(s)
    /\ MoveWriter(s, "done")

WriterStops(s) ==
    /\ writer[s].at \in {"first", "second"}
    /\ Stopped(s)
    /\ MoveWriter(s, "done")

\* What the Write in progress has copied.
Chunk(r) == [origin |-> r.end.origin, id |-> r.end.id, n |-> sent[r.end]]

\* Variant: the chunk before the one being written.
EncodeStale(r) ==
    IF r.op = "data"
    THEN [type |-> "data", id |-> r.end.id,
          data |-> [Chunk(r) EXCEPT !.n = @ - 1]]
    ELSE [type |-> IF r.op = "open" THEN "open" ELSE "close", id |-> r.end.id]

\* Variant: CLOSE carries the session's ID counter, not the connection's ID.
EncodeCounter(r) ==
    CASE r.op = "open" -> [type |-> "open", id |-> r.end.id]
      [] r.op = "data" -> [type |-> "data", id |-> r.end.id, data |-> Chunk(r)]
      [] OTHER         -> [type |-> "close",
                           id |-> IF nextID[r.end.side] = 0 THEN 1 ELSE nextID[r.end.side]]

\* EncodeOpen, EncodeData, EncodeClose.
Encode(r) ==
    CASE r.op = "open" -> [type |-> "open", id |-> r.end.id]
      [] r.op = "data" -> [type |-> "data", id |-> r.end.id, data |-> Chunk(r)]
      [] OTHER         -> [type |-> "close", id |-> r.end.id]

\* The transport can fail once it is down or either side has closed it.
Broken == ~linkUp \/ \E s \in Side : RwClosed(s)

\* WriteRecord returns and the caller reads its result from req.err, unless it
\* has given up or its select prefers a closed stopCh.
Answer(s, ok) ==
    LET w == writer[s] IN
    /\ writer' = [writer EXCEPT ![s] = [at |-> w.next]]
    /\ \/ /\ call[w.req] = "wait"
          /\ Return(w.req, ok)
       \/ /\ call[w.req] # "wait" \/ Stopped(s)
          /\ UNCHANGED <<call, held, conns, reader>>
    /\ UNCHANGED <<shutVars, ctl, dat, dialVars, ioVars, backlog, closed>>

RecordWritten(s) ==
    /\ writer[s].at = "write"
    /\ ~RwClosed(s)
    /\ Len(wire[s]) < WireCap
    /\ wire' = [wire EXCEPT ![s] = Append(@, Encode(writer[s].req))]
    /\ Answer(s, TRUE)

WriteFails(s) ==
    /\ writer[s].at = "write"
    /\ Broken
    /\ Answer(s, FALSE)
    /\ UNCHANGED wire


WriteLoop(s) ==
    \/ TakeControl(s, "first", "second")
    \/ NoControl(s)
    \/ TakeControl(s, "second", "first")
    \/ TakeData(s)
    \/ WriterStops(s)
    \/ RecordWritten(s)
    \/ WriteFails(s)

-----------------------------------------------------------------------------
(* readLoop: ReadRecord and the three handlers.                            *)

\* handleOpen stores a new connection; handleData and handleClose look theirs
\* up and drop the record when there is none.
Receive(s) ==
    LET m == Head(wire[Peer(s)])
        o == IF m.type = "open" THEN Peer(s) ELSE conns[s][m.id]
        e == TheEnd(s, o, m.id)
    IN
    /\ reader[s].at = "read"
    /\ ~RwClosed(s)
    /\ wire[Peer(s)] # <<>>
    /\ wire' = [wire EXCEPT ![Peer(s)] = Tail(@)]
    /\ \/ /\ m.type = "open"
          /\ Register(e)
          /\ AtEnd(s, "open", e)
       \/ /\ m.type # "open" /\ o = "none"
          /\ UNCHANGED <<conns, reader>>
       \/ /\ m.type = "data" /\ o # "none"
          /\ reader' = [reader EXCEPT ![s] = [at |-> "deliver", end |-> e, data |-> m.data]]
          /\ UNCHANGED conns
       \/ /\ m.type = "close" /\ o # "none"
          /\ AtEnd(s, "remoteClose", e)
          /\ UNCHANGED conns
    /\ UNCHANGED <<shutVars, ctl, dat, writer, dialVars, ioVars, backlog, call, closed, held>>

\* handleOpen's select: the listener's channel, stopCh, or default when
\* neither is ready.
OfferOpen(s) ==
    /\ reader[s].at = "open"
    /\ Len(backlog[s]) < BacklogCap
    /\ backlog' = [backlog EXCEPT ![s] = Append(@, reader[s].end)]
    /\ At(s, "read")
    /\ UNCHANGED <<shutVars, outVars, dialVars, ioVars, conns, call, closed, held>>

RefuseOpen(s) ==
    /\ reader[s].at = "open"
    /\ Stopped(s) \/ Len(backlog[s]) = BacklogCap
    /\ AtEnd(s, "reject", reader[s].end)
    /\ Submit(Req("reject", reader[s].end))
    /\ UNCHANGED <<shutVars, outVars, dialVars, ioVars, conns, backlog, closed, held>>

Refusing(s) ==
    /\ reader[s].at = "reject"
    /\ Call(Req("reject", reader[s].end))

\* Variant: a chunk that finds readCh full replaces the oldest.
DeliverOverOldest(s) ==
    LET e == reader[s].end IN
    /\ reader[s].at = "deliver"
    /\ readCh' = [readCh EXCEPT ![e] =
                     Append(IF Len(@) < ReadCap THEN @ ELSE Tail(@), reader[s].data)]
    /\ At(s, "read")
    /\ UNCHANGED <<shutVars, outVars, dialVars, sent, got, conns, backlog, call, closed, held>>

\* deliverData's select.
Deliver(s) ==
    LET e == reader[s].end IN
    /\ reader[s].at = "deliver"
    /\ \/ /\ Len(readCh[e]) < ReadCap
          /\ readCh' = [readCh EXCEPT ![e] = Append(@, reader[s].data)]
       \/ /\ e \in closed
          /\ UNCHANGED readCh
    /\ At(s, "read")
    /\ UNCHANGED <<shutVars, outVars, dialVars, sent, got, conns, backlog, call, closed, held>>

\* tunnelConn.remoteClose: once.Do waits for a conn.Close that is still in it.
RemoteClose(s) ==
    LET e == reader[s].end IN
    /\ reader[s].at = "remoteClose"
    /\ call[Req("close", e)] \notin Pending
    /\ IF e \in closed THEN UNCHANGED conns ELSE Unregister(e)
    /\ closed' = closed \cup {e}
    /\ At(s, "read")
    /\ UNCHANGED <<shutVars, outVars, dialVars, ioVars, backlog, call, held>>

\* Session.close closes stopCh first; its once admits one caller.
Stop(s) == sess' = [sess EXCEPT ![s] = IF @ = "open" THEN "stopped" ELSE @]

ReadFails(s) ==
    /\ reader[s].at = "read"
    /\ Broken
    /\ Stop(s)
    /\ At(s, "closing")
    /\ UNCHANGED <<app, linkUp, outVars, dialVars, ioVars, conns, backlog, call, closed, held>>

ReadLoopEnds(s) ==
    /\ reader[s].at = "closing"
    /\ sess[s] = "closed"
    /\ At(s, "done")
    /\ UNCHANGED <<shutVars, outVars, dialVars, ioVars, conns, backlog, call, closed, held>>

ReadLoop(s) ==
    \/ Receive(s)
    \/ OfferOpen(s)
    \/ RefuseOpen(s)
    \/ Refusing(s)
    \/ Deliver(s)
    \/ RemoteClose(s)
    \/ ReadFails(s)
    \/ ReadLoopEnds(s)

-----------------------------------------------------------------------------
(* Shutdown: Session.Close, close and closeAll.                            *)

SessionClose(s) ==
    /\ s \in Closers
    /\ app[s] = "idle"
    /\ app' = [app EXCEPT ![s] = "closing"]
    /\ Stop(s)
    /\ UNCHANGED <<linkUp, outVars, dialVars, ioVars, conns, reader, backlog, call, closed, held>>

\* closeAll: remoteClose on every entry of the table.
Open(e) == Registered(e) /\ e \notin closed

CloseAll(s) ==
    /\ sess[s] = "stopped"
    /\ closed' = closed \cup {e \in End : e.side = s /\ Open(e)}
    /\ conns' = [conns EXCEPT ![s] =
                    [i \in Id |-> IF \E o \in Side : Open(TheEnd(s, o, i)) THEN "none" ELSE @[i]]]
    /\ sess' = [sess EXCEPT ![s] = "closed"]
    /\ UNCHANGED <<app, linkUp, outVars, dialVars, ioVars, reader, backlog, call, held>>

TransportClose(s) ==
    /\ app[s] = "closing"
    /\ sess[s] = "closed"
    /\ app' = [app EXCEPT ![s] = "waiting"]
    /\ UNCHANGED <<sess, linkUp, outVars, dialVars, ioVars, conns, reader, backlog,
                   call, closed, held>>

\* wg.Wait: both loops have returned.
SessionCloseReturns(s) ==
    /\ app[s] = "waiting"
    /\ reader[s].at = "done"
    /\ writer[s].at = "done"
    /\ app' = [app EXCEPT ![s] = "done"]
    /\ UNCHANGED <<sess, linkUp, outVars, dialVars, ioVars, conns, reader, backlog,
                   call, closed, held>>

LinkBreaks ==
    /\ LinkFails
    /\ linkUp
    /\ linkUp' = FALSE
    /\ UNCHANGED <<sess, app, outVars, dialVars, ioVars, conns, reader, backlog, call,
                   closed, held>>

-----------------------------------------------------------------------------
(* The calls of the application.                                           *)

DialCalls == {x \in Side \X Id : x[2] <= nextID[x[1]] + checked[x[1]]}
WriteCalls == {x \in End \X (1..MaxWrites) : x[2] <= sent[x[1]]}
MayCall == Cardinality(DialCalls) + Cardinality(WriteCalls) < MaxCalls

\* Dial: the check of stopCh, then the ID, the entry in the table and OPEN.
DialCheck(s) ==
    /\ s \in Dialers
    /\ MayCall
    /\ ~Stopped(s)
    /\ nextID[s] + checked[s] < MaxDials
    /\ checked' = [checked EXCEPT ![s] = @ + 1]
    /\ UNCHANGED <<shutVars, outVars, nextID, ioVars, conns, reader, backlog, call,
                   closed, held>>

\* Variant: Dial hands out the connection before OPEN is written.
DialOpenEarly(s) ==
    LET e == TheEnd(s, s, nextID[s] + 1) IN
    /\ checked[s] > 0
    /\ checked' = [checked EXCEPT ![s] = @ - 1]
    /\ nextID' = [nextID EXCEPT ![s] = @ + 1]
    /\ Register(e)
    /\ Submit(Req("open", e))
    /\ held' = held \cup {e}
    /\ UNCHANGED <<shutVars, outVars, ioVars, reader, backlog, closed>>

DialOpen(s) ==
    LET e == TheEnd(s, s, nextID[s] + 1) IN
    /\ checked[s] > 0
    /\ checked' = [checked EXCEPT ![s] = @ - 1]
    /\ nextID' = [nextID EXCEPT ![s] = @ + 1]
    /\ Register(e)
    /\ Submit(Req("open", e))
    /\ UNCHANGED <<shutVars, outVars, ioVars, reader, backlog, closed, held>>

\* Accept's select takes from connCh whether or not stopCh is closed.
Accept(s) ==
    /\ s \in Acceptors
    /\ backlog[s] # <<>>
    /\ held' = held \cup {Head(backlog[s])}
    /\ backlog' = [backlog EXCEPT ![s] = Tail(@)]
    /\ UNCHANGED <<shutVars, outVars, dialVars, ioVars, conns, reader, call, closed>>

Write(e) ==
    /\ e.side \in Writers
    /\ e \in held \ closed
    /\ call[Req("data", e)] = "idle"
    /\ sent[e] < MaxWrites
    /\ MayCall
    /\ sent' = [sent EXCEPT ![e] = @ + 1]
    /\ Submit(Req("data", e))
    /\ UNCHANGED <<shutVars, outVars, dialVars, readCh, got, conns, reader, backlog,
                   closed, held>>

\* Variant: the chunk stays in readCh.
ReadAgain(e) ==
    /\ e \in held
    /\ readCh[e] # <<>>
    /\ got' = [got EXCEPT ![e] = Append(@, Head(readCh[e]))]
    /\ UNCHANGED <<shutVars, outVars, dialVars, readCh, sent, conns, reader, backlog, call,
                   closed, held>>

\* Read's select when it takes data; io.EOF, its answer on a closed closeCh,
\* changes nothing, and a later Read may still take what readCh holds.
Read(e) ==
    /\ e \in held
    /\ readCh[e] # <<>>
    /\ got' = [got EXCEPT ![e] = Append(@, Head(readCh[e]))]
    /\ readCh' = [readCh EXCEPT ![e] = Tail(@)]
    /\ UNCHANGED <<shutVars, outVars, dialVars, sent, conns, reader, backlog, call,
                   closed, held>>

\* Variant: the entry stays in the table.
CloseStaysRegistered(e) ==
    /\ e.side \in Leavers
    /\ e \in held \ closed
    /\ closed' = closed \cup {e}
    /\ Submit(Req("close", e))
    /\ UNCHANGED <<shutVars, outVars, dialVars, ioVars, conns, reader, backlog, held>>

\* conn.Close up to its sendClose; a second Close changes nothing.
Close(e) ==
    /\ e.side \in Leavers
    /\ e \in held \ closed
    /\ closed' = closed \cup {e}
    /\ Unregister(e)
    /\ Submit(Req("close", e))
    /\ UNCHANGED <<shutVars, outVars, dialVars, ioVars, reader, backlog, held>>

-----------------------------------------------------------------------------
CallsOn(e) == \E op \in {"open", "data", "close"} : Call(Req(op, e))

Use(e) == CallsOn(e) \/ Write(e) \/ Read(e) \/ Close(e)

Serve(s) == DialCheck(s) \/ DialOpen(s) \/ Accept(s)

Shutdown(s) ==
    \/ SessionClose(s)
    \/ CloseAll(s)
    \/ TransportClose(s)
    \/ SessionCloseReturns(s)

Next ==
    \/ \E s \in Side : WriteLoop(s) \/ ReadLoop(s) \/ Serve(s) \/ Shutdown(s)
    \/ \E e \in End : Use(e)
    \/ LinkBreaks

Spec == Init /\ [][Next]_vars

LiveEnd == {e \in End : e.origin \in Dialers}

\* What runs by itself: the loops, the calls in progress, an accept loop until stopCh is
\* closed, and applications that read what their connections receive.
Scheduled ==
    \/ \E s \in Side : \/ WriteLoop(s) \/ ReadLoop(s) \/ DialOpen(s)
                       \/ CloseAll(s) \/ TransportClose(s) \/ SessionCloseReturns(s)
                       \/ ~Stopped(s) /\ Accept(s)
    \/ \E e \in LiveEnd : CallsOn(e) \/ Read(e)

\* Goroutines are scheduled: each of their steps uses up something of a bounded supply, so
\* that one fairness for all lets none starve.  Nothing obliges an application to dial,
\* write or close.
FairSpec == Spec /\ WF_vars(Scheduled)

-----------------------------------------------------------------------------
(* Properties.                                                             *)

\* What a reader gets is what the other end of its own connection wrote, in
\* the order written, with nothing missing in between.
InOrder ==
    \A e \in End :
       /\ Len(got[e]) <= sent[PeerEnd(e)]
       /\ \A k \in 1..Len(got[e]) : got[e][k] = [origin |-> e.origin, id |-> e.id, n |-> k]

\* While a session runs, its table leads to exactly the open connections the
\* application holds: none of them is cut off from its records, and no record
\* goes to a closed one.
TableExact ==
    \A e \in End :
       /\ Registered(e) => e \notin closed
       /\ e \in held \ closed /\ sess[e.side] = "open" => Registered(e)

\* No record is dropped but those of a connection this side has closed or
\* refused: in particular, although controlCh is served before dataCh, no DATA
\* or CLOSE gets ahead of the OPEN of its connection.
DropsOnlyClosed ==
    [][\A s \in Side :
          LET m == Head(wire[Peer(s)]) IN
          wire[Peer(s)] # <<>> /\ wire'[Peer(s)] = Tail(wire[Peer(s)]) /\ m.type # "open"
             => \/ reader'[s].at # "read"
                \/ Stopped(s)
                \/ \E o \in Side : \/ TheEnd(s, o, m.id) \in closed
                                   \/ call[Req("reject", TheEnd(s, o, m.id))] # "idle"]_vars

\* When CLOSE from the other end closes a connection, all it wrote has arrived
\* except at most the last chunk, whose Write raced with the Close.
ClosedAfterData ==
    [][\A e \in closed' \ closed :
          sess[e.side] = "open" /\ call'[Req("close", e)] = "idle"
             => Len(got[e]) + Len(readCh[e]) >= sent[PeerEnd(e)] - 1]_vars

\* Side s has closed or refused a connection with ID i.
Ended(s, i) == \E o \in Side : \/ call[Req("close", TheEnd(s, o, i))] # "idle"
                              \/ call[Req("reject", TheEnd(s, o, i))] # "idle"

\* A connection is closed by its application, by the shutdown of its session, or
\* because the other side closed or refused a connection of its ID: no CLOSE goes
\* to another ID, and none comes from nowhere.
ClosedForCause ==
    \A e \in closed : \/ call[Req("close", e)] # "idle"
                      \/ Stopped(e.side)
                      \/ Ended(Peer(e.side), e.id)

\* The sessions implement the streams of ConnStreams: nothing is read that was
\* not written, no write succeeds in entering a closed end, and no end is closed
\* without a cause.
Streams == INSTANCE ConnStreams WITH
    got <- [e \in End |-> Len(got[e])],
    left <- {e \in End : call[Req("close", e)] # "idle"},
    refused <- {e \in End : call[Req("reject", e)] # "idle"},
    up <- [s \in Side |-> ~Stopped(s)]
ImplementsStreams == Streams!Spec


\* Session.Close returns, unless its readLoop is for ever delivering to a connection
\* that closeAll did not see and nobody has accepted.
Orphaned(s) == /\ reader[s].at = "deliver"
               /\ reader[s].end \notin closed \cup held
ShutdownCompletes ==
    \A s \in Closers : app[s] = "closing" ~> (app[s] = "done" \/ []Orphaned(s))
=============================================================================
