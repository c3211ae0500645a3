-------------------------- MODULE TunnelSessionProofs --------------------------
(***************************************************************************)
(* Theorems about TunnelSession, for every number of dials and writes and  *)
(* every capacity of its channels.                                         *)
(*                                                                         *)
(* TypeOK is not inductive: the ID of a DialOpen is within its bound only  *)
(* because DialCheck has reserved it (IdsLeft), and a DATA record carries  *)
(* a chunk that exists only because its Write was counted before the       *)
(* request was queued (Queues).  TypeInv adds both.                        *)
(***************************************************************************)
EXTENDS TunnelSession, TLAPS

\* A Dial past its check of stopCh has an ID left for it.
IdsLeft == \A s \in Side : nextID[s] + checked[s] <= MaxDials

\* The requests whose record can be encoded: of a Write, those that have been
\* counted, so that the chunk has a number.
Begun == {r \in Request : r.op = "data" => sent[r.end] >= 1}

Queues ==
    /\ ctl \in [Side -> Seq(Begun)]
    /\ dat \in [Side -> Seq(Begun)]
    /\ \A s \in Side : writer[s].at = "write" => writer[s].req \in Begun
    /\ \A r \in Request : call[r] # "idle" => r \in Begun

TypeInv == TypeOK /\ IdsLeft /\ Queues

-----------------------------------------------------------------------------
(* Functions and sequences.                                                *)

\* A function that maps everything to one value.
LEMMA Constant ==
  ASSUME NEW D, NEW S, NEW x \in S
  PROVE  [d \in D |-> x] \in [D -> S]
OBVIOUS

\* The empty queues of Init are queues of anything.
LEMMA EmptySeqs ==
  ASSUME NEW D, NEW S
  PROVE  [d \in D |-> <<>>] \in [D -> Seq(S)]
OBVIOUS

\* An update keeps the range of a function.
LEMMA Put ==
  ASSUME NEW D, NEW S, NEW f \in [D -> S], NEW d, NEW x \in S
  PROVE  [f EXCEPT ![d] = x] \in [D -> S]
OBVIOUS

\* The same one level down, for the conns tables.
LEMMA PutPut ==
  ASSUME NEW D, NEW E, NEW S, NEW f \in [D -> [E -> S]], NEW d, NEW e, NEW x \in S
  PROVE  [f EXCEPT ![d][e] = x] \in [D -> [E -> S]]
OBVIOUS

\* What is appended to a queue keeps its type.
LEMMA PutAppend ==
  ASSUME NEW D, NEW S, NEW f \in [D -> Seq(S)], NEW d \in D, NEW x \in S
  PROVE  [f EXCEPT ![d] = Append(@, x)] \in [D -> Seq(S)]
OBVIOUS

\* So does taking its head, which is of that type.
LEMMA PutTail ==
  ASSUME NEW D, NEW S, NEW f \in [D -> Seq(S)], NEW d \in D, f[d] # <<>>
  PROVE  [f EXCEPT ![d] = Tail(@)] \in [D -> Seq(S)] /\ Head(f[d]) \in S
OBVIOUS

-----------------------------------------------------------------------------
\* NewSession establishes the invariant: nothing is begun, everything is empty.
LEMMA TypeInvInit == Init => TypeInv
<1> SUFFICES ASSUME Init PROVE TypeInv
  OBVIOUS
<1>1. TypeOK
  <2>1. nextID \in [Side -> 0..MaxDials] /\ checked \in [Side -> 0..MaxDials]
    BY BoundsAssumption DEF Init
  <2>2. conns \in [Side -> [Id -> Side \cup {"none"}]]
    BY DEF Init
  <2>3. sess \in [Side -> {"open", "stopped", "closed"}]
    BY DEF Init
  <2>4. app \in [Side -> {"idle", "closing", "waiting", "done"}]
    BY DEF Init
  <2>5. ctl \in [Side -> Seq(Request)] /\ dat \in [Side -> Seq(Request)]
    BY EmptySeqs DEF Init
  <2>6. wire \in [Side -> Seq(Message)] /\ backlog \in [Side -> Seq(End)]
    BY EmptySeqs DEF Init
  <2>7. writer \in [Side -> WriterState]
    <3>1. [at |-> "first"] \in WriterState
      BY DEF WriterState
    <3> QED BY <3>1, Constant DEF Init
  <2>8. reader \in [Side -> ReaderState]
    <3>1. [at |-> "read"] \in ReaderState
      BY DEF ReaderState
    <3> QED BY <3>1, Constant DEF Init
  <2>9. readCh \in [End -> Seq(Payload)] /\ got \in [End -> Seq(Payload)]
    BY EmptySeqs DEF Init
  <2>10. sent \in [End -> 0..MaxWrites]
    BY BoundsAssumption DEF Init
  <2>11. call \in [Request -> Pending \cup {"idle", "done"}]
    BY DEF Init
  <2>12. linkUp \in BOOLEAN /\ closed \subseteq End /\ held \subseteq End
    BY DEF Init
  <2> QED BY <2>1, <2>2, <2>3, <2>4, <2>5, <2>6, <2>7, <2>8, <2>9, <2>10, <2>11, <2>12 DEF TypeOK
<1>2. IdsLeft
  BY BoundsAssumption DEF Init, IdsLeft
<1>3. Queues
  <2>1. ctl \in [Side -> Seq(Begun)] /\ dat \in [Side -> Seq(Begun)]
    BY EmptySeqs DEF Init
  <2> QED BY <2>1 DEF Init, Queues
<1> QED BY <1>1, <1>2, <1>3 DEF TypeInv

-----------------------------------------------------------------------------
(* The parts of the state, and the shared steps of the actions.            *)

\* The parts of a writeRequest.
LEMMA RequestType ==
  ASSUME NEW r \in Request
  PROVE  r.end \in End /\ r.end.side \in Side /\ r.end.origin \in Side /\ r.end.id \in Id
BY DEF Request, End

\* A request made for an end of a connection is a request.
LEMMA ReqType ==
  ASSUME NEW e \in End, NEW op \in {"open", "data", "close", "reject"}
  PROVE  Req(op, e) \in Request /\ Req(op, e).op = op /\ Req(op, e).end = e
BY DEF Req, Request

\* What readLoop holds in each of its states.
LEMMA ReaderType ==
  ASSUME NEW s \in Side, TypeOK
  PROVE  /\ reader[s].at \in {"open", "reject", "remoteClose", "deliver"} => reader[s].end \in End
         /\ reader[s].at = "deliver" => reader[s].data \in Payload
BY DEF TypeOK, ReaderState

\* What writeLoop holds while it is in WriteRecord.
LEMMA WriterType ==
  ASSUME NEW s \in Side, TypeOK
  PROVE  writer[s].at = "write" => writer[s].req \in Request /\ writer[s].next \in {"first", "second"}
BY DEF TypeOK, WriterState

\* readLoop moves to a state in which it holds nothing.
LEMMA ReaderAt ==
  ASSUME TypeOK, NEW s, NEW at \in {"read", "closing", "done"}, At(s, at)
  PROVE  reader' \in [Side -> ReaderState]
<1>1. [at |-> at] \in ReaderState
  BY DEF ReaderState
<1> QED BY <1>1, Put DEF TypeOK, At

\* readLoop moves to a state in which it holds a connection.
LEMMA ReaderAtEnd ==
  ASSUME TypeOK, NEW s, NEW at \in {"open", "reject", "remoteClose"}, NEW e \in End, AtEnd(s, at, e)
  PROVE  reader' \in [Side -> ReaderState]
<1>1. [at |-> at, end |-> e] \in ReaderState
  BY DEF ReaderState
<1> QED BY <1>1, Put DEF TypeOK, AtEnd

\* A call of sendData or sendClose begins.
LEMMA SubmitType ==
  ASSUME TypeOK, NEW r, Submit(r)
  PROVE  call' \in [Request -> Pending \cup {"idle", "done"}]
BY DEF TypeOK, Submit, Pending

\* conns.Store and conns.Delete keep the type of the tables.
LEMMA RegisterType ==
  ASSUME TypeOK, NEW e \in End, Register(e) \/ Unregister(e)
  PROVE  conns' \in [Side -> [Id -> Side \cup {"none"}]]
<1>1. e.origin \in Side \cup {"none"} /\ "none" \in Side \cup {"none"}
  BY DEF End
<1>2. CASE Register(e)
  BY <1>1, <1>2, PutPut, ZenonT(40) DEF TypeOK, Register
<1>3. CASE Unregister(e)
  BY <1>1, <1>3, PutPut, ZenonT(40) DEF TypeOK, Unregister
<1> QED BY <1>2, <1>3

\* A call returns to Dial, Write, Close or readLoop, whatever the answer.
LEMMA ReturnType ==
  ASSUME TypeOK, NEW r \in Request, NEW ok \in BOOLEAN, Return(r, ok)
  PROVE  /\ call' \in [Request -> Pending \cup {"idle", "done"}]
         /\ held' \subseteq End
         /\ conns' \in [Side -> [Id -> Side \cup {"none"}]]
         /\ reader' \in [Side -> ReaderState]
<1>1. call' \in [Request -> Pending \cup {"idle", "done"}]
  BY DEF TypeOK, Return
<1>2. held' \subseteq End
  BY RequestType DEF TypeOK, Return
<1>3. conns' \in [Side -> [Id -> Side \cup {"none"}]]
  <2>1. CASE Unregister(r.end)
    BY <2>1, RequestType, RegisterType
  <2>2. CASE UNCHANGED conns
    BY <2>2 DEF TypeOK
  <2> QED BY <2>1, <2>2 DEF Return
<1>4. reader' \in [Side -> ReaderState]
  <2>1. CASE At(r.end.side, "read")
    BY <2>1, ReaderAt
  <2>2. CASE UNCHANGED reader
    BY <2>2 DEF TypeOK
  <2> QED BY <2>1, <2>2 DEF Return
<1> QED BY <1>1, <1>2, <1>3, <1>4

\* sendControl and enqueueData put the request into their channel.
LEMMA EnqueueType ==
  ASSUME TypeOK, NEW r \in Request, Enqueue(r)
  PROVE  TypeOK'
<1> DEFINE s == r.end.side
<1>1. ctl' \in [Side -> Seq(Request)]
  <2>1. CASE ctl' = [ctl EXCEPT ![s] = Append(@, r)]
    BY <2>1, PutAppend, RequestType DEF TypeOK
  <2>2. CASE ctl' = ctl
    BY <2>2 DEF TypeOK
  <2> QED BY <2>1, <2>2 DEF Enqueue
<1>2. dat' \in [Side -> Seq(Request)]
  <2>1. CASE dat' = [dat EXCEPT ![s] = Append(@, r)]
    BY <2>1, PutAppend, RequestType DEF TypeOK
  <2>2. CASE dat' = dat
    BY <2>2 DEF TypeOK
  <2> QED BY <2>1, <2>2 DEF Enqueue
<1>3. call' \in [Request -> Pending \cup {"idle", "done"}]
  BY DEF TypeOK, Enqueue, Pending
<1> QED BY <1>1, <1>2, <1>3 DEF TypeOK, Enqueue, shutVars, dialVars, ioVars

\* Or they return because stopCh is closed.
LEMMA GiveUpType ==
  ASSUME TypeOK, NEW r \in Request, GiveUp(r)
  PROVE  TypeOK'
<1>1. /\ call' \in [Request -> Pending \cup {"idle", "done"}]
      /\ held' \subseteq End
      /\ conns' \in [Side -> [Id -> Side \cup {"none"}]]
      /\ reader' \in [Side -> ReaderState]
  BY ReturnType DEF GiveUp
<1> QED BY <1>1 DEF TypeOK, GiveUp, shutVars, outVars, dialVars, ioVars

-----------------------------------------------------------------------------
(* TypeOK, action by action.                                               *)

\* writeLoop takes a request from controlCh, in either select.
LEMMA TakeControlType ==
  ASSUME TypeOK, NEW s \in Side, NEW at, NEW next \in {"first", "second"}, TakeControl(s, at, next)
  PROVE  TypeOK'
<1>1. ctl' \in [Side -> Seq(Request)] /\ Head(ctl[s]) \in Request
  <2>1. ctl' = [ctl EXCEPT ![s] = Tail(@)] /\ ctl[s] # <<>>
    BY DEF TakeControl, Take
  <2> QED BY <2>1, PutTail DEF TypeOK
<1>2. writer' \in [Side -> WriterState]
  <2>1. [at |-> "write", req |-> Head(ctl[s]), next |-> next] \in WriterState
    BY <1>1 DEF WriterState
  <2>2. writer' = [writer EXCEPT ![s] = [at |-> "write", req |-> Head(ctl[s]), next |-> next]]
    BY DEF TakeControl, Take
  <2> QED BY <2>1, <2>2, Put DEF TypeOK
<1> QED BY <1>1, <1>2 DEF TypeOK, TakeControl, Take, shutVars, dialVars, ioVars

\* writeLoop takes a request from dataCh.
LEMMA TakeDataType ==
  ASSUME TypeOK, NEW s \in Side, TakeData(s)
  PROVE  TypeOK'
<1>1. dat' \in [Side -> Seq(Request)] /\ Head(dat[s]) \in Request
  <2>1. dat' = [dat EXCEPT ![s] = Tail(@)] /\ dat[s] # <<>>
    BY DEF TakeData, Take
  <2> QED BY <2>1, PutTail DEF TypeOK
<1>2. writer' \in [Side -> WriterState]
  <2>1. [at |-> "write", req |-> Head(dat[s]), next |-> "first"] \in WriterState
    BY <1>1 DEF WriterState
  <2>2. writer' = [writer EXCEPT ![s] = [at |-> "write", req |-> Head(dat[s]), next |-> "first"]]
    BY DEF TakeData, Take
  <2> QED BY <2>1, <2>2, Put DEF TypeOK
<1> QED BY <1>1, <1>2 DEF TypeOK, TakeData, Take, shutVars, dialVars, ioVars

\* writeLoop goes on to its second select, or returns.
LEMMA MoveWriterType ==
  ASSUME TypeOK, NEW s \in Side, NEW at \in {"second", "done"}, MoveWriter(s, at)
  PROVE  TypeOK'
<1>1. writer' \in [Side -> WriterState]
  <2>1. [at |-> at] \in WriterState
    BY DEF WriterState
  <2> QED BY <2>1, Put DEF TypeOK, MoveWriter
<1> QED BY <1>1 DEF TypeOK, MoveWriter, shutVars, dialVars, ioVars

\* A WriteRecord has returned; the step that adds to the wire comes on top.
LEMMA AnswerType ==
  ASSUME TypeOK, NEW s \in Side, NEW ok \in BOOLEAN, writer[s].at = "write", Answer(s, ok),
         wire' \in [Side -> Seq(Message)]
  PROVE  TypeOK'
<1>1. writer[s].req \in Request /\ writer[s].next \in {"first", "second"}
  BY WriterType
<1>2. writer' \in [Side -> WriterState]
  <2>1. [at |-> writer[s].next] \in WriterState
    BY <1>1 DEF WriterState
  <2>2. writer' = [writer EXCEPT ![s] = [at |-> writer[s].next]]
    BY DEF Answer
  <2> QED BY <2>1, <2>2, Put DEF TypeOK
<1>3. /\ call' \in [Request -> Pending \cup {"idle", "done"}]
      /\ held' \subseteq End
      /\ conns' \in [Side -> [Id -> Side \cup {"none"}]]
      /\ reader' \in [Side -> ReaderState]
  <2>1. CASE Return(writer[s].req, ok)
    BY <2>1, <1>1, ReturnType
  <2>2. CASE UNCHANGED <<call, held, conns, reader>>
    BY <2>2 DEF TypeOK
  <2> QED BY <2>1, <2>2 DEF Answer
<1> QED BY <1>2, <1>3 DEF TypeOK, Answer, shutVars, dialVars, ioVars

\* A queued request encodes to a message; a DATA needs the number of its chunk.
LEMMA EncodeType ==
  ASSUME TypeOK, NEW r \in Begun
  PROVE  Encode(r) \in Message
<1>1. r.end \in End /\ r.end.origin \in Side /\ r.end.id \in Id
  BY RequestType DEF Begun
<1>2. CASE r.op = "data"
  <2>1. sent[r.end] \in 1..MaxWrites
    BY <1>1, <1>2, BoundsAssumption DEF Begun, TypeOK
  <2> QED BY <1>1, <1>2, <2>1 DEF Encode, Chunk, Message, Payload
<1>3. CASE r.op = "open"
  BY <1>1, <1>3 DEF Encode, Message
<1>4. CASE r.op \notin {"open", "data"}
  BY <1>1, <1>4 DEF Encode, Message
<1> QED BY <1>2, <1>3, <1>4

\* Every step of writeLoop keeps the types, given what is queued.
LEMMA WriteLoopType ==
  ASSUME TypeOK, Queues, NEW s \in Side, WriteLoop(s)
  PROVE  TypeOK'
<1>1. CASE TakeControl(s, "first", "second") \/ TakeControl(s, "second", "first")
  BY <1>1, TakeControlType
<1>2. CASE TakeData(s)
  BY <1>2, TakeDataType
<1>3. CASE NoControl(s) \/ WriterStops(s)
  BY <1>3, MoveWriterType DEF NoControl, WriterStops
<1>4. CASE RecordWritten(s)
  <2>1. writer[s].at = "write" /\ Answer(s, TRUE)
    BY <1>4 DEF RecordWritten
  <2>2. Encode(writer[s].req) \in Message
    BY <2>1, WriterType, EncodeType DEF Queues
  <2>3. wire' \in [Side -> Seq(Message)]
    <3>1. wire' = [wire EXCEPT ![s] = Append(@, Encode(writer[s].req))]
      BY <1>4 DEF RecordWritten
    <3> QED BY <3>1, <2>2, PutAppend DEF TypeOK
  <2> QED BY <2>1, <2>3, AnswerType
<1>5. CASE WriteFails(s)
  <2>1. writer[s].at = "write" /\ Answer(s, FALSE)
    BY <1>5 DEF WriteFails
  <2>2. wire' \in [Side -> Seq(Message)]
    BY <1>5 DEF WriteFails, TypeOK
  <2> QED BY <2>1, <2>2, AnswerType
<1> QED BY <1>1, <1>2, <1>3, <1>4, <1>5 DEF WriteLoop

\* The other session.
LEMMA PeerType == ASSUME NEW s \in Side PROVE Peer(s) \in Side
BY DEF Side, Peer

\* readLoop reads a record and dispatches it.
LEMMA ReceiveType ==
  ASSUME TypeOK, NEW s \in Side, Receive(s)
  PROVE  TypeOK'
<1> DEFINE p == Peer(s)
           m == Head(wire[p])
           o == IF m.type = "open" THEN p ELSE conns[s][m.id]
           e == TheEnd(s, o, m.id)
<1>1. /\ m \in Message
      /\ wire' \in [Side -> Seq(Message)]
  <2>1. wire[p] # <<>> /\ wire' = [wire EXCEPT ![p] = Tail(@)]
    BY DEF Receive
  <2> QED BY <2>1, PeerType, PutTail DEF TypeOK
<1>2. m.id \in Id /\ (m.type = "data" => m.data \in Payload)
  BY <1>1 DEF Message
<1>3. o \in Side \cup {"none"}
  BY <1>2, PeerType DEF TypeOK
<1>4. o # "none" => e \in End
  BY <1>2, <1>3 DEF TheEnd, End
<1>5. conns' \in [Side -> [Id -> Side \cup {"none"}]] /\ reader' \in [Side -> ReaderState]
  <2>1. CASE m.type = "open" /\ Register(e) /\ AtEnd(s, "open", e)
    <3>1. e \in End
      BY <2>1, <1>4, PeerType DEF Side
    <3> QED BY <2>1, <3>1, RegisterType, ReaderAtEnd
  <2>2. CASE UNCHANGED <<conns, reader>>
    BY <2>2 DEF TypeOK
  <2>3. CASE /\ m.type = "data" /\ o # "none"
             /\ reader' = [reader EXCEPT ![s] = [at |-> "deliver", end |-> e, data |-> m.data]]
             /\ UNCHANGED conns
    <3>1. [at |-> "deliver", end |-> e, data |-> m.data] \in ReaderState
      BY <2>3, <1>2, <1>4 DEF ReaderState
    <3>2. reader' \in [Side -> ReaderState]
      BY <2>3, <3>1, Put DEF TypeOK
    <3> QED BY <2>3, <3>2 DEF TypeOK
  <2>4. CASE o # "none" /\ AtEnd(s, "remoteClose", e) /\ UNCHANGED conns
    <3>1. reader' \in [Side -> ReaderState]
      BY <2>4, <1>4, ReaderAtEnd
    <3> QED BY <2>4, <3>1 DEF TypeOK
  <2> QED BY <2>1, <2>2, <2>3, <2>4 DEF Receive
<1> QED BY <1>1, <1>5 DEF TypeOK, Receive, shutVars, dialVars, ioVars

\* Every step of readLoop keeps the types.
LEMMA ReadLoopType ==
  ASSUME TypeOK, NEW s \in Side, ReadLoop(s)
  PROVE  TypeOK'
<1> DEFINE e == reader[s].end
<1>1. CASE Receive(s)
  BY <1>1, ReceiveType
<1>2. CASE OfferOpen(s)
  <2>1. backlog' \in [Side -> Seq(End)]
    <3>1. e \in End /\ backlog' = [backlog EXCEPT ![s] = Append(@, e)]
      BY <1>2, ReaderType DEF OfferOpen
    <3> QED BY <3>1, PutAppend DEF TypeOK
  <2>2. reader' \in [Side -> ReaderState]
    BY <1>2, ReaderAt DEF OfferOpen
  <2> QED BY <1>2, <2>1, <2>2 DEF TypeOK, OfferOpen, shutVars, outVars, dialVars, ioVars
<1>3. CASE RefuseOpen(s)
  <2>1. e \in End
    BY <1>3, ReaderType DEF RefuseOpen
  <2>2. reader' \in [Side -> ReaderState]
    BY <1>3, <2>1, ReaderAtEnd DEF RefuseOpen
  <2>3. call' \in [Request -> Pending \cup {"idle", "done"}]
    BY <1>3, SubmitType DEF RefuseOpen
  <2> QED BY <1>3, <2>2, <2>3 DEF TypeOK, RefuseOpen, shutVars, outVars, dialVars, ioVars
<1>4. CASE Refusing(s)
  <2>1. Req("reject", e) \in Request
    BY <1>4, ReaderType, ReqType DEF Refusing
  <2> QED BY <1>4, <2>1, EnqueueType, GiveUpType DEF Refusing, Call
<1>5. CASE Deliver(s)
  <2>1. e \in End /\ reader[s].data \in Payload
    BY <1>5, ReaderType DEF Deliver
  <2>2. readCh' \in [End -> Seq(Payload)]
    <3>1. CASE readCh' = [readCh EXCEPT ![e] = Append(@, reader[s].data)]
      BY <3>1, <2>1, PutAppend DEF TypeOK
    <3>2. CASE UNCHANGED readCh
      BY <3>2 DEF TypeOK
    <3> QED BY <1>5, <3>1, <3>2 DEF Deliver
  <2>3. reader' \in [Side -> ReaderState]
    BY <1>5, ReaderAt DEF Deliver
  <2> QED BY <1>5, <2>2, <2>3 DEF TypeOK, Deliver, shutVars, outVars, dialVars
<1>6. CASE RemoteClose(s)
  <2>1. e \in End
    BY <1>6, ReaderType DEF RemoteClose
  <2>2. conns' \in [Side -> [Id -> Side \cup {"none"}]]
    <3>1. CASE Unregister(e)
      BY <3>1, <2>1, RegisterType
    <3>2. CASE UNCHANGED conns
      BY <3>2 DEF TypeOK
    <3> QED BY <1>6, <3>1, <3>2 DEF RemoteClose
  <2>3. reader' \in [Side -> ReaderState]
    BY <1>6, ReaderAt DEF RemoteClose
  <2>4. closed' \subseteq End
    BY <1>6, <2>1 DEF TypeOK, RemoteClose
  <2> QED BY <1>6, <2>2, <2>3, <2>4 DEF TypeOK, RemoteClose, shutVars, outVars, dialVars, ioVars
<1>7. CASE ReadFails(s)
  <2>1. reader' \in [Side -> ReaderState]
    BY <1>7, ReaderAt DEF ReadFails
  <2>2. sess' \in [Side -> {"open", "stopped", "closed"}]
    BY <1>7 DEF TypeOK, ReadFails, Stop
  <2> QED BY <1>7, <2>1, <2>2 DEF TypeOK, ReadFails, outVars, dialVars, ioVars
<1>8. CASE ReadLoopEnds(s)
  <2>1. reader' \in [Side -> ReaderState]
    BY <1>8, ReaderAt DEF ReadLoopEnds
  <2> QED BY <1>8, <2>1 DEF TypeOK, ReadLoopEnds, shutVars, outVars, dialVars, ioVars
<1> QED BY <1>1, <1>2, <1>3, <1>4, <1>5, <1>6, <1>7, <1>8 DEF ReadLoop

\* Every step of Session.Close keeps the types.
LEMMA ShutdownType ==
  ASSUME TypeOK, NEW s \in Side, Shutdown(s)
  PROVE  TypeOK'
<1>1. CASE SessionClose(s)
  <2>1. /\ app' \in [Side -> {"idle", "closing", "waiting", "done"}]
        /\ sess' \in [Side -> {"open", "stopped", "closed"}]
    BY <1>1 DEF TypeOK, SessionClose, Stop
  <2> QED BY <1>1, <2>1 DEF TypeOK, SessionClose, outVars, dialVars, ioVars
<1>2. CASE CloseAll(s)
  <2>1. closed' \subseteq End
    BY <1>2 DEF TypeOK, CloseAll
  <2>2. conns' \in [Side -> [Id -> Side \cup {"none"}]]
    BY <1>2 DEF TypeOK, CloseAll
  <2>3. sess' \in [Side -> {"open", "stopped", "closed"}]
    BY <1>2 DEF TypeOK, CloseAll
  <2> QED BY <1>2, <2>1, <2>2, <2>3 DEF TypeOK, CloseAll, outVars, dialVars, ioVars
<1>3. CASE TransportClose(s) \/ SessionCloseReturns(s)
  <2>1. app' \in [Side -> {"idle", "closing", "waiting", "done"}]
    BY <1>3 DEF TypeOK, TransportClose, SessionCloseReturns
  <2> QED BY <1>3, <2>1 DEF TypeOK, TransportClose, SessionCloseReturns, outVars, dialVars, ioVars
<1> QED BY <1>1, <1>2, <1>3 DEF Shutdown

\* Dial and Accept keep the types; DialOpen takes the ID that DialCheck left for it.
LEMMA ServeType ==
  ASSUME TypeOK, IdsLeft, NEW s \in Side, Serve(s)
  PROVE  TypeOK'
<1>1. CASE DialCheck(s)
  <2>1. checked' \in [Side -> 0..MaxDials]
    BY <1>1, BoundsAssumption DEF TypeOK, DialCheck
  <2> QED BY <1>1, <2>1 DEF TypeOK, DialCheck, shutVars, outVars, ioVars
<1>2. CASE DialOpen(s)
  <2> DEFINE e == TheEnd(s, s, nextID[s] + 1)
  <2>1. nextID[s] + 1 \in Id
    BY <1>2, BoundsAssumption DEF TypeOK, IdsLeft, DialOpen, Id
  <2>2. e \in End
    BY <2>1 DEF TheEnd, End
  <2>3. /\ checked' \in [Side -> 0..MaxDials]
        /\ nextID' \in [Side -> 0..MaxDials]
    BY <1>2, <2>1, BoundsAssumption DEF TypeOK, DialOpen, Id
  <2>4. conns' \in [Side -> [Id -> Side \cup {"none"}]]
    BY <1>2, <2>2, RegisterType DEF DialOpen
  <2>5. call' \in [Request -> Pending \cup {"idle", "done"}]
    BY <1>2, SubmitType DEF DialOpen
  <2> QED BY <1>2, <2>3, <2>4, <2>5 DEF TypeOK, DialOpen, shutVars, outVars, ioVars
<1>3. CASE Accept(s)
  <2>1. backlog' \in [Side -> Seq(End)] /\ Head(backlog[s]) \in End
    <3>1. backlog[s] # <<>> /\ backlog' = [backlog EXCEPT ![s] = Tail(@)]
      BY <1>3 DEF Accept
    <3> QED BY <3>1, PutTail DEF TypeOK
  <2>2. held' \subseteq End
    BY <1>3, <2>1 DEF TypeOK, Accept
  <2> QED BY <1>3, <2>1, <2>2 DEF TypeOK, Accept, shutVars, outVars, dialVars, ioVars
<1> QED BY <1>1, <1>2, <1>3 DEF Serve

\* Write, Read and Close of a connection keep the types.
LEMMA UseType ==
  ASSUME TypeOK, NEW e \in End, Use(e)
  PROVE  TypeOK'
<1>1. CASE CallsOn(e)
  BY <1>1, ReqType, EnqueueType, GiveUpType DEF CallsOn, Call
<1>2. CASE Write(e)
  <2>1. sent' \in [End -> 0..MaxWrites]
    BY <1>2, BoundsAssumption DEF TypeOK, Write
  <2>2. call' \in [Request -> Pending \cup {"idle", "done"}]
    BY <1>2, SubmitType DEF Write
  <2> QED BY <1>2, <2>1, <2>2 DEF TypeOK, Write, shutVars, outVars, dialVars
<1>3. CASE Read(e)
  <2>1. readCh' \in [End -> Seq(Payload)] /\ Head(readCh[e]) \in Payload
    <3>1. readCh[e] # <<>> /\ readCh' = [readCh EXCEPT ![e] = Tail(@)]
      BY <1>3 DEF Read
    <3> QED BY <3>1, PutTail DEF TypeOK
  <2>2. got' \in [End -> Seq(Payload)]
    <3>1. got' = [got EXCEPT ![e] = Append(@, Head(readCh[e]))]
      BY <1>3 DEF Read
    <3> QED BY <3>1, <2>1, PutAppend DEF TypeOK
  <2> QED BY <1>3, <2>1, <2>2 DEF TypeOK, Read, shutVars, outVars, dialVars
<1>4. CASE Close(e)
  <2>1. closed' \subseteq End
    BY <1>4 DEF TypeOK, Close
  <2>2. conns' \in [Side -> [Id -> Side \cup {"none"}]]
    BY <1>4, RegisterType DEF Close
  <2>3. call' \in [Request -> Pending \cup {"idle", "done"}]
    BY <1>4, SubmitType DEF Close
  <2> QED BY <1>4, <2>1, <2>2, <2>3 DEF TypeOK, Close, shutVars, outVars, dialVars, ioVars
<1> QED BY <1>1, <1>2, <1>3, <1>4 DEF Use

-----------------------------------------------------------------------------
(* IdsLeft and Queues.                                                     *)

\* DialOpen uses up what DialCheck has reserved, and nothing else touches the IDs.
LEMMA IdsLeftStep ==
  ASSUME TypeOK, IdsLeft, [Next]_vars
  PROVE  IdsLeft'
<1>1. CASE \E s \in Side : DialCheck(s)
  BY <1>1, BoundsAssumption DEF TypeOK, IdsLeft, DialCheck
<1>2. CASE \E s \in Side : DialOpen(s)
  BY <1>2, BoundsAssumption DEF TypeOK, IdsLeft, DialOpen
<1>3. CASE UNCHANGED dialVars
  BY <1>3 DEF IdsLeft, dialVars
<1>4. ASSUME NEW s \in Side, WriteLoop(s) PROVE UNCHANGED dialVars
  BY <1>4 DEF WriteLoop, TakeControl, TakeData, Take, NoControl, WriterStops, MoveWriter,
              RecordWritten, WriteFails, Answer
<1>5. ASSUME NEW s \in Side, ReadLoop(s) PROVE UNCHANGED dialVars
  BY <1>5 DEF ReadLoop, Receive, OfferOpen, RefuseOpen, Refusing, Call, Enqueue, GiveUp,
              Deliver, RemoteClose, ReadFails, ReadLoopEnds
<1>6. ASSUME NEW s \in Side, Shutdown(s) PROVE UNCHANGED dialVars
  BY <1>6 DEF Shutdown, SessionClose, CloseAll, TransportClose, SessionCloseReturns
<1>7. ASSUME NEW s \in Side, Accept(s) PROVE UNCHANGED dialVars
  BY <1>7 DEF Accept
<1>8. ASSUME NEW e \in End, Use(e) PROVE UNCHANGED dialVars
  BY <1>8 DEF Use, CallsOn, Call, Enqueue, GiveUp, Write, Read, Close
<1>9. ASSUME LinkBreaks \/ UNCHANGED vars PROVE UNCHANGED dialVars
  BY <1>9 DEF LinkBreaks, vars, dialVars
<1> QED BY <1>1, <1>2, <1>3, <1>4, <1>5, <1>6, <1>7, <1>8, <1>9 DEF Next, Serve

\* No step takes back a Write that has begun.
CountersGrow == \A e \in End : sent'[e] >= sent[e]

\* What can be encoded once can be encoded ever after.
LEMMA BegunStays ==
  ASSUME TypeOK, TypeOK', CountersGrow
  PROVE  Begun \subseteq Begun'
<1> SUFFICES ASSUME NEW r \in Begun PROVE r \in Begun'
  OBVIOUS
<1>1. r.end \in End /\ sent[r.end] \in Nat /\ sent'[r.end] \in Nat
  BY RequestType, BoundsAssumption DEF TypeOK, Begun
<1> QED BY <1>1 DEF Begun, CountersGrow

\* A queue of some type is a queue of every larger one.
LEMMA SeqsStay ==
  ASSUME NEW D, NEW S, NEW T, S \subseteq T, NEW f \in [D -> Seq(S)]
  PROVE  f \in [D -> Seq(T)]
OBVIOUS

\* The loop has nothing new in hand, and no call begins but a counted Write.
LEMMA QueuesStay ==
  ASSUME TypeOK, TypeOK', Queues, CountersGrow,
         UNCHANGED <<ctl, dat>>,
         \A s \in Side : writer'[s].at = "write" => writer'[s] = writer[s],
         \A r \in Request : call'[r] # "idle" => call[r] # "idle" \/ r \in Begun'
  PROVE  Queues'
<1>1. Begun \subseteq Begun'
  BY BegunStays
<1>2. ctl' \in [Side -> Seq(Begun')] /\ dat' \in [Side -> Seq(Begun')]
  BY <1>1, SeqsStay DEF Queues
<1> QED BY <1>1, <1>2 DEF Queues

\* writeLoop only moves a request from a channel into its hand.
LEMMA WriteLoopQueues ==
  ASSUME TypeOK, TypeOK', Queues, NEW s \in Side, WriteLoop(s)
  PROVE  Queues'
<1>1. ASSUME NEW at, NEW next, TakeControl(s, at, next) PROVE Queues'
  <2>1. ctl[s] # <<>> /\ ctl' = [ctl EXCEPT ![s] = Tail(@)]
    BY <1>1 DEF TakeControl, Take
  <2>2. ctl' \in [Side -> Seq(Begun)] /\ Head(ctl[s]) \in Begun
    BY <2>1, PutTail DEF Queues
  <2>3. Begun' = Begun /\ UNCHANGED <<dat, call>>
    BY <1>1 DEF TakeControl, Take, ioVars, Begun
  <2>4. \A t \in Side : writer'[t].at = "write" => writer'[t].req \in Begun
    BY <1>1, <2>2 DEF TakeControl, Take, TypeOK, Queues
  <2> QED BY <2>2, <2>3, <2>4 DEF Queues
<1>2. CASE TakeData(s)
  <2>1. dat[s] # <<>> /\ dat' = [dat EXCEPT ![s] = Tail(@)]
    BY <1>2 DEF TakeData, Take
  <2>2. dat' \in [Side -> Seq(Begun)] /\ Head(dat[s]) \in Begun
    BY <2>1, PutTail DEF Queues
  <2>3. Begun' = Begun /\ UNCHANGED <<ctl, call>>
    BY <1>2 DEF TakeData, Take, ioVars, Begun
  <2>4. \A t \in Side : writer'[t].at = "write" => writer'[t].req \in Begun
    BY <1>2, <2>2 DEF TakeData, Take, TypeOK, Queues
  <2> QED BY <2>2, <2>3, <2>4 DEF Queues
<1>3. CASE NoControl(s) \/ WriterStops(s)
  <2>1. CountersGrow /\ UNCHANGED <<ctl, dat, call>>
    BY <1>3, BoundsAssumption DEF NoControl, WriterStops, MoveWriter, ioVars, CountersGrow, TypeOK
  <2>2. \A t \in Side : writer'[t].at = "write" => writer'[t] = writer[t]
    BY <1>3, SMTT(40) DEF NoControl, WriterStops, MoveWriter, TypeOK
  <2> QED BY <2>1, <2>2, QueuesStay
<1>4. CASE RecordWritten(s) \/ WriteFails(s)
  <2>1. writer[s].at = "write" /\ \E ok \in BOOLEAN : Answer(s, ok)
    BY <1>4 DEF RecordWritten, WriteFails
  <2>2. PICK ok \in BOOLEAN : Answer(s, ok)
    BY <2>1
  <2>3. CountersGrow /\ UNCHANGED <<ctl, dat>>
    BY <2>2, BoundsAssumption DEF Answer, ioVars, CountersGrow, TypeOK
  <2>4. \A t \in Side : writer'[t].at = "write" => writer'[t] = writer[t]
    BY <2>1, <2>2, WriterType DEF Answer, TypeOK
  <2>5. \A r \in Request : call'[r] # "idle" => call[r] # "idle"
    BY <2>2 DEF Answer, Return, TypeOK
  <2> QED BY <2>3, <2>4, <2>5, QueuesStay
<1> QED BY <1>1, <1>2, <1>3, <1>4 DEF WriteLoop

\* A call in progress is queued once, or returns.
LEMMA CallQueues ==
  ASSUME TypeOK, TypeOK', Queues, NEW r \in Request, Call(r)
  PROVE  Queues'
<1> DEFINE s == r.end.side
<1>1. CASE GiveUp(r)
  <2>1. CountersGrow /\ UNCHANGED <<ctl, dat, writer>>
    BY <1>1, BoundsAssumption DEF GiveUp, outVars, ioVars, CountersGrow, TypeOK
  <2>2. \A q \in Request : call'[q] # "idle" => call[q] # "idle"
    BY <1>1 DEF GiveUp, Return, TypeOK, Pending
  <2> QED BY <2>1, <2>2, QueuesStay
<1>2. CASE Enqueue(r)
  <2>1. r \in Begun /\ Begun' = Begun
    BY <1>2 DEF Queues, Enqueue, ioVars, Begun
  <2>2. ctl' \in [Side -> Seq(Begun)]
    <3>1. CASE ctl' = [ctl EXCEPT ![s] = Append(@, r)]
      BY <3>1, <2>1, PutAppend, RequestType DEF Queues
    <3>2. CASE ctl' = ctl
      BY <3>2 DEF Queues
    <3> QED BY <1>2, <3>1, <3>2 DEF Enqueue
  <2>3. dat' \in [Side -> Seq(Begun)]
    <3>1. CASE dat' = [dat EXCEPT ![s] = Append(@, r)]
      BY <3>1, <2>1, PutAppend, RequestType DEF Queues
    <3>2. CASE dat' = dat
      BY <3>2 DEF Queues
    <3> QED BY <1>2, <3>1, <3>2 DEF Enqueue
  <2>4. UNCHANGED writer /\ \A q \in Request : call'[q] # "idle" => q \in Begun
    BY <1>2 DEF Enqueue, TypeOK, Queues
  <2> QED BY <2>1, <2>2, <2>3, <2>4 DEF Queues
<1> QED BY <1>1, <1>2 DEF Call

\* A request other than a Write can be encoded at any time.
LEMMA SubmitQueues ==
  ASSUME TypeOK, TypeOK', Queues, NEW e \in End, NEW op \in {"open", "close", "reject"},
         Submit(Req(op, e)), UNCHANGED <<ctl, dat, writer, sent>>
  PROVE  Queues'
<1>1. CountersGrow
  BY BoundsAssumption DEF CountersGrow, TypeOK
<1>2. Req(op, e) \in Begun'
  BY ReqType DEF Begun
<1>3. \A r \in Request : call'[r] # "idle" => call[r] # "idle" \/ r \in Begun'
  BY <1>2 DEF Submit, TypeOK
<1> QED BY <1>1, <1>3, QueuesStay

\* Steps that leave the channels and the calls alone keep the queues.
LEMMA OtherQueues ==
  ASSUME TypeOK, TypeOK', Queues, UNCHANGED <<ctl, dat, writer, sent, call>>
  PROVE  Queues'
<1>1. CountersGrow
  BY BoundsAssumption DEF CountersGrow, TypeOK
<1> QED BY <1>1, QueuesStay

\* Every step keeps the queued requests encodable.
LEMMA QueuesStep ==
  ASSUME TypeInv, TypeOK', [Next]_vars
  PROVE  Queues'
<1> USE DEF TypeInv
<1>1. ASSUME NEW s \in Side, WriteLoop(s) PROVE Queues'
  BY <1>1, WriteLoopQueues
<1>2. ASSUME NEW s \in Side, ReadLoop(s) PROVE Queues'
  <2>1. CASE RefuseOpen(s)
    <3>1. reader[s].end \in End /\ Submit(Req("reject", reader[s].end))
      BY <2>1, ReaderType DEF RefuseOpen
    <3> QED BY <2>1, <3>1, SubmitQueues DEF RefuseOpen, outVars, ioVars
  <2>2. CASE Refusing(s)
    <3>1. Req("reject", reader[s].end) \in Request
      BY <2>2, ReaderType, ReqType DEF Refusing
    <3> QED BY <2>2, <3>1, CallQueues DEF Refusing
  <2>3. CASE UNCHANGED <<ctl, dat, writer, sent, call>>
    BY <2>3, OtherQueues
  <2> QED BY <1>2, <2>1, <2>2, <2>3 DEF ReadLoop, Receive, OfferOpen, Deliver, RemoteClose,
             ReadFails, ReadLoopEnds, outVars, ioVars
<1>3. ASSUME NEW s \in Side, Serve(s) PROVE Queues'
  <2>1. CASE DialOpen(s)
    <3> DEFINE e == TheEnd(s, s, nextID[s] + 1)
    <3>1. e \in End
      BY <2>1, BoundsAssumption DEF TypeOK, IdsLeft, DialOpen, Id, TheEnd, End
    <3> QED BY <2>1, <3>1, SubmitQueues DEF DialOpen, outVars, ioVars
  <2>2. CASE DialCheck(s) \/ Accept(s)
    BY <2>2, OtherQueues DEF DialCheck, Accept, outVars, ioVars
  <2> QED BY <1>3, <2>1, <2>2 DEF Serve
<1>4. ASSUME NEW s \in Side, Shutdown(s) PROVE Queues'
  BY <1>4, OtherQueues DEF Shutdown, SessionClose, CloseAll, TransportClose,
                           SessionCloseReturns, outVars, ioVars
<1>5. ASSUME NEW e \in End, Use(e) PROVE Queues'
  <2>1. CASE CallsOn(e)
    BY <2>1, ReqType, CallQueues DEF CallsOn
  <2>2. CASE Write(e)
    <3>1. CountersGrow /\ sent'[e] >= 1
      BY <2>2, BoundsAssumption DEF CountersGrow, Write, TypeOK
    <3>2. Req("data", e) \in Begun'
      BY <3>1, ReqType DEF Begun
    <3>3. \A r \in Request : call'[r] # "idle" => call[r] # "idle" \/ r \in Begun'
      BY <2>2, <3>2 DEF Write, Submit, TypeOK
    <3> QED BY <2>2, <3>1, <3>3, QueuesStay DEF Write, outVars
  <2>3. CASE Read(e)
    BY <2>3, OtherQueues DEF Read, outVars
  <2>4. CASE Close(e)
    BY <2>4, SubmitQueues DEF Close, outVars, ioVars
  <2> QED BY <1>5, <2>1, <2>2, <2>3, <2>4 DEF Use
<1>6. CASE LinkBreaks \/ UNCHANGED vars
  BY <1>6, OtherQueues DEF LinkBreaks, vars, outVars, ioVars
<1> QED BY <1>1, <1>2, <1>3, <1>4, <1>5, <1>6 DEF Next

-----------------------------------------------------------------------------
\* Every step keeps the types.
LEMMA TypeStep ==
  ASSUME TypeInv, [Next]_vars
  PROVE  TypeOK'
<1> USE DEF TypeInv
<1>1. ASSUME NEW s \in Side, WriteLoop(s) \/ ReadLoop(s) \/ Serve(s) \/ Shutdown(s)
      PROVE  TypeOK'
  BY <1>1, WriteLoopType, ReadLoopType, ServeType, ShutdownType
<1>2. ASSUME NEW e \in End, Use(e) PROVE TypeOK'
  BY <1>2, UseType
<1>3. CASE LinkBreaks
  BY <1>3 DEF TypeOK, LinkBreaks, outVars, dialVars, ioVars
<1>4. CASE UNCHANGED vars
  BY <1>4 DEF TypeOK, vars, shutVars, outVars, dialVars, ioVars
<1> QED BY <1>1, <1>2, <1>3, <1>4 DEF Next

\* The invariant is inductive.
LEMMA TypeInvStep == TypeInv /\ [Next]_vars => TypeInv'
<1> SUFFICES ASSUME TypeInv, [Next]_vars PROVE TypeInv'
  OBVIOUS
<1>1. TypeOK'
  BY TypeStep
<1>2. IdsLeft'
  BY IdsLeftStep DEF TypeInv
<1>3. Queues'
  BY <1>1, QueuesStep
<1> QED BY <1>1, <1>2, <1>3 DEF TypeInv

\* It holds in every reachable state.
LEMMA TypeInvHolds == Spec => []TypeInv
BY TypeInvInit, TypeInvStep, PTL DEF Spec

\* The state of the sessions is well formed whatever the number of dials, writes
\* and the capacities of the channels, and every record that is written can be
\* encoded.
THEOREM TypeCorrect == Spec => []TypeOK
<1>1. TypeInv => TypeOK
  BY DEF TypeInv
<1> QED BY <1>1, TypeInvHolds, PTL

-----------------------------------------------------------------------------
(* A connection is closed for a cause, whichever sides dial.  The proof    *)
(* follows a CLOSE backwards: one that readLoop carries out was on the     *)
(* wire, one on the wire was written for a request of conn.Close or        *)
(* handleOpen, and such a request is in controlCh, or in the hand of       *)
(* writeLoop, only after the call that made it has begun.                  *)

\* The requests side s may have queued, and the records it may have sent.
Caused(s) == {r \in Request : r.end.side = s /\ (r.op \in {"close", "reject"} => call[r] # "idle")}
Justified(s) == {m \in Message : m.type = "close" => Ended(s, m.id)}

CausedQueues == \A s \in Side :
    /\ ctl[s] \in Seq(Caused(s))
    /\ dat[s] \in Seq(Caused(s))
    /\ writer[s].at = "write" => writer[s].req \in Caused(s)

JustifiedWire == \A s \in Side : wire[s] \in Seq(Justified(s))

JustifiedReader == \A s \in Side :
    reader[s].at = "remoteClose" => /\ reader[s].end.side = s
                                    /\ Ended(Peer(s), reader[s].end.id)

CauseInv == CausedQueues /\ JustifiedWire /\ JustifiedReader /\ ClosedForCause

-----------------------------------------------------------------------------
(* What every step keeps.                                                  *)

\* A call other than Write, once begun, is never as if it had not been made.
Kept == \A r \in Request : r.op # "data" /\ call[r] # "idle" => call'[r] # "idle"

\* A call that begins.
LEMMA SubmitKept ==
  ASSUME TypeOK, NEW r, Submit(r)
  PROVE  Kept
BY DEF Submit, Kept, TypeOK

\* A call that is queued or returns.
LEMMA ReturnKept ==
  ASSUME TypeOK, NEW r \in Request, Enqueue(r) \/ \E ok \in BOOLEAN : Return(r, ok)
  PROVE  Kept
<1>1. CASE Enqueue(r)
  BY <1>1 DEF Enqueue, Kept, TypeOK
<1>2. ASSUME NEW ok \in BOOLEAN, Return(r, ok) PROVE Kept
  BY <1>2 DEF Return, Kept, TypeOK
<1> QED BY <1>1, <1>2

\* A call that goes on in either way.
LEMMA CallKept ==
  ASSUME TypeOK, NEW r \in Request, Call(r)
  PROVE  Kept
BY ReturnKept DEF Call, GiveUp

\* Every step of every goroutine.
LEMMA StepKept ==
  ASSUME TypeOK, [Next]_vars
  PROVE  Kept
<1>1. ASSUME UNCHANGED call PROVE Kept
  BY <1>1 DEF Kept
<1>2. ASSUME NEW s \in Side, WriteLoop(s) PROVE Kept
  <2>1. CASE RecordWritten(s) \/ WriteFails(s)
    <3>1. writer[s].req \in Request
      BY <2>1, WriterType DEF RecordWritten, WriteFails
    <3>2. UNCHANGED call \/ \E ok \in BOOLEAN : Return(writer[s].req, ok)
      BY <2>1 DEF RecordWritten, WriteFails, Answer
    <3> QED BY <1>1, <3>1, <3>2, ReturnKept
  <2> QED BY <1>1, <1>2, <2>1 DEF WriteLoop, TakeControl, TakeData, Take, NoControl,
             WriterStops, MoveWriter
<1>3. ASSUME NEW s \in Side, ReadLoop(s) PROVE Kept
  <2>1. CASE RefuseOpen(s)
    BY <2>1, SubmitKept DEF RefuseOpen
  <2>2. CASE Refusing(s)
    <3>1. Req("reject", reader[s].end) \in Request
      BY <2>2, ReaderType, ReqType DEF Refusing
    <3> QED BY <2>2, <3>1, CallKept DEF Refusing
  <2> QED BY <1>1, <1>3, <2>1, <2>2 DEF ReadLoop, Receive, OfferOpen, Deliver, RemoteClose,
             ReadFails, ReadLoopEnds
<1>4. ASSUME NEW s \in Side, Serve(s) PROVE Kept
  BY <1>1, <1>4, SubmitKept DEF Serve, DialCheck, DialOpen, Accept
<1>5. ASSUME NEW s \in Side, Shutdown(s) PROVE Kept
  BY <1>1, <1>5 DEF Shutdown, SessionClose, CloseAll, TransportClose, SessionCloseReturns
<1>6. ASSUME NEW e \in End, Use(e) PROVE Kept
  <2>1. CASE CallsOn(e)
    BY <2>1, ReqType, CallKept DEF CallsOn
  <2> QED BY <1>1, <1>6, <2>1, SubmitKept DEF Use, Write, Read, Close
<1>7. ASSUME LinkBreaks \/ UNCHANGED vars PROVE Kept
  BY <1>1, <1>7 DEF LinkBreaks, vars
<1> QED BY <1>2, <1>3, <1>4, <1>5, <1>6, <1>7 DEF Next

\* stopCh is never opened again.
LEMMA StoppedStays ==
  ASSUME TypeOK, [Next]_vars, NEW s \in Side, Stopped(s)
  PROVE  Stopped(s)'
<1>1. ASSUME UNCHANGED sess PROVE Stopped(s)'
  BY <1>1 DEF Stopped
<1>2. ASSUME NEW t \in Side, Stop(t) PROVE Stopped(s)'
  BY <1>2 DEF Stop, Stopped, TypeOK
<1>3. ASSUME NEW t \in Side, CloseAll(t) PROVE Stopped(s)'
  BY <1>3 DEF CloseAll, Stopped, TypeOK
<1>4. ASSUME NEW t \in Side, WriteLoop(t) PROVE UNCHANGED sess
  BY <1>4 DEF WriteLoop, TakeControl, TakeData, Take, NoControl, WriterStops, MoveWriter,
              RecordWritten, WriteFails, Answer, shutVars
<1>5. ASSUME NEW t \in Side, ReadLoop(t) PROVE UNCHANGED sess \/ Stop(t)
  BY <1>5 DEF ReadLoop, Receive, OfferOpen, RefuseOpen, Refusing, Call, Enqueue, GiveUp,
              Deliver, RemoteClose, ReadFails, ReadLoopEnds, shutVars
<1>6. ASSUME NEW t \in Side, Serve(t) PROVE UNCHANGED sess
  BY <1>6 DEF Serve, DialCheck, DialOpen, Accept, shutVars
<1>7. ASSUME NEW t \in Side, Shutdown(t) PROVE UNCHANGED sess \/ Stop(t) \/ CloseAll(t)
  BY <1>7 DEF Shutdown, SessionClose, TransportClose, SessionCloseReturns
<1>8. ASSUME NEW e \in End, Use(e) PROVE UNCHANGED sess
  BY <1>8 DEF Use, CallsOn, Call, Enqueue, GiveUp, Write, Read, Close, shutVars
<1>9. ASSUME LinkBreaks \/ UNCHANGED vars PROVE UNCHANGED sess
  BY <1>9 DEF LinkBreaks, vars, shutVars
<1> QED BY <1>1, <1>2, <1>3, <1>4, <1>5, <1>6, <1>7, <1>8, <1>9 DEF Next

\* What caused a request or a record once causes it ever after.
LEMMA CausesStay ==
  ASSUME Kept, NEW s \in Side
  PROVE  /\ Caused(s) \subseteq Caused(s)'
         /\ \A i \in Id : Ended(s, i) => Ended(s, i)'
         /\ Justified(s) \subseteq Justified(s)'
<1>1. Caused(s) \subseteq Caused(s)'
  BY DEF Kept, Caused
<1>2. ASSUME NEW i \in Id, Ended(s, i) PROVE Ended(s, i)'
  <2>1. PICK o \in Side, op \in {"close", "reject"} : call[Req(op, TheEnd(s, o, i))] # "idle"
    BY <1>2 DEF Ended
  <2>2. TheEnd(s, o, i) \in End
    BY DEF TheEnd, End
  <2>3. call'[Req(op, TheEnd(s, o, i))] # "idle"
    BY <2>1, <2>2, ReqType DEF Kept
  <2> QED BY <2>1, <2>3 DEF Ended
<1>3. Justified(s) \subseteq Justified(s)'
  BY <1>2 DEF Justified, Message
<1> QED BY <1>1, <1>2, <1>3

-----------------------------------------------------------------------------
(* The queues and the hand of writeLoop.                                   *)

\* A queue of some type is a queue of every larger one.
LEMMA SeqStays ==
  ASSUME NEW S, NEW T, S \subseteq T, NEW q \in Seq(S)
  PROVE  q \in Seq(T)
OBVIOUS

\* What is appended to a queue, and what is taken from it.
LEMMA SeqMoves ==
  ASSUME NEW S, NEW q \in Seq(S)
  PROVE  /\ \A x \in S : Append(q, x) \in Seq(S)
         /\ q # <<>> => Head(q) \in S /\ Tail(q) \in Seq(S)
OBVIOUS

\* A step that leaves the channels alone and gives writeLoop nothing new.
LEMMA QueuesKeep ==
  ASSUME CausedQueues, Kept, UNCHANGED <<ctl, dat>>,
         \A s \in Side : writer'[s].at = "write" => writer'[s] = writer[s]
  PROVE  CausedQueues'
<1> SUFFICES ASSUME NEW s \in Side
             PROVE  /\ ctl'[s] \in Seq(Caused(s)')
                    /\ dat'[s] \in Seq(Caused(s)')
                    /\ writer'[s].at = "write" => writer'[s].req \in Caused(s)'
  BY DEF CausedQueues
<1>1. Caused(s) \subseteq Caused(s)'
  BY CausesStay
<1> QED BY <1>1, SeqStays DEF CausedQueues

\* writeLoop takes requests in, and never one that was not queued.
LEMMA WriteLoopCaused ==
  ASSUME TypeOK, CausedQueues, Kept, NEW t \in Side, WriteLoop(t)
  PROVE  CausedQueues'
<1>1. CASE \/ TakeControl(t, "first", "second")
           \/ TakeControl(t, "second", "first")
           \/ TakeData(t)
  <2> SUFFICES ASSUME NEW s \in Side
               PROVE  /\ ctl'[s] \in Seq(Caused(s)')
                      /\ dat'[s] \in Seq(Caused(s)')
                      /\ writer'[s].at = "write" => writer'[s].req \in Caused(s)'
    BY DEF CausedQueues
  <2>1. Caused(s)' = Caused(s)
    BY <1>1 DEF TakeControl, TakeData, Take, Caused
  <2>2. ctl'[s] = ctl[s] \/ (ctl[s] # <<>> /\ ctl'[s] = Tail(ctl[s]))
    <3>1. ASSUME NEW at, NEW next, TakeControl(t, at, next)
          PROVE  ctl[t] # <<>> /\ ctl' = [ctl EXCEPT ![t] = Tail(@)]
      BY <3>1 DEF TakeControl, Take
    <3>2. ctl \in [Side -> Seq(Request)] /\ (TakeData(t) => ctl' = ctl)
      BY DEF TakeData, TypeOK
    <3> QED BY <1>1, <3>1, <3>2
  <2>3. dat'[s] = dat[s] \/ (dat[s] # <<>> /\ dat'[s] = Tail(dat[s]))
    <3>1. ASSUME TakeData(t)
          PROVE  dat[t] # <<>> /\ dat' = [dat EXCEPT ![t] = Tail(@)]
      BY <3>1 DEF TakeData, Take
    <3>2. ASSUME NEW at, NEW next, TakeControl(t, at, next)
          PROVE  dat' = dat
      BY <3>2 DEF TakeControl
    <3>3. dat \in [Side -> Seq(Request)]
      BY DEF TypeOK
    <3> QED BY <1>1, <3>1, <3>2, <3>3
  <2>4. ctl'[s] \in Seq(Caused(s)) /\ dat'[s] \in Seq(Caused(s))
    BY <2>2, <2>3, SeqMoves DEF CausedQueues
  <2>5. \/ writer'[s] = writer[s]
        \/ ctl[s] # <<>> /\ writer'[s].req = Head(ctl[s])
        \/ dat[s] # <<>> /\ writer'[s].req = Head(dat[s])
    <3>1. \A r : writer' = [writer EXCEPT ![t] = r] => writer'[s] = IF s = t THEN r ELSE writer[s]
      BY DEF TypeOK
    <3>2. \E q \in {ctl, dat} : \E next : q[t] # <<>> /\ writer' = [writer EXCEPT ![t] =
                                              [at |-> "write", req |-> Head(q[t]), next |-> next]]
      BY <1>1 DEF TakeControl, TakeData, Take
    <3> QED BY <3>1, <3>2
  <2>6. writer'[s].at = "write" => writer'[s].req \in Caused(s)
    BY <2>5, SeqMoves DEF CausedQueues
  <2> QED BY <2>1, <2>4, <2>6
<1>2. CASE NoControl(t) \/ WriterStops(t)
  <2>1. UNCHANGED <<ctl, dat>>
    BY <1>2 DEF NoControl, WriterStops, MoveWriter
  <2>2. \A s \in Side : writer'[s].at = "write" => writer'[s] = writer[s]
    BY <1>2 DEF NoControl, WriterStops, MoveWriter, TypeOK
  <2> QED BY <2>1, <2>2, QueuesKeep
<1>3. CASE RecordWritten(t) \/ WriteFails(t)
  <2>1. writer[t].at = "write" /\ \E ok \in BOOLEAN : Answer(t, ok)
    BY <1>3 DEF RecordWritten, WriteFails
  <2>2. UNCHANGED <<ctl, dat>>
    BY <2>1 DEF Answer
  <2>3. \A s \in Side : writer'[s].at = "write" => writer'[s] = writer[s]
    <3>1. writer' = [writer EXCEPT ![t] = [at |-> writer[t].next]]
      BY <2>1 DEF Answer
    <3>2. writer[t].next \in {"first", "second"}
      BY <2>1, WriterType
    <3> QED BY <3>1, <3>2 DEF TypeOK
  <2> QED BY <2>2, <2>3, QueuesKeep
<1> QED BY <1>1, <1>2, <1>3 DEF WriteLoop

\* A request enters the channels of its side when its call has begun.
LEMMA CallCaused ==
  ASSUME TypeOK, CausedQueues, Kept, NEW r \in Request, Call(r)
  PROVE  CausedQueues'
<1>1. CASE GiveUp(r)
  BY <1>1, QueuesKeep DEF GiveUp, outVars
<1>2. CASE Enqueue(r)
  <2> SUFFICES ASSUME NEW s \in Side
               PROVE  /\ ctl'[s] \in Seq(Caused(s)')
                      /\ dat'[s] \in Seq(Caused(s)')
                      /\ writer'[s].at = "write" => writer'[s].req \in Caused(s)'
    BY DEF CausedQueues
  <2>1. Caused(s) \subseteq Caused(s)'
    BY CausesStay
  <2>2. r.end.side = s => r \in Caused(s)
    BY <1>2 DEF Enqueue, Caused
  <2>3. ctl'[s] = ctl[s] \/ (r.end.side = s /\ ctl'[s] = Append(ctl[s], r))
    <3>1. ctl' = ctl \/ ctl' = [ctl EXCEPT ![r.end.side] = Append(@, r)]
      BY <1>2 DEF Enqueue
    <3>2. ctl \in [Side -> Seq(Request)]
      BY DEF TypeOK
    <3> QED BY <3>1, <3>2
  <2>4. dat'[s] = dat[s] \/ (r.end.side = s /\ dat'[s] = Append(dat[s], r))
    <3>1. dat' = dat \/ dat' = [dat EXCEPT ![r.end.side] = Append(@, r)]
      BY <1>2 DEF Enqueue
    <3>2. dat \in [Side -> Seq(Request)]
      BY DEF TypeOK
    <3> QED BY <3>1, <3>2
  <2>5. ctl'[s] \in Seq(Caused(s)) /\ dat'[s] \in Seq(Caused(s))
    BY <2>2, <2>3, <2>4, SeqMoves DEF CausedQueues
  <2>6. writer' = writer
    BY <1>2 DEF Enqueue
  <2> QED BY <2>1, <2>5, <2>6, SeqStays DEF CausedQueues
<1> QED BY <1>1, <1>2 DEF Call

\* Every step leaves writeLoop and its channels alone, or is one of those.
LEMMA QueuesStepCaused ==
  ASSUME TypeOK, CausedQueues, [Next]_vars
  PROVE  CausedQueues'
<1>1. Kept
  BY StepKept
<1>2. ASSUME UNCHANGED <<ctl, dat, writer>> PROVE CausedQueues'
  BY <1>1, <1>2, QueuesKeep
<1>3. ASSUME NEW s \in Side, WriteLoop(s) PROVE CausedQueues'
  BY <1>1, <1>3, WriteLoopCaused
<1>4. ASSUME NEW s \in Side, ReadLoop(s) PROVE CausedQueues'
  <2>1. CASE Refusing(s)
    <3>1. Req("reject", reader[s].end) \in Request
      BY <2>1, ReaderType, ReqType DEF Refusing
    <3> QED BY <1>1, <2>1, <3>1, CallCaused DEF Refusing
  <2> QED BY <1>2, <1>4, <2>1 DEF ReadLoop, Receive, OfferOpen, RefuseOpen, Deliver,
             RemoteClose, ReadFails, ReadLoopEnds, outVars
<1>5. ASSUME NEW s \in Side, Serve(s) \/ Shutdown(s) PROVE CausedQueues'
  BY <1>2, <1>5 DEF Serve, DialCheck, DialOpen, Accept, Shutdown, SessionClose, CloseAll,
                    TransportClose, SessionCloseReturns, outVars
<1>6. ASSUME NEW e \in End, Use(e) PROVE CausedQueues'
  <2>1. CASE CallsOn(e)
    BY <1>1, <2>1, ReqType, CallCaused DEF CallsOn
  <2> QED BY <1>2, <1>6, <2>1 DEF Use, Write, Read, Close, outVars
<1>7. ASSUME LinkBreaks \/ UNCHANGED vars PROVE CausedQueues'
  BY <1>2, <1>7 DEF LinkBreaks, vars, outVars
<1> QED BY <1>3, <1>4, <1>5, <1>6, <1>7 DEF Next

-----------------------------------------------------------------------------
(* The wire, readLoop, and the connections it closes.                      *)

\* The record written for a request of side s.
LEMMA EncodeJustified ==
  ASSUME TypeOK, Queues, NEW s \in Side, writer[s].at = "write", writer[s].req \in Caused(s)
  PROVE  Encode(writer[s].req) \in Justified(s)
<1> DEFINE r == writer[s].req
<1>1. r \in Begun /\ r \in Request /\ r.end.side = s
  BY DEF Queues, Caused
<1>2. Encode(r) \in Message /\ Encode(r).id = r.end.id
  BY <1>1, EncodeType DEF Encode
<1>3. ASSUME Encode(r).type = "close" PROVE Ended(s, r.end.id)
  <2>1. r.op \in {"close", "reject"}
    BY <1>1, <1>3 DEF Encode, Request
  <2>2. call[r] # "idle"
    BY <2>1 DEF Caused
  <2>3. r = Req(r.op, r.end) /\ r.end = TheEnd(s, r.end.origin, r.end.id) /\ r.end.origin \in Side
    BY <1>1 DEF Request, End, Req, TheEnd
  <2> QED BY <2>1, <2>2, <2>3 DEF Ended
<1> QED BY <1>2, <1>3 DEF Justified

\* Only writeLoop adds to the wire, and only readLoop takes from it.
LEMMA WireMoves ==
  ASSUME [Next]_vars
  PROVE  \/ UNCHANGED wire
         \/ \E s \in Side : RecordWritten(s) \/ Receive(s)
<1>1. ASSUME NEW s \in Side, WriteLoop(s) PROVE UNCHANGED wire \/ RecordWritten(s)
  BY <1>1 DEF WriteLoop, TakeControl, TakeData, Take, NoControl, WriterStops, MoveWriter, WriteFails
<1>2. ASSUME NEW s \in Side, ReadLoop(s) PROVE UNCHANGED wire \/ Receive(s)
  BY <1>2 DEF ReadLoop, OfferOpen, RefuseOpen, Refusing, Call, Enqueue, GiveUp, Deliver,
              RemoteClose, ReadFails, ReadLoopEnds, outVars
<1>3. ASSUME NEW s \in Side, Serve(s) \/ Shutdown(s) PROVE UNCHANGED wire
  BY <1>3 DEF Serve, DialCheck, DialOpen, Accept, Shutdown, SessionClose, CloseAll,
              TransportClose, SessionCloseReturns, outVars
<1>4. ASSUME NEW e \in End, Use(e) PROVE UNCHANGED wire
  BY <1>4 DEF Use, CallsOn, Call, Enqueue, GiveUp, Write, Read, Close, outVars
<1>5. ASSUME LinkBreaks \/ UNCHANGED vars PROVE UNCHANGED wire
  BY <1>5 DEF LinkBreaks, vars, outVars
<1> QED BY <1>1, <1>2, <1>3, <1>4, <1>5 DEF Next

\* Every CLOSE on the wire has its cause.
LEMMA WireStep ==
  ASSUME TypeOK, Queues, CausedQueues, JustifiedWire, [Next]_vars
  PROVE  JustifiedWire'
<1> SUFFICES ASSUME NEW s \in Side PROVE wire'[s] \in Seq(Justified(s)')
  BY DEF JustifiedWire
<1>1. wire[s] \in Seq(Justified(s)) /\ Justified(s) \subseteq Justified(s)'
  BY StepKept, CausesStay DEF JustifiedWire
<1>2. \/ wire'[s] = wire[s]
      \/ writer[s].at = "write" /\ wire'[s] = Append(wire[s], Encode(writer[s].req))
      \/ wire[s] # <<>> /\ wire'[s] = Tail(wire[s])
  <2>1. ASSUME NEW t \in Side, RecordWritten(t)
        PROVE  \/ wire'[s] = wire[s]
               \/ writer[s].at = "write" /\ wire'[s] = Append(wire[s], Encode(writer[s].req))
    BY <2>1 DEF RecordWritten, TypeOK
  <2>2. ASSUME NEW t \in Side, Receive(t)
        PROVE  wire'[s] = wire[s] \/ (wire[s] # <<>> /\ wire'[s] = Tail(wire[s]))
    <3>1. wire[Peer(t)] # <<>> /\ wire' = [wire EXCEPT ![Peer(t)] = Tail(@)]
      BY <2>2 DEF Receive
    <3>2. wire \in [Side -> Seq(Message)]
      BY DEF TypeOK
    <3> QED BY <3>1, <3>2
  <2> QED BY <2>1, <2>2, WireMoves
<1>3. writer[s].at = "write" => Encode(writer[s].req) \in Justified(s)
  BY EncodeJustified DEF CausedQueues
<1>4. wire'[s] \in Seq(Justified(s))
  BY <1>1, <1>2, <1>3, SeqMoves
<1> QED BY <1>1, <1>4, SeqStays

\* readLoop comes to a remoteClose only by reading a record.
LEMMA ReaderMoves ==
  ASSUME TypeOK, [Next]_vars, NEW s \in Side, reader'[s].at = "remoteClose"
  PROVE  reader'[s] = reader[s] \/ Receive(s)
<1>1. ASSUME UNCHANGED reader PROVE reader'[s] = reader[s]
  BY <1>1
<1>2. ASSUME NEW t \in Side, NEW at \in {"read", "closing", "done"}, At(t, at)
      PROVE  reader'[s] = reader[s]
  BY <1>2 DEF At, TypeOK
<1>3. ASSUME NEW r \in Request, Call(r) PROVE reader'[s] = reader[s]
  BY <1>1, <1>2, <1>3, RequestType DEF Call, Enqueue, GiveUp, Return
<1>4. ASSUME NEW t \in Side, WriteLoop(t) PROVE reader'[s] = reader[s]
  <2>1. CASE RecordWritten(t) \/ WriteFails(t)
    <3>1. writer[t].req.end.side \in Side
      BY <2>1, WriterType, RequestType DEF RecordWritten, WriteFails
    <3> QED BY <1>1, <1>2, <2>1, <3>1 DEF RecordWritten, WriteFails, Answer, Return
  <2> QED BY <1>1, <1>4, <2>1 DEF WriteLoop, TakeControl, TakeData, Take, NoControl,
             WriterStops, MoveWriter
<1>5. ASSUME NEW t \in Side, ReadLoop(t) PROVE reader'[s] = reader[s] \/ Receive(s)
  <2>1. CASE Receive(t)
    BY <2>1 DEF Receive, AtEnd, TypeOK
  <2>2. CASE RefuseOpen(t)
    BY <2>2 DEF RefuseOpen, AtEnd, TypeOK
  <2>3. CASE Refusing(t)
    <3>1. Req("reject", reader[t].end) \in Request
      BY <2>3, ReaderType, ReqType DEF Refusing
    <3> QED BY <1>3, <2>3, <3>1 DEF Refusing
  <2>4. CASE OfferOpen(t) \/ Deliver(t) \/ RemoteClose(t) \/ ReadFails(t) \/ ReadLoopEnds(t)
    BY <1>2, <2>4 DEF OfferOpen, Deliver, RemoteClose, ReadFails, ReadLoopEnds
  <2> QED BY <1>5, <2>1, <2>2, <2>3, <2>4 DEF ReadLoop
<1>6. ASSUME NEW t \in Side, Serve(t) \/ Shutdown(t) PROVE UNCHANGED reader
  BY <1>6 DEF Serve, DialCheck, DialOpen, Accept, Shutdown, SessionClose, CloseAll,
              TransportClose, SessionCloseReturns
<1>7. ASSUME NEW e \in End, Use(e) PROVE reader'[s] = reader[s]
  <2>1. CASE CallsOn(e)
    BY <1>3, <2>1, ReqType DEF CallsOn
  <2> QED BY <1>1, <1>7, <2>1 DEF Use, Write, Read, Close
<1>8. ASSUME LinkBreaks \/ UNCHANGED vars PROVE UNCHANGED reader
  BY <1>8 DEF LinkBreaks, vars
<1> QED BY <1>1, <1>4, <1>5, <1>6, <1>7, <1>8 DEF Next

\* So readLoop closes for a CLOSE that has its cause.
LEMMA ReaderStep ==
  ASSUME TypeOK, JustifiedWire, JustifiedReader, [Next]_vars
  PROVE  JustifiedReader'
<1> SUFFICES ASSUME NEW s \in Side, reader'[s].at = "remoteClose"
             PROVE  \E i \in Id : /\ reader'[s].end.side = s
                                  /\ reader'[s].end.id = i
                                  /\ Ended(Peer(s), i)'
  BY DEF JustifiedReader, Ended
<1>1. Peer(s) \in Side
  BY PeerType
<1>2. \A i \in Id : Ended(Peer(s), i) => Ended(Peer(s), i)'
  BY <1>1, StepKept, CausesStay
<1>3. CASE reader'[s] = reader[s]
  <2>1. reader[s].end.side = s /\ Ended(Peer(s), reader[s].end.id)
    BY <1>3 DEF JustifiedReader
  <2>2. reader[s].end.id \in Id
    BY <1>3, ReaderType DEF End
  <2> QED BY <1>2, <1>3, <2>1, <2>2
<1>4. CASE Receive(s) /\ reader'[s] # reader[s]
  <2> DEFINE m == Head(wire[Peer(s)])
             o == conns[s][m.id]
  <2>1. m \in Justified(Peer(s))
    BY <1>1, <1>4, SeqMoves DEF JustifiedWire, Receive
  <2>2. m.type = "close" /\ reader'[s] = [at |-> "remoteClose", end |-> TheEnd(s, o, m.id)]
    <3>1. \A r : reader' = [reader EXCEPT ![s] = r] => reader'[s] = r
      BY DEF TypeOK
    <3>2. \/ reader' = [reader EXCEPT ![s] = [at |-> "open", end |-> TheEnd(s, Peer(s), m.id)]]
          \/ UNCHANGED reader
          \/ reader' = [reader EXCEPT ![s] = [at |-> "deliver", end |-> TheEnd(s, o, m.id), data |-> m.data]]
          \/ m.type = "close" /\ reader' = [reader EXCEPT ![s] = [at |-> "remoteClose", end |-> TheEnd(s, o, m.id)]]
      BY <1>4 DEF Receive, AtEnd
    <3> HIDE DEF m, o
    <3> QED BY <1>4, <3>1, <3>2
  <2>3. m.id \in Id /\ Ended(Peer(s), m.id)
    BY <2>1, <2>2 DEF Justified, Message
  <2>4. reader'[s].end.side = s /\ reader'[s].end.id = m.id
    BY <2>2 DEF TheEnd
  <2> HIDE DEF m
  <2> QED BY <1>2, <2>3, <2>4
<1> QED BY <1>3, <1>4, ReaderMoves

\* Who closes connections.
LEMMA ClosedMoves ==
  ASSUME [Next]_vars
  PROVE  \/ UNCHANGED closed
         \/ \E s \in Side : RemoteClose(s) \/ CloseAll(s)
         \/ \E e \in End : Close(e)
<1>1. ASSUME NEW s \in Side, WriteLoop(s) PROVE UNCHANGED closed
  BY <1>1 DEF WriteLoop, TakeControl, TakeData, Take, NoControl, WriterStops, MoveWriter,
              RecordWritten, WriteFails, Answer
<1>2. ASSUME NEW s \in Side, ReadLoop(s) PROVE UNCHANGED closed \/ RemoteClose(s)
  BY <1>2 DEF ReadLoop, Receive, OfferOpen, RefuseOpen, Refusing, Call, Enqueue, GiveUp,
              Deliver, ReadFails, ReadLoopEnds
<1>3. ASSUME NEW s \in Side, Serve(s) PROVE UNCHANGED closed
  BY <1>3 DEF Serve, DialCheck, DialOpen, Accept
<1>4. ASSUME NEW s \in Side, Shutdown(s) PROVE UNCHANGED closed \/ CloseAll(s)
  BY <1>4 DEF Shutdown, SessionClose, TransportClose, SessionCloseReturns
<1>5. ASSUME NEW e \in End, Use(e) PROVE UNCHANGED closed \/ Close(e)
  BY <1>5 DEF Use, CallsOn, Call, Enqueue, GiveUp, Write, Read
<1>6. ASSUME LinkBreaks \/ UNCHANGED vars PROVE UNCHANGED closed
  BY <1>6 DEF LinkBreaks, vars
<1> QED BY <1>1, <1>2, <1>3, <1>4, <1>5, <1>6 DEF Next

\* Each of them has a cause, and a cause stays.
LEMMA ClosedStep ==
  ASSUME TypeOK, TypeOK', JustifiedReader, ClosedForCause, [Next]_vars
  PROVE  ClosedForCause'
<1> SUFFICES ASSUME NEW e \in closed'
             PROVE  \/ call'[Req("close", e)] # "idle"
                    \/ Stopped(e.side)'
                    \/ Ended(Peer(e.side), e.id)'
  BY DEF ClosedForCause
<1>1. e \in End /\ e.side \in Side /\ e.id \in Id /\ Peer(e.side) \in Side
  BY PeerType DEF TypeOK, End
<1>2. Ended(Peer(e.side), e.id) => Ended(Peer(e.side), e.id)'
  BY <1>1, StepKept, CausesStay
<1>3. CASE e \in closed
  <2>1. call[Req("close", e)] # "idle" => call'[Req("close", e)] # "idle"
    BY <1>1, StepKept, ReqType DEF Kept
  <2>2. Stopped(e.side) => Stopped(e.side)'
    BY <1>1, StoppedStays
  <2> QED BY <1>2, <1>3, <2>1, <2>2 DEF ClosedForCause
<1>4. ASSUME NEW s \in Side, RemoteClose(s), e \notin closed
      PROVE  Ended(Peer(e.side), e.id)
  <2>1. reader[s].at = "remoteClose" /\ e = reader[s].end
    BY <1>4 DEF RemoteClose
  <2> QED BY <2>1 DEF JustifiedReader
<1>5. ASSUME NEW s \in Side, CloseAll(s), e \notin closed
      PROVE  Stopped(e.side)'
  BY <1>5 DEF CloseAll, Stopped, TypeOK
<1>6. ASSUME NEW f \in End, Close(f), e \notin closed
      PROVE  call'[Req("close", e)] # "idle"
  <2>1. e = f /\ Submit(Req("close", e))
    BY <1>6 DEF Close
  <2>2. Req("close", e) \in Request
    BY <1>1, ReqType
  <2> QED BY <2>1, <2>2 DEF Submit, TypeOK
<1> QED BY <1>2, <1>3, <1>4, <1>5, <1>6, ClosedMoves

-----------------------------------------------------------------------------
\* Nothing is queued, sent or closed at the start.
LEMMA CauseInit == Init => CauseInv
<1> SUFFICES ASSUME Init PROVE CauseInv
  OBVIOUS
<1>1. CausedQueues /\ JustifiedWire
  <2>1. \A S : <<>> \in Seq(S)
    OBVIOUS
  <2> QED BY <2>1 DEF Init, CausedQueues, JustifiedWire
<1>2. JustifiedReader /\ ClosedForCause
  BY DEF Init, JustifiedReader, ClosedForCause
<1> QED BY <1>1, <1>2 DEF CauseInv

\* With the types, the invariant is inductive.
LEMMA CauseStep == TypeInv /\ TypeInv' /\ CauseInv /\ [Next]_vars => CauseInv'
<1> SUFFICES ASSUME TypeInv, TypeInv', CauseInv, [Next]_vars PROVE CauseInv'
  OBVIOUS
<1> USE DEF TypeInv, CauseInv
<1>1. CausedQueues'
  BY QueuesStepCaused
<1>2. JustifiedWire'
  BY WireStep
<1>3. JustifiedReader'
  BY ReaderStep
<1>4. ClosedForCause'
  BY ClosedStep
<1> QED BY <1>1, <1>2, <1>3, <1>4

\* A connection is closed only by its application, by the shutdown of its session,
\* or because the other side closed or refused a connection of its ID, whatever the
\* number of connections, the sides that dial and the capacities of the channels.
THEOREM CloseHasCause == Spec => []ClosedForCause
<1>1. CauseInv => ClosedForCause
  BY DEF CauseInv
<1> QED BY <1>1, TypeInvHolds, CauseInit, CauseStep, PTL DEF Spec
=============================================================================
