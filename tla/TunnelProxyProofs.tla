--------------------------- MODULE TunnelProxyProofs ---------------------------
(***************************************************************************)
(* Theorems about TunnelProxy.  Its steps are steps of the two sessions    *)
(* under it, so that what is proved of TunnelSession holds of it too; its  *)
(* types; and that a proxy closes a connection only when what its program  *)
(* sent is on the wire.                                                    *)
(***************************************************************************)
EXTENDS TunnelProxy, TunnelStreamProofs

Copied == {"copying", "closing", "over"}

-----------------------------------------------------------------------------
(* The invariant of the types.                                             *)

\* A handler goes on when its Dial has returned, or with the connection it got from
\* Accept, and has closed its connection when it is about to return.
Handling ==
    \A e \in End :
       /\ call[Req("open", e)] # "idle" => e.side = e.origin
       /\ e.side = e.origin /\ proxy[e] \in Copied => call[Req("open", e)] = "done"
       /\ e.side # e.origin /\ proxy[e] = "dial" => e \in held
       /\ proxy[e] = "closing" => e \in closed

ProxyInv == TypeInv /\ ProxyTypeOK /\ Handling

-----------------------------------------------------------------------------
(* The invariant of the copies, when one side dials.                       *)

\* A connection that is offered to Accept is new, and offered once.
Offers == \A s \in Side : /\ NoTwice(backlog[s])
                          /\ \A e \in held : ~Holds(backlog[s], e)

\* A connection that has a handler has been dialed or accepted.
Handled == \A e \in Ends : proxy[e] # "none" =>
              IF e.side = e.origin THEN Called("open", e) ELSE e \in held

\* Where a handler is when its copies and its program have done something.
Phases ==
    \A e \in Ends :
       /\ Called("data", e) \/ e \in outDone \cup inDone => proxy[e] \in Copied
       /\ e \in ended => proxy[e] \in Copied /\ e \in held
       /\ Called("close", e) => proxy[e] \in {"closing", "over"}
       /\ e \in ended /\ proxy[e] \in {"closing", "over"} => e \in outDone \cup inDone

\* The copy to the tunnel has no Write in progress when it returns, nor has
\* the connection when its proxy closes it because of that.
Writes ==
    \A e \in Ends :
       e \in outDone \/ (Called("close", e) /\ e \notin inDone) => call[Req("data", e)] \notin Pending

\* It has written all that its program sent, when nothing went wrong.
CopiedOut ==
    \A e \in Ends :
       /\ e \in outDone \ inDone
       /\ e \notin closed \/ Called("close", e)
       /\ call[Req("data", e)] = "idle"
       /\ proxy[e] = "copying" \/ e \in ended
       => e \in ended /\ sent[e] = offered[e]

\* The proxy at y has closed after its last write.
Clean(y) == Finished(y) /\ y \notin inDone /\ ~Called("data", y)

\* No chunk comes after a CLOSE.
CloseLast(w, i) == \A j, k \in 1..Len(w) : j < k /\ CloseAt(w, i, j) => ~DataAt(w, i, k)

Cleanly ==
    \A x \in Ends : Clean(PeerEnd(x)) =>
       /\ CloseLast(Way(x), x.id)
       /\ Closing(x) => x \in closed \/ Arrived(x) >= sent[PeerEnd(x)]

CopyInv == FlowInv /\ ProxyInv /\ Offers /\ Handled /\ Phases /\ Writes /\ CopiedOut /\ Cleanly

-----------------------------------------------------------------------------
(* The steps of a proxy are steps of its sessions.                         *)

\* A step of the proxies is a step of the sessions, or leaves them alone.
LEMMA StepsAreSessions == [ProxyNext]_allVars => [Next]_vars
<1> SUFFICES ASSUME [ProxyNext]_allVars PROVE [Next]_vars
  OBVIOUS
<1>1. ASSUME NEW e \in End, CloseTunnelConn(e) PROVE [Next]_vars
  BY <1>1 DEF CloseTunnelConn, Next, Use
<1>2. CASE Sessions \/ Callers
  BY <1>2 DEF Sessions, Callers, Next, Shutdown, Use
<1>3. ASSUME NEW s \in Side, ForwardDials(s) \/ ServeAccepts(s) \/ ForwardAccepts(s) \/ LoopReturns(s)
      PROVE  [Next]_vars
  BY <1>3 DEF ForwardDials, ServeAccepts, ForwardAccepts, LoopReturns, Next, Serve
<1>4. ASSUME NEW e \in End, OutLoop(e) \/ InLoop(e) PROVE [Next]_vars
  BY <1>4 DEF OutLoop, InLoop, CopyOut, CopyOutEnds, CopyIn, CopyInEnds, Next, Use
<1>5. ASSUME NEW e \in End, Handler(e) PROVE [Next]_vars
  BY <1>1, <1>5 DEF Handler, ForwardDialed, ServeDialed, CloseBoth, ProxyReturns
<1>6. ASSUME NEW e \in End, LocalSends(e) \/ LocalEnds(e) PROVE [Next]_vars
  BY <1>6 DEF LocalSends, LocalEnds
<1>7. CASE QuietBreak
  BY <1>7 DEF QuietBreak, Next
<1>8. CASE UNCHANGED allVars
  BY <1>8 DEF allVars
<1> QED BY <1>2, <1>3, <1>4, <1>5, <1>6, <1>7, <1>8 DEF ProxyNext, Goroutines, Outside

\* Whatever Forward, Serve and Proxy do with a tunnel, its two sessions behave as
\* TunnelSession says: each theorem about it is one about them.
THEOREM ProxiesRunSessions == ProxySpec => Spec
<1>1. ProxyInit => Init
  BY DEF ProxyInit
<1> QED BY <1>1, StepsAreSessions, PTL DEF ProxySpec, Spec

\* What the sessions do by themselves, and what happens to them.
Alone == Sessions \/ Callers \/ QuietBreak \/ UNCHANGED allVars
            \/ \E s \in Side : ForwardAccepts(s)

\* It leaves the proxies alone, begins no call but that of a refusal, and hands out
\* a connection only for a Dial.
LEMMA AloneKeeps ==
  ASSUME TypeOK, Alone
  PROVE  /\ UNCHANGED proxyVars /\ UNCHANGED <<sent, nextID>>
         /\ \A r \in Request : r.op # "reject" /\ call[r] \notin Pending => call'[r] = call[r]
         /\ \A e \in held' \ held : call[Req("open", e)] \in Pending
         /\ held \subseteq held' /\ closed \subseteq closed'
<1> DEFINE Keeps == /\ UNCHANGED <<sent, nextID>>
                    /\ \A r \in Request : r.op # "reject" /\ call[r] \notin Pending => call'[r] = call[r]
                    /\ \A e \in held' \ held : call[Req("open", e)] \in Pending
                    /\ held \subseteq held' /\ closed \subseteq closed'
<1>1. ASSUME NEW r \in Request, Enqueue(r) \/ GiveUp(r) PROVE Keeps
  BY <1>1, Parts DEF Enqueue, GiveUp, Return, Pending, TypeOK, dialVars, ioVars
<1>2. ASSUME NEW s \in Side, HandStep(s) PROVE Keeps
  BY <1>2, HandFrame
<1>3. ASSUME NEW s \in Side, RecordWritten(s) \/ WriteFails(s) PROVE Keeps
  <2>1. writer[s].req \in Request /\ UNCHANGED <<sent, nextID, closed>>
    BY <1>3, Answered DEF ioVars, dialVars
  <2>2. CASE UNCHANGED <<call, held>>
    BY <2>1, <2>2
  <2>3. ASSUME NEW ok, call[writer[s].req] = "wait", Return(writer[s].req, ok) PROVE Keeps
    BY <2>1, <2>3, Parts DEF Return, Pending, TypeOK
  <2> QED BY <1>3, <2>2, <2>3, Answered
<1>4. ASSUME NEW s \in Side, ReadLoop(s) PROVE Keeps
  <2>1. CASE Refusing(s)
    BY <1>1, <2>1, ReaderType, ReqType DEF Refusing, Call
  <2>2. CASE RefuseOpen(s)
    <3>1. \A r \in Request : r.op # "reject" => call'[r] = call[r]
      BY <2>2, ReqType DEF RefuseOpen, Submit, TypeOK, Req
    <3> QED BY <2>2, <3>1 DEF RefuseOpen, ioVars, dialVars
  <2> QED BY <1>4, <2>1, <2>2 DEF ReadLoop, Receive, OfferOpen, Deliver, RemoteClose,
                     ReadFails, ReadLoopEnds, dialVars, ioVars
<1>5. ASSUME NEW s \in Side, CloseAll(s) \/ DialCheck(s) PROVE Keeps
  BY <1>5 DEF CloseAll, DialCheck, ioVars, dialVars
<1>6. ASSUME LinkBreaks \/ UNCHANGED vars PROVE Keeps
  <2>1. sent' = sent /\ nextID' = nextID /\ call' = call /\ held' = held /\ closed' = closed
    BY <1>6 DEF LinkBreaks, vars, ioVars, dialVars
  <2> QED BY <2>1
<1>7. UNCHANGED proxyVars
  BY DEF Alone, Sessions, Callers, QuietBreak, ForwardAccepts, allVars
<1>8. Keeps
  <2>1. ASSUME Sessions PROVE Keeps
    BY <1>2, <1>3, <1>4, <1>5, <2>1 DEF Sessions, WriteLoop, HandStep
  <2>2. ASSUME Callers PROVE Keeps
    BY <1>1, <2>2, ReqType DEF Callers, CallsOn, Call
  <2>3. ASSUME QuietBreak \/ UNCHANGED allVars \/ \E s \in Side : ForwardAccepts(s) PROVE Keeps
    BY <1>5, <1>6, <2>3 DEF QuietBreak, ForwardAccepts, allVars
  <2> QED BY <2>1, <2>2, <2>3 DEF Alone
<1> QED BY <1>7, <1>8

\* The steps of a proxy, one by one.
LEMMA ProxySteps ==
  ASSUME [ProxyNext]_allVars
  PROVE  \/ Alone
         \/ \E s \in Side : ForwardDials(s) \/ ServeAccepts(s) \/ LoopReturns(s)
         \/ \E e \in End : \/ CopyOut(e) \/ CopyOutEnds(e) \/ CopyIn(e) \/ CopyInEnds(e)
                           \/ ForwardDialed(e) \/ ServeDialed(e) \/ CloseBoth(e) \/ ProxyReturns(e)
                           \/ LocalSends(e) \/ LocalEnds(e)
BY DEF ProxyNext, Goroutines, Outside, Alone, OutLoop, InLoop, Handler

-----------------------------------------------------------------------------
(* Types.                                                                  *)

\* How a handler goes on.
LEMMA Becoming ==
  ASSUME proxy \in [End -> {"none", "dial", "copying", "closing", "over"}],
         NEW e \in End, NEW p \in {"none", "dial", "copying", "closing", "over"}, Becomes(e, p)
  PROVE  /\ proxy' \in [End -> {"none", "dial", "copying", "closing", "over"}]
         /\ proxy'[e] = p /\ \A f \in End : f # e => proxy'[f] = proxy[f]
BY DEF Becomes

\* Which end DialOpen makes.
LEMMA DialMakes ==
  ASSUME TypeOK, TypeOK', NEW s \in Side, DialOpen(s)
  PROVE  LET e == TheEnd(s, s, nextID'[s]) IN
         /\ e \in End /\ e.side = s /\ e.origin = s /\ nextID'[s] = nextID[s] + 1
         /\ call' = [call EXCEPT ![Req("open", e)] = "enqueue"] /\ Req("open", e) \in Request
         /\ UNCHANGED <<held, closed, backlog, wire, reader, sent, got, readCh>>
<1>1. nextID'[s] = nextID[s] + 1 /\ nextID'[s] \in 1..MaxDials
  BY BoundsAssumption DEF DialOpen, TypeOK
<1>2. TheEnd(s, s, nextID'[s]) \in End
  BY <1>1 DEF TheEnd, End, Id
<1> QED BY <1>1, <1>2, ReqType DEF DialOpen, Submit, TheEnd, outVars, ioVars

\* What closing a tunnel connection does.
LEMMA Closing1 ==
  ASSUME TypeOK, NEW e \in End, CloseTunnelConn(e)
  PROVE  /\ e \in closed' /\ closed \subseteq closed' /\ closed' \subseteq closed \cup {e}
         /\ UNCHANGED <<held, sent, nextID, got, readCh, wire, reader, backlog>>
         /\ \A r \in Request : r # Req("close", e) => call'[r] = call[r]
         /\ e \in closed => UNCHANGED vars
         /\ e \notin closed => Close(e) /\ e \in held /\ call'[Req("close", e)] = "enqueue"
<1>1. CASE Close(e)
  BY <1>1, ReqType DEF Close, Submit, TypeOK, ioVars, dialVars, outVars
<1>2. CASE e \in closed /\ UNCHANGED vars
  BY <1>2 DEF vars, ioVars, dialVars, outVars
<1> QED BY <1>1, <1>2 DEF CloseTunnelConn

\* The types of the proxies' own variables.
LEMMA ProxyTypeInit == ProxyInit => ProxyInv
<1> SUFFICES ASSUME ProxyInit PROVE ProxyInv
  OBVIOUS
<1>1. TypeInv
  BY TypeInvInit DEF ProxyInit
<1>2. ProxyTypeOK
  BY BoundsAssumption DEF ProxyInit, Init, ProxyTypeOK
<1>3. Handling
  BY ReqType DEF ProxyInit, Init, Handling, Copied
<1> QED BY <1>1, <1>2, <1>3 DEF ProxyInv

\* The parts of the invariants that speak of one connection.
Copies(e) ==
    /\ proxy[e] = "copying" => e \in held
    /\ e \in held /\ proxy[e] = "over" => e \in closed /\ call[Req("close", e)] \notin Pending
HandlingOf(e) ==
    /\ call[Req("open", e)] # "idle" => e.side = e.origin
    /\ e.side = e.origin /\ proxy[e] \in Copied => call[Req("open", e)] = "done"
    /\ e.side # e.origin /\ proxy[e] = "dial" => e \in held
    /\ proxy[e] = "closing" => e \in closed

ProxyTypes ==
    /\ loop \in [Side -> {"running", "returned"}]
    /\ proxy \in [End -> {"none", "dial", "copying", "closing", "over"}]
    /\ offered \in [End -> 0..MaxWrites]
    /\ ended \subseteq End
    /\ outDone \subseteq End
    /\ inDone \subseteq End

LEMMA ProxyParts ==
  ASSUME TypeOK
  PROVE  /\ ProxyTypeOK <=> ProxyTypes /\ \A e \in End : Copies(e)
         /\ Handling <=> \A e \in End : HandlingOf(e)
<1>1. held \subseteq End
  BY DEF TypeOK
<1>2. ProxyTypeOK <=> ProxyTypes /\ \A e \in End : Copies(e)
  BY <1>1 DEF ProxyTypeOK, ProxyTypes, Copies
<1> QED BY <1>2 DEF Handling, HandlingOf

\* The variables of the proxies keep their types.
LEMMA ProxyTypesStep ==
  ASSUME TypeOK, TypeOK', ProxyTypes, [ProxyNext]_allVars
  PROVE  ProxyTypes'
<1>1. CASE Alone
  BY <1>1, AloneKeeps DEF ProxyTypes, proxyVars, localVars, copyVars
<1>2. ASSUME NEW s \in Side, ForwardDials(s) PROVE ProxyTypes'
  BY <1>2, DialMakes, Becoming DEF ForwardDials, ProxyTypes, localVars, copyVars
<1>3. ASSUME NEW s \in Side, ServeAccepts(s) PROVE ProxyTypes'
  <2>1. Head(backlog[s]) \in End
    BY <1>3 DEF ServeAccepts, Accept, TypeOK
  <2> QED BY <1>3, <2>1, Becoming DEF ServeAccepts, ProxyTypes, localVars, copyVars
<1>4. ASSUME NEW s \in Side, LoopReturns(s) PROVE ProxyTypes'
  BY <1>4 DEF LoopReturns, ProxyTypes, localVars, copyVars
<1>5. ASSUME NEW e \in End, CopyOut(e) \/ CopyOutEnds(e) \/ CopyIn(e) \/ CopyInEnds(e) PROVE ProxyTypes'
  BY <1>5 DEF CopyOut, CopyOutEnds, CopyIn, CopyInEnds, ProxyTypes, proxyVars, localVars, copyVars
<1>6. ASSUME NEW e \in End, ForwardDialed(e) \/ ServeDialed(e) \/ CloseBoth(e) \/ ProxyReturns(e)
      PROVE  ProxyTypes'
  <2>1. /\ UNCHANGED <<loop, localVars, copyVars>>
        /\ \E p \in {"none", "dial", "copying", "closing", "over"} : Becomes(e, p)
    BY <1>6 DEF ForwardDialed, ServeDialed, CloseBoth, ProxyReturns
  <2> QED BY <2>1, Becoming DEF ProxyTypes, localVars, copyVars
<1>7. ASSUME NEW e \in End, LocalSends(e) \/ LocalEnds(e) PROVE ProxyTypes'
  BY <1>7, BoundsAssumption DEF LocalSends, LocalEnds, ProxyTypes, copyVars
<1> QED BY ProxySteps, <1>1, <1>2, <1>3, <1>4, <1>5, <1>6, <1>7

\* What is said of each connection stays true.
LEMMA ConnStep ==
  ASSUME TypeOK, TypeOK', ProxyTypes, [ProxyNext]_allVars,
         NEW f \in End, Copies(f), HandlingOf(f)
  PROVE  Copies(f)' /\ HandlingOf(f)'
<1> DEFINE o == Req("open", f)
           c == Req("close", f)
<1>0. /\ o \in Request /\ c \in Request /\ o # c /\ o.op = "open" /\ c.op = "close"
      /\ \A e : Req("open", e) = o <=> e = f
      /\ \A e : Req("close", e) = c <=> e = f
      /\ \A e : Req("data", e) # c /\ Req("data", e) # o /\ Req("close", e) # o /\ Req("open", e) # c
  BY ReqType DEF Req
<1>p. proxy \in [End -> {"none", "dial", "copying", "closing", "over"}]
  BY DEF ProxyTypes
<1>q. Copied = {"copying", "closing", "over"}
  BY DEF Copied
<1> HIDE DEF o, c
<1>h. /\ Copies(f) <=> /\ proxy[f] = "copying" => f \in held
                       /\ f \in held /\ proxy[f] = "over" => f \in closed /\ call[c] \notin Pending
      /\ HandlingOf(f) <=> /\ call[o] # "idle" => f.side = f.origin
                           /\ f.side = f.origin /\ proxy[f] \in Copied => call[o] = "done"
                           /\ f.side # f.origin /\ proxy[f] = "dial" => f \in held
                           /\ proxy[f] = "closing" => f \in closed
  BY DEF Copies, HandlingOf, o, c
<1>i. /\ Copies(f)' <=> /\ proxy'[f] = "copying" => f \in held'
                        /\ f \in held' /\ proxy'[f] = "over" => f \in closed' /\ call'[c] \notin Pending
      /\ HandlingOf(f)' <=> /\ call'[o] # "idle" => f.side = f.origin
                            /\ f.side = f.origin /\ proxy'[f] \in Copied => call'[o] = "done"
                            /\ f.side # f.origin /\ proxy'[f] = "dial" => f \in held'
                            /\ proxy'[f] = "closing" => f \in closed'
  BY DEF Copies, HandlingOf, o, c
<1>1. CASE Alone
  <2>1. /\ proxy' = proxy /\ held \subseteq held' /\ closed \subseteq closed'
        /\ call[o] \notin Pending => call'[o] = call[o]
        /\ call[c] \notin Pending => call'[c] = call[c]
        /\ f \in held' \ held => call[o] \in Pending
    BY <1>0, <1>1, AloneKeeps DEF proxyVars, o
  <2> QED BY <1>h, <1>i, <1>q, <2>1 DEF Pending
<1>2. ASSUME NEW s \in Side, ForwardDials(s) PROVE Copies(f)' /\ HandlingOf(f)'
  <2> DEFINE e == TheEnd(s, s, nextID'[s])
  <2>1. /\ e \in End /\ e.side = s /\ e.origin = s /\ held' = held /\ closed' = closed
        /\ Req("open", e) \in Request /\ call' = [call EXCEPT ![Req("open", e)] = "enqueue"]
    BY <1>2, DialMakes DEF ForwardDials
  <2>2. proxy'[e] = "dial" /\ \A g \in End : g # e => proxy'[g] = proxy[g]
    BY <1>2, <1>p, <2>1, Becoming DEF ForwardDials
  <2> HIDE DEF e
  <2>3. call'[c] = call[c] /\ (e # f => call'[o] = call[o])
    BY <1>0, <2>1 DEF TypeOK
  <2> QED BY <1>h, <1>i, <1>q, <2>1, <2>2, <2>3
<1>3. ASSUME NEW s \in Side, ServeAccepts(s) PROVE Copies(f)' /\ HandlingOf(f)'
  <2> DEFINE e == Head(backlog[s])
  <2>1. /\ e \in End /\ held' = held \cup {e} /\ closed' = closed /\ call' = call
    BY <1>3 DEF ServeAccepts, Accept, TypeOK
  <2>2. proxy'[e] = "dial" /\ \A g \in End : g # e => proxy'[g] = proxy[g]
    BY <1>3, <1>p, <2>1, Becoming DEF ServeAccepts
  <2> HIDE DEF e
  <2> QED BY <1>h, <1>i, <1>q, <2>1, <2>2
<1>4. ASSUME NEW e \in End,
             \/ \E s \in Side : LoopReturns(s)
             \/ CopyOutEnds(e) \/ CopyIn(e) \/ CopyInEnds(e) \/ LocalSends(e) \/ LocalEnds(e)
      PROVE  Copies(f)' /\ HandlingOf(f)'
  <2>1. proxy' = proxy /\ held' = held /\ closed' = closed /\ call' = call
    BY <1>4 DEF LoopReturns, CopyOutEnds, CopyIn, Read, CopyInEnds, LocalSends, LocalEnds, vars
  <2> QED BY <1>h, <1>i, <1>q, <2>1
<1>5. ASSUME NEW e \in End, CopyOut(e) PROVE Copies(f)' /\ HandlingOf(f)'
  <2>1. proxy' = proxy /\ held' = held /\ closed' = closed /\ call' = [call EXCEPT ![Req("data", e)] = "enqueue"]
    BY <1>5 DEF CopyOut, Write, Submit, proxyVars
  <2>2. call'[c] = call[c] /\ call'[o] = call[o]
    BY <1>0, <2>1 DEF TypeOK
  <2> QED BY <1>h, <1>i, <1>q, <2>1, <2>2
<1>6. ASSUME NEW e \in End, ForwardDialed(e) PROVE Copies(f)' /\ HandlingOf(f)'
  <2>1. held' = held /\ closed' = closed /\ call' = call
    BY <1>6 DEF ForwardDialed, vars
  <2>2. /\ proxy'[e] = IF e \in held THEN "copying" ELSE "over"
        /\ \A g \in End : g # e => proxy'[g] = proxy[g]
        /\ e.side = e.origin
    BY <1>6, <1>p, Becoming DEF ForwardDialed
  <2>3. e = f => call[o] = "done"
    BY <1>6 DEF ForwardDialed, o
  <2> QED BY <1>h, <1>i, <1>q, <2>1, <2>2, <2>3
<1>7. ASSUME NEW e \in End, ServeDialed(e) PROVE Copies(f)' /\ HandlingOf(f)'
  <2>1. /\ \A g \in End : g # e => proxy'[g] = proxy[g]
        /\ proxy[e] = "dial" /\ e.side # e.origin
        /\ \/ proxy'[e] = "copying" /\ UNCHANGED vars
           \/ proxy'[e] = "closing" /\ CloseTunnelConn(e)
    BY <1>7, <1>p, Becoming DEF ServeDialed
  <2>2. CASE proxy'[e] = "copying" /\ UNCHANGED vars
    <3>1. held' = held /\ closed' = closed /\ call' = call
      BY <2>2 DEF vars
    <3> QED BY <1>h, <1>i, <1>q, <2>1, <2>2, <3>1
  <2>3. CASE proxy'[e] = "closing" /\ CloseTunnelConn(e)
    <3>1. /\ held' = held /\ e \in closed' /\ closed \subseteq closed'
          /\ call'[o] = call[o] /\ (f # e => call'[c] = call[c])
      BY <1>0, <2>3, Closing1
    <3> QED BY <1>h, <1>i, <1>q, <2>1, <2>3, <3>1
  <2> QED BY <2>1, <2>2, <2>3
<1>8. ASSUME NEW e \in End, CloseBoth(e) PROVE Copies(f)' /\ HandlingOf(f)'
  <2>1. /\ \A g \in End : g # e => proxy'[g] = proxy[g]
        /\ proxy[e] = "copying" /\ proxy'[e] = "closing" /\ CloseTunnelConn(e)
    BY <1>8, <1>p, Becoming DEF CloseBoth
  <2>2. /\ held' = held /\ e \in closed' /\ closed \subseteq closed'
        /\ call'[o] = call[o] /\ (f # e => call'[c] = call[c])
    BY <1>0, <2>1, Closing1
  <2> QED BY <1>h, <1>i, <1>q, <2>1, <2>2
<1>9. ASSUME NEW e \in End, ProxyReturns(e) PROVE Copies(f)' /\ HandlingOf(f)'
  <2>1. held' = held /\ closed' = closed /\ call' = call
    BY <1>9 DEF ProxyReturns, vars
  <2>2. /\ \A g \in End : g # e => proxy'[g] = proxy[g]
        /\ proxy'[e] = "over" /\ proxy[e] = "closing"
        /\ call[Req("close", e)] \notin Pending
    BY <1>9, <1>p, Becoming DEF ProxyReturns
  <2> QED BY <1>h, <1>i, <1>q, <2>1, <2>2 DEF c
<1> QED BY ProxySteps, <1>1, <1>2, <1>3, <1>4, <1>5, <1>6, <1>7, <1>8, <1>9

LEMMA ProxyInvStep == ProxyInv /\ [ProxyNext]_allVars => ProxyInv'
<1> SUFFICES ASSUME ProxyInv, [ProxyNext]_allVars PROVE ProxyInv'
  OBVIOUS
<1>1. TypeInv /\ TypeInv' /\ TypeOK /\ TypeOK'
  BY StepsAreSessions, TypeInvStep DEF ProxyInv, TypeInv
<1>2. ProxyTypes /\ \A e \in End : Copies(e) /\ HandlingOf(e)
  BY <1>1, ProxyParts DEF ProxyInv
<1>3. ProxyTypes' /\ \A e \in End : Copies(e)' /\ HandlingOf(e)'
  BY <1>1, <1>2, ProxyTypesStep, ConnStep
<1>4. ProxyTypeOK' /\ Handling'
  <2>1. held' \subseteq End
    BY <1>1 DEF TypeOK
  <2>2. ProxyTypeOK'
    BY <1>3, <2>1 DEF ProxyTypeOK, ProxyTypes, Copies
  <2>3. Handling'
    BY <1>3 DEF Handling, HandlingOf
  <2> QED BY <2>2, <2>3
<1> QED BY <1>1, <1>4 DEF ProxyInv

\* The state of the handlers and their copies is well formed whatever the number of dials,
\* writes and the capacities of the channels; a handler copies only over a connection it
\* has got, and a connection is closed, and its CLOSE done with, when its handler returns.
THEOREM ProxyTypeCorrect == ProxySpec => []ProxyTypeOK
<1>1. ProxyInv => ProxyTypeOK
  BY DEF ProxyInv
<1> QED BY <1>1, ProxyTypeInit, ProxyInvStep, PTL DEF ProxySpec

-----------------------------------------------------------------------------
(* What the steps do to one connection.                                    *)

\* A handler begins with Dial or Accept, and goes on from there.
LEMMA HandlerMoves ==
  ASSUME TypeOK, TypeOK', ProxyTypes, [ProxyNext]_allVars, NEW f \in End
  PROVE  \/ proxy'[f] = proxy[f]
         \/ \E s \in Side : /\ ForwardDials(s) /\ f = TheEnd(s, s, nextID'[s]) /\ proxy'[f] = "dial"
         \/ \E s \in Side : /\ ServeAccepts(s) /\ f = Head(backlog[s]) /\ proxy'[f] = "dial"
         \/ ForwardDialed(f) /\ proxy[f] = "dial" /\ proxy'[f] \in {"copying", "over"}
         \/ ServeDialed(f) /\ proxy[f] = "dial" /\ proxy'[f] \in {"copying", "closing"}
         \/ CloseBoth(f) /\ proxy[f] = "copying" /\ proxy'[f] = "closing"
         \/ ProxyReturns(f) /\ proxy[f] = "closing" /\ proxy'[f] = "over"
<1>p. proxy \in [End -> {"none", "dial", "copying", "closing", "over"}]
  BY DEF ProxyTypes
<1> DEFINE Same == proxy'[f] = proxy[f]
<1>1. CASE Alone
  BY <1>1, AloneKeeps DEF proxyVars
<1>2. ASSUME NEW s \in Side, ForwardDials(s)
      PROVE  Same \/ (f = TheEnd(s, s, nextID'[s]) /\ proxy'[f] = "dial")
  <2>1. TheEnd(s, s, nextID'[s]) \in End
    BY <1>2, DialMakes DEF ForwardDials
  <2> QED BY <1>2, <1>p, <2>1, Becoming DEF ForwardDials
<1>3. ASSUME NEW s \in Side, ServeAccepts(s)
      PROVE  Same \/ (f = Head(backlog[s]) /\ proxy'[f] = "dial")
  <2>1. Head(backlog[s]) \in End
    BY <1>3 DEF ServeAccepts, Accept, TypeOK
  <2> QED BY <1>3, <1>p, <2>1, Becoming DEF ServeAccepts
<1>4. ASSUME NEW e \in End,
             \/ \E s \in Side : LoopReturns(s)
             \/ CopyOut(e) \/ CopyOutEnds(e) \/ CopyIn(e) \/ CopyInEnds(e) \/ LocalSends(e) \/ LocalEnds(e)
      PROVE  Same
  BY <1>4 DEF LoopReturns, CopyOut, CopyOutEnds, CopyIn, CopyInEnds, LocalSends, LocalEnds, proxyVars
<1>5. ASSUME NEW e \in End, ForwardDialed(e)
      PROVE  Same \/ (e = f /\ proxy[f] = "dial" /\ proxy'[f] \in {"copying", "over"})
  BY <1>5, <1>p, Becoming DEF ForwardDialed
<1>6. ASSUME NEW e \in End, ServeDialed(e)
      PROVE  Same \/ (e = f /\ proxy[f] = "dial" /\ proxy'[f] \in {"copying", "closing"})
  BY <1>6, <1>p, Becoming DEF ServeDialed
<1>7. ASSUME NEW e \in End, CloseBoth(e)
      PROVE  Same \/ (e = f /\ proxy[f] = "copying" /\ proxy'[f] = "closing")
  BY <1>7, <1>p, Becoming DEF CloseBoth
<1>8. ASSUME NEW e \in End, ProxyReturns(e)
      PROVE  Same \/ (e = f /\ proxy[f] = "closing" /\ proxy'[f] = "over")
  BY <1>8, <1>p, Becoming DEF ProxyReturns
<1> QED BY ProxySteps, <1>1, <1>2, <1>3, <1>4, <1>5, <1>6, <1>7, <1>8

\* Only the copy to the tunnel writes, and only Proxy and Serve close.
LEMMA CallMoves ==
  ASSUME TypeOK, TypeOK', ProxyTypes, [ProxyNext]_allVars, NEW f \in End,
         NEW d, d = Req("data", f), NEW c, c = Req("close", f)
  PROVE  /\ call[d] \in Pending \/ call'[d] = call[d] \/ (CopyOut(f) /\ call[d] = "idle")
         /\ sent'[f] = sent[f] \/ CopyOut(f)
         /\ \/ call[c] \in Pending \/ call'[c] = call[c]
            \/ (CloseBoth(f) \/ ServeDialed(f)) /\ f \notin closed /\ proxy'[f] = "closing"
         /\ CopyOut(f) => call'[c] = call[c]
         /\ closed \subseteq closed'
<1>0. /\ d \in Request /\ c \in Request /\ d # c /\ d.op = "data" /\ c.op = "close"
      /\ \A e : Req("data", e) = d <=> e = f
      /\ \A e : Req("close", e) = c <=> e = f
      /\ \A e : Req("data", e) # c /\ Req("open", e) # d /\ Req("close", e) # d /\ Req("open", e) # c
  BY ReqType DEF Req
<1>p. proxy \in [End -> {"none", "dial", "copying", "closing", "over"}]
  BY DEF ProxyTypes
<1> DEFINE Goal ==
         /\ call[d] \in Pending \/ call'[d] = call[d] \/ (CopyOut(f) /\ call[d] = "idle")
         /\ sent'[f] = sent[f] \/ CopyOut(f)
         /\ \/ call[c] \in Pending \/ call'[c] = call[c]
            \/ (CloseBoth(f) \/ ServeDialed(f)) /\ f \notin closed /\ proxy'[f] = "closing"
         /\ CopyOut(f) => call'[c] = call[c]
         /\ closed \subseteq closed'
<1>1. ASSUME CopyOut(f) PROVE call'[c] = call[c] /\ closed \subseteq closed' /\ call[d] = "idle"
  BY <1>0, <1>1 DEF CopyOut, Write, Submit, TypeOK
<1>2. CASE CopyOut(f)
  BY <1>1, <1>2
<1>3. CASE ~CopyOut(f)
  <2>1. CASE Alone
    BY <1>0, <1>3, <2>1, AloneKeeps
  <2>2. ASSUME NEW s \in Side, ForwardDials(s) PROVE Goal
    <3>1. /\ sent' = sent /\ closed' = closed
          /\ \E e : call' = [call EXCEPT ![Req("open", e)] = "enqueue"]
      BY <2>2, DialMakes DEF ForwardDials
    <3>2. call'[c] = call[c] /\ call'[d] = call[d]
      BY <1>0, <3>1 DEF TypeOK
    <3> QED BY <1>3, <3>1, <3>2
  <2>3. ASSUME NEW e \in End,
               \/ \E s \in Side : LoopReturns(s) \/ ServeAccepts(s)
               \/ CopyOutEnds(e) \/ CopyIn(e) \/ CopyInEnds(e) \/ LocalSends(e) \/ LocalEnds(e)
               \/ ForwardDialed(e) \/ ProxyReturns(e)
        PROVE  Goal
    <3>1. call' = call /\ sent' = sent /\ closed' = closed
      BY <2>3 DEF LoopReturns, ServeAccepts, Accept, CopyOutEnds, CopyIn, Read, CopyInEnds, LocalSends,
                  LocalEnds, ForwardDialed, ProxyReturns, vars, ioVars
    <3> QED BY <1>3, <3>1
  <2>4. ASSUME NEW e \in End, CopyOut(e) PROVE Goal
    <3>0. e # f
      BY <1>3, <2>4
    <3>1. /\ sent' = [sent EXCEPT ![e] = @ + 1] /\ closed' = closed
          /\ call' = [call EXCEPT ![Req("data", e)] = "enqueue"]
      BY <2>4 DEF CopyOut, Write, Submit
    <3>2. sent'[f] = sent[f] /\ call'[d] = call[d] /\ call'[c] = call[c]
      BY <1>0, <3>0, <3>1 DEF TypeOK
    <3> QED BY <1>3, <3>1, <3>2
  <2>5. ASSUME NEW e \in End, ServeDialed(e) \/ CloseBoth(e) PROVE Goal
    <3>1. CASE UNCHANGED vars
      <4>1. call' = call /\ sent' = sent /\ closed' = closed
        BY <3>1 DEF vars, ioVars
      <4> QED BY <1>3, <4>1
    <3>2. CASE CloseTunnelConn(e) /\ Becomes(e, "closing")
      <4>1. /\ proxy'[e] = "closing" /\ closed \subseteq closed' /\ sent' = sent
            /\ call'[d] = call[d] /\ (e # f \/ e \in closed => call'[c] = call[c])
        <5>1. e \in closed => call' = call
          BY <3>2, Closing1 DEF vars
        <5> QED BY <1>0, <1>p, <3>2, <5>1, Closing1, Becoming
      <4> QED BY <1>3, <2>5, <4>1
    <3> QED BY <2>5, <3>1, <3>2 DEF ServeDialed, CloseBoth
  <2> QED BY ProxySteps, <2>1, <2>2, <2>3, <2>4, <2>5
<1> QED BY <1>2, <1>3

\* What a copy or a local program has done stays done.
LEMMA LocalMoves ==
  ASSUME TypeOK, ProxyTypes, [ProxyNext]_allVars, NEW f \in End
  PROVE  /\ ended \subseteq ended' /\ outDone \subseteq outDone' /\ inDone \subseteq inDone'
         /\ f \in ended' => f \in ended \/ (LocalEnds(f) /\ proxy[f] = "copying" /\ proxy' = proxy)
         /\ f \in outDone' => f \in outDone \/ CopyOutEnds(f)
         /\ f \in inDone' => f \in inDone \/ (proxy[f] \in Copied /\ proxy' = proxy)
         /\ offered'[f] = offered[f] \/ f \notin ended
<1> DEFINE Goal ==
         /\ ended \subseteq ended' /\ outDone \subseteq outDone' /\ inDone \subseteq inDone'
         /\ f \in ended' => f \in ended \/ (LocalEnds(f) /\ proxy[f] = "copying" /\ proxy' = proxy)
         /\ f \in outDone' => f \in outDone \/ CopyOutEnds(f)
         /\ f \in inDone' => f \in inDone \/ (proxy[f] \in Copied /\ proxy' = proxy)
         /\ offered'[f] = offered[f] \/ f \notin ended
<1>1. ASSUME NEW e \in End,
             \/ Alone
             \/ \E s \in Side : ForwardDials(s) \/ ServeAccepts(s) \/ LoopReturns(s)
             \/ CopyOut(e) \/ ForwardDialed(e) \/ ServeDialed(e) \/ CloseBoth(e) \/ ProxyReturns(e)
      PROVE  Goal
  <2>1. UNCHANGED <<localVars, copyVars>>
    BY <1>1, AloneKeeps DEF ForwardDials, ServeAccepts, LoopReturns, CopyOut, ForwardDialed,
                            ServeDialed, CloseBoth, ProxyReturns, proxyVars
  <2> QED BY <2>1 DEF localVars, copyVars
<1>2. ASSUME NEW e \in End, CopyOutEnds(e) PROVE Goal
  BY <1>2 DEF CopyOutEnds, localVars
<1>3. ASSUME NEW e \in End, CopyIn(e) \/ CopyInEnds(e) PROVE Goal
  BY <1>3 DEF CopyIn, CopyInEnds, localVars, Copied
<1>4. ASSUME NEW e \in End, LocalSends(e) PROVE Goal
  BY <1>4 DEF LocalSends, copyVars, ProxyTypes
<1>5. ASSUME NEW e \in End, LocalEnds(e) PROVE Goal
  BY <1>5 DEF LocalEnds, copyVars
<1> QED BY ProxySteps, <1>1, <1>2, <1>3, <1>4, <1>5

-----------------------------------------------------------------------------
(* The invariant of the copies, part by part.                              *)

\* handleOpen offers a connection that it has just stored; Accept takes it out.
LEMMA OffersStep ==
  ASSUME OpenInv, OpenInv', Offers, [Next]_vars
  PROVE  Offers'
<1>0. TypeOK /\ OneSide /\ OneSide' /\ TypeOK'
  BY DEF OpenInv
<1> SUFFICES ASSUME NEW s \in Side
             PROVE  NoTwice(backlog'[s]) /\ \A e \in held' : ~Holds(backlog'[s], e)
  BY DEF Offers
<1>1. backlog[s] \in Seq(End) /\ backlog'[s] \in Seq(End) /\ NoTwice(backlog[s])
  BY <1>0 DEF TypeOK, Offers
<1>2. NoTwice(backlog'[s])
  <2>1. CASE /\ reader[s].at = "open" /\ backlog'[s] = Append(backlog[s], reader[s].end)
    <3>1. reader[s].end \in Ends /\ reader[s].end.side = s /\ reader[s].end \in End
      BY <1>0, <2>1 DEF OneSide, HasEnd, Ends
    <3>2. ~Holds(backlog[s], reader[s].end)
      BY <2>1, <3>1 DEF OpenInv, Holding, Reading, HasEnd
    <3> QED BY <1>1, <2>1, <3>1, <3>2, QueueHolds
  <2>2. CASE backlog[s] # <<>> /\ backlog'[s] = Tail(backlog[s])
    BY <1>1, <2>2, QueueHolds
  <2> QED BY <1>0, <1>1, <2>1, <2>2, BacklogMoves
<1>3. ASSUME NEW e \in held', Holds(backlog'[s], e) PROVE FALSE
  <2>1. e \in Ends /\ e \in End /\ e.side = s /\ s = Acceptor
    BY <1>0, <1>3 DEF OneSide, Holds, Ends
  <2>2. CASE e \in held
    <3>1. ~Holds(backlog[e.side], e)
      BY <2>1, <2>2 DEF Offers
    <3>2. Reading(e) /\ reader[e.side].at = "open"
      BY <1>3, <2>1, <3>1, BackloggedFrom
    <3> QED BY <2>1, <2>2, <3>2 DEF OpenInv, Holding
  <2>3. CASE e \notin held
    <3>1. ASSUME NEW t \in Side, Accept(t), e = Head(backlog[t]) PROVE FALSE
      <4>1. backlog[t] # <<>> /\ backlog'[t] = Tail(backlog[t]) /\ backlog[t] \in Seq(End)
        BY <1>0, <3>1 DEF Accept, TypeOK
      <4>2. NoTwice(backlog[t]) /\ Holds(backlog[t], e)
        BY <3>1, <4>1, QueueHolds DEF Offers
      <4>3. t = s
        BY <1>0, <2>1, <4>2 DEF OneSide, Holds
      <4> QED BY <1>3, <3>1, <4>1, <4>2, <4>3, QueueHolds
    <3>2. e.side = Acceptor /\ Acceptor # Dialer
      BY <1>0, <2>1, TwoSides DEF OneSide
    <3>3. ASSUME NEW t \in Side, call[Req("open", e)] = "wait" PROVE FALSE
      <4>1. Req("open", e) \in Request /\ Req("open", e).op = "open" /\ Req("open", e).end = e
        BY <2>1, ReqType
      <4> QED BY <1>0, <3>2, <3>3, <4>1 DEF OneSide
    <3> QED BY <1>0, <1>3, <2>3, <3>1, <3>3, HeldGrows
  <2> QED BY <2>2, <2>3
<1> QED BY <1>2, <1>3

\* A handler that has begun is not begun again.
LEMMA OnceHandled ==
  ASSUME OpenInv, TypeOK', Offers, Handled, [ProxyNext]_allVars, NEW f \in Ends, proxy[f] # "none",
         NEW s \in Side, \/ ForwardDials(s) /\ f = TheEnd(s, s, nextID'[s])
                         \/ ServeAccepts(s) /\ f = Head(backlog[s])
  PROVE  FALSE
<1>0. TypeOK /\ OneSide /\ f \in End /\ f.origin = Dialer
  BY DEF OpenInv, Ends
<1>1. CASE ForwardDials(s) /\ f = TheEnd(s, s, nextID'[s])
  <2>1. DialOpen(s) /\ nextID'[s] = nextID[s] + 1 /\ f.side = s /\ f.origin = s
    BY <1>0, <1>1, DialMakes DEF ForwardDials
  <2>2. ~Called("open", f)
    BY <1>1, <2>1, DialIsFresh
  <2> QED BY <2>1, <2>2 DEF Handled
<1>2. CASE ServeAccepts(s) /\ f = Head(backlog[s])
  <2>1. backlog[s] # <<>> /\ backlog[s] \in Seq(End)
    BY <1>0, <1>2 DEF ServeAccepts, Accept, TypeOK
  <2>2. Holds(backlog[s], f)
    BY <1>2, <2>1, QueueHolds
  <2>3. f.side = Acceptor /\ Acceptor # Dialer
    BY <1>0, <2>2, TwoSides DEF OneSide, Holds
  <2> QED BY <1>0, <2>2, <2>3 DEF Handled, Offers
<1> QED BY <1>1, <1>2

\* A handler that copies, or is done with that, never dials again.
LEMMA HandlerStays ==
  ASSUME OpenInv, TypeOK', ProxyTypes, Offers, Handled, [ProxyNext]_allVars, NEW f \in Ends
  PROVE  /\ proxy[f] \in Copied => proxy'[f] \in Copied
         /\ proxy[f] \in {"closing", "over"} => proxy'[f] \in {"closing", "over"}
<1>1. TypeOK /\ f \in End
  BY DEF OpenInv, Ends
<1> QED BY <1>1, HandlerMoves, OnceHandled DEF Copied

LEMMA HandledStep ==
  ASSUME OpenInv, TypeOK', ProxyTypes, Offers, Handled, [ProxyNext]_allVars
  PROVE  Handled'
<1>0. TypeOK /\ OneSide /\ [Next]_vars
  BY StepsAreSessions DEF OpenInv
<1> SUFFICES ASSUME NEW f \in Ends, proxy'[f] # "none"
             PROVE  IF f.side = f.origin THEN Called("open", f)' ELSE f \in held'
  BY DEF Handled
<1>1. f \in End /\ held \subseteq held' /\ (Called("open", f) => Called("open", f)')
  BY <1>0, HeldGrows, CalledStays DEF Ends
<1>2. CASE proxy[f] # "none"
  BY <1>1, <1>2 DEF Handled
<1>3. CASE proxy[f] = "none"
  <2>1. ASSUME NEW s \in Side, ForwardDials(s), f = TheEnd(s, s, nextID'[s])
        PROVE  f.side = f.origin /\ Called("open", f)'
    <3>1. /\ f.side = s /\ f.origin = s /\ Req("open", f) \in Request
          /\ call' = [call EXCEPT ![Req("open", f)] = "enqueue"]
      BY <1>0, <2>1, DialMakes DEF ForwardDials
    <3>2. call'[Req("open", f)] = "enqueue"
      BY <1>0, <3>1 DEF TypeOK
    <3> QED BY <3>1, <3>2 DEF Called
  <2>2. ASSUME NEW s \in Side, ServeAccepts(s), f = Head(backlog[s])
        PROVE  f.side # f.origin /\ f \in held'
    <3>1. f \in held' /\ backlog[s] # <<>> /\ backlog[s] \in Seq(End)
      BY <1>0, <2>2 DEF ServeAccepts, Accept, TypeOK
    <3>2. Holds(backlog[s], f)
      BY <2>2, <3>1, QueueHolds
    <3>3. f.side = Acceptor /\ Acceptor # Dialer /\ f.origin = Dialer
      BY <1>0, <3>2, TwoSides DEF OneSide, Holds, Ends
    <3> QED BY <3>1, <3>3
  <2>3. \/ \E s \in Side : ForwardDials(s) /\ f = TheEnd(s, s, nextID'[s])
        \/ \E s \in Side : ServeAccepts(s) /\ f = Head(backlog[s])
    BY <1>0, <1>1, <1>3, HandlerMoves
  <2> QED BY <2>1, <2>2, <2>3
<1> QED BY <1>2, <1>3

\* The states of the copies and the programs, and of the handler.
LEMMA PhasesStep ==
  ASSUME OpenInv, TypeOK', ProxyInv, Offers, Handled, Phases, [ProxyNext]_allVars
  PROVE  Phases'
<1>0. TypeOK /\ [Next]_vars /\ ProxyTypes
  BY StepsAreSessions, ProxyParts DEF OpenInv, ProxyInv
<1> SUFFICES ASSUME NEW f \in Ends
             PROVE  /\ Called("data", f)' \/ f \in outDone' \cup inDone' => proxy'[f] \in Copied
                    /\ f \in ended' => proxy'[f] \in Copied /\ f \in held'
                    /\ Called("close", f)' => proxy'[f] \in {"closing", "over"}
                    /\ f \in ended' /\ proxy'[f] \in {"closing", "over"} => f \in outDone' \cup inDone'
  BY DEF Phases
<1>1. /\ f \in End /\ held \subseteq held'
      /\ proxy[f] \in Copied => proxy'[f] \in Copied
      /\ proxy[f] \in {"closing", "over"} => proxy'[f] \in {"closing", "over"}
  BY <1>0, HeldGrows, HandlerStays DEF Ends
<1>2. /\ Called("data", f) \/ f \in outDone \cup inDone => proxy[f] \in Copied
      /\ f \in ended => proxy[f] \in Copied /\ f \in held
      /\ Called("close", f) => proxy[f] \in {"closing", "over"}
      /\ f \in ended /\ proxy[f] \in {"closing", "over"} => f \in outDone \cup inDone
  BY DEF Phases
<1>3. /\ ended \subseteq ended' /\ outDone \subseteq outDone' /\ inDone \subseteq inDone'
      /\ f \in ended' => f \in ended \/ (LocalEnds(f) /\ proxy[f] = "copying" /\ proxy' = proxy)
      /\ f \in outDone' => f \in outDone \/ CopyOutEnds(f)
      /\ f \in inDone' => f \in inDone \/ (proxy[f] \in Copied /\ proxy' = proxy)
  BY <1>0, <1>1, LocalMoves
<1>4. Called("data", f)' => proxy'[f] \in Copied
  <2>1. CASE Called("data", f)
    BY <1>1, <1>2, <2>1
  <2>2. CASE CopyOut(f)
    BY <1>1, <2>2 DEF CopyOut, Copied
  <2>3. \/ call[Req("data", f)] \in Pending \/ call'[Req("data", f)] = call[Req("data", f)]
        \/ CopyOut(f)
    BY <1>0, <1>1, CallMoves
  <2> QED BY <2>1, <2>2, <2>3 DEF Called, Pending
<1>5. f \in outDone' \cup inDone' => proxy'[f] \in Copied
  BY <1>1, <1>2, <1>3 DEF CopyOutEnds, Copied
<1>6. f \in ended' => proxy'[f] \in Copied /\ f \in held'
  <2>1. proxy[f] = "copying" => f \in held
    BY <1>1 DEF ProxyInv, ProxyTypeOK
  <2> QED BY <1>1, <1>2, <1>3, <2>1 DEF Copied
<1>7. Called("close", f)' => proxy'[f] \in {"closing", "over"}
  <2>1. \/ call[Req("close", f)] \in Pending \/ call'[Req("close", f)] = call[Req("close", f)]
        \/ proxy'[f] = "closing"
    BY <1>0, <1>1, CallMoves
  <2> QED BY <1>1, <1>2, <2>1 DEF Called, Pending
<1>8. f \in ended' /\ proxy'[f] \in {"closing", "over"} => f \in outDone' \cup inDone'
  <2> SUFFICES ASSUME f \in ended', proxy'[f] \in {"closing", "over"}
               PROVE  f \in outDone' \cup inDone'
    OBVIOUS
  <2>1. CASE proxy[f] \in {"closing", "over"}
    BY <1>2, <1>3, <2>1
  <2>2. CASE proxy[f] \notin {"closing", "over"}
    <3>1. f \in ended /\ proxy[f] = "copying"
      BY <1>2, <1>3, <2>2 DEF Copied
    <3>2. CloseBoth(f)
      BY <1>0, <1>1, <2>2, <3>1, HandlerMoves, OnceHandled
    <3> QED BY <1>3, <3>2 DEF CloseBoth
  <2> QED BY <2>1, <2>2
<1> QED BY <1>4, <1>5, <1>6, <1>7, <1>8

LEMMA WritesStep ==
  ASSUME OpenInv, TypeOK', ProxyInv, Offers, Handled, Phases, Writes, [ProxyNext]_allVars
  PROVE  Writes'
<1>0. TypeOK /\ ProxyTypes
  BY ProxyParts DEF OpenInv, ProxyInv
<1> SUFFICES ASSUME NEW f \in Ends, NEW d, d = Req("data", f), call'[d] \in Pending,
                    f \in outDone' \/ (Called("close", f)' /\ f \notin inDone')
             PROVE  FALSE
  BY DEF Writes
<1>1. /\ f \in End
      /\ f \in outDone \/ (Called("close", f) /\ f \notin inDone) => call[d] \notin Pending
      /\ Called("data", f) \/ f \in outDone \cup inDone => proxy[f] \in Copied
      /\ Called("close", f) => proxy[f] \in {"closing", "over"}
  BY DEF Writes, Phases, Ends
<1>2. outDone \subseteq outDone' /\ inDone \subseteq inDone' /\ (f \in outDone' => f \in outDone \/ CopyOutEnds(f))
  BY <1>0, <1>1, LocalMoves
<1>3. CASE CopyOut(f)
  <2>1. proxy[f] = "copying" /\ f \notin outDone' /\ Called("close", f)' = Called("close", f)
    BY <1>0, <1>1, <1>3, CallMoves DEF CopyOut, proxyVars, copyVars, Called
  <2> QED BY <1>1, <2>1
<1>4. CASE ~CopyOut(f)
  <2>1. call[d] \in Pending /\ f \notin outDone
    BY <1>0, <1>1, <1>4, CallMoves
  <2>2. CASE f \in outDone'
    BY <1>2, <2>1, <2>2 DEF CopyOutEnds
  <2>3. CASE Called("close", f)' /\ f \notin inDone'
    <3>1. f \notin inDone /\ ~Called("close", f)
      BY <1>1, <1>2, <2>1, <2>3
    <3>2. CloseBoth(f) \/ ServeDialed(f)
      BY <1>0, <1>1, <2>3, <3>1, CallMoves DEF Called, Pending
    <3>3. CASE CloseBoth(f)
      BY <2>1, <3>1, <3>3 DEF CloseBoth
    <3>4. CASE ServeDialed(f)
      <4>1. proxy[f] = "dial" /\ Called("data", f)
        BY <2>1, <3>4 DEF ServeDialed, Called, Pending
      <4> QED BY <1>1, <4>1 DEF Copied
    <3> QED BY <3>2, <3>3, <3>4
  <2> QED BY <2>2, <2>3
<1> QED BY <1>3, <1>4

LEMMA CopiedOutStep ==
  ASSUME OpenInv, TypeOK', ProxyInv, Offers, Handled, Phases, Writes, CopiedOut, [ProxyNext]_allVars
  PROVE  CopiedOut'
<1>0. TypeOK /\ ProxyTypes
  BY ProxyParts DEF OpenInv, ProxyInv
<1> SUFFICES ASSUME NEW f \in Ends, NEW d, d = Req("data", f),
                    f \in outDone', f \notin inDone', f \notin closed' \/ Called("close", f)',
                    call'[d] = "idle", proxy'[f] = "copying" \/ f \in ended'
             PROVE  f \in ended' /\ sent'[f] = offered'[f]
  BY DEF CopiedOut
<1>1. /\ f \in End
      /\ f \in outDone => call[d] \notin Pending
      /\ f \in outDone \cup inDone => proxy[f] \in Copied
      /\ Called("close", f) => proxy[f] \in {"closing", "over"}
      /\ f \in ended /\ proxy[f] \in {"closing", "over"} => f \in outDone \cup inDone
  BY DEF Writes, Phases, Ends
<1>2. /\ ended \subseteq ended' /\ outDone \subseteq outDone' /\ inDone \subseteq inDone'
      /\ f \in ended' => f \in ended \/ proxy[f] = "copying"
      /\ f \in outDone' => f \in outDone \/ CopyOutEnds(f)
      /\ offered'[f] = offered[f] \/ f \notin ended
  BY <1>0, <1>1, LocalMoves
<1>3. f \notin inDone
  BY <1>2
<1>4. CASE f \notin outDone
  <2>1. /\ CopyOutEnds(f) /\ UNCHANGED vars /\ UNCHANGED <<proxy, localVars>>
    BY <1>2, <1>4 DEF CopyOutEnds
  <2>2. /\ call' = call /\ closed' = closed /\ sent' = sent /\ proxy' = proxy
        /\ ended' = ended /\ offered' = offered
    BY <2>1 DEF vars, ioVars, localVars
  <2>3. ~(proxy[f] \in {"closing", "over"})
    BY <1>1, <1>3, <1>4, <2>2
  <2>4. f \notin closed /\ call[d] = "idle"
    BY <1>1, <2>2, <2>3 DEF Called
  <2>5. f \in ended /\ sent[f] = offered[f]
    BY <2>1, <2>3, <2>4 DEF CopyOutEnds, LocalClosed
  <2> QED BY <2>2, <2>5
<1>5. CASE f \in outDone
  <2>1. ~CopyOut(f) /\ ~ServeDialed(f) /\ call[d] = "idle"
    <3>1. ~CopyOut(f) /\ ~ServeDialed(f)
      BY <1>1, <1>5 DEF CopyOut, ServeDialed, Copied
    <3> QED BY <1>0, <1>1, <1>5, <3>1, CallMoves
  <2>2. f \notin closed \/ Called("close", f)
    BY <1>0, <1>1, CallMoves DEF Called, Pending
  <2>3. proxy[f] = "copying" \/ f \in ended
    <3>1. proxy'[f] = "copying" => proxy[f] = "copying"
      <4>1. proxy[f] \in {"closing", "over"} => proxy'[f] \in {"closing", "over"}
        BY <1>0, HandlerStays
      <4> QED BY <1>1, <1>5, <4>1 DEF Copied
    <3> QED BY <1>2, <3>1
  <2>4. f \in ended /\ sent[f] = offered[f]
    BY <1>3, <1>5, <2>1, <2>2, <2>3 DEF CopiedOut
  <2>5. sent'[f] = sent[f]
    BY <1>0, <1>1, <2>1, CallMoves
  <2> QED BY <1>2, <2>4, <2>5
<1> QED BY <1>4, <1>5

-----------------------------------------------------------------------------
(* The last chunk and the CLOSE.                                           *)

\* A record is added to those on the way, or taken.
LEMMA WayMoves ==
  ASSUME OpenInv, [Next]_vars, NEW x \in Ends, NEW y, y = PeerEnd(x)
  PROVE  LET w == Way(x)
             v == Way(x)'
         IN  /\ Len(w) \in Nat
             /\ \/ v = w
                \/ /\ RecordWritten(y.side) /\ Longer(w, v, Encode(writer[y.side].req))
                \/ Receive(x.side) /\ Shorter(w, v)
<1>1. TypeOK /\ y.side \in Side /\ x.side = Peer(y.side) /\ y.side = Peer(x.side)
  BY TwoEnds DEF OpenInv
<1> QED BY <1>1, WireOf DEF Way, Longer, Shorter

\* readLoop is at remoteClose when it has just read a CLOSE for a connection it knows.
LEMMA ReadsClose ==
  ASSUME OpenInv, NEW x \in Ends, Receive(x.side), Closing(x)'
  PROVE  /\ Len(Way(x)) >= 1 /\ CloseAt(Way(x), x.id, 1) /\ Registered(x)
         /\ ~Delivering(x) /\ UNCHANGED <<got, readCh, sent, closed, call>>
<1> DEFINE s == x.side
           w == Way(x)
<1>0. TypeOK /\ OneSide /\ x \in End /\ s \in Side /\ x.id \in Id /\ x.origin = Dialer /\ Dialer \in Side
  BY TwoEnds, TwoSides DEF OpenInv, OneSide
<1>1. PICK m \in Message : m = Head(w)
  BY <1>0, Received DEF Way
<1>2. /\ reader[s].at = "read" /\ w # <<>> /\ w \in Seq(Message) /\ m = w[1] /\ m.id \in Id
      /\ UNCHANGED <<got, readCh, sent, closed, call>>
  BY <1>0, <1>1, Received, ZenonT(40) DEF Way, ioVars
<1>3. \/ /\ m.type = "open" /\ reader'[s] = [at |-> "open", end |-> TheEnd(s, Peer(s), m.id)]
      \/ /\ m.type # "open" /\ conns[s][m.id] = "none" /\ UNCHANGED <<conns, reader>>
      \/ /\ m.type = "data" /\ conns[s][m.id] \in Side /\ UNCHANGED conns /\ m.data \in Payload
         /\ reader'[s] = [at |-> "deliver", end |-> TheEnd(s, conns[s][m.id], m.id), data |-> m.data]
      \/ /\ m.type = "close" /\ conns[s][m.id] \in Side /\ UNCHANGED conns
         /\ reader'[s] = [at |-> "remoteClose", end |-> TheEnd(s, conns[s][m.id], m.id)]
  <2>1. m = Head(wire[Peer(s)])
    BY <1>1 DEF Way
  <2> HIDE DEF w
  <2> QED BY <1>0, <2>1, Received, ZenonT(40)
<1>4. /\ reader'[s].at = "remoteClose" /\ reader'[s].end = x
  BY DEF Closing
<1>5. /\ m.type = "close" /\ conns[s][m.id] \in Side
      /\ x = TheEnd(s, conns[s][m.id], m.id)
  BY <1>2, <1>3, <1>4
<1>6. m.id = x.id /\ conns[s][x.id] = x.origin
  BY <1>0, <1>5 DEF TheEnd
<1>7. Len(w) >= 1
  BY <1>2
<1> QED BY <1>0, <1>2, <1>5, <1>6, <1>7 DEF CloseAt, Registered, Delivering

\* Only readLoop adds to what has come in, as long as it is not at another thing.
LEMMA ArrivesBy ==
  ASSUME OpenInv, [Next]_vars, NEW x \in Ends, ~(Deliver(x.side) /\ Delivering(x))
  PROVE  Arrived(x)' = Arrived(x)
<1>0. TypeOK /\ OneSide /\ x \in End
  BY TwoEnds DEF OpenInv
<1>1. CASE Read(x)
  <2>1. /\ readCh[x] \in Seq(Payload) /\ got[x] \in Seq(Payload) /\ readCh[x] # <<>>
        /\ Len(got[x]) \in Nat /\ Len(readCh[x]) \in Nat
    BY <1>0, <1>1, Counts DEF Read
  <2>2. got'[x] = Append(got[x], Head(readCh[x])) /\ readCh'[x] = Tail(readCh[x])
    BY <1>0, <1>1 DEF Read, TypeOK
  <2>3. Len(got'[x]) = Len(got[x]) + 1 /\ Len(readCh'[x]) = Len(readCh[x]) - 1
    <3> DEFINE q == readCh[x]
               r == got[x]
    <3>1. q \in Seq(Payload) /\ q # <<>> /\ r \in Seq(Payload)
      BY <2>1
    <3> HIDE DEF q, r
    <3>2. Len(Append(r, Head(q))) = Len(r) + 1 /\ Len(Tail(q)) = Len(q) - 1
      BY <3>1, HeadRead, SMTT(30)
    <3> QED BY <2>2, <3>2, Zenon DEF q, r
  <2>4. (Len(got[x]) + 1) + (Len(readCh[x]) - 1) = Len(got[x]) + Len(readCh[x])
    BY <2>1, Sums, Zenon
  <2> QED BY <2>3, <2>4, Zenon DEF Arrived
<1>2. CASE ~Read(x)
  <2>1. got'[x] = got[x]
    <3>1. ASSUME NEW f \in End, Read(f) PROVE got'[x] = got[x]
      BY <1>0, <1>2, <3>1 DEF Read, TypeOK
    <3> QED BY <1>0, <3>1, DataMoves
  <2>2. readCh'[x] = readCh[x]
    <3>1. ASSUME NEW f \in End, Read(f) PROVE readCh'[x] = readCh[x]
      BY <1>0, <1>2, <3>1 DEF Read, TypeOK
    <3>2. ASSUME NEW s \in Side, Deliver(s) PROVE readCh'[x] = readCh[x]
      <4>1. reader[s].at = "deliver" /\ reader[s].end.side = s
        BY <1>0, <3>2 DEF Deliver, OneSide, HasEnd
      <4>2. reader[s].end # x
        BY <3>2, <4>1 DEF Delivering
      <4> QED BY <1>0, <3>2, <4>2 DEF Deliver, TypeOK
    <3> QED BY <1>0, <3>1, <3>2, DataMoves
  <2> QED BY <2>1, <2>2 DEF Arrived
<1> QED BY <1>1, <1>2

\* A proxy that has closed after its last write has its CLOSE behind all it has sent.
LEMMA CleanlyStep ==
  ASSUME FlowInv, FlowInv', ProxyInv, Offers, Handled, Phases, Writes, Cleanly, [ProxyNext]_allVars
  PROVE  Cleanly'
<1>0. /\ OpenInv /\ OpenInv' /\ TypeOK /\ TypeOK' /\ OneSide /\ ProxyTypes /\ [Next]_vars
  BY StepsAreSessions, ProxyParts DEF ProxyInv, FlowInv, OpenInv
<1> SUFFICES ASSUME NEW x \in Ends, NEW y, y = PeerEnd(x), Clean(y)'
             PROVE  /\ CloseLast(Way(x)', x.id)
                    /\ Closing(x)' => x \in closed' \/ Arrived(x)' >= sent'[y]
  BY DEF Cleanly
<1> DEFINE d == Req("data", y)
           w == Way(x)
           v == Way(x)'
<1>1. /\ x \in End /\ x.id \in Id /\ x.side \in Side /\ y \in Ends /\ y \in End /\ y.side \in Side
      /\ y.id = x.id /\ y.side = Peer(x.side) /\ \A e \in Ends : e.side = y.side /\ e.id = x.id => e = y
  BY <1>0, TwoEnds
<1>2. /\ Len(w) \in Nat
      /\ \/ v = w
         \/ RecordWritten(y.side) /\ Longer(w, v, Encode(writer[y.side].req))
         \/ Receive(x.side) /\ Shorter(w, v)
  BY <1>0, WayMoves
<1>3. FlowOf(x) /\ FlowOf(x)'
  BY DEF FlowInv, Flow
<1>4. CASE ~Finished(y)
  <2>1. ~Closes(w, x.id) /\ ~Closing(x)
    BY <1>3, <1>4 DEF FlowOf
  <2> HIDE DEF w, v
  <2>2. \A j \in 1..Len(w) : ~CloseAt(w, x.id, j)
    BY <2>1 DEF Closes
  <2>3. \A j \in 1..Len(v) : CloseAt(v, x.id, j) => j = Len(w) + 1 /\ Len(v) = Len(w) + 1
    BY <1>2, <2>2 DEF CloseAt, Longer, Shorter
  <2>4. CloseLast(v, x.id)
    BY <1>2, <2>3 DEF CloseLast
  <2>5. ~Closing(x)'
    <3>1. CASE Receive(x.side)
      <4> SUFFICES ASSUME Closing(x)' PROVE FALSE
        OBVIOUS
      <4>1. Len(w) >= 1 /\ CloseAt(w, x.id, 1)
        BY <1>0, <3>1, ReadsClose DEF w
      <4> QED BY <1>2, <2>2, <4>1
    <3>2. CASE ~Receive(x.side)
      <4>1. CASE Deliver(x.side)
        BY <1>0, <1>1, <4>1 DEF Deliver, At, TypeOK, Closing
      <4> QED BY <1>0, <2>1, <3>2, <4>1, HandStays
    <3> QED BY <3>1, <3>2
  <2> QED BY <2>4, <2>5 DEF v
<1>5. CASE Finished(y)
  <2>1. /\ Finished(y)' /\ ~Write(y) /\ ~Called("data", y)' /\ y \notin inDone'
    BY <1>0, <1>1, <1>5, FinishedStays DEF Clean
  <2>2. y \notin inDone
    BY <1>0, <1>1, <2>1, LocalMoves
  <2>3. call[d] = "idle"
    <3>1. Called("reject", y) => ~Called("data", y)
      BY <1>0, <1>1 DEF OpenInv, Holding
    <3>2. call[d] \notin Pending
      BY <1>1, <1>5, <2>2, <3>1 DEF Writes, Finished, Called, Pending
    <3>3. ~CopyOut(y)
      BY <2>1 DEF CopyOut
    <3> QED BY <1>0, <1>1, <2>1, <3>2, <3>3, CallMoves DEF Called
  <2>4. Clean(y) /\ ~Unsent(d) /\ ~Due(y) /\ sent'[y] = sent[y]
    <3>1. d \in Request
      BY <1>1, ReqType
    <3>2. ~Unsent(d)
      BY <1>0, <2>3, <3>1, UnsentMoves
    <3> QED BY <1>0, <1>1, <1>5, <2>1, <2>2, <2>3, <3>2, WritesGoOn DEF Clean, Called, Due
  <2>5. CloseLast(w, x.id) /\ (Closing(x) => x \in closed \/ Arrived(x) >= sent[y])
    BY <2>4 DEF Cleanly
  <2>6. CloseLast(v, x.id)
    <3>1. CASE v = w
      BY <2>5, <3>1
    <3>2. CASE RecordWritten(y.side) /\ Longer(w, v, Encode(writer[y.side].req))
      <4>1. PICK q \in Request : q = writer[y.side].req
        BY <1>0, <1>1, <3>2, Answered
      <4>2. /\ q.end \in Ends /\ q.end.side = y.side /\ q = Req(q.op, q.end) /\ Unsent(q)
            /\ Encode(q).id = q.end.id /\ (Encode(q).type = "data" <=> q.op = "data")
        BY <1>0, <1>1, <3>2, <4>1, Written
      <4>3. ~(Encode(q).type = "data" /\ Encode(q).id = x.id)
        BY <1>1, <2>4, <4>2
      <4>4. Longer(w, v, Encode(q))
        BY <3>2, <4>1
      <4> HIDE DEF w, v
      <4>5. \A k \in 1..Len(v) : DataAt(v, x.id, k) => k \in 1..Len(w) /\ DataAt(w, x.id, k)
        BY <1>2, <4>3, <4>4 DEF DataAt, Longer
      <4>6. \A k \in 1..Len(w) : CloseAt(v, x.id, k) => CloseAt(w, x.id, k)
        BY <4>4 DEF CloseAt, Longer
      <4> QED BY <1>2, <2>5, <4>5, <4>6 DEF CloseLast
    <3>3. CASE Shorter(w, v)
      <4> HIDE DEF w, v
      <4>1. \A k \in 1..Len(v) : /\ k + 1 \in 1..Len(w)
                                 /\ DataAt(v, x.id, k) <=> DataAt(w, x.id, k + 1)
                                 /\ CloseAt(v, x.id, k) <=> CloseAt(w, x.id, k + 1)
        BY <1>2, <3>3 DEF Shorter, DataAt, CloseAt
      <4> SUFFICES ASSUME NEW j \in 1..Len(v), NEW k \in 1..Len(v), j < k, CloseAt(v, x.id, j)
                   PROVE  ~DataAt(v, x.id, k)
        BY DEF CloseLast
      <4>2. j + 1 < k + 1
        BY <1>2, <3>3 DEF Shorter
      <4> QED BY <2>5, <4>1, <4>2 DEF CloseLast
    <3> QED BY <1>2, <3>1, <3>2, <3>3
  <2>7. Closing(x)' => x \in closed' \/ Arrived(x)' >= sent'[y]
    <3> SUFFICES ASSUME Closing(x)' PROVE x \in closed' \/ Arrived(x)' >= sent'[y]
      OBVIOUS
    <3>1. CASE Receive(x.side)
      <4>1. /\ Len(w) >= 1 /\ CloseAt(w, x.id, 1) /\ Registered(x)
            /\ ~Delivering(x) /\ UNCHANGED <<got, readCh, sent, closed, call>>
        BY <1>0, <3>1, ReadsClose
      <4>2. Complete(w, x.id, In(x), Settled(y)) /\ Settled(y) = sent[y]
        BY <1>3, <2>3, <4>1 DEF FlowOf, Live, Settled, Called
      <4>3. In(x) = Arrived(x) /\ Arrived(x)' = Arrived(x)
        BY <4>1 DEF In, Arrived
      <4>4. In(x) \in Nat /\ sent[y] \in Nat
        BY <1>0, Counts
      <4> HIDE DEF w, v
      <4>5. In(x) >= sent[y]
        <5> SUFFICES ASSUME In(x) < sent[y] PROVE FALSE
          BY <4>4
        <5>1. sent[y] \in In(x) + 1..sent[y]
          BY <4>4
        <5>2. PICK k \in 1..Len(w) : DataAt(w, x.id, k)
          BY <4>2, <5>1 DEF Complete
        <5>3. 1 < k /\ 1 \in 1..Len(w)
          BY <1>2, <4>1, <5>2 DEF DataAt, CloseAt
        <5> QED BY <2>5, <4>1, <5>2, <5>3 DEF CloseLast
      <4> QED BY <2>4, <4>3, <4>5
    <3>2. CASE ~Receive(x.side)
      <4>1. ~(Deliver(x.side) /\ Delivering(x))
        <5>1. ASSUME Deliver(x.side) PROVE reader'[x.side].at = "read"
          BY <1>0, <1>1, <5>1 DEF Deliver, At, TypeOK
        <5> QED BY <5>1 DEF Closing
      <4>2. Closing(x)
        BY <1>0, <3>2, <4>1, HandStays
      <4>3. closed \subseteq closed' /\ Arrived(x)' = Arrived(x)
        BY <1>0, <3>2, <4>1, <4>2, ArrivesBy, ClosedGrows
      <4> QED BY <2>4, <2>5, <4>2, <4>3
    <3> QED BY <3>1, <3>2
  <2> QED BY <2>6, <2>7
<1> QED BY <1>4, <1>5

-----------------------------------------------------------------------------
(* The theorems.                                                           *)

\* Initially nothing has been dialed, offered or copied.
LEMMA CopyInit == OneDialer /\ ProxyInit => CopyInv
<1> SUFFICES ASSUME OneDialer, ProxyInit PROVE CopyInv
  OBVIOUS
<1>1. FlowInv /\ ProxyInv
  BY FlowInit, ProxyTypeInit DEF ProxyInit
<1>2. /\ \A s \in Side : backlog[s] = <<>>
      /\ \A e \in End : /\ proxy[e] = "none" /\ \A op \in {"data", "close", "reject"} : ~Called(op, e)
      /\ ended = {} /\ outDone = {} /\ inDone = {} /\ held = {}
  BY ReqType DEF ProxyInit, Init, Called
<1>3. Offers
  <2>1. NoTwice(<<>>)
    BY DEF NoTwice
  <2> QED BY <1>2, <2>1 DEF Offers
<1>4. Handled /\ Phases /\ Writes /\ CopiedOut
  BY <1>2 DEF Handled, Phases, Writes, CopiedOut, Ends
<1>5. Cleanly
  <2>1. ASSUME NEW x \in Ends PROVE ~Clean(PeerEnd(x))
    <3>1. PeerEnd(x) \in End
      BY <1>1, <2>1, TwoEnds DEF FlowInv
    <3> QED BY <1>2, <3>1 DEF Clean, Finished
  <2> QED BY <2>1 DEF Cleanly
<1> QED BY <1>1, <1>3, <1>4, <1>5 DEF CopyInv

\* The invariant is preserved.
LEMMA CopyStep == CopyInv /\ TypeInv' /\ [ProxyNext]_allVars => CopyInv'
<1> SUFFICES ASSUME CopyInv, TypeInv', [ProxyNext]_allVars PROVE CopyInv'
  OBVIOUS
<1>1. FlowInv /\ OpenInv /\ ProxyInv /\ Offers /\ Handled /\ Phases /\ Writes /\ CopiedOut /\ Cleanly
  BY DEF CopyInv, FlowInv
<1>2. [Next]_vars /\ TypeOK' /\ TypeOK
  BY <1>1, StepsAreSessions DEF TypeInv, OpenInv
<1>3. FlowInv' /\ OpenInv'
  BY <1>1, <1>2, FlowStep DEF FlowInv
<1>4. ProxyInv' /\ ProxyTypes
  BY <1>1, <1>2, ProxyInvStep, ProxyParts DEF ProxyInv
<1>5. Offers' /\ Handled' /\ Phases'
  BY <1>1, <1>2, <1>3, <1>4, OffersStep, HandledStep, PhasesStep
<1>6. Writes' /\ CopiedOut' /\ Cleanly'
  BY <1>1, <1>2, <1>3, WritesStep, CopiedOutStep, CleanlyStep
<1> QED BY <1>3, <1>4, <1>5, <1>6 DEF CopyInv

\* With one dialing side, the copies of every connection are in order.
LEMMA CopyInvHolds ==
  ASSUME OneDialer
  PROVE  ProxySpec => []CopyInv
<1>1. ProxyInit => CopyInv
  BY CopyInit
<1> QED BY <1>1, CopyStep, ProxiesRunSessions, TypeInvHolds, PTL DEF ProxySpec

\* A proxy whose program ends its sending closes the connection when all of it has been
\* written: when the CLOSE closes the connection at the other side, in remoteClose, every chunk
\* that the program sent is there (Proxy, io.Copy, handleClose).
THEOREM EndsAfterLastChunk ==
  ASSUME OneDialer
  PROVE  ProxySpec => SentBeforeClose
<1>1. ASSUME CopyInv, [ProxyNext]_allVars, NEW e \in closed' \ closed, NEW p, p = PeerEnd(e),
             sess[e.side] = "open", call'[Req("close", e)] = "idle",
             p \in ended, p \notin inDone, call[Req("data", p)] = "idle"
      PROVE  Len(got[e]) + Len(readCh[e]) = offered[p]
  <2>0. /\ FlowInv /\ OpenInv /\ TypeOK /\ OneSide /\ [Next]_vars
        /\ Phases /\ CopiedOut /\ Cleanly
    BY <1>1, StepsAreSessions DEF CopyInv, FlowInv, OpenInv
  <2>1. CASE Close(e)
    BY <1>1, <2>0, <2>1, ReqType DEF Close, Submit, TypeOK
  <2>2. ASSUME NEW s \in Side, RemoteClose(s), reader[s].at = "remoteClose", e = reader[s].end
        PROVE  Len(got[e]) + Len(readCh[e]) = offered[p]
    <3>1. e \in Ends /\ e.side = s
      BY <2>0, <2>2 DEF OneSide, HasEnd
    <3>2. Closing(e) /\ ~Delivering(e)
      BY <2>2, <3>1 DEF Closing, Delivering
    <3>3. FlowOf(e) /\ p \in Ends
      BY <1>1, <2>0, <3>1, TwoEnds DEF FlowInv, Flow
    <3>4. Finished(p) /\ Numbered(Way(e), e.id, In(e), sent[p])
      BY <1>1, <3>2, <3>3 DEF FlowOf
    <3>5. p \in held /\ Called("close", p) /\ proxy[p] \in {"closing", "over"}
      BY <1>1, <2>0, <3>3, <3>4 DEF Phases, OpenInv, Holding, Finished
    <3>6. p \in outDone \ inDone
      BY <1>1, <2>0, <3>3, <3>5 DEF Phases
    <3>7. sent[p] = offered[p]
      BY <1>1, <2>0, <3>3, <3>5, <3>6 DEF CopiedOut
    <3>8. Clean(p)
      BY <1>1, <3>4 DEF Clean, Called
    <3>9. Arrived(e) >= sent[p]
      BY <1>1, <2>0, <3>1, <3>2, <3>8 DEF Cleanly
    <3>10. Arrived(e) <= sent[p]
      BY <3>2, <3>4 DEF Numbered, In
    <3>11. Arrived(e) \in Nat /\ sent[p] \in Nat
      BY <1>1, <2>0, <3>1, Counts
    <3>12. Arrived(e) = offered[p]
      BY <3>7, <3>9, <3>10, <3>11
    <3> QED BY <3>12 DEF Arrived
  <2>3. ASSUME NEW s \in Side, CloseAll(s), sess[s] = "stopped", e.side = s PROVE FALSE
    BY <1>1, <2>3
  <2> QED BY <1>1, <2>0, <2>1, <2>2, <2>3, ClosedGrows
<1>2. CopyInv /\ [ProxyNext]_allVars =>
        [\A e \in closed' \ closed :
          LET p == PeerEnd(e)
              remote == sess[e.side] = "open" /\ call'[Req("close", e)] = "idle"
              ownEnd == p \in ended /\ p \notin inDone /\ call[Req("data", p)] = "idle"
          IN remote /\ ownEnd /\ p.side \in Writers /\ ~Stopped(p.side)
                => Len(got[e]) + Len(readCh[e]) = offered[p]]_allVars
  BY <1>1
<1> QED BY <1>2, CopyInvHolds, PTL DEF ProxySpec, SentBeforeClose
=============================================================================
