------------------------------ MODULE TunnelProxy ------------------------------
(***************************************************************************)
(* wormhole/tunnel/tunnel.go over the two sessions of TunnelSession.       *)
(* Forward accepts local connections and dials one through the tunnel for  *)
(* each, Serve accepts from the tunnel and dials its target, and Proxy     *)
(* copies between the two in both directions until either direction ends,  *)
(* when it closes both.                                                    *)
(*                                                                         *)
(* The dialing sides forward, the accepting sides serve.  The End of a     *)
(* tunnel connection also names its local connection, at the other end of  *)
(* which a program sends, ends its sending, and takes what it gets.        *)
(***************************************************************************)
EXTENDS TunnelSession

CONSTANTS
    Cancels,      \* sides where the context of Forward or Serve may end
    DialFails     \* TRUE if Serve may fail to reach its target

ASSUME ProxyAssumption == /\ Cancels \subseteq Side
                          /\ DialFails \in BOOLEAN

VARIABLES
    loop,       \* [Side -> ..] the accept loop of Forward or Serve: "running", "returned"
    proxy,      \* [End -> ..] the goroutine of the connection: in its "dial", in Proxy
                \* "copying" or "closing" both connections, "over"
    offered,    \* [End -> Nat] chunks the local program has sent
    ended,      \* set of End whose local program has ended its sending
    outDone,    \* set of End where io.Copy from the local connection has returned
    inDone      \* set of End where io.Copy to the local connection has returned

localVars == <<offered, ended>>
copyVars == <<outDone, inDone>>
proxyVars == <<loop, proxy, localVars, copyVars>>
allVars == <<vars, proxyVars>>

ProxyTypeOK ==
    /\ loop \in [Side -> {"running", "returned"}]
    /\ proxy \in [End -> {"none", "dial", "copying", "closing", "over"}]
    /\ offered \in [End -> 0..MaxWrites]
    /\ ended \subseteq End
    /\ outDone \subseteq End
    /\ inDone \subseteq End
    \* A handler copies over a connection it has got, and has closed it when it returns.
    /\ \A e \in End : proxy[e] = "copying" => e \in held
    /\ \A e \in held : proxy[e] = "over" => e \in closed /\ call[Req("close", e)] \notin Pending

ProxyInit ==
    /\ Init
    /\ loop = [s \in Side |-> "running"]
    /\ proxy = [e \in End |-> "none"]
    /\ offered = [e \in End |-> 0]
    /\ ended = {}
    /\ outDone = {}
    /\ inDone = {}

Becomes(e, p) == proxy' = [proxy EXCEPT ![e] = p]

-----------------------------------------------------------------------------
(* Forward and Serve.                                                      *)

\* A local program connects: the goroutine of its connection calls Dial.
ForwardAccepts(s) ==
    /\ loop[s] = "running"
    /\ DialCheck(s)
    /\ UNCHANGED proxyVars

ForwardDials(s) ==
    /\ DialOpen(s)
    /\ Becomes(TheEnd(s, s, nextID'[s]), "dial")
    /\ UNCHANGED <<loop, localVars, copyVars>>

\* Dial has returned.
ForwardDialed(e) ==
    /\ proxy[e] = "dial"
    /\ e.side = e.origin
    /\ call[Req("open", e)] = "done"
    /\ Becomes(e, IF e \in held THEN "copying" ELSE "over")
    /\ UNCHANGED <<vars, loop, localVars, copyVars>>

ServeAccepts(s) ==
    /\ loop[s] = "running"
    /\ Accept(s)
    /\ Becomes(Head(backlog[s]), "dial")
    /\ UNCHANGED <<loop, localVars, copyVars>>

\* tc.Close, unless the connection is closed already.
CloseTunnelConn(e) == Close(e) \/ (e \in closed /\ UNCHANGED vars)

\* Variant: without the deferred Close.
ServeDialedLeaves(e) ==
    /\ proxy[e] = "dial"
    /\ e.side # e.origin
    /\ Becomes(e, "copying") \/ (DialFails /\ Becomes(e, "over"))
    /\ UNCHANGED <<vars, loop, localVars, copyVars>>

\* net.Dial to the target has returned.
ServeDialed(e) ==
    /\ proxy[e] = "dial"
    /\ e.side # e.origin
    /\ \/ Becomes(e, "copying") /\ UNCHANGED vars
       \/ DialFails /\ Becomes(e, "closing") /\ CloseTunnelConn(e)
    /\ UNCHANGED <<loop, localVars, copyVars>>

\* The goroutine that waits for the context and for stopCh closes the listener, and
\* Accept returns an error; Serve's also does when stopCh is closed.
LoopReturns(s) ==
    /\ loop[s] = "running"
    /\ s \in Cancels \/ Stopped(s)
    /\ loop' = [loop EXCEPT ![s] = "returned"]
    /\ UNCHANGED <<vars, proxy, localVars, copyVars>>

-----------------------------------------------------------------------------
(* Proxy.                                                                  *)

LocalClosed(e) == proxy[e] \in {"closing", "over"}

\* io.Copy from the local connection to the tunnel.
CopyOut(e) ==
    /\ proxy[e] = "copying"
    /\ e \notin outDone
    /\ sent[e] < offered[e]
    /\ Write(e)
    /\ UNCHANGED proxyVars

\* The local connection has ended or is closed, or a write to the tunnel failed.
CopyOutEnds(e) ==
    /\ proxy[e] \in {"copying", "closing", "over"}
    /\ e \notin outDone
    /\ call[Req("data", e)] \notin Pending
    /\ \/ e \in ended /\ sent[e] = offered[e]
       \/ e \in closed /\ sent[e] < offered[e]
       \/ call[Req("data", e)] = "done"
       \/ LocalClosed(e)
    /\ outDone' = outDone \cup {e}
    /\ UNCHANGED <<vars, loop, proxy, localVars, inDone>>

\* io.Copy from the tunnel to the local connection: a write to it fails when it is
\* closed, and may when its program has gone.
CopyIn(e) ==
    /\ proxy[e] \in {"copying", "closing", "over"}
    /\ e \notin inDone
    /\ Read(e)
    /\ \/ ~LocalClosed(e) /\ UNCHANGED inDone
       \/ /\ LocalClosed(e) \/ e \in ended
          /\ inDone' = inDone \cup {e}
    /\ UNCHANGED <<loop, proxy, localVars, outDone>>

\* Read returns io.EOF.
CopyInEnds(e) ==
    /\ proxy[e] \in {"copying", "closing", "over"}
    /\ e \notin inDone
    /\ e \in closed
    /\ inDone' = inDone \cup {e}
    /\ UNCHANGED <<vars, loop, proxy, localVars, outDone>>

\* Variant: Proxy waits for both directions.
CloseBothLate(e) ==
    /\ proxy[e] = "copying"
    /\ e \in outDone \cap inDone
    /\ Becomes(e, "closing")
    /\ CloseTunnelConn(e)
    /\ UNCHANGED <<loop, localVars, copyVars>>

\* Either direction has ended: done is closed, and both connections are.
CloseBoth(e) ==
    /\ proxy[e] = "copying"
    /\ e \in outDone \cup inDone
    /\ Becomes(e, "closing")
    /\ CloseTunnelConn(e)
    /\ UNCHANGED <<loop, localVars, copyVars>>

ProxyReturns(e) ==
    /\ proxy[e] = "closing"
    /\ call[Req("close", e)] \notin Pending
    /\ Becomes(e, "over")
    /\ UNCHANGED <<vars, loop, localVars, copyVars>>

-----------------------------------------------------------------------------
(* The local programs.                                                     *)

LocalSends(e) ==
    /\ e.side \in Writers
    /\ proxy[e] = "copying"
    /\ e \notin ended /\ linkUp
    /\ offered[e] < MaxWrites
    /\ offered' = [offered EXCEPT ![e] = @ + 1]
    /\ UNCHANGED <<vars, loop, proxy, ended, copyVars>>

LocalEnds(e) ==
    /\ proxy[e] = "copying"
    /\ e \notin ended /\ linkUp
    /\ ended' = ended \cup {e}
    /\ UNCHANGED <<vars, loop, proxy, offered, copyVars>>

-----------------------------------------------------------------------------
OutLoop(e) == CopyOut(e) \/ CopyOutEnds(e)
InLoop(e) == CopyIn(e) \/ CopyInEnds(e)
Handler(e) == ForwardDialed(e) \/ ServeDialed(e) \/ CloseBoth(e) \/ ProxyReturns(e)

\* What the sessions do by themselves.
Sessions ==
    /\ \E s \in Side : WriteLoop(s) \/ ReadLoop(s) \/ CloseAll(s)
    /\ UNCHANGED proxyVars

Callers ==
    /\ \E e \in End : CallsOn(e)
    /\ UNCHANGED proxyVars

Goroutines ==
    \/ Sessions
    \/ Callers
    \/ \E s \in Side : ForwardDials(s) \/ ServeAccepts(s)
    \/ \E e \in End : OutLoop(e) \/ InLoop(e) \/ Handler(e)

\* Bound: the transport breaks only while the proxies are idle, and the programs do
\* nothing after it.  The run session_shutdown has it break at any time.
QuietBreak ==
    /\ \A r \in Request : call[r] \notin Pending
    /\ \A e \in End : offered[e] = 0
    /\ ended = {}
    /\ \A e \in LiveEnd : proxy[e] = "copying"
    /\ LinkBreaks
    /\ UNCHANGED proxyVars

\* The contexts, the local programs and the network.
Outside ==
    \/ \E s \in Side : ForwardAccepts(s) \/ LoopReturns(s)
    \/ \E e \in End : LocalSends(e) \/ LocalEnds(e)
    \/ QuietBreak

ProxyNext == Goroutines \/ Outside

\* Goroutines are scheduled.  Each of their steps uses up something of a bounded
\* supply, so that one fairness for all of them lets none starve; the local programs
\* take what they get, and otherwise do as they like.
ProxySpec ==
    /\ ProxyInit /\ [][ProxyNext]_allVars
    /\ WF_allVars(Goroutines)
    /\ \A s \in Side : WF_allVars(Stopped(s) /\ LoopReturns(s))

-----------------------------------------------------------------------------
(* Properties.                                                             *)

\* What a program sent before it ended its sending, and before anything else ended the
\* proxy, is in the other session when CLOSE closes the connection there: the
\* proxy does not close until its writes are on the wire.
SentBeforeClose ==
    [][\A e \in closed' \ closed :
          LET p == PeerEnd(e)
              remote == sess[e.side] = "open" /\ call'[Req("close", e)] = "idle"
              ownEnd == p \in ended /\ p \notin inDone /\ call[Req("data", p)] = "idle"
          IN remote /\ ownEnd /\ p.side \in Writers /\ ~Stopped(p.side)
                => Len(got[e]) + Len(readCh[e]) = offered[p]]_allVars

\* Serve has returned and has left a connection that nobody will accept.
Unserved(s) == loop[s] = "returned" /\ backlog[s] # <<>>

\* Proxy is done with the connection, and neither of its copies is left behind.
ProxyOver(e) == proxy[e] = "over" /\ (e \in outDone <=> e \in inDone)

\* Once a local program ends its sending, or the tunnel connection is closed by the
\* other side or with the session, the proxies on both sides close both connections
\* and all four copies return, unless Serve has left the connection unaccepted; and
\* Forward and Serve return with the session.
ProxiesEnd ==
    []<>/\ \A e \in ended \cup closed :
              \/ \A f \in {e, PeerEnd(e)} : ProxyOver(f) \/ call[Req("reject", f)] # "idle"
              \/ \E s \in Side : Unserved(s)
        /\ \A s \in Side : Stopped(s) => loop[s] = "returned"
=============================================================================
