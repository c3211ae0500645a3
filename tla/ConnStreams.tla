------------------------------ MODULE ConnStreams ------------------------------
(***************************************************************************)
(* What a pair of tunnel sessions promises its applications: a connection  *)
(* is a pair of streams, nothing is read that was not written, and an end  *)
(* is closed only because its application closed it, because the other end *)
(* was closed by its application or turned down, or because its session    *)
(* went down.                                                              *)
(***************************************************************************)
EXTENDS Naturals

CONSTANTS Side, End, PeerEnd(_)

VARIABLES
    sent,       \* [End -> Nat] chunks written
    got,        \* [End -> Nat] chunks read
    left,       \* set of End closed by their application
    refused,    \* set of End turned down by their side
    closed,     \* set of End closed for whatever cause
    up          \* [Side -> BOOLEAN] the session runs

vars == <<sent, got, left, refused, closed, up>>

Init ==
    /\ sent = [e \in End |-> 0]
    /\ got = [e \in End |-> 0]
    /\ left = {}
    /\ refused = {}
    /\ closed = {}
    /\ up = [s \in Side |-> TRUE]

Write(e) ==
    /\ e \notin closed
    /\ sent' = [sent EXCEPT ![e] = @ + 1]
    /\ UNCHANGED <<got, left, refused, closed, up>>

Read(e) ==
    /\ got[e] < sent[PeerEnd(e)]
    /\ got' = [got EXCEPT ![e] = @ + 1]
    /\ UNCHANGED <<sent, left, refused, closed, up>>

Close(e) ==
    /\ e \notin closed
    /\ left' = left \cup {e}
    /\ closed' = closed \cup {e}
    /\ UNCHANGED <<sent, got, refused, up>>

Refuse(e) ==
    /\ refused' = refused \cup {e}
    /\ UNCHANGED <<sent, got, left, closed, up>>

PeerCloses(e) ==
    /\ PeerEnd(e) \in left \cup refused
    /\ closed' = closed \cup {e}
    /\ UNCHANGED <<sent, got, left, refused, up>>

GoDown(s) ==
    /\ up' = [up EXCEPT ![s] = FALSE]
    /\ UNCHANGED <<sent, got, left, refused, closed>>

DownCloses(s) ==
    /\ ~up[s]
    /\ closed \subseteq closed'
    /\ \A e \in closed' \ closed : e.side = s
    /\ UNCHANGED <<sent, got, left, refused, up>>

Next ==
    \/ \E e \in End : Write(e) \/ Read(e) \/ Close(e) \/ Refuse(e) \/ PeerCloses(e)
    \/ \E s \in Side : GoDown(s) \/ DownCloses(s)

Spec == Init /\ [][Next]_vars
=============================================================================
