--------------------------- MODULE RendezvousProofs ---------------------------
(***************************************************************************)
(* What the clients of Rendezvous may rely on, for any number of clients,  *)
(* messages and earlier claims, with broken connections and ended          *)
(* contexts wherever the theorem does not exclude them.                    *)
(***************************************************************************)
EXTENDS Rendezvous, SequenceTheorems, FiniteSetTheorems, WellFoundedInduction, TLAPS

-----------------------------------------------------------------------------
(* Where the threads of a client are.                                      *)

\* The commands of the application in each phase.
AppCmds(p) ==
    CASE p = "connect" -> {"connect", "bind"}
      [] p = "meet"    -> {"allocate", "claim", "open"}
      [] p = "talk"    -> {"add"}
      [] p = "closing" -> {"close"}
      [] OTHER         -> {}

\* The commands that the threads of a client are in.
Calling(c) ==
    /\ op[App(c)] # Idle => op[App(c)].cmd \in AppCmds(phase[c])
    /\ phase[c] \in {"connect", "meet", "closing"} => op[App(c)] # Idle
    /\ op[Recv(c)] # Idle => op[Recv(c)].cmd = "release"
    /\ op[Recv(c)] # Idle <=> recv[c] = "release"
    /\ op[App(c)] # Idle /\ op[App(c)].cmd = "add" => added[c] # 0

\* A thread waits after it has sent its command.
Waiting(t) ==
    /\ op[t].at = "reply" => op[t].cmd \in DOMAIN Awaits
    /\ waiter[t] # "none" => op[t].at \in {"ack", "reply"}

\* The nameplate is not yet claimed.
Early(c) == \/ phase[c] \in {"off", "connect", "bound"}
            \/ phase[c] = "meet" /\ op[App(c)].cmd \in {"allocate", "claim"}

\* The mailbox is known once the nameplate is claimed.
Claiming(c) ==
    /\ Early(c) => mailbox[c] = 0 /\ ~claimed[c]
    /\ phase[c] = "meet" /\ op[App(c)].cmd = "open" => mailbox[c] # 0
    /\ phase[c] = "talk" => mailbox[c] # 0
    /\ phase[c] \in {"off", "connect", "bound", "meet"} => recv[c] = "off" /\ got[c] = <<>>
    /\ recv[c] # "off" => mailbox[c] # 0
    /\ recv[c] = "offer" => offset[c] \in 1..Len(events[c])

\* There is a connection from Connect to the end of Close.
Wired(c) ==
    /\ ws[c] = "nil" <=> phase[c] \in {"off", "closed"}
    /\ phase[c] = "off" => /\ toServer[c] = <<>> /\ toClient[c] = <<>> /\ pending[c] = <<>>
                           /\ opened[c] = 0 /\ events[c] = <<>>

\* What is on its way.
Requests(c) ==
    \A k \in 1..Len(toServer[c]) :
       /\ toServer[c][k].thread \in {App(c), Recv(c)}
       /\ toServer[c][k].cmd = "open" => toServer[c][k].arg = mailbox[c] /\ mailbox[c] # 0
       /\ toServer[c][k].cmd = "add" => toServer[c][k].arg \in 1..Adds

\* A claimed nameplate has a mailbox that exists.
BoxIn(q) == \A k \in 1..Len(q) : q[k].type = "claimed" => q[k].box \in 1..Len(boxes)
Replies(c) == BoxIn(toClient[c]) /\ BoxIn(pending[c])

\* The inductive invariant of the types.
TypeInv ==
    /\ TypeOK
    /\ \A c \in Client : Calling(c) /\ Claiming(c) /\ Wired(c) /\ Requests(c) /\ Replies(c)
    /\ \A t \in Thread : Waiting(t)

-----------------------------------------------------------------------------
(* Helpers: threads, the least of a set of numbers, sequences.             *)

\* Each client has its two threads.
LEMMA Threads ==
  /\ \A c \in Client : /\ App(c) \in Thread /\ Recv(c) \in Thread
                       /\ App(c)[1] = c /\ Recv(c)[1] = c /\ App(c) # Recv(c)
  /\ \A t \in Thread : t[1] \in Client /\ (t = App(t[1]) \/ t = Recv(t[1]))
  /\ \A t \in Thread, c \in Client : t # App(c) /\ t # Recv(c) => t[1] # c
BY DEF Thread, App, Recv

\* The least of a set of numbers that is not empty.
LEMMA MinIs ==
  ASSUME NEW S \in SUBSET Nat, S # {}
  PROVE  Min(S) \in S /\ \A y \in S : Min(S) <= y
<1>1. PICK x \in S : \A y \in S : ~ (<<y, x>> \in OpToRel(<, Nat))
  BY NatLessThanWellFounded, WFMin, Zenon
<1>2. ASSUME NEW y \in S PROVE x <= y
  <2>1. ~(y < x)
    <3> SUFFICES ASSUME y < x PROVE FALSE
      OBVIOUS
    <3>1. <<y, x>> \in OpToRel(<, Nat)
      BY Zenon DEF OpToRel
    <3> QED BY <1>1, <3>1, Zenon
  <2> QED BY <2>1
<1> QED BY <1>2, Zenon DEF Min

\* q after the end of p, and q without what was at k.
Joined(p, q, v) ==
    /\ Len(p) \in Nat /\ Len(q) \in Nat /\ Len(v) = Len(p) + Len(q)
    /\ \A k \in 1..Len(p) : v[k] = p[k]
    /\ \A k \in 1..Len(q) : v[Len(p) + k] = q[k]

Without(q, i, v) ==
    /\ Len(q) \in Nat /\ i \in 1..Len(q) /\ Len(v) = Len(q) - 1
    /\ \A k \in 1..Len(v) : v[k] = q[IF k < i THEN k ELSE k + 1]

\* What is left was there.
LEMMA WithoutElements ==
  ASSUME NEW q, NEW i, NEW v, Without(q, i, v)
  PROVE  \A k \in 1..Len(v) : \E j \in 1..Len(q) : /\ v[k] = q[j] /\ j # i
                                                   /\ (k < i /\ j = k) \/ (~(k < i) /\ j = k + 1)
<1> SUFFICES ASSUME NEW k \in 1..Len(v)
             PROVE  \E j \in 1..Len(q) : /\ v[k] = q[j] /\ j # i
                                         /\ (k < i /\ j = k) \/ (~(k < i) /\ j = k + 1)
  OBVIOUS
<1>1. CASE k < i
  <2>1. k \in 1..Len(q) /\ v[k] = q[k] /\ k # i
    BY <1>1 DEF Without
  <2> QED BY <1>1, <2>1
<1>2. CASE ~(k < i)
  <2>1. k + 1 \in 1..Len(q) /\ v[k] = q[k + 1] /\ k + 1 # i
    BY <1>2 DEF Without
  <2> QED BY <1>2, <2>1
<1> QED BY <1>1, <1>2

\* What concatenation gives.
LEMMA Joining ==
  ASSUME NEW S, NEW p \in Seq(S), NEW q \in Seq(S)
  PROVE  p \o q \in Seq(S) /\ Joined(p, q, p \o q)
<1>1. /\ p \o q \in Seq(S) /\ Len(p \o q) = Len(p) + Len(q)
      /\ \A k \in 1..Len(p) + Len(q) : (p \o q)[k] = IF k <= Len(p) THEN p[k] ELSE q[k - Len(p)]
  BY ConcatProperties, Zenon
<1>2. Len(p) \in Nat /\ Len(q) \in Nat
  OBVIOUS
<1> DEFINE v == p \o q
<1> HIDE DEF v
<1>3. /\ Len(v) = Len(p) + Len(q)
      /\ \A k \in 1..Len(p) + Len(q) : v[k] = IF k <= Len(p) THEN p[k] ELSE q[k - Len(p)]
  BY <1>1 DEF v
<1>4. \A k \in 1..Len(p) : v[k] = p[k]
  BY <1>2, <1>3
<1>5. \A k \in 1..Len(q) : v[Len(p) + k] = q[k]
  <2> SUFFICES ASSUME NEW k \in 1..Len(q) PROVE v[Len(p) + k] = q[k]
    OBVIOUS
  <2>1. Len(p) + k \in 1..Len(p) + Len(q) /\ ~(Len(p) + k <= Len(p)) /\ (Len(p) + k) - Len(p) = k
    BY <1>2
  <2> QED BY <1>3, <2>1
<1> QED BY <1>1, <1>2, <1>3, <1>4, <1>5 DEF Joined, v

\* What RemoveAt gives.
LEMMA Removing ==
  ASSUME NEW S, NEW q \in Seq(S), NEW i \in 1..Len(q)
  PROVE  RemoveAt(q, i) \in Seq(S) /\ Without(q, i, RemoveAt(q, i))
<1> DEFINE p == SubSeq(q, 1, i - 1)
<1> DEFINE r == SubSeq(q, i + 1, Len(q))
<1>0. Len(q) \in Nat /\ \A k \in 1..Len(q) : q[k] \in S
  BY ElementOfSeq
<1>1. p \in Seq(S) /\ Len(p) = i - 1 /\ \A k \in 1..i - 1 : p[k] = q[k]
  <2>1. /\ p \in Seq(S) /\ Len(p) = IF 1 <= i - 1 THEN (i - 1) - 1 + 1 ELSE 0
        /\ \A k \in 1..((i - 1) - 1) + 1 : p[k] = q[1 + k - 1]
    <3>1. 1 \in Int /\ i - 1 \in Int /\ \A k \in 1..i - 1 : q[k] \in S
      BY <1>0
    <3> QED BY <3>1, SubSeqProperties
  <2> HIDE DEF p
  <2>2. \A k \in 1..i - 1 : k \in 1..((i - 1) - 1) + 1 /\ 1 + k - 1 = k
    BY <1>0
  <2> QED BY <1>0, <2>1, <2>2
<1>2. r \in Seq(S) /\ Len(r) = Len(q) - i /\ \A k \in 1..Len(q) - i : r[k] = q[i + k]
  <2>1. /\ r \in Seq(S) /\ Len(r) = IF i + 1 <= Len(q) THEN Len(q) - (i + 1) + 1 ELSE 0
        /\ \A k \in 1..(Len(q) - (i + 1)) + 1 : r[k] = q[(i + 1) + k - 1]
    <3>1. i + 1 \in Int /\ Len(q) \in Int /\ \A k \in i + 1..Len(q) : q[k] \in S
      BY <1>0
    <3> QED BY <3>1, SubSeqProperties
  <2> HIDE DEF r
  <2>2. \A k \in 1..Len(q) - i : k \in 1..(Len(q) - (i + 1)) + 1 /\ (i + 1) + k - 1 = i + k
    BY <1>0
  <2> QED BY <1>0, <2>1, <2>2
<1> HIDE DEF p, r
<1> DEFINE v == p \o r
<1>3. v \in Seq(S) /\ Joined(p, r, v)
  BY <1>1, <1>2, Joining, Zenon
<1> HIDE DEF v
<1>4. Len(v) = Len(q) - 1
  BY <1>0, <1>1, <1>2, <1>3 DEF Joined
<1>5. \A k \in 1..Len(v) : v[k] = q[IF k < i THEN k ELSE k + 1]
  <2> SUFFICES ASSUME NEW k \in 1..Len(v) PROVE v[k] = q[IF k < i THEN k ELSE k + 1]
    OBVIOUS
  <2>1. CASE k < i
    BY <1>0, <1>1, <1>3, <1>4, <2>1 DEF Joined
  <2>2. CASE ~(k < i)
    <3>1. k - (i - 1) \in 1..Len(r) /\ Len(p) + (k - (i - 1)) = k /\ i + (k - (i - 1)) = k + 1
      BY <1>0, <1>1, <1>2, <1>4, <2>2
    <3>2. v[k] = r[k - (i - 1)]
      BY <1>3, <3>1 DEF Joined
    <3> QED BY <1>2, <2>2, <3>1, <3>2
  <2> QED BY <2>1, <2>2
<1> QED BY <1>0, <1>3, <1>4, <1>5 DEF Without, RemoveAt, p, r, v

\* Two sequences of one.
LEMMA Paired ==
  ASSUME NEW S, NEW x \in S, NEW y \in S
  PROVE  <<x>> \o <<y>> = <<x, y>>
<1> DEFINE v == <<x>> \o <<y>>
<1>1. <<x>> \in Seq(S) /\ <<y>> \in Seq(S) /\ Len(<<x>>) = 1 /\ Len(<<y>>) = 1
  OBVIOUS
<1>2. v \in Seq(S) /\ Len(v) = 1 + 1 /\ \A k \in 1..1 + 1 : v[k] = IF k <= 1 THEN <<x>>[k] ELSE <<y>>[k - 1]
  BY <1>1, ConcatProperties
<1> HIDE DEF v
<1>3. Len(v) = 2 /\ v[1] = x /\ v[2] = y
  BY <1>2
<1>4. <<x, y>> \in Seq(S) /\ Len(<<x, y>>) = 2
  OBVIOUS
<1>5. v = <<x, y>>
  BY <1>2, <1>3, <1>4, SeqEqual
<1> QED BY <1>5 DEF v

\* Appending one, and taking the head, are cases of these.
LEMMA Appending ==
  ASSUME NEW S, NEW q \in Seq(S), NEW m \in S
  PROVE  /\ Append(q, m) \in Seq(S) /\ Len(Append(q, m)) = Len(q) + 1
         /\ Append(q, m)[Len(q) + 1] = m
         /\ \A k \in 1..Len(q) : Append(q, m)[k] = q[k]
OBVIOUS

\* The head of a sequence and what is left.
LEMMA Taking ==
  ASSUME NEW S, NEW q \in Seq(S), q # <<>>
  PROVE  /\ Len(q) \in Nat /\ Len(q) >= 1 /\ Head(q) = q[1] /\ Head(q) \in S
         /\ Tail(q) \in Seq(S) /\ Without(q, 1, Tail(q))
<1>1. /\ Len(q) \in Nat /\ Len(q) >= 1 /\ Head(q) = q[1] /\ Head(q) \in S
      /\ Tail(q) \in Seq(S) /\ Len(Tail(q)) = Len(q) - 1
      /\ \A k \in 1..Len(Tail(q)) : Tail(q)[k] = q[k + 1]
  OBVIOUS
<1>2. \A k \in 1..Len(Tail(q)) : ~(k < 1)
  OBVIOUS
<1> QED BY <1>1, <1>2 DEF Without

-----------------------------------------------------------------------------
(* Types.                                                                  *)

\* A record of what the server sends.
LEMMA Kinds ==
  /\ \A m \in Reply : /\ m.type \in {"welcome", "allocated", "released", "closed", "error", "claimed", "ack"}
                      /\ m.type = "ack" => m.thread \in Thread /\ m.cmd \in Command
                      /\ m.type = "claimed" => m.box \in Nat
  /\ \A m \in Message : m.type = "message" /\ m.event \in Event
  /\ \A m \in Reply \cup Message : /\ m.type = "message" => m \in Message
                                   /\ m.type # "message" => m \in Reply
  /\ \A r \in Request : Ack(r) \in Reply /\ Ack(r).type = "ack" /\ Ack(r).thread = r.thread
                        /\ Ack(r).cmd = r.cmd
  /\ \A type \in {"welcome", "allocated", "released", "closed", "error"} :
        Plain(type) \in Reply /\ Plain(type).type = type
  /\ \A b \in Nat : [type |-> "claimed", box |-> b] \in Reply
  /\ \A e \in Event : MessageOf(e) \in Message /\ MessageOf(e).type = "message" /\ MessageOf(e).event = e
BY DEF Reply, Message, Request, Ack, Plain, MessageOf

\* The states of a command.
LEMMA OpStates ==
  /\ Idle \in OpState /\ Idle.at = "idle"
  /\ \A o \in OpState : \/ o = Idle
                        \/ /\ o.at \in {"lock", "ack", "reply"} /\ o.cmd \in Command
                           /\ o = [at |-> o.at, cmd |-> o.cmd]
  /\ \A cmd \in Command : \A a \in {"lock", "ack", "reply"} : [at |-> a, cmd |-> cmd] \in OpState
BY DEF Idle, OpState

\* A thread goes on with its command.
LEMMA OpMoved ==
  ASSUME TypeOK, NEW t \in Thread, op[t] # Idle, NEW a \in {"ack", "reply"}
  PROVE  /\ [op EXCEPT ![t].at = a] = [op EXCEPT ![t] = [at |-> a, cmd |-> op[t].cmd]]
         /\ [at |-> a, cmd |-> op[t].cmd] \in OpState
<1>1. op[t] = [at |-> op[t].at, cmd |-> op[t].cmd] /\ op[t].cmd \in Command
  BY OpStates DEF TypeOK
<1>2. [op[t] EXCEPT !.at = a] = [at |-> a, cmd |-> op[t].cmd]
  BY <1>1
<1>3. [op EXCEPT ![t].at = a] = [op EXCEPT ![t] = [op[t] EXCEPT !.at = a]]
  BY DEF TypeOK
<1> QED BY <1>1, <1>2, <1>3, OpStates

\* What a successful command leaves is of its type.
LEMMA SucceedType ==
  ASSUME TypeOK, NEW t \in Thread, NEW m \in Reply, Succeed(t, m),
         op[t].cmd = "claim" => m.box \in 0..Len(boxes)
  PROVE  /\ phase' \in [Client -> Phase] /\ op' \in [Thread -> OpState]
         /\ claimed' \in [Client -> BOOLEAN] /\ mailbox' \in [Client -> 0..Len(boxes)]
         /\ added' \in [Client -> 0..Adds] /\ got' \in [Client -> Seq(Event)]
         /\ recv' \in [Client -> {"off", "start", "scan", "offer", "release", "wait"}]
         /\ ws' \in [Client -> {"up", "lost", "nil"}]
<1>1. t[1] \in Client
  BY Threads
<1>2. op' \in [Thread -> OpState]
  <2>1. Idle \in OpState /\ \A cmd \in {"bind", "claim", "open"} : [at |-> "lock", cmd |-> cmd] \in OpState
    BY OpStates DEF Command
  <2>2. \E o \in OpState : op' = [op EXCEPT ![t] = o]
    BY <2>1 DEF Succeed, Begin, End
  <2> QED BY <2>2 DEF TypeOK
<1>3. phase' \in [Client -> Phase] /\ claimed' \in [Client -> BOOLEAN]
  <2>1. UNCHANGED phase \/ \E p \in Phase : phase' = [phase EXCEPT ![t[1]] = p]
    BY DEF Succeed, Goes, appVars, Phase
  <2>2. UNCHANGED claimed \/ \E b \in BOOLEAN : claimed' = [claimed EXCEPT ![t[1]] = b]
    <3>1. \/ UNCHANGED claimed \/ claimed' = [claimed EXCEPT ![t[1]] = TRUE]
          \/ claimed' = [claimed EXCEPT ![t[1]] = FALSE]
      BY DEF Succeed, appVars
    <3> QED BY <3>1, Zenon
  <2>3. phase \in [Client -> Phase] /\ claimed \in [Client -> BOOLEAN]
    BY DEF TypeOK
  <2> QED BY <2>1, <2>2, <2>3
<1>4. mailbox' \in [Client -> 0..Len(boxes)]
  <2>1. UNCHANGED mailbox \/ (op[t].cmd = "claim" /\ mailbox' = [mailbox EXCEPT ![t[1]] = m.box])
    BY DEF Succeed, appVars
  <2>2. UNCHANGED mailbox \/ \E b \in 0..Len(boxes) : mailbox' = [mailbox EXCEPT ![t[1]] = b]
    BY <2>1
  <2>3. mailbox \in [Client -> 0..Len(boxes)]
    BY DEF TypeOK
  <2> QED BY <2>2, <2>3
<1>5. /\ UNCHANGED <<added, got>>
      /\ UNCHANGED recv \/ \E r \in {"start", "scan"} : recv' = [recv EXCEPT ![t[1]] = r]
      /\ UNCHANGED ws \/ ws' = [ws EXCEPT ![t[1]] = "nil"]
  BY DEF Succeed, appVars
<1>6. recv' \in [Client -> {"off", "start", "scan", "offer", "release", "wait"}]
  BY <1>5 DEF TypeOK
<1>7. ws' \in [Client -> {"up", "lost", "nil"}]
  BY <1>5 DEF TypeOK
<1>8. added' \in [Client -> 0..Adds] /\ got' \in [Client -> Seq(Event)]
  BY <1>5 DEF TypeOK
<1> QED BY <1>2, <1>3, <1>4, <1>6, <1>7, <1>8

\* So does one that fails.
LEMMA FailType ==
  ASSUME TypeOK, NEW t \in Thread, Fail(t)
  PROVE  /\ phase' \in [Client -> Phase] /\ op' \in [Thread -> OpState]
         /\ claimed' \in [Client -> BOOLEAN] /\ UNCHANGED <<added, got, mailbox>>
         /\ recv' \in [Client -> {"off", "start", "scan", "offer", "release", "wait"}]
         /\ ws' \in [Client -> {"up", "lost", "nil"}]
<1>1. op' = [op EXCEPT ![t] = Idle] /\ Idle \in OpState
  BY OpStates DEF Fail, End
<1>2. UNCHANGED phase \/ \E p \in Phase : phase' = [phase EXCEPT ![t[1]] = p]
  BY DEF Fail, Goes, Phase
<1>3. phase' \in [Client -> Phase] /\ op' \in [Thread -> OpState]
  BY <1>1, <1>2 DEF TypeOK
<1>4. UNCHANGED claimed \/ claimed' = [claimed EXCEPT ![t[1]] = FALSE]
  BY DEF Fail
<1>5. UNCHANGED ws \/ ws' = [ws EXCEPT ![t[1]] = "nil"]
  BY DEF Fail
<1>6. UNCHANGED recv \/ recv' = [recv EXCEPT ![t[1]] = "scan"]
  BY DEF Fail
<1>7. claimed' \in [Client -> BOOLEAN]
  BY <1>4 DEF TypeOK
<1>8. ws' \in [Client -> {"up", "lost", "nil"}]
  BY <1>5 DEF TypeOK
<1>9. recv' \in [Client -> {"off", "start", "scan", "offer", "release", "wait"}]
  BY <1>6 DEF TypeOK
<1>10. UNCHANGED <<added, got, mailbox>>
  BY DEF Fail
<1> QED BY <1>3, <1>7, <1>8, <1>9, <1>10

-----------------------------------------------------------------------------
(* The types of each step.                                                 *)

\* What readMsg finds is in pendingMsgs, of the type it looks for, and the first.
LEMMA FoundIs ==
  ASSUME TypeOK, NEW t \in Thread, Found(t) # {}
  PROVE  LET c == t[1]  k == Min(Found(t)) IN
         /\ c \in Client /\ k \in 1..Len(pending[c]) /\ pending[c][k] \in Reply
         /\ pending[c][k].type = Wanted(t)
         /\ \A j \in 1..Len(pending[c]) : pending[c][j].type = Wanted(t) => k <= j
         /\ RemoveAt(pending[c], k) \in Seq(Reply) /\ Without(pending[c], k, RemoveAt(pending[c], k))
<1> DEFINE c == t[1]
<1> DEFINE k == Min(Found(t))
<1>1. c \in Client /\ pending[c] \in Seq(Reply)
  BY Threads DEF TypeOK
<1>2. Found(t) \subseteq 1..Len(pending[c]) /\ Found(t) \in SUBSET Nat
  BY <1>1 DEF Found
<1>3. k \in Found(t) /\ \A j \in Found(t) : k <= j
  BY <1>2, MinIs
<1> HIDE DEF k
<1>4. k \in 1..Len(pending[c]) /\ pending[c][k].type = Wanted(t)
  BY <1>2, <1>3 DEF Found
<1>5. pending[c][k] \in Reply
  BY <1>1, <1>4
<1>6. \A j \in 1..Len(pending[c]) : pending[c][j].type = Wanted(t) => k <= j
  BY <1>1, <1>3 DEF Found
<1>7. RemoveAt(pending[c], k) \in Seq(Reply) /\ Without(pending[c], k, RemoveAt(pending[c], k))
  BY <1>1, <1>4, Removing, Zenon
<1> QED BY <1>1, <1>4, <1>5, <1>6, <1>7 DEF k

\* Send.
LEMMA SendType ==
  ASSUME TypeInv, NEW t \in Thread, Send(t), UNCHANGED cancelled
  PROVE  TypeOK'
<1> DEFINE c == t[1]
<1>0. TypeOK /\ c \in Client
  BY Threads DEF TypeInv
<1>1. CASE /\ ws[c] = "up"
           /\ toServer' = [toServer EXCEPT ![c] =
                              Append(@, [thread |-> t, cmd |-> op[t].cmd, arg |-> Arg(t)])]
           /\ locked' = [locked EXCEPT ![c] = TRUE]
           /\ op' = [op EXCEPT ![t].at = "ack"]
           /\ UNCHANGED <<appVars, recv, ws, crashed>>
  <2>1. op[t].at = "lock" /\ op[t] # Idle /\ op[t].cmd \in Command
    BY <1>0, OpStates DEF Send, TypeOK
  <2>2. op' \in [Thread -> OpState]
    <3>1. \E o \in OpState : op' = [op EXCEPT ![t] = o]
      BY <1>0, <1>1, <2>1, OpMoved
    <3> QED BY <1>0, <3>1 DEF TypeOK
  <2>3. Arg(t) \in Nat
    BY <1>0, BoundAssumption DEF Arg, TypeOK
  <2>4. toServer' \in [Client -> Seq(Request)]
    <3> DEFINE r == [thread |-> t, cmd |-> op[t].cmd, arg |-> Arg(t)]
    <3>1. r \in Request
      BY <2>1, <2>3 DEF Request
    <3> HIDE DEF r
    <3>2. Append(toServer[c], r) \in Seq(Request)
      BY <1>0, <3>1, Appending DEF TypeOK
    <3>3. toServer' = [toServer EXCEPT ![c] = Append(toServer[c], r)]
      BY <1>1 DEF r
    <3> QED BY <1>0, <3>2, <3>3 DEF TypeOK
  <2>5. locked' \in [Client -> BOOLEAN]
    BY <1>0, <1>1 DEF TypeOK
  <2> QED BY <1>0, <1>1, <2>2, <2>4, <2>5 DEF Send, TypeOK, appVars, serverVars
<1>2. CASE Fail(t) /\ UNCHANGED <<toServer, locked, crashed>>
  BY <1>0, <1>2, FailType DEF Send, TypeOK, serverVars
<1>3. CASE /\ crashed' = crashed \cup {c}
           /\ UNCHANGED <<appVars, recv, ws, op, toServer, locked>>
  BY <1>0, <1>3 DEF Send, TypeOK, appVars, serverVars
<1> QED BY <1>1, <1>2, <1>3 DEF Send

\* Register and NotFound.
LEMMA WaiterType ==
  ASSUME TypeInv, NEW t \in Thread, Register(t) \/ NotFound(t), UNCHANGED cancelled
  PROVE  TypeOK'
<1>1. /\ waiter' \in [Thread -> {"none", "empty", "full"}]
      /\ UNCHANGED <<appVars, op, locked, pending, recvVars, netVars, serverVars, crashed>>
  BY DEF TypeInv, TypeOK, Register, NotFound
<1> QED BY <1>1 DEF TypeInv, TypeOK, appVars, recvVars, netVars, serverVars

\* Read.
LEMMA ReadType ==
  ASSUME TypeInv, NEW t \in Thread, Read(t), UNCHANGED cancelled
  PROVE  TypeOK'
<1> DEFINE c == t[1]
<1> DEFINE k == Min(Found(t))
<1> DEFINE m == pending[c][k]
<1>0. TypeOK /\ c \in Client /\ Waiting(t) /\ Replies(c)
  BY Threads DEF TypeInv
<1>1. /\ k \in 1..Len(pending[c]) /\ m \in Reply /\ m.type = Wanted(t)
      /\ RemoveAt(pending[c], k) \in Seq(Reply)
  BY <1>0, FoundIs DEF Read
<1>2. pending' \in [Client -> Seq(Reply)] /\ waiter' \in [Thread -> {"none", "empty", "full"}]
  <2>1. /\ pending' = [pending EXCEPT ![c] = RemoveAt(pending[c], k)]
        /\ waiter' = [waiter EXCEPT ![t] = "none"]
    BY DEF Read
  <2> HIDE DEF k
  <2> QED BY <1>0, <1>1, <2>1 DEF TypeOK
<1>3. locked' \in [Client -> BOOLEAN]
  <2>1. UNCHANGED locked \/ locked' = [locked EXCEPT ![c] = FALSE]
    BY DEF Read
  <2> QED BY <1>0, <2>1 DEF TypeOK
<1>4. /\ phase' \in [Client -> Phase] /\ op' \in [Thread -> OpState]
      /\ claimed' \in [Client -> BOOLEAN] /\ mailbox' \in [Client -> 0..Len(boxes)]
      /\ added' \in [Client -> 0..Adds] /\ got' \in [Client -> Seq(Event)]
      /\ recv' \in [Client -> {"off", "start", "scan", "offer", "release", "wait"}]
      /\ ws' \in [Client -> {"up", "lost", "nil"}]
  <2>1. CASE op[t].at = "reply" /\ Succeed(t, m)
    <3>1. op[t].cmd = "claim" => m.box \in 0..Len(boxes)
      <4>1. op[t].cmd = "claim" => m.type = "claimed"
        BY <1>1, <2>1 DEF Wanted, Awaits
      <4> QED BY <1>0, <1>1, <4>1 DEF Replies, BoxIn
    <3> HIDE DEF m
    <3> QED BY <1>0, <1>1, <2>1, <3>1, SucceedType
  <2>2. CASE op[t].at = "ack" /\ Fail(t)
    BY <1>0, <2>2, FailType DEF TypeOK
  <2>3. CASE op[t].at = "ack" /\ op' = [op EXCEPT ![t].at = "reply"] /\ UNCHANGED <<appVars, recv, ws>>
    <3>1. op[t] # Idle
      BY <2>3, OpStates
    <3>2. \E o \in OpState : op' = [op EXCEPT ![t] = o]
      BY <1>0, <2>3, <3>1, OpMoved
    <3> QED BY <1>0, <2>3, <3>2 DEF TypeOK, appVars
  <2>4. CASE op[t].at = "ack" /\ op[t].cmd \notin DOMAIN Awaits /\ Succeed(t, m)
    <3>1. op[t].cmd # "claim"
      BY <2>4 DEF Awaits
    <3> HIDE DEF m
    <3> QED BY <1>0, <1>1, <2>4, <3>1, SucceedType
  <2> QED BY <2>1, <2>2, <2>3, <2>4 DEF Read
<1>5. UNCHANGED <<events, offset, bell, toServer, toClient, serverVars, crashed, cancelled>>
  BY DEF Read
<1> HIDE DEF m, k, c
<1> QED BY <1>0, <1>2, <1>3, <1>4, <1>5 DEF TypeOK, serverVars

\* CutOff.
LEMMA CutOffType ==
  ASSUME TypeInv, NEW t \in Thread, CutOff(t), UNCHANGED cancelled
  PROVE  TypeOK'
<1>0. TypeOK /\ t[1] \in Client
  BY Threads DEF TypeInv
<1>1. waiter' \in [Thread -> {"none", "empty", "full"}] /\ locked' \in [Client -> BOOLEAN]
  BY <1>0 DEF CutOff, TypeOK
<1> QED BY <1>0, <1>1, FailType DEF CutOff, TypeOK, serverVars

\* Dispatch.
LEMMA DispatchType ==
  ASSUME TypeInv, NEW c \in Client, Dispatch(c), UNCHANGED cancelled
  PROVE  TypeOK'
<1> DEFINE m == Head(toClient[c])
<1>0. TypeOK /\ toClient[c] \in Seq(Reply \cup Message) /\ toClient[c] # <<>>
      /\ events[c] \in Seq(Event) /\ pending[c] \in Seq(Reply)
  BY DEF TypeInv, TypeOK, Dispatch
<1>1. m \in Reply \cup Message /\ Tail(toClient[c]) \in Seq(Reply \cup Message)
  BY <1>0
<1>2. toClient' \in [Client -> Seq(Reply \cup Message)]
  <2>1. toClient' = [toClient EXCEPT ![c] = Tail(toClient[c])]
    BY DEF Dispatch
  <2> QED BY <1>0, <1>1, <2>1 DEF TypeOK
<1>3. CASE m.type = "message"
  <2>1. m.event \in Event
    BY <1>1, <1>3, Kinds
  <2>2. Append(events[c], m.event) \in Seq(Event)
    BY <1>0, <2>1, Appending
  <2>3. /\ events' = [events EXCEPT ![c] = Append(events[c], m.event)]
        /\ bell' = [bell EXCEPT ![c] = IF bell[c] = "none" THEN bell[c] ELSE "full"]
        /\ UNCHANGED <<pending, waiter, appVars, op, locked, recv, offset, ws, toServer, serverVars, crashed>>
    BY <1>3 DEF Dispatch
  <2> HIDE DEF m
  <2>4. events' \in [Client -> Seq(Event)]
    BY <1>0, <2>2, <2>3 DEF TypeOK
  <2>5. bell' \in [Client -> {"none", "empty", "full"}]
    BY <1>0, <2>3 DEF TypeOK
  <2> QED BY <1>0, <1>2, <2>3, <2>4, <2>5 DEF TypeOK, appVars, serverVars
<1>4. CASE m.type # "message"
  <2>1. m \in Reply
    BY <1>1, <1>4, Kinds
  <2>2. Append(pending[c], m) \in Seq(Reply)
    BY <1>0, <2>1, Appending
  <2>3. /\ pending' = [pending EXCEPT ![c] = Append(pending[c], m)]
        /\ waiter' = [t \in Thread |-> IF t[1] = c /\ waiter[t] # "none" THEN "full" ELSE waiter[t]]
        /\ UNCHANGED <<events, bell, appVars, op, locked, recv, offset, ws, toServer, serverVars, crashed>>
    BY <1>4 DEF Dispatch
  <2> HIDE DEF m
  <2>4. pending' \in [Client -> Seq(Reply)]
    BY <1>0, <2>2, <2>3 DEF TypeOK
  <2>5. waiter' \in [Thread -> {"none", "empty", "full"}]
    BY <1>0, <2>3 DEF TypeOK
  <2> QED BY <1>0, <1>2, <2>3, <2>4, <2>5 DEF TypeOK, appVars, serverVars
<1> QED BY <1>3, <1>4

\* The connection is lost.
LEMMA LossType ==
  ASSUME TypeInv, NEW c \in Client, ReadEnds(c) \/ LoseConnection(c), UNCHANGED cancelled
  PROVE  TypeOK'
<1>1. /\ ws' = [ws EXCEPT ![c] = "lost"]
      /\ UNCHANGED <<appVars, cmdVars, recvVars, toServer, toClient, serverVars, crashed>>
  BY DEF ReadEnds, LoseConnection
<1>2. ws' \in [Client -> {"up", "lost", "nil"}]
  BY <1>1 DEF TypeInv, TypeOK
<1> QED BY <1>1, <1>2 DEF TypeInv, TypeOK, appVars, cmdVars, recvVars, serverVars

\* Where the next message is that another client sent, and where it is found.
Theirs(c) == {k \in DOMAIN events[c] : k > offset[c] /\ events[c][k].side # c}

\* They are numbers of events, and if there are any, the first is one of them.
LEMMA TheirsAre ==
  ASSUME TypeOK, NEW c \in Client
  PROVE  /\ \A k : k \in Theirs(c) <=> k \in 1..Len(events[c]) /\ k > offset[c] /\ events[c][k].side # c
         /\ Theirs(c) # {} => Min(Theirs(c)) \in Theirs(c) /\ \A k \in Theirs(c) : Min(Theirs(c)) <= k
<1>1. events[c] \in Seq(Event)
  BY DEF TypeOK
<1>2. Theirs(c) \in SUBSET Nat
  BY <1>1 DEF Theirs
<1>3. \A k : k \in Theirs(c) <=> k \in 1..Len(events[c]) /\ k > offset[c] /\ events[c][k].side # c
  BY <1>1 DEF Theirs
<1> QED BY <1>2, <1>3, MinIs

\* recvMailboxMsgs, between messages.
LEMMA ScanType ==
  ASSUME TypeInv, NEW c \in Client, StartRecv(c) \/ Scan(c) \/ Notified(c), UNCHANGED cancelled
  PROVE  TypeOK'
<1>0. TypeOK /\ events[c] \in Seq(Event)
  BY DEF TypeInv, TypeOK
<1>1. CASE StartRecv(c) \/ Notified(c)
  <2>1. /\ bell' = [bell EXCEPT ![c] = "empty"] /\ recv' = [recv EXCEPT ![c] = "scan"]
        /\ UNCHANGED <<appVars, cmdVars, events, offset, netVars, serverVars, crashed>>
    BY <1>1 DEF StartRecv, Notified
  <2>2. bell' \in [Client -> {"none", "empty", "full"}]
    BY <1>0, <2>1 DEF TypeOK
  <2>3. recv' \in [Client -> {"off", "start", "scan", "offer", "release", "wait"}]
    BY <1>0, <2>1 DEF TypeOK
  <2> QED BY <1>0, <2>1, <2>2, <2>3 DEF TypeOK, appVars, cmdVars, netVars, serverVars
<1>2. CASE Scan(c)
  <2>1. /\ \/ Theirs(c) # {} /\ offset' = [offset EXCEPT ![c] = Min(Theirs(c))] /\ recv' = [recv EXCEPT ![c] = "offer"]
           \/ offset' = [offset EXCEPT ![c] = Len(events[c])] /\ recv' = [recv EXCEPT ![c] = "wait"]
        /\ UNCHANGED <<appVars, cmdVars, events, bell, netVars, serverVars, crashed>>
    BY <1>2 DEF Scan, Theirs
  <2>2. Theirs(c) # {} => Min(Theirs(c)) \in Nat
    BY <1>0, TheirsAre
  <2>3. recv' \in [Client -> {"off", "start", "scan", "offer", "release", "wait"}]
    BY <1>0, <2>1 DEF TypeOK
  <2>4. \E n \in Nat : offset' = [offset EXCEPT ![c] = n]
    BY <1>0, <2>1, <2>2
  <2>5. offset' \in [Client -> Nat]
    BY <1>0, <2>4 DEF TypeOK
  <2> QED BY <1>0, <2>1, <2>3, <2>5 DEF TypeOK, appVars, cmdVars, netVars, serverVars
<1> QED BY <1>1, <1>2

\* The application takes a message.
LEMMA DeliverType ==
  ASSUME TypeInv, NEW c \in Client, Deliver(c), UNCHANGED cancelled
  PROVE  TypeOK'
<1>0. TypeOK /\ events[c] \in Seq(Event) /\ got[c] \in Seq(Event) /\ Claiming(c) /\ Recv(c) \in Thread
  BY Threads DEF TypeInv, TypeOK
<1>1. events[c][offset[c]] \in Event
  BY <1>0 DEF Deliver, Claiming
<1>2. got' \in [Client -> Seq(Event)]
  <2>1. Append(got[c], events[c][offset[c]]) \in Seq(Event)
    BY <1>0, <1>1, Appending
  <2>2. got' = [got EXCEPT ![c] = Append(got[c], events[c][offset[c]])]
    BY DEF Deliver
  <2> QED BY <1>0, <2>1, <2>2 DEF TypeOK
<1>3. recv' \in [Client -> {"off", "start", "scan", "offer", "release", "wait"}]
  <2>1. \E r \in {"release", "scan"} : recv' = [recv EXCEPT ![c] = r]
    BY DEF Deliver
  <2> QED BY <1>0, <2>1 DEF TypeOK
<1>4. op' \in [Thread -> OpState]
  <2>1. UNCHANGED op \/ op' = [op EXCEPT ![Recv(c)] = [at |-> "lock", cmd |-> "release"]]
    BY DEF Deliver, Begin
  <2>2. [at |-> "lock", cmd |-> "release"] \in OpState
    BY OpStates DEF Command
  <2> QED BY <1>0, <2>1, <2>2 DEF TypeOK
<1> QED BY <1>0, <1>2, <1>3, <1>4 DEF Deliver, TypeOK, netVars, serverVars

\* The calls of the application.
LEMMA ConnectType ==
  ASSUME TypeInv, NEW c \in Client, Connect(c), UNCHANGED cancelled
  PROVE  TypeOK'
<1>0. TypeOK /\ App(c) \in Thread
  BY Threads DEF TypeInv
<1>1. phase' \in [Client -> Phase]
  BY <1>0 DEF Connect, Goes, TypeOK, Phase
<1>2. op' \in [Thread -> OpState]
  <2>1. [at |-> "reply", cmd |-> "connect"] \in OpState
    BY OpStates DEF Command
  <2> QED BY <1>0, <2>1 DEF Connect, TypeOK
<1>3. ws' \in [Client -> {"up", "lost", "nil"}]
  BY <1>0 DEF Connect, TypeOK
<1>4. toClient' \in [Client -> Seq(Reply \cup Message)]
  <2>1. Plain("welcome") \in Reply \cup Message
    BY Kinds
  <2>2. <<Plain("welcome")>> \in Seq(Reply \cup Message)
    BY <2>1
  <2> QED BY <1>0, <2>2 DEF Connect, TypeOK
<1> QED BY <1>0, <1>1, <1>2, <1>3, <1>4 DEF Connect, TypeOK, recvVars, serverVars

\* A call that begins: AttachMailbox, or CreateMailbox, and Close.
LEMMA CallType ==
  ASSUME TypeInv, NEW c \in Client, Meet(c) \/ Close(c), UNCHANGED cancelled
  PROVE  TypeOK'
<1>0. TypeOK /\ App(c) \in Thread
  BY Threads DEF TypeInv
<1>1. \E p \in {"meet", "closing"} : phase' = [phase EXCEPT ![c] = p]
  BY DEF Meet, Close, Goes
<1>2. phase' \in [Client -> Phase]
  BY <1>0, <1>1 DEF TypeOK, Phase
<1>3. \E cmd \in {"allocate", "claim", "close"} :
         op' = [op EXCEPT ![App(c)] = [at |-> "lock", cmd |-> cmd]]
  BY DEF Meet, Close, Begin
<1>4. \A cmd \in {"allocate", "claim", "close"} : [at |-> "lock", cmd |-> cmd] \in OpState
  BY OpStates DEF Command
<1>5. op' \in [Thread -> OpState]
  BY <1>0, <1>3, <1>4 DEF TypeOK
<1>6. UNCHANGED <<added, got, claimed, mailbox, waiter, locked, pending, recvVars, netVars, serverVars, crashed>>
  BY DEF Meet, Close
<1> QED BY <1>0, <1>2, <1>5, <1>6 DEF TypeOK, recvVars, netVars, serverVars

\* There are finitely many clients.
LEMMA FiniteClients == IsFiniteSet(Client)
BY ClientsAssumption, FS_Union DEF Client

\* A client that may add a message has not added all there may be.
LEMMA RoomToAdd ==
  ASSUME TypeOK, NEW c \in Client, AddMessage(c)
  PROVE  added[c] \in 0..Adds /\ added[c] < Adds
<1> DEFINE E == {e \in Event : e.n <= added[e.side]}
<1>0. Adds \in Nat /\ added[c] \in 0..Adds /\ Cardinality(E) < Adds
  BY BoundAssumption DEF TypeOK, AddMessage
<1> SUFFICES ASSUME added[c] = Adds PROVE FALSE
  BY <1>0
<1>1. IsFiniteSet(Event)
  <2> DEFINE P == Client \X (1..Adds)
  <2> DEFINE f == [p \in P |-> [side |-> p[1], n |-> p[2]]]
  <2>1. IsFiniteSet(P)
    <3>1. IsFiniteSet(1..Adds)
      BY <1>0, FS_Interval
    <3> QED BY <3>1, FiniteClients, FS_Product
  <2>2. f \in Surjection(P, Event)
    <3>1. f \in [P -> Event]
      BY DEF Event
    <3>2. \A e \in Event : \E p \in P : f[p] = e
      <4> TAKE e \in Event
      <4>1. <<e.side, e.n>> \in P /\ f[<<e.side, e.n>>] = e
        BY DEF Event
      <4> QED BY <4>1
    <3> HIDE DEF f, P
    <3> QED BY <3>1, <3>2 DEF Surjection
  <2> HIDE DEF f, P
  <2> QED BY <2>1, <2>2, FS_Surjection
<1>2. E \subseteq Event
  OBVIOUS
<1>3. IsFiniteSet(E)
  BY <1>1, <1>2, FS_Subset
<1>4. Adds <= Cardinality(E)
  <2> DEFINE g == [k \in 1..Adds |-> [side |-> c, n |-> k]]
  <2>1. g \in [1..Adds -> E] /\ \A j, k \in 1..Adds : g[j] = g[k] => j = k
    BY <1>0 DEF Event
  <2> HIDE DEF g, E
  <2>2. g \in Injection(1..Adds, E)
    BY <2>1 DEF Injection, IsInjective
  <2>3. IsFiniteSet(1..Adds) /\ Cardinality(1..Adds) = Adds
    BY <1>0, FS_Interval
  <2> QED BY <1>3, <2>2, <2>3, FS_Injection
<1>5. Cardinality(E) \in Nat
  BY <1>3, FS_CardinalityType
<1> HIDE DEF E
<1> QED BY <1>0, <1>4, <1>5

\* AddMessage.
LEMMA AddType ==
  ASSUME TypeInv, NEW c \in Client, AddMessage(c), UNCHANGED cancelled
  PROVE  TypeOK'
<1>0. TypeOK /\ App(c) \in Thread
  BY Threads DEF TypeInv
<1>1. added[c] + 1 \in 0..Adds
  BY <1>0, RoomToAdd, BoundAssumption
<1>2. added' \in [Client -> 0..Adds]
  BY <1>0, <1>1 DEF AddMessage, TypeOK
<1>3. op' \in [Thread -> OpState]
  <2>1. [at |-> "lock", cmd |-> "add"] \in OpState
    BY OpStates DEF Command
  <2> QED BY <1>0, <2>1 DEF AddMessage, Begin, TypeOK
<1> QED BY <1>0, <1>2, <1>3 DEF AddMessage, TypeOK, recvVars, netVars, serverVars

-----------------------------------------------------------------------------
(* What the server sends for a request, and what it does to its mailboxes. *)

\* f is sent, to each client what is for it.
Sends(f) ==
    /\ f \in [Client -> Seq(Reply \cup Message)]
    /\ \A d \in Client : toClient'[d] = IF ws[d] = "up" THEN toClient[d] \o f[d] ELSE toClient[d]

\* The ack of r to client c, with ms, and nothing to others.
Answers(c, ms) == [d \in Client |-> IF d = c THEN ms ELSE <<>>]

\* An answer is what is sent to one client.
LEMMA AnswerSends ==
  ASSUME TypeOK, NEW c \in Client, NEW ms \in Seq(Reply \cup Message), Answer(c, ms)
  PROVE  Sends(Answers(c, ms)) /\ toClient' \in [Client -> Seq(Reply \cup Message)]
<1> DEFINE S == Reply \cup Message
<1>0. toClient \in [Client -> Seq(S)]
  BY DEF TypeOK
<1>1. \A d \in Client : toClient[d] \o <<>> = toClient[d]
  <2> HIDE DEF S
  <2> QED BY <1>0, ConcatEmptySeq
<1>2. toClient[c] \o ms \in Seq(S)
  <2>1. ms \in Seq(S) /\ toClient[c] \in Seq(S)
    BY <1>0
  <2> HIDE DEF S
  <2> QED BY <2>1, Joining, Zenon
<1>3. Answers(c, ms) \in [Client -> Seq(S)]
  BY DEF Answers
<1>4. toClient' = [toClient EXCEPT ![c] = IF ws[c] = "up" THEN toClient[c] \o ms ELSE toClient[c]]
  BY DEF Answer
<1> DEFINE q == toClient[c] \o ms
<1> HIDE DEF S, q
<1>5. toClient' = [toClient EXCEPT ![c] = IF ws[c] = "up" THEN q ELSE toClient[c]]
  BY <1>4 DEF q
<1>6. toClient' \in [Client -> Seq(S)] /\ \A d \in Client \ {c} : toClient'[d] = toClient[d]
  BY <1>0, <1>2, <1>5 DEF q
<1>7. toClient'[c] = IF ws[c] = "up" THEN toClient[c] \o ms ELSE toClient[c]
  BY <1>0, <1>5 DEF q
<1>8. ASSUME NEW d \in Client
      PROVE  toClient'[d] = IF ws[d] = "up" THEN toClient[d] \o Answers(c, ms)[d] ELSE toClient[d]
  <2>1. CASE d = c
    BY <1>7, <2>1 DEF Answers
  <2>2. CASE d # c
    <3>1. Answers(c, ms)[d] = <<>> /\ toClient'[d] = toClient[d]
      BY <1>6, <2>2 DEF Answers
    <3> QED BY <1>1, <3>1, Zenon
  <2> QED BY <2>1, <2>2
<1> QED BY <1>3, <1>6, <1>8 DEF Sends, S

\* The messages of a mailbox, as they are sent.
Recorded(b) == [k \in DOMAIN boxes[b].msgs |-> MessageOf(boxes[b].msgs[k])]

\* One MessageOf for each message of the mailbox, in order.
LEMMA RecordedIs ==
  ASSUME TypeOK, NEW b \in 1..Len(boxes)
  PROVE  /\ boxes[b].msgs \in Seq(Event) /\ boxes[b].claims \in Nat
         /\ Recorded(b) \in Seq(Reply \cup Message)
         /\ Len(Recorded(b)) = Len(boxes[b].msgs)
         /\ \A k \in 1..Len(boxes[b].msgs) : Recorded(b)[k] = MessageOf(boxes[b].msgs[k])
<1>1. boxes[b].msgs \in Seq(Event) /\ boxes[b].claims \in Nat
  <2>1. boxes[b] \in [claims: Nat, msgs: Seq(Event)]
    BY ElementOfSeq DEF TypeOK
  <2> QED BY <2>1
<1> DEFINE m == boxes[b].msgs
<1>2. Recorded(b) = [k \in 1..Len(m) |-> MessageOf(m[k])] /\ Len(m) \in Nat
  BY <1>1 DEF Recorded
<1> HIDE DEF m
<1>3. \A k \in 1..Len(m) : MessageOf(m[k]) \in Reply \cup Message
  BY <1>1, Kinds DEF m
<1>4. Recorded(b) \in Seq(Reply \cup Message) /\ Len(Recorded(b)) = Len(m)
  BY <1>2, <1>3
<1> QED BY <1>1, <1>2, <1>4 DEF m

\* What a request for a command is answered with.
Asked(c) == Head(toServer[c])

\* The request that the server takes next is one of its client's own.
LEMMA AskedIs ==
  ASSUME TypeInv, NEW c \in Client, Serve(c)
  PROVE  /\ toServer[c] \in Seq(Request) /\ toServer[c] # <<>> /\ Asked(c) = toServer[c][1]
         /\ Len(toServer[c]) >= 1 /\ Asked(c) \in Request /\ Asked(c).thread \in {App(c), Recv(c)}
         /\ Asked(c).cmd = "open" => Asked(c).arg = mailbox[c] /\ mailbox[c] # 0
         /\ Asked(c).cmd = "add" => Asked(c).arg \in 1..Adds
         /\ toServer' = [toServer EXCEPT ![c] = Tail(toServer[c])] /\ Tail(toServer[c]) \in Seq(Request)
         /\ UNCHANGED <<appVars, cmdVars, recvVars, ws, crashed>>
<1>1. toServer[c] \in Seq(Request) /\ toServer[c] # <<>> /\ Requests(c)
  BY DEF TypeInv, TypeOK, Serve
<1>2. /\ Asked(c) = toServer[c][1] /\ Asked(c) \in Request /\ Len(toServer[c]) >= 1
      /\ Tail(toServer[c]) \in Seq(Request)
  BY <1>1 DEF Asked
<1>3. /\ toServer' = [toServer EXCEPT ![c] = Tail(toServer[c])]
      /\ UNCHANGED <<appVars, cmdVars, recvVars, ws, crashed>>
  BY DEF Serve
<1> QED BY <1>1, <1>2, <1>3 DEF Requests

\* A command without data: the ack, and the answer if there is one.
LEMMA PlainServed ==
  ASSUME TypeInv, NEW c \in Client, Serve(c), NEW r, r = Asked(c),
         ServeBind(c, r) \/ ServeAllocate(c, r) \/ ServeRelease(c, r) \/ ServeClose(c, r)
  PROVE  \E ms \in Seq(Reply \cup Message) :
            /\ Sends(Answers(c, ms)) /\ toClient' \in [Client -> Seq(Reply \cup Message)]
            /\ Len(ms) \in 1..2 /\ ms[1] = Ack(r)
            /\ Len(ms) = 2 => ms[2].type \in {"allocated", "released", "closed"}
<1>0. TypeOK /\ r \in Request
  BY AskedIs DEF TypeInv
<1>1. Ack(r) \in Reply \cup Message
  BY <1>0, Kinds
<1>2. CASE ServeBind(c, r)
  <2> DEFINE ms == <<Ack(r)>>
  <2>1. ms \in Seq(Reply \cup Message) /\ Len(ms) = 1 /\ ms[1] = Ack(r)
    BY <1>1
  <2>2. Answer(c, ms)
    BY <1>2 DEF ServeBind
  <2> HIDE DEF ms
  <2> QED BY <1>0, <2>1, <2>2, AnswerSends
<1>3. CASE ServeAllocate(c, r) \/ ServeRelease(c, r) \/ ServeClose(c, r)
  <2>1. PICK type \in {"allocated", "released", "closed"} : Answer(c, <<Ack(r), Plain(type)>>)
    BY <1>3 DEF ServeAllocate, ServeRelease, ServeClose
  <2> DEFINE ms == <<Ack(r), Plain(type)>>
  <2>2. ms \in Seq(Reply \cup Message) /\ Len(ms) = 2 /\ ms[1] = Ack(r) /\ ms[2].type = type
    <3>1. Plain(type) \in Reply \cup Message /\ Plain(type).type = type
      BY Kinds
    <3> QED BY <1>1, <3>1
  <2>3. Answer(c, ms)
    BY <2>1
  <2> HIDE DEF ms
  <2> QED BY <1>0, <2>2, <2>3, AnswerSends
<1> QED BY <1>2, <1>3

\* A claim: the mailbox, or an error.
LEMMA ClaimServed ==
  ASSUME TypeInv, NEW c \in Client, Serve(c), NEW r, r = Asked(c), ServeClaim(c, r)
  PROVE  \E ms \in Seq(Reply \cup Message) :
            /\ Sends(Answers(c, ms)) /\ toClient' \in [Client -> Seq(Reply \cup Message)]
            /\ Len(ms) = 2 /\ ms[1] = Ack(r)
            /\ \/ /\ ms[2] = [type |-> "claimed", box |-> plate']
                  /\ \/ /\ plate = 0 /\ plate' = Len(boxes) + 1
                        /\ boxes' = Append(boxes, [claims |-> 1, msgs |-> <<>>])
                     \/ /\ plate # 0 /\ plate' = plate /\ boxes[plate].claims <= 1
                        /\ boxes' = [boxes EXCEPT ![plate].claims = @ + 1]
               \/ ms[2] = Plain("error") /\ UNCHANGED <<boxes, plate>>
<1>0. TypeOK /\ r \in Request /\ Len(boxes) \in Nat /\ plate \in 0..Len(boxes)
  <2>1. TypeOK
    BY DEF TypeInv
  <2>2. r \in Request
    BY AskedIs
  <2>3. Len(boxes) \in Nat /\ plate \in 0..Len(boxes)
    BY <2>1 DEF TypeOK
  <2> QED BY <2>1, <2>2, <2>3
<1>1. Ack(r) \in Reply \cup Message /\ Plain("error") \in Reply \cup Message
  BY <1>0, Kinds
<1>2. CASE plate = 0
  <2>1. /\ boxes' = Append(boxes, [claims |-> 1, msgs |-> <<>>]) /\ plate' = Len(boxes')
        /\ Answer(c, <<Ack(r), [type |-> "claimed", box |-> plate']>>)
    BY <1>2 DEF ServeClaim, NewBox
  <2>2. plate' = Len(boxes) + 1
    BY <1>0, <2>1 DEF TypeOK
  <2> DEFINE ms == <<Ack(r), [type |-> "claimed", box |-> plate']>>
  <2>3. ms \in Seq(Reply \cup Message) /\ Len(ms) = 2 /\ ms[1] = Ack(r) /\ ms[2] = [type |-> "claimed", box |-> plate']
    <3>1. [type |-> "claimed", box |-> plate'] \in Reply \cup Message
      BY <1>0, <2>2, Kinds
    <3> QED BY <1>1, <3>1
  <2>4. Answer(c, ms)
    BY <2>1
  <2> HIDE DEF ms
  <2> QED BY <1>0, <1>2, <2>1, <2>2, <2>3, <2>4, AnswerSends
<1>3. CASE plate # 0 /\ boxes[plate].claims <= 1 /\ ~(boxes[plate].claims > 1)
  <2>1. /\ boxes' = [boxes EXCEPT ![plate].claims = @ + 1] /\ plate' = plate
        /\ Answer(c, <<Ack(r), [type |-> "claimed", box |-> plate]>>)
    BY <1>3 DEF ServeClaim
  <2> DEFINE ms == <<Ack(r), [type |-> "claimed", box |-> plate]>>
  <2>3. ms \in Seq(Reply \cup Message) /\ Len(ms) = 2 /\ ms[1] = Ack(r) /\ ms[2] = [type |-> "claimed", box |-> plate']
    <3>1. [type |-> "claimed", box |-> plate] \in Reply \cup Message
      BY <1>0, Kinds
    <3> QED BY <1>1, <2>1, <3>1
  <2>4. Answer(c, ms)
    BY <2>1
  <2> HIDE DEF ms
  <2> QED BY <1>0, <1>3, <2>1, <2>3, <2>4, AnswerSends
<1>4. CASE plate # 0 /\ boxes[plate].claims > 1
  <2>1. boxes[plate].claims \in Nat
    BY <1>0, <1>4, RecordedIs
  <2>2. UNCHANGED <<boxes, plate>> /\ Answer(c, <<Ack(r), Plain("error")>>)
    BY <1>4, <2>1 DEF ServeClaim
  <2> DEFINE ms == <<Ack(r), Plain("error")>>
  <2>3. ms \in Seq(Reply \cup Message) /\ Len(ms) = 2 /\ ms[1] = Ack(r) /\ ms[2] = Plain("error")
    BY <1>1
  <2>4. Answer(c, ms)
    BY <2>2
  <2> HIDE DEF ms
  <2> QED BY <1>0, <2>2, <2>3, <2>4, AnswerSends
<1> QED BY <1>0, <1>2, <1>3, <1>4, RecordedIs

\* An open: what the mailbox holds.
LEMMA OpenServed ==
  ASSUME TypeInv, NEW c \in Client, Serve(c), NEW r, r = Asked(c), ServeOpen(c, r)
  PROVE  /\ mailbox[c] \in 1..Len(boxes) /\ r.arg = mailbox[c]
         /\ \E ms \in Seq(Reply \cup Message) :
               /\ Sends(Answers(c, ms)) /\ toClient' \in [Client -> Seq(Reply \cup Message)]
               /\ Len(ms) = Len(boxes[mailbox[c]].msgs) + 1 /\ ms[1] = Ack(r)
               /\ \A k \in 1..Len(boxes[mailbox[c]].msgs) : ms[1 + k] = MessageOf(boxes[mailbox[c]].msgs[k])
<1>0. /\ TypeOK /\ r \in Request /\ r.cmd = "open" /\ r.arg = mailbox[c] /\ mailbox[c] # 0
      /\ mailbox[c] \in 0..Len(boxes)
  BY AskedIs DEF TypeInv, TypeOK, ServeOpen
<1>1. mailbox[c] \in 1..Len(boxes)
  BY <1>0
<1> DEFINE b == mailbox[c]
<1> DEFINE h == <<Ack(r)>>
<1> DEFINE ms == h \o Recorded(b)
<1>2. h \in Seq(Reply \cup Message) /\ Len(h) = 1 /\ h[1] = Ack(r)
  BY <1>0, Kinds
<1>3. /\ Recorded(b) \in Seq(Reply \cup Message) /\ Len(Recorded(b)) = Len(boxes[b].msgs)
      /\ \A k \in 1..Len(boxes[b].msgs) : Recorded(b)[k] = MessageOf(boxes[b].msgs[k])
  BY <1>0, <1>1, RecordedIs
<1>4. Answer(c, ms)
  BY <1>0 DEF ServeOpen, Recorded
<1> HIDE DEF h, b
<1>5. ms \in Seq(Reply \cup Message) /\ Joined(h, Recorded(b), ms)
  <2> DEFINE S == Reply \cup Message
  <2>1. h \in Seq(S) /\ Recorded(b) \in Seq(S)
    BY <1>2, <1>3
  <2> HIDE DEF S
  <2>2. ms \in Seq(S) /\ Joined(h, Recorded(b), ms)
    BY <2>1, Joining, Zenon
  <2> QED BY <2>2 DEF S
<1> HIDE DEF ms
<1>6. Sends(Answers(c, ms)) /\ toClient' \in [Client -> Seq(Reply \cup Message)]
  BY <1>0, <1>4, <1>5, AnswerSends
<1>7. /\ Len(ms) = Len(boxes[b].msgs) + 1 /\ ms[1] = Ack(r)
      /\ \A k \in 1..Len(boxes[b].msgs) : ms[1 + k] = MessageOf(boxes[b].msgs[k])
  BY <1>2, <1>3, <1>5 DEF Joined
<1> QED BY <1>0, <1>1, <1>5, <1>6, <1>7 DEF b

\* What the client is sent: the ack, then what is in the mailbox, in order.
LEMMA OpenBrings ==
  ASSUME TypeInv, NEW c \in Client, Serve(c), ServeOpen(c, Asked(c))
  PROVE  \E ms \in Seq(Reply \cup Message) :
            /\ Sends(Answers(c, ms)) /\ Len(ms) = Len(boxes[mailbox[c]].msgs) + 1 /\ ms[1] = Ack(Asked(c))
            /\ \A k \in 1..Len(boxes[mailbox[c]].msgs) : ms[1 + k] = MessageOf(boxes[mailbox[c]].msgs[k])
BY OpenServed, SMTT(40)

\* An added message: to those that have the mailbox open.
LEMMA AddServed ==
  ASSUME TypeInv, NEW c \in Client, Serve(c), NEW r, r = Asked(c), ServeAdd(c, r)
  PROVE  LET e == [side |-> c, n |-> r.arg] IN
         /\ e \in Event
         /\ boxes' = [boxes EXCEPT ![opened[c]].msgs = Append(@, e)] /\ UNCHANGED <<plate, opened>>
         /\ toClient' \in [Client -> Seq(Reply \cup Message)]
         /\ \E f : /\ Sends(f)
                   /\ \A d \in Client \ {c} :
                        IF opened[d] = opened[c] THEN Len(f[d]) = 1 /\ f[d][1] = MessageOf(e)
                        ELSE Len(f[d]) = 0
                   /\ Len(f[c]) = 2 /\ f[c][1] = Ack(r) /\ f[c][2] = MessageOf(e)
<1> DEFINE e == [side |-> c, n |-> r.arg]
<1> DEFINE S == Reply \cup Message
<1>0. TypeOK /\ r \in Request /\ r.cmd = "add" /\ r.arg \in 1..Adds /\ toClient \in [Client -> Seq(S)]
  BY AskedIs DEF TypeInv, TypeOK, ServeAdd
<1>1. e \in Event /\ Ack(r) \in S /\ MessageOf(e) \in S
  <2>1. e \in Event
    BY <1>0 DEF Event
  <2> QED BY <1>0, <2>1, Kinds
<1> DEFINE To(d) == (IF d = c THEN <<Ack(r)>> ELSE <<>>)
                      \o (IF opened[d] = opened[c] THEN <<MessageOf(e)>> ELSE <<>>)
<1> DEFINE f == [d \in Client |-> IF d = c THEN <<Ack(r), MessageOf(e)>>
                                  ELSE IF opened[d] = opened[c] THEN <<MessageOf(e)>> ELSE <<>>]
<1>2. \A d \in Client : To(d) = f[d]
  <2> HIDE DEF e
  <2>1. <<Ack(r)>> \o <<MessageOf(e)>> = <<Ack(r), MessageOf(e)>>
    BY <1>1, Paired
  <2>2. <<>> \o <<MessageOf(e)>> = <<MessageOf(e)>> /\ <<>> \o <<>> = <<>>
    OBVIOUS
  <2> QED BY <2>1, <2>2
<1>3. f \in [Client -> Seq(S)]
  <2> HIDE DEF e, S
  <2>1. <<Ack(r), MessageOf(e)>> \in Seq(S) /\ <<MessageOf(e)>> \in Seq(S) /\ <<>> \in Seq(S)
    BY <1>1
  <2> QED BY <2>1
<1>4. /\ \A d \in Client \ {c} : IF opened[d] = opened[c] THEN Len(f[d]) = 1 /\ f[d][1] = MessageOf(e)
                                 ELSE Len(f[d]) = 0
      /\ Len(f[c]) = 2 /\ f[c][1] = Ack(r) /\ f[c][2] = MessageOf(e)
  <2> HIDE DEF e
  <2> QED OBVIOUS
<1>5. toClient' = [d \in Client |-> IF ws[d] = "up" THEN toClient[d] \o To(d) ELSE toClient[d]]
  BY DEF ServeAdd
<1>6. boxes' = [boxes EXCEPT ![opened[c]].msgs = Append(@, e)] /\ UNCHANGED <<plate, opened>>
  BY DEF ServeAdd
<1> HIDE DEF e, f, S, To
<1>7. \A d \in Client : toClient'[d] = IF ws[d] = "up" THEN toClient[d] \o f[d] ELSE toClient[d]
  BY <1>2, <1>5
<1>8. toClient' \in [Client -> Seq(S)]
  <2>1. \A d \in Client : toClient[d] \o f[d] \in Seq(S)
    BY <1>0, <1>3, Joining
  <2>2. toClient' = [d \in Client |-> IF ws[d] = "up" THEN toClient[d] \o f[d] ELSE toClient[d]]
    BY <1>2, <1>5
  <2> QED BY <1>0, <2>1, <2>2
<1>9. Sends(f)
  BY <1>3, <1>7 DEF Sends, S
<1> QED BY <1>1, <1>4, <1>6, <1>8, <1>9 DEF e, S

\* A mailbox.
Box == [claims: Nat, msgs: Seq(Event)]

\* A new mailbox, one more claim, one more message.
LEMMA BoxNew ==
  ASSUME TypeOK, NEW n \in Nat
  PROVE  LET bs == Append(boxes, [claims |-> n, msgs |-> <<>>]) IN
         /\ bs \in Seq(Box) /\ Len(boxes) \in Nat /\ Len(bs) = Len(boxes) + 1
         /\ \A b \in 1..Len(boxes) : bs[b] = boxes[b]
         /\ bs[Len(boxes) + 1].claims = n /\ bs[Len(boxes) + 1].msgs = <<>>
<1>1. boxes \in Seq(Box)
  BY DEF TypeOK, Box
<1>2. [claims |-> n, msgs |-> <<>>] \in Box
  BY DEF Box
<1> DEFINE x == [claims |-> n, msgs |-> <<>>]
<1>3. x.claims = n /\ x.msgs = <<>>
  OBVIOUS
<1> HIDE DEF x
<1>4. /\ Append(boxes, x) \in Seq(Box) /\ Len(boxes) \in Nat /\ Len(Append(boxes, x)) = Len(boxes) + 1
      /\ \A b \in 1..Len(boxes) : Append(boxes, x)[b] = boxes[b]
      /\ Append(boxes, x)[Len(boxes) + 1] = x
  BY <1>1, <1>2 DEF x
<1> QED BY <1>3, <1>4 DEF x

\* Another claim of mailbox b.
LEMMA BoxClaimed ==
  ASSUME TypeOK, NEW b \in 1..Len(boxes)
  PROVE  LET bs == [boxes EXCEPT ![b].claims = @ + 1] IN
         /\ bs \in Seq(Box) /\ Len(bs) = Len(boxes) /\ Len(boxes) \in Nat
         /\ \A d \in 1..Len(boxes) : /\ bs[d].msgs = boxes[d].msgs
                                     /\ bs[d].claims = IF d = b THEN boxes[b].claims + 1 ELSE boxes[d].claims
<1>1. boxes \in Seq(Box) /\ boxes[b] \in Box /\ Len(boxes) \in Nat
  <2>1. boxes \in Seq(Box)
    BY DEF TypeOK, Box
  <2> QED BY <2>1, ElementOfSeq
<1> DEFINE n == boxes[b].claims + 1
<1> DEFINE x == [boxes[b] EXCEPT !.claims = n]
<1>2. x \in Box /\ x.claims = n /\ x.msgs = boxes[b].msgs
  <2>1. n \in Nat
    BY <1>1 DEF Box
  <2> HIDE DEF n
  <2> QED BY <1>1, <2>1 DEF Box
<1>3. [boxes EXCEPT ![b].claims = @ + 1] = [boxes EXCEPT ![b] = x]
  OBVIOUS
<1> HIDE DEF x
<1>4. /\ [boxes EXCEPT ![b] = x] \in Seq(Box) /\ Len([boxes EXCEPT ![b] = x]) = Len(boxes)
      /\ \A d \in 1..Len(boxes) : [boxes EXCEPT ![b] = x][d] = IF d = b THEN x ELSE boxes[d]
  BY <1>1, <1>2, ExceptSeq
<1> DEFINE bs == [boxes EXCEPT ![b] = x]
<1> HIDE DEF bs
<1>5. \A d \in 1..Len(boxes) : /\ bs[d].msgs = boxes[d].msgs
                               /\ bs[d].claims = IF d = b THEN boxes[b].claims + 1 ELSE boxes[d].claims
  BY <1>2, <1>4 DEF bs
<1> QED BY <1>1, <1>3, <1>4, <1>5 DEF bs

\* A message more in mailbox b.
LEMMA BoxAdded ==
  ASSUME TypeOK, NEW b \in 1..Len(boxes), NEW e \in Event
  PROVE  LET bs == [boxes EXCEPT ![b].msgs = Append(@, e)] IN
         /\ bs \in Seq(Box) /\ Len(bs) = Len(boxes) /\ Len(boxes) \in Nat
         /\ \A d \in 1..Len(boxes) : /\ bs[d].claims = boxes[d].claims
                                     /\ bs[d].msgs = IF d = b THEN Append(boxes[b].msgs, e) ELSE boxes[d].msgs
<1>1. boxes \in Seq(Box) /\ boxes[b] \in Box /\ Len(boxes) \in Nat
  <2>1. boxes \in Seq(Box)
    BY DEF TypeOK, Box
  <2> QED BY <2>1, ElementOfSeq
<1> DEFINE m == Append(boxes[b].msgs, e)
<1> DEFINE x == [boxes[b] EXCEPT !.msgs = m]
<1>2. m \in Seq(Event)
  <2>1. boxes[b].msgs \in Seq(Event)
    BY <1>1 DEF Box
  <2> QED BY <2>1
<1>3. [boxes EXCEPT ![b].msgs = Append(@, e)] = [boxes EXCEPT ![b] = x]
  OBVIOUS
<1> HIDE DEF m
<1>4. x \in Box /\ x.claims = boxes[b].claims /\ x.msgs = m
  BY <1>1, <1>2 DEF Box
<1> HIDE DEF x
<1>5. /\ [boxes EXCEPT ![b] = x] \in Seq(Box) /\ Len([boxes EXCEPT ![b] = x]) = Len(boxes)
      /\ \A d \in 1..Len(boxes) : [boxes EXCEPT ![b] = x][d] = IF d = b THEN x ELSE boxes[d]
  BY <1>1, <1>4, ExceptSeq
<1> DEFINE bs == [boxes EXCEPT ![b] = x]
<1> HIDE DEF bs
<1>6. \A d \in 1..Len(boxes) : /\ bs[d].claims = boxes[d].claims
                               /\ bs[d].msgs = IF d = b THEN m ELSE boxes[d].msgs
  BY <1>4, <1>5 DEF bs
<1> QED BY <1>1, <1>3, <1>5, <1>6 DEF bs, m

\* A message for no mailbox changes none.
LEMMA BoxMissed ==
  ASSUME TypeOK, NEW e
  PROVE  [boxes EXCEPT ![0].msgs = Append(@, e)] = boxes
<1>1. 0 \notin DOMAIN boxes
  BY DEF TypeOK
<1>2. boxes \in [1..Len(boxes) -> Box] /\ 0 \notin 1..Len(boxes)
  <2>1. boxes \in Seq(Box)
    BY DEF TypeOK, Box
  <2> QED BY <2>1, LenProperties
<1> QED BY <1>2

\* What a request does to the mailboxes and to who has them open.
LEMMA BoxesServed ==
  ASSUME TypeInv, NEW c \in Client, Serve(c)
  PROVE  /\ boxes' \in Seq(Box) /\ Len(boxes) \in Nat /\ Len(boxes') \in Nat /\ Len(boxes) <= Len(boxes')
         /\ plate' \in 0..Len(boxes') /\ opened' \in [Client -> 0..Len(boxes')]
         /\ toClient' \in [Client -> Seq(Reply \cup Message)]
<1> DEFINE r == Asked(c)
<1>0. /\ TypeOK /\ boxes \in Seq(Box) /\ Len(boxes) \in Nat /\ plate \in 0..Len(boxes)
      /\ opened \in [Client -> 0..Len(boxes)]
  <2>1. TypeOK
    BY DEF TypeInv
  <2>2. boxes \in Seq(Box) /\ Len(boxes) \in Nat
    BY <2>1 DEF TypeOK, Box
  <2>3. plate \in 0..Len(boxes) /\ opened \in [Client -> 0..Len(boxes)]
    BY <2>1 DEF TypeOK
  <2> QED BY <2>1, <2>2, <2>3
<1>1. CASE ServeBind(c, r) \/ ServeClose(c, r) \/ ServeRelease(c, r)
  <2>1. toClient' \in [Client -> Seq(Reply \cup Message)]
    BY <1>1, PlainServed
  <2>2. UNCHANGED <<boxes, opened>> /\ plate' \in {0, plate}
    BY <1>1 DEF ServeBind, ServeClose, ServeRelease, serverVars
  <2> QED BY <1>0, <2>1, <2>2
<1>2. CASE ServeAllocate(c, r)
  <2>1. toClient' \in [Client -> Seq(Reply \cup Message)]
    BY <1>2, PlainServed
  <2>2. boxes' = Append(boxes, [claims |-> 0, msgs |-> <<>>]) /\ plate' = Len(boxes') /\ UNCHANGED opened
    BY <1>2 DEF ServeAllocate, NewBox
  <2>3. boxes' \in Seq(Box) /\ Len(boxes') = Len(boxes) + 1
    BY <1>0, <2>2, BoxNew
  <2> QED BY <1>0, <2>1, <2>2, <2>3
<1>3. CASE ServeClaim(c, r)
  <2>0. UNCHANGED opened
    BY <1>3 DEF ServeClaim
  <2>1. /\ toClient' \in [Client -> Seq(Reply \cup Message)]
        /\ \/ plate' = Len(boxes) + 1 /\ boxes' = Append(boxes, [claims |-> 1, msgs |-> <<>>])
           \/ plate # 0 /\ plate' = plate /\ boxes' = [boxes EXCEPT ![plate].claims = @ + 1]
           \/ UNCHANGED <<boxes, plate>>
    BY <1>3, ClaimServed
  <2>2. boxes' \in Seq(Box) /\ Len(boxes') \in Nat /\ Len(boxes) <= Len(boxes') /\ plate' \in 0..Len(boxes')
    <3>1. CASE plate' = Len(boxes) + 1 /\ boxes' = Append(boxes, [claims |-> 1, msgs |-> <<>>])
      <4>1. boxes' \in Seq(Box) /\ Len(boxes') = Len(boxes) + 1
        BY <1>0, <3>1, BoxNew
      <4> QED BY <1>0, <3>1, <4>1
    <3>2. CASE plate # 0 /\ plate' = plate /\ boxes' = [boxes EXCEPT ![plate].claims = @ + 1]
      <4>1. plate \in 1..Len(boxes)
        BY <1>0, <3>2
      <4>2. boxes' \in Seq(Box) /\ Len(boxes') = Len(boxes)
        BY <1>0, <3>2, <4>1, BoxClaimed
      <4> QED BY <1>0, <3>2, <4>2
    <3> QED BY <1>0, <2>1, <3>1, <3>2
  <2> QED BY <1>0, <2>0, <2>1, <2>2
<1>4. CASE ServeOpen(c, r)
  <2>1. toClient' \in [Client -> Seq(Reply \cup Message)] /\ mailbox[c] \in 1..Len(boxes) /\ r.arg = mailbox[c]
    BY <1>4, OpenServed
  <2>2. opened' = [opened EXCEPT ![c] = r.arg] /\ UNCHANGED <<boxes, plate>>
    BY <1>4 DEF ServeOpen
  <2> QED BY <1>0, <2>1, <2>2
<1>5. CASE ServeAdd(c, r)
  <2> DEFINE e == [side |-> c, n |-> r.arg]
  <2>1. /\ toClient' \in [Client -> Seq(Reply \cup Message)] /\ e \in Event
        /\ boxes' = [boxes EXCEPT ![opened[c]].msgs = Append(@, e)] /\ UNCHANGED <<plate, opened>>
    BY <1>5, AddServed
  <2> HIDE DEF e
  <2>2. boxes' \in Seq(Box) /\ Len(boxes') = Len(boxes)
    <3>1. CASE opened[c] = 0
      BY <1>0, <2>1, <3>1, BoxMissed
    <3>2. CASE opened[c] # 0
      <4>1. opened[c] \in 1..Len(boxes)
        BY <1>0, <3>2
      <4> QED BY <1>0, <2>1, <4>1, BoxAdded
    <3> QED BY <3>1, <3>2
  <2> QED BY <1>0, <2>1, <2>2
<1> QED BY <1>1, <1>2, <1>3, <1>4, <1>5 DEF Serve, Asked

\* Serve and HangUp.
LEMMA ServeType ==
  ASSUME TypeInv, NEW c \in Client, Serve(c), UNCHANGED cancelled
  PROVE  TypeOK'
<1>0. TypeOK /\ Len(boxes) \in Nat
  BY BoxesServed DEF TypeInv
<1>1. /\ boxes' \in Seq([claims: Nat, msgs: Seq(Event)]) /\ Len(boxes') \in Nat /\ Len(boxes) <= Len(boxes')
      /\ plate' \in 0..Len(boxes') /\ opened' \in [Client -> 0..Len(boxes')]
      /\ toClient' \in [Client -> Seq(Reply \cup Message)]
  BY BoxesServed DEF Box
<1>2. UNCHANGED <<appVars, cmdVars, recvVars, ws, crashed>>
  BY DEF Serve
<1>3. toServer' \in [Client -> Seq(Request)]
  <2>1. toServer' = [toServer EXCEPT ![c] = Tail(toServer[c])] /\ Tail(toServer[c]) \in Seq(Request)
    BY AskedIs
  <2> QED BY <1>0, <2>1 DEF TypeOK
<1>4. mailbox' \in [Client -> 0..Len(boxes')]
  <2>1. 0..Len(boxes) \subseteq 0..Len(boxes')
    BY <1>0, <1>1
  <2>2. mailbox' = mailbox /\ mailbox \in [Client -> 0..Len(boxes)]
    BY <1>0, <1>2 DEF TypeOK, appVars
  <2> QED BY <2>1, <2>2
<1> QED BY <1>0, <1>1, <1>2, <1>3, <1>4 DEF TypeOK, appVars, cmdVars, recvVars

\* The handler of a connection returns.
LEMMA HangUpType ==
  ASSUME TypeInv, NEW c \in Client, HangUp(c), UNCHANGED cancelled
  PROVE  TypeOK'
<1>0. TypeOK
  BY DEF TypeInv
<1>1. UNCHANGED <<appVars, cmdVars, recvVars, ws, toClient, boxes, plate, crashed>>
  BY DEF HangUp
<1>2. opened' \in [Client -> 0..Len(boxes')]
  <2>1. opened' = [opened EXCEPT ![c] = 0]
    BY DEF HangUp
  <2>2. Len(boxes) \in Nat /\ boxes' = boxes
    BY <1>0, <1>1 DEF TypeOK
  <2> QED BY <1>0, <2>1, <2>2 DEF TypeOK
<1>3. toServer' \in [Client -> Seq(Request)]
  BY <1>0 DEF TypeOK, HangUp
<1> QED BY <1>0, <1>1, <1>2, <1>3 DEF TypeOK, appVars, cmdVars, recvVars

\* The end of a context.
LEMMA CancelType ==
  ASSUME TypeInv, NEW c \in Client, Cancel(c)
  PROVE  TypeOK'
<1>1. cancelled' \subseteq Cancels /\ UNCHANGED <<appVars, cmdVars, recvVars, netVars, serverVars, crashed>>
  BY DEF Cancel, TypeInv, TypeOK
<1> QED BY <1>1 DEF TypeInv, TypeOK, appVars, cmdVars, recvVars, netVars, serverVars

\* What a step is.
LEMMA Steps ==
  ASSUME Next
  PROVE  \E c \in Client :
            \/ /\ UNCHANGED cancelled
               /\ \/ \E t \in Thread : t[1] = c /\ (Send(t) \/ Register(t) \/ NotFound(t) \/ Read(t) \/ CutOff(t))
                  \/ Dispatch(c) \/ ReadEnds(c) \/ LoseConnection(c)
                  \/ StartRecv(c) \/ Scan(c) \/ Notified(c) \/ Deliver(c)
                  \/ Connect(c) \/ Meet(c) \/ AddMessage(c) \/ Close(c)
                  \/ Serve(c) \/ HangUp(c)
            \/ Cancel(c)
<1>1. PICK c \in Client : Work(c) \/ Server(c) \/ Optional(c) \/ Cancel(c)
  BY DEF Next
<1>2. App(c) \in Thread /\ Recv(c) \in Thread /\ App(c)[1] = c /\ Recv(c)[1] = c
  BY Threads
<1>3. CASE Work(c)
  <2>1. CASE Run(App(c)) \/ Run(Recv(c))
    <3>1. PICK t \in Thread : t[1] = c /\ Run(t)
      BY <1>2, <2>1, Zenon
    <3> QED BY <1>3, <3>1, Zenon DEF Run, Work
  <2>2. CASE ~(Run(App(c)) \/ Run(Recv(c)))
    BY <1>3, <2>2, Zenon DEF Work, Receive
  <2> QED BY <2>1, <2>2, Zenon
<1>4. CASE Server(c)
  BY <1>4, Zenon DEF Server
<1>5. CASE Optional(c)
  BY <1>5, Zenon DEF Optional
<1>6. CASE Cancel(c)
  BY <1>6, Zenon
<1> QED BY <1>1, <1>3, <1>4, <1>5, <1>6, Zenon

\* Every step leaves the variables of their types.
LEMMA StepType ==
  ASSUME TypeInv, [Next]_vars
  PROVE  TypeOK'
<1>1. CASE Next
  <2>1. PICK c \in Client :
            \/ /\ UNCHANGED cancelled
               /\ \/ \E t \in Thread : t[1] = c /\ (Send(t) \/ Register(t) \/ NotFound(t) \/ Read(t) \/ CutOff(t))
                  \/ Dispatch(c) \/ ReadEnds(c) \/ LoseConnection(c)
                  \/ StartRecv(c) \/ Scan(c) \/ Notified(c) \/ Deliver(c)
                  \/ Connect(c) \/ Meet(c) \/ AddMessage(c) \/ Close(c)
                  \/ Serve(c) \/ HangUp(c)
            \/ Cancel(c)
    BY <1>1, Steps, Zenon
  <2> QED BY <2>1, SendType, WaiterType, ReadType, CutOffType, DispatchType, LossType, ScanType,
             DeliverType, ConnectType, CallType, AddType, ServeType, HangUpType, CancelType, Zenon
<1>2. CASE UNCHANGED vars
  BY <1>2 DEF TypeInv, TypeOK, vars, appVars, cmdVars, recvVars, netVars, serverVars
<1> QED BY <1>1, <1>2

-----------------------------------------------------------------------------
(* What a step of one client leaves alone.                                 *)

\* Client d is as it was.
Same(d) ==
    /\ phase'[d] = phase[d] /\ claimed'[d] = claimed[d] /\ mailbox'[d] = mailbox[d]
    /\ added'[d] = added[d] /\ got'[d] = got[d]
    /\ op'[App(d)] = op[App(d)] /\ op'[Recv(d)] = op[Recv(d)]
    /\ waiter'[App(d)] = waiter[App(d)] /\ waiter'[Recv(d)] = waiter[Recv(d)]
    /\ locked'[d] = locked[d] /\ ws'[d] = ws[d] /\ pending'[d] = pending[d]
    /\ events'[d] = events[d] /\ recv'[d] = recv[d] /\ offset'[d] = offset[d] /\ bell'[d] = bell[d]
    /\ toServer'[d] = toServer[d] /\ opened'[d] = opened[d]

\* A step of client c by itself changes nothing of another client.
LEMMA FailElsewhere ==
  ASSUME TypeOK, NEW t \in Thread, Fail(t), NEW d \in Client, d # t[1]
  PROVE  /\ phase'[d] = phase[d] /\ claimed'[d] = claimed[d] /\ recv'[d] = recv[d] /\ ws'[d] = ws[d]
         /\ op'[App(d)] = op[App(d)] /\ op'[Recv(d)] = op[Recv(d)]
         /\ mailbox'[d] = mailbox[d] /\ added'[d] = added[d] /\ got'[d] = got[d]
<1>0. /\ op \in [Thread -> OpState] /\ phase \in [Client -> Phase] /\ claimed \in [Client -> BOOLEAN]
      /\ mailbox \in [Client -> 0..Len(boxes)]
      /\ recv \in [Client -> {"off", "start", "scan", "offer", "release", "wait"}]
      /\ ws \in [Client -> {"up", "lost", "nil"}]
  BY DEF TypeOK
<1>1. /\ App(d) \in Thread /\ Recv(d) \in Thread /\ App(d) # t /\ Recv(d) # t
      /\ App(t[1]) # App(d) /\ t[1] \in Client
  BY Threads
<1>2. op'[App(d)] = op[App(d)] /\ op'[Recv(d)] = op[Recv(d)]
  BY <1>0, <1>1 DEF Fail, End
<1>3. /\ UNCHANGED phase \/ \E p : phase' = [phase EXCEPT ![t[1]] = p]
      /\ UNCHANGED claimed \/ claimed' = [claimed EXCEPT ![t[1]] = FALSE]
      /\ UNCHANGED recv \/ recv' = [recv EXCEPT ![t[1]] = "scan"]
      /\ UNCHANGED ws \/ ws' = [ws EXCEPT ![t[1]] = "nil"]
      /\ UNCHANGED <<added, got, mailbox>>
  BY DEF Fail, Goes
<1>4. phase'[d] = phase[d] /\ claimed'[d] = claimed[d]
  BY <1>0, <1>3
<1>5. recv'[d] = recv[d] /\ ws'[d] = ws[d]
  BY <1>0, <1>3
<1> QED BY <1>2, <1>3, <1>4, <1>5

\* Nor does the success of a command.
LEMMA SucceedElsewhere ==
  ASSUME TypeOK, NEW t \in Thread, NEW m, Succeed(t, m), NEW d \in Client, d # t[1]
  PROVE  /\ phase'[d] = phase[d] /\ claimed'[d] = claimed[d] /\ recv'[d] = recv[d] /\ ws'[d] = ws[d]
         /\ op'[App(d)] = op[App(d)] /\ op'[Recv(d)] = op[Recv(d)]
         /\ mailbox'[d] = mailbox[d] /\ added'[d] = added[d] /\ got'[d] = got[d]
<1>0. /\ op \in [Thread -> OpState] /\ phase \in [Client -> Phase] /\ claimed \in [Client -> BOOLEAN]
      /\ mailbox \in [Client -> 0..Len(boxes)]
      /\ recv \in [Client -> {"off", "start", "scan", "offer", "release", "wait"}]
      /\ ws \in [Client -> {"up", "lost", "nil"}]
  BY DEF TypeOK
<1>1. App(d) \in Thread /\ Recv(d) \in Thread /\ App(d) # t /\ Recv(d) # t /\ t[1] \in Client
  BY Threads
<1>2. op'[App(d)] = op[App(d)] /\ op'[Recv(d)] = op[Recv(d)]
  <2>1. \E o : op' = [op EXCEPT ![t] = o]
    BY DEF Succeed, Begin, End
  <2> QED BY <1>0, <1>1, <2>1
<1>3. phase'[d] = phase[d]
  <2>1. UNCHANGED phase \/ \E p : phase' = [phase EXCEPT ![t[1]] = p]
    BY DEF Succeed, Goes, appVars
  <2> QED BY <1>0, <2>1
<1>4. claimed'[d] = claimed[d]
  <2>1. UNCHANGED claimed \/ \E b : claimed' = [claimed EXCEPT ![t[1]] = b]
    BY DEF Succeed, appVars
  <2> QED BY <1>0, <2>1
<1>5. recv'[d] = recv[d] /\ ws'[d] = ws[d]
  <2>1. /\ UNCHANGED recv \/ \E r : recv' = [recv EXCEPT ![t[1]] = r]
        /\ UNCHANGED ws \/ ws' = [ws EXCEPT ![t[1]] = "nil"]
    BY DEF Succeed
  <2> QED BY <1>0, <2>1
<1>6. mailbox'[d] = mailbox[d] /\ added'[d] = added[d] /\ got'[d] = got[d]
  <2>1. UNCHANGED <<added, got>> /\ (UNCHANGED mailbox \/ mailbox' = [mailbox EXCEPT ![t[1]] = m.box])
    BY DEF Succeed, appVars
  <2> QED BY <1>0, <2>1
<1> QED BY <1>2, <1>3, <1>4, <1>5, <1>6

\* Nor a step of a thread.
LEMMA ThreadElsewhere ==
  ASSUME TypeOK, NEW t \in Thread, NEW d \in Client, d # t[1],
         Send(t) \/ Register(t) \/ NotFound(t) \/ Read(t) \/ CutOff(t)
  PROVE  Same(d) /\ UNCHANGED <<toClient, serverVars>>
<1>1. App(d) \in Thread /\ Recv(d) \in Thread /\ App(d) # t /\ Recv(d) # t /\ t[1] \in Client
  BY Threads
<1>2. CASE Send(t)
  <2>1. UNCHANGED <<waiter, pending, events, offset, bell, toClient, serverVars>>
    BY <1>2 DEF Send
  <2>2. CASE Fail(t) /\ UNCHANGED <<toServer, locked, crashed>>
    BY <1>1, <2>1, <2>2, FailElsewhere DEF Same, serverVars
  <2>3. CASE /\ \E r : toServer' = [toServer EXCEPT ![t[1]] = r]
             /\ locked' = [locked EXCEPT ![t[1]] = TRUE]
             /\ \E o : op' = [op EXCEPT ![t] = o]
             /\ UNCHANGED <<appVars, recv, ws, crashed>>
    BY <1>1, <2>1, <2>3 DEF Same, serverVars, appVars, TypeOK
  <2>4. CASE UNCHANGED <<appVars, recv, ws, op, toServer, locked>>
    BY <1>1, <2>1, <2>4 DEF Same, serverVars, appVars
  <2> QED BY <1>2, <2>2, <2>3, <2>4 DEF Send
<1>3. CASE Register(t) \/ NotFound(t)
  <2>1. /\ \E w : waiter' = [waiter EXCEPT ![t] = w]
        /\ UNCHANGED <<appVars, op, locked, pending, recvVars, netVars, serverVars>>
    BY <1>3 DEF Register, NotFound
  <2> QED BY <1>1, <2>1 DEF Same, appVars, recvVars, netVars, serverVars, TypeOK
<1>4. CASE Read(t)
  <2>1. /\ UNCHANGED <<events, offset, bell, toServer, toClient, serverVars>>
        /\ \E q : pending' = [pending EXCEPT ![t[1]] = q]
        /\ waiter' = [waiter EXCEPT ![t] = "none"]
    BY <1>4 DEF Read
  <2>2. pending'[d] = pending[d] /\ waiter'[App(d)] = waiter[App(d)] /\ waiter'[Recv(d)] = waiter[Recv(d)]
    BY <1>1, <2>1 DEF TypeOK
  <2>3. UNCHANGED locked \/ locked' = [locked EXCEPT ![t[1]] = FALSE]
    BY <1>4 DEF Read
  <2>4. locked'[d] = locked[d]
    BY <1>1, <2>3 DEF TypeOK
  <2>5. \/ Fail(t) \/ \E m : Succeed(t, m)
        \/ (\E o : op' = [op EXCEPT ![t] = o]) /\ UNCHANGED <<appVars, recv, ws>>
    BY <1>4 DEF Read
  <2>6. /\ phase'[d] = phase[d] /\ claimed'[d] = claimed[d] /\ recv'[d] = recv[d] /\ ws'[d] = ws[d]
        /\ op'[App(d)] = op[App(d)] /\ op'[Recv(d)] = op[Recv(d)]
        /\ mailbox'[d] = mailbox[d] /\ added'[d] = added[d] /\ got'[d] = got[d]
    <3>1. CASE (\E o : op' = [op EXCEPT ![t] = o]) /\ UNCHANGED <<appVars, recv, ws>>
      BY <1>1, <3>1 DEF TypeOK, appVars
    <3> QED BY <1>1, <2>5, <3>1, FailElsewhere, SucceedElsewhere
  <2> QED BY <2>1, <2>2, <2>4, <2>6 DEF Same, serverVars
<1>5. CASE CutOff(t)
  <2>1. /\ UNCHANGED <<pending, events, offset, bell, toServer, toClient, serverVars>>
        /\ waiter' = [waiter EXCEPT ![t] = "none"] /\ Fail(t)
        /\ UNCHANGED locked \/ locked' = [locked EXCEPT ![t[1]] = FALSE]
    BY <1>5 DEF CutOff
  <2>2. /\ waiter'[App(d)] = waiter[App(d)] /\ waiter'[Recv(d)] = waiter[Recv(d)]
        /\ locked'[d] = locked[d]
    BY <1>1, <2>1 DEF TypeOK
  <2> QED BY <1>1, <2>1, <2>2, FailElsewhere DEF Same, serverVars
<1> QED BY <1>2, <1>3, <1>4, <1>5

\* Nor the other steps of a client.
LEMMA ClientElsewhere ==
  ASSUME TypeOK, NEW c \in Client, NEW d \in Client, d # c,
         \/ Dispatch(c) \/ ReadEnds(c) \/ LoseConnection(c)
         \/ StartRecv(c) \/ Scan(c) \/ Notified(c) \/ Deliver(c)
         \/ Connect(c) \/ Meet(c) \/ AddMessage(c) \/ Close(c)
  PROVE  Same(d) /\ UNCHANGED serverVars /\ toClient'[d] = toClient[d]
<1>1. /\ App(d) \in Thread /\ Recv(d) \in Thread /\ App(d)[1] # c /\ Recv(d)[1] # c
      /\ App(d) # App(c) /\ Recv(d) # App(c) /\ App(d) # Recv(c) /\ Recv(d) # Recv(c)
      /\ App(c) \in Thread /\ Recv(c) \in Thread
  BY Threads
<1>2. CASE Dispatch(c)
  <2>1. /\ UNCHANGED <<appVars, op, locked, recv, offset, ws, toServer, serverVars>>
        /\ toClient' = [toClient EXCEPT ![c] = Tail(toClient[c])]
        /\ UNCHANGED events \/ \E q : events' = [events EXCEPT ![c] = q]
        /\ UNCHANGED bell \/ \E q : bell' = [bell EXCEPT ![c] = q]
        /\ UNCHANGED pending \/ \E q : pending' = [pending EXCEPT ![c] = q]
        /\ \/ UNCHANGED waiter
           \/ waiter' = [t \in Thread |-> IF t[1] = c /\ waiter[t] # "none" THEN "full" ELSE waiter[t]]
    BY <1>2 DEF Dispatch
  <2>0. /\ events \in [Client -> Seq(Event)] /\ bell \in [Client -> {"none", "empty", "full"}]
        /\ pending \in [Client -> Seq(Reply)] /\ toClient \in [Client -> Seq(Reply \cup Message)]
    BY DEF TypeOK
  <2>2. events'[d] = events[d] /\ bell'[d] = bell[d] /\ pending'[d] = pending[d] /\ toClient'[d] = toClient[d]
    BY <2>0, <2>1
  <2>3. waiter'[App(d)] = waiter[App(d)] /\ waiter'[Recv(d)] = waiter[Recv(d)]
    BY <1>1, <2>1
  <2> QED BY <2>1, <2>2, <2>3 DEF Same, appVars, serverVars
<1>3. CASE ReadEnds(c) \/ LoseConnection(c)
  <2>1. /\ ws' = [ws EXCEPT ![c] = "lost"]
        /\ UNCHANGED <<appVars, cmdVars, recvVars, toServer, toClient, serverVars>>
    BY <1>3 DEF ReadEnds, LoseConnection
  <2> QED BY <2>1 DEF Same, appVars, cmdVars, recvVars, serverVars, TypeOK
<1>4. CASE StartRecv(c) \/ Scan(c) \/ Notified(c)
  <2>1. /\ UNCHANGED <<appVars, cmdVars, events, netVars, serverVars>>
        /\ \E v : recv' = [recv EXCEPT ![c] = v]
        /\ UNCHANGED offset \/ \E v : offset' = [offset EXCEPT ![c] = v]
        /\ UNCHANGED bell \/ \E v : bell' = [bell EXCEPT ![c] = v]
    BY <1>4 DEF StartRecv, Scan, Notified
  <2> QED BY <2>1 DEF Same, appVars, cmdVars, netVars, serverVars, TypeOK
<1>5. CASE Deliver(c)
  <2>1. /\ UNCHANGED <<phase, added, claimed, mailbox, waiter, locked, pending, events, offset,
                       bell, netVars, serverVars>>
        /\ \E v : recv' = [recv EXCEPT ![c] = v]
        /\ \E v : got' = [got EXCEPT ![c] = v]
        /\ UNCHANGED op \/ \E v : op' = [op EXCEPT ![Recv(c)] = v]
    BY <1>5 DEF Deliver, Begin
  <2> QED BY <1>1, <2>1 DEF Same, netVars, serverVars, TypeOK
<1>6. CASE Connect(c)
  <2>1. /\ UNCHANGED <<added, got, claimed, mailbox, waiter, locked, pending, recvVars, toServer, serverVars>>
        /\ \E v : phase' = [phase EXCEPT ![c] = v]
        /\ \E v : op' = [op EXCEPT ![App(c)] = v]
        /\ \E v : ws' = [ws EXCEPT ![c] = v]
        /\ \E v : toClient' = [toClient EXCEPT ![c] = v]
    BY <1>6 DEF Connect, Goes
  <2> QED BY <1>1, <2>1 DEF Same, recvVars, serverVars, TypeOK
<1>7. CASE Meet(c) \/ Close(c) \/ AddMessage(c)
  <2>1. /\ UNCHANGED <<got, claimed, mailbox, waiter, locked, pending, recvVars, netVars, serverVars>>
        /\ UNCHANGED phase \/ \E v : phase' = [phase EXCEPT ![c] = v]
        /\ UNCHANGED added \/ \E v : added' = [added EXCEPT ![c] = v]
        /\ \E v : op' = [op EXCEPT ![App(c)] = v]
    BY <1>7 DEF Meet, Close, AddMessage, Goes, Begin
  <2> QED BY <1>1, <2>1 DEF Same, recvVars, netVars, serverVars, TypeOK
<1> QED BY <1>2, <1>3, <1>4, <1>5, <1>6, <1>7

\* The server changes nothing of another client but what is on its way to it.
LEMMA ServerElsewhere ==
  ASSUME TypeInv, NEW c \in Client, NEW d \in Client, d # c, Serve(c) \/ HangUp(c)
  PROVE  Same(d)
<1>0. TypeOK
  BY DEF TypeInv
<1>1. /\ UNCHANGED <<appVars, cmdVars, recvVars, ws>>
      /\ \E v : toServer' = [toServer EXCEPT ![c] = v]
  BY SMTT(20) DEF Serve, HangUp
<1>2. UNCHANGED opened \/ \E v : opened' = [opened EXCEPT ![c] = v]
  BY DEF Serve, HangUp, ServeBind, ServeAllocate, ServeClaim, ServeOpen, ServeAdd, ServeRelease, ServeClose, serverVars
<1>3. toServer'[d] = toServer[d] /\ opened'[d] = opened[d]
  <2>1. toServer \in [Client -> Seq(Request)] /\ opened \in [Client -> 0..Len(boxes)]
    BY <1>0 DEF TypeOK
  <2> QED BY <1>1, <1>2, <2>1
<1> QED BY <1>1, <1>3 DEF Same, appVars, cmdVars, recvVars

\* What a request has the server send: to its client the ack, and then the answer or
\* messages, to others messages.
LEMMA ServeSends ==
  ASSUME TypeInv, NEW c \in Client, Serve(c)
  PROVE  \E f : /\ Sends(f)
                /\ \A d \in Client \ {c} : \A k \in 1..Len(f[d]) : f[d][k].type = "message"
                /\ Len(f[c]) \in Nat \ {0} /\ f[c][1] = Ack(Asked(c))
                /\ \A k \in 2..Len(f[c]) :
                      \/ f[c][k].type \in {"allocated", "released", "closed", "error", "message"}
                      \/ /\ f[c][k] = [type |-> "claimed", box |-> plate'] /\ plate' \in 1..Len(boxes')
                         /\ Asked(c).cmd = "claim"
<1> DEFINE r == Asked(c)
<1> DEFINE Good(f) ==
      /\ Sends(f)
      /\ \A d \in Client \ {c} : \A k \in 1..Len(f[d]) : f[d][k].type = "message"
      /\ Len(f[c]) \in Nat \ {0} /\ f[c][1] = Ack(r)
      /\ \A k \in 2..Len(f[c]) :
            \/ f[c][k].type \in {"allocated", "released", "closed", "error", "message"}
            \/ /\ f[c][k] = [type |-> "claimed", box |-> plate'] /\ plate' \in 1..Len(boxes')
               /\ r.cmd = "claim"
<1>0. \A ms : /\ Answers(c, ms)[c] = ms
              /\ \A d \in Client \ {c} : Answers(c, ms)[d] = <<>>
  BY DEF Answers
<1>1. CASE ServeBind(c, r) \/ ServeAllocate(c, r) \/ ServeRelease(c, r) \/ ServeClose(c, r)
  <2>1. PICK ms \in Seq(Reply \cup Message) :
            /\ Sends(Answers(c, ms)) /\ Len(ms) \in 1..2 /\ ms[1] = Ack(r)
            /\ Len(ms) = 2 => ms[2].type \in {"allocated", "released", "closed"}
    BY <1>1, PlainServed
  <2>2. \A k \in 2..Len(ms) : ms[k].type \in {"allocated", "released", "closed", "error", "message"}
    BY <2>1
  <2> HIDE DEF r
  <2>3. Good(Answers(c, ms))
    BY <1>0, <2>1, <2>2
  <2> QED BY <2>3 DEF r
<1>2. CASE ServeClaim(c, r)
  <2>1. PICK ms \in Seq(Reply \cup Message) :
            /\ Sends(Answers(c, ms)) /\ Len(ms) = 2 /\ ms[1] = Ack(r)
            /\ \/ /\ ms[2] = [type |-> "claimed", box |-> plate']
                  /\ \/ plate = 0 /\ plate' = Len(boxes) + 1
                     \/ plate # 0 /\ plate' = plate
               \/ ms[2] = Plain("error")
    BY <1>2, ClaimServed
  <2>2. r.cmd = "claim" /\ Plain("error").type = "error"
    BY <1>2 DEF ServeClaim, Plain
  <2>3. plate \in Nat /\ Len(boxes) \in Nat /\ Len(boxes') \in Nat /\ plate' \in 0..Len(boxes')
    <3>1. TypeOK
      BY DEF TypeInv
    <3> QED BY <3>1, BoxesServed DEF TypeOK
  <2>4. ms[2] = Plain("error") \/ (ms[2] = [type |-> "claimed", box |-> plate'] /\ plate' \in 1..Len(boxes'))
    BY <2>1, <2>3
  <2>5. \A k \in 2..Len(ms) : k = 2
    BY <2>1
  <2> HIDE DEF r
  <2>6. Good(Answers(c, ms))
    BY <1>0, <2>1, <2>2, <2>4, <2>5
  <2> QED BY <2>6 DEF r
<1>3. CASE ServeOpen(c, r)
  <2> DEFINE m == boxes[mailbox[c]].msgs
  <2>1. PICK ms \in Seq(Reply \cup Message) :
            /\ Sends(Answers(c, ms)) /\ Len(ms) = Len(m) + 1 /\ ms[1] = Ack(r)
            /\ \A k \in 1..Len(m) : ms[1 + k] = MessageOf(m[k])
    BY <1>3, OpenBrings
  <2>2. m \in Seq(Event)
    BY <1>3, OpenServed, RecordedIs DEF TypeInv
  <2> HIDE DEF m
  <2>3. \A k \in 2..Len(ms) : ms[k].type = "message"
    <3> SUFFICES ASSUME NEW k \in 2..Len(ms) PROVE ms[k].type = "message"
      OBVIOUS
    <3>0. Len(m) \in Nat /\ Len(ms) = Len(m) + 1
      BY <2>1, <2>2
    <3>1. k - 1 \in 1..Len(m) /\ 1 + (k - 1) = k
      BY <3>0
    <3>2. m[k - 1] \in Event
      BY <2>2, <3>1
    <3>3. ms[k] = MessageOf(m[k - 1])
      BY <2>1, <3>1
    <3> QED BY <3>2, <3>3, Kinds
  <2>4. Len(ms) \in Nat \ {0}
    BY <2>1, <2>2
  <2> HIDE DEF r
  <2>5. Good(Answers(c, ms))
    BY <1>0, <2>1, <2>3, <2>4
  <2> QED BY <2>5 DEF r
<1>4. CASE ServeAdd(c, r)
  <2> DEFINE e == [side |-> c, n |-> r.arg]
  <2>1. PICK f : /\ Sends(f)
                 /\ \A d \in Client \ {c} :
                      IF opened[d] = opened[c] THEN Len(f[d]) = 1 /\ f[d][1] = MessageOf(e)
                      ELSE Len(f[d]) = 0
                 /\ Len(f[c]) = 2 /\ f[c][1] = Ack(r) /\ f[c][2] = MessageOf(e)
    BY <1>4, AddServed
  <2>2. MessageOf(e).type = "message"
    BY <1>4, AddServed, Kinds
  <2> HIDE DEF r, e
  <2>3. \A d \in Client \ {c} : \A k \in 1..Len(f[d]) : f[d][k].type = "message"
    BY <2>1, <2>2
  <2>4. \A k \in 2..Len(f[c]) : f[c][k].type = "message"
    BY <2>1, <2>2
  <2>5. Good(f)
    BY <2>1, <2>3, <2>4
  <2> QED BY <2>5 DEF r
<1> QED BY <1>1, <1>2, <1>3, <1>4 DEF Serve, Asked

\* What is sent comes after what was on its way.
Hears(d, q) == \E v : v = toClient'[d] /\ Joined(toClient[d], q, v)

\* What is sent comes after what was on its way, if the connection stands.
LEMMA SendsJoins ==
  ASSUME TypeOK, NEW f, Sends(f), NEW d \in Client
  PROVE  /\ ws[d] # "up" => toClient'[d] = toClient[d]
         /\ ws[d] = "up" => Hears(d, f[d])
<1> DEFINE S == Reply \cup Message
<1>1. toClient[d] \in Seq(S) /\ f[d] \in Seq(S)
  BY DEF TypeOK, Sends
<1>2. toClient'[d] = IF ws[d] = "up" THEN toClient[d] \o f[d] ELSE toClient[d]
  BY DEF Sends
<1> HIDE DEF S
<1>3. Joined(toClient[d], f[d], toClient[d] \o f[d])
  BY <1>1, Joining, Zenon
<1> DEFINE v == toClient[d] \o f[d]
<1> HIDE DEF v
<1>4. ws[d] = "up" => toClient'[d] = v /\ Joined(toClient[d], f[d], v)
  BY <1>2, <1>3 DEF v
<1> QED BY <1>2, <1>4 DEF Hears

\* The elements of joined sequences.
LEMMA JoinedElements ==
  ASSUME NEW p, NEW q, NEW v, Joined(p, q, v)
  PROVE  \A k \in 1..Len(v) : \/ k \in 1..Len(p) /\ v[k] = p[k]
                              \/ \E j \in 1..Len(q) : k = Len(p) + j /\ v[k] = q[j]
<1> SUFFICES ASSUME NEW k \in 1..Len(v)
             PROVE  \/ k \in 1..Len(p) /\ v[k] = p[k]
                    \/ \E j \in 1..Len(q) : k = Len(p) + j /\ v[k] = q[j]
  OBVIOUS
<1>1. CASE k <= Len(p)
  BY <1>1 DEF Joined
<1>2. CASE ~(k <= Len(p))
  <2>1. k - Len(p) \in 1..Len(q) /\ k = Len(p) + (k - Len(p))
    BY <1>2 DEF Joined
  <2> QED BY <2>1 DEF Joined
<1> QED BY <1>1, <1>2

\* Each of v's elements is one of q's.
Within(v, q) == \A k \in 1..Len(v) : \E j \in 1..Len(q) : v[k] = q[j]

\* So it is with what is left.
LEMMA WithoutFrom ==
  ASSUME NEW q, NEW i, NEW v, Without(q, i, v)
  PROVE  Within(v, q)
BY WithoutElements DEF Within

\* Each of v's elements is one of p's or of q's.
Mixed(p, q, v) == \A k \in 1..Len(v) : \/ \E j \in 1..Len(p) : v[k] = p[j]
                                       \/ \E j \in 1..Len(q) : v[k] = q[j]

\* So it is when q comes after p.
LEMMA JoinedFrom ==
  ASSUME NEW p, NEW q, NEW v, Joined(p, q, v)
  PROVE  Mixed(p, q, v)
BY JoinedElements DEF Mixed

-----------------------------------------------------------------------------
(* What holds of each client by itself.                                    *)

\* TypeInv, for one client.
Mine(c) == Calling(c) /\ Claiming(c) /\ Wired(c) /\ Requests(c) /\ Replies(c)
           /\ Waiting(App(c)) /\ Waiting(Recv(c))

\* TypeInv holds when each client is in order.
LEMMA TypeInvIs == TypeInv <=> TypeOK /\ \A c \in Client : Mine(c)
<1>1. ASSUME TypeInv PROVE TypeOK /\ \A c \in Client : Mine(c)
  BY <1>1, Threads DEF TypeInv, Mine
<1>2. ASSUME TypeOK, \A c \in Client : Mine(c) PROVE TypeInv
  <2>1. \A t \in Thread : Waiting(t)
    <3> SUFFICES ASSUME NEW t \in Thread PROVE Waiting(t)
      OBVIOUS
    <3>1. t[1] \in Client /\ (t = App(t[1]) \/ t = Recv(t[1]))
      BY Threads
    <3>2. Waiting(App(t[1])) /\ Waiting(Recv(t[1]))
      BY <1>2, <3>1 DEF Mine
    <3> QED BY <3>1, <3>2
  <2> QED BY <1>2, <2>1 DEF TypeInv, Mine
<1> QED BY <1>1, <1>2

\* It stays when others go on.
LEMMA SameMine ==
  ASSUME TypeInv, NEW d \in Client, Same(d), Len(boxes) \in Nat, Len(boxes') \in Nat, Len(boxes) <= Len(boxes'),
         \/ toClient'[d] = toClient[d]
         \/ /\ ws[d] = "up"
            /\ \E q : Hears(d, q) /\ \A k \in 1..Len(q) : q[k].type = "message"
  PROVE  Mine(d)'
<1>0. TypeOK /\ Mine(d)
  BY TypeInvIs
<1>1. Calling(d)'
  BY <1>0 DEF Mine, Same, Calling
<1>2. Claiming(d)'
  BY <1>0 DEF Mine, Same, Claiming, Early
<1>3. Wired(d)'
  BY <1>0 DEF Mine, Same, Wired
<1>4. Requests(d)'
  BY <1>0 DEF Mine, Same, Requests
<1>5. Replies(d)'
  <2>1. BoxIn(pending[d])'
    BY <1>0 DEF Mine, Same, Replies, BoxIn
  <2>2. BoxIn(toClient[d])'
    <3>1. CASE toClient'[d] = toClient[d]
      BY <1>0, <3>1 DEF Mine, Replies, BoxIn
    <3>2. CASE \E q : Hears(d, q) /\ \A k \in 1..Len(q) : q[k].type = "message"
      <4>1. PICK q, v : /\ v = toClient'[d] /\ Joined(toClient[d], q, v)
                        /\ \A k \in 1..Len(q) : q[k].type = "message"
        BY <3>2 DEF Hears
      <4>2. ASSUME NEW k \in 1..Len(toClient'[d]), toClient'[d][k].type = "claimed"
            PROVE  toClient'[d][k].box \in 1..Len(boxes')
        <5>1. Mixed(toClient[d], q, v)
          BY <4>1, JoinedFrom
        <5>2. \E j \in 1..Len(toClient[d]) : toClient'[d][k] = toClient[d][j]
          BY <4>1, <4>2, <5>1 DEF Mixed
        <5> QED BY <1>0, <4>2, <5>2 DEF Mine, Replies, BoxIn
      <4> QED BY <4>2 DEF BoxIn
    <3> QED BY <3>1, <3>2
  <2> QED BY <2>1, <2>2 DEF Replies
<1>6. Waiting(App(d))' /\ Waiting(Recv(d))'
  BY <1>0 DEF Mine, Same, Waiting
<1> QED BY <1>1, <1>2, <1>3, <1>4, <1>5, <1>6 DEF Mine

\* What the success of a command of the application does to its client.
Succeeded(c, m) ==
    \/ /\ op[App(c)].cmd = "connect" /\ op'[App(c)] = [at |-> "lock", cmd |-> "bind"]
       /\ phase'[c] = phase[c] /\ claimed'[c] = claimed[c] /\ mailbox'[c] = mailbox[c]
       /\ recv'[c] = recv[c] /\ ws'[c] = ws[c]
    \/ /\ op[App(c)].cmd = "bind" /\ op'[App(c)] = Idle
       /\ phase'[c] = "bound" /\ claimed'[c] = claimed[c] /\ mailbox'[c] = mailbox[c]
       /\ recv'[c] = recv[c] /\ ws'[c] = ws[c]
    \/ /\ op[App(c)].cmd = "allocate" /\ op'[App(c)] = [at |-> "lock", cmd |-> "claim"]
       /\ phase'[c] = phase[c] /\ claimed'[c] = claimed[c] /\ mailbox'[c] = mailbox[c]
       /\ recv'[c] = recv[c] /\ ws'[c] = ws[c]
    \/ /\ op[App(c)].cmd = "claim" /\ op'[App(c)] = [at |-> "lock", cmd |-> "open"]
       /\ phase'[c] = phase[c] /\ claimed'[c] = TRUE /\ mailbox'[c] = m.box
       /\ recv'[c] = recv[c] /\ ws'[c] = ws[c]
    \/ /\ op[App(c)].cmd = "open" /\ op'[App(c)] = Idle
       /\ phase'[c] = "talk" /\ claimed'[c] = claimed[c] /\ mailbox'[c] = mailbox[c]
       /\ recv'[c] = "start" /\ ws'[c] = ws[c]
    \/ /\ op[App(c)].cmd = "add" /\ op'[App(c)] = Idle
       /\ phase'[c] = phase[c] /\ claimed'[c] = claimed[c] /\ mailbox'[c] = mailbox[c]
       /\ recv'[c] = recv[c] /\ ws'[c] = ws[c]
    \/ /\ op[App(c)].cmd = "close" /\ op'[App(c)] = Idle
       /\ phase'[c] = "closed" /\ claimed'[c] = claimed[c] /\ mailbox'[c] = mailbox[c]
       /\ recv'[c] = recv[c] /\ ws'[c] = "nil"

\* The application's command has succeeded.
LEMMA SucceedApp ==
  ASSUME TypeOK, NEW c \in Client, NEW m, Succeed(App(c), m), op[App(c)].cmd # "release"
  PROVE  /\ op'[Recv(c)] = op[Recv(c)] /\ added'[c] = added[c] /\ got'[c] = got[c]
         /\ Succeeded(c, m)
<1>1. App(c) \in Thread /\ Recv(c) \in Thread /\ App(c)[1] = c /\ App(c) # Recv(c)
  BY Threads
<1>2. /\ op \in [Thread -> OpState] /\ phase \in [Client -> Phase] /\ claimed \in [Client -> BOOLEAN]
      /\ mailbox \in [Client -> 0..Len(boxes)]
      /\ recv \in [Client -> {"off", "start", "scan", "offer", "release", "wait"}]
      /\ ws \in [Client -> {"up", "lost", "nil"}]
  BY DEF TypeOK
<1>3. \E o : op' = [op EXCEPT ![App(c)] = o]
  BY DEF Succeed, Begin, End
<1>4. op'[Recv(c)] = op[Recv(c)] /\ added'[c] = added[c] /\ got'[c] = got[c]
  BY <1>1, <1>2, <1>3 DEF Succeed, appVars
<1>5. Succeeded(c, m)
  BY <1>1, <1>2 DEF Succeed, Succeeded, Begin, End, Goes, appVars
<1> QED BY <1>4, <1>5

\* And what its failure does.
LEMMA FailApp ==
  ASSUME TypeOK, NEW c \in Client, Fail(App(c))
  PROVE  /\ op'[Recv(c)] = op[Recv(c)] /\ added'[c] = added[c] /\ got'[c] = got[c]
         /\ op'[App(c)] = Idle /\ mailbox'[c] = mailbox[c]
         /\ \/ op[App(c)].cmd = "release"
            \/ /\ op[App(c)].cmd = "close" /\ phase'[c] = "closed" /\ ws'[c] = "nil"
               /\ claimed'[c] = claimed[c] /\ recv'[c] = recv[c]
            \/ /\ op[App(c)].cmd # "close" /\ phase'[c] = "failed" /\ ws'[c] = ws[c]
               /\ claimed'[c] = claimed[c] /\ recv'[c] = recv[c]
<1>1. App(c) \in Thread /\ Recv(c) \in Thread /\ App(c)[1] = c /\ App(c) # Recv(c)
  BY Threads
<1>2. /\ op \in [Thread -> OpState] /\ phase \in [Client -> Phase]
      /\ ws \in [Client -> {"up", "lost", "nil"}]
  BY DEF TypeOK
<1>3. op'[Recv(c)] = op[Recv(c)] /\ op'[App(c)] = Idle
  BY <1>1, <1>2 DEF Fail, End
<1> QED BY <1>1, <1>2, <1>3 DEF Fail, Goes

\* A release ends the same way when it succeeds and when it fails.
LEMMA ReleaseEnds ==
  ASSUME TypeOK, NEW c \in Client, op[Recv(c)].cmd = "release", Fail(Recv(c)) \/ \E m : Succeed(Recv(c), m)
  PROVE  /\ op'[App(c)] = op[App(c)] /\ added'[c] = added[c] /\ got'[c] = got[c]
         /\ op'[Recv(c)] = Idle /\ mailbox'[c] = mailbox[c] /\ phase'[c] = phase[c] /\ ws'[c] = ws[c]
         /\ claimed'[c] = FALSE /\ recv'[c] = "scan"
<1>1. App(c) \in Thread /\ Recv(c) \in Thread /\ Recv(c)[1] = c /\ App(c) # Recv(c)
  BY Threads
<1>2. /\ op \in [Thread -> OpState] /\ claimed \in [Client -> BOOLEAN]
      /\ recv \in [Client -> {"off", "start", "scan", "offer", "release", "wait"}]
  BY DEF TypeOK
<1>3. /\ op' = [op EXCEPT ![Recv(c)] = Idle]
      /\ claimed' = [claimed EXCEPT ![c] = FALSE] /\ recv' = [recv EXCEPT ![c] = "scan"]
      /\ UNCHANGED <<phase, ws, added, got, mailbox>>
  BY <1>1 DEF Fail, Succeed, End
<1> QED BY <1>1, <1>2, <1>3

\* A command that ends leaves its client in order.
LEMMA Ending ==
  ASSUME TypeInv, NEW c \in Client, NEW t \in {App(c), Recv(c)}, op[t] # Idle, NEW m,
         Fail(t) \/ (Succeed(t, m) /\ (op[t].cmd = "claim" => m.box \in 1..Len(boxes))),
         events'[c] = events[c], offset'[c] = offset[c]
  PROVE  /\ Calling(c)' /\ Claiming(c)' /\ phase'[c] # "off"
         /\ ws'[c] = "nil" <=> phase'[c] \in {"off", "closed"}
         /\ op'[t].at \in {"idle", "lock"}
         /\ \A s \in {App(c), Recv(c)} : s # t => op'[s] = op[s]
         /\ mailbox[c] # 0 => mailbox'[c] = mailbox[c]
<1>0. TypeOK /\ Calling(c) /\ Claiming(c) /\ Wired(c) /\ App(c) # Recv(c)
  BY TypeInvIs, Threads DEF Mine
<1>1. CASE t = App(c)
  <2>1. op[t].cmd \in AppCmds(phase[c]) /\ op[t].cmd # "release"
    BY <1>0, <1>1 DEF Calling, AppCmds
  <2>2. CASE Fail(t)
    <3>1. /\ op'[Recv(c)] = op[Recv(c)] /\ got'[c] = got[c] /\ op'[App(c)] = Idle /\ mailbox'[c] = mailbox[c]
          /\ added'[c] = added[c]
          /\ claimed'[c] = claimed[c] /\ recv'[c] = recv[c]
          /\ \/ phase'[c] = "closed" /\ ws'[c] = "nil"
             \/ op[App(c)].cmd # "close" /\ phase'[c] = "failed" /\ ws'[c] = ws[c]
      BY <1>0, <1>1, <2>1, <2>2, FailApp
    <3>2. phase[c] # "off" /\ (op[App(c)].cmd # "close" => phase[c] # "closed")
      BY <1>1, <2>1 DEF AppCmds
    <3>3. Calling(c)'
      BY <1>0, <3>1 DEF Calling
    <3>4. Claiming(c)'
      BY <1>0, <3>1 DEF Claiming, Early
    <3>5. ws'[c] = "nil" <=> phase'[c] \in {"off", "closed"}
      BY <1>0, <3>1, <3>2 DEF Wired
    <3> QED BY <1>0, <1>1, <3>1, <3>3, <3>4, <3>5, OpStates
  <2>3. CASE Succeed(t, m) /\ (op[t].cmd = "claim" => m.box \in 1..Len(boxes))
    <3>1. Succeed(App(c), m) /\ op[App(c)].cmd \in AppCmds(phase[c]) /\ op[App(c)].cmd # "release"
          /\ (op[App(c)].cmd = "claim" => m.box \in 1..Len(boxes))
      BY <1>1, <2>1, <2>3
    <3>2. op'[Recv(c)] = op[Recv(c)] /\ got'[c] = got[c] /\ added'[c] = added[c] /\ Succeeded(c, m)
      BY <1>0, <3>1, SucceedApp
    <3>3. CASE /\ op[App(c)].cmd = "connect" /\ op'[App(c)] = [at |-> "lock", cmd |-> "bind"]
               /\ phase'[c] = phase[c] /\ claimed'[c] = claimed[c] /\ mailbox'[c] = mailbox[c]
               /\ recv'[c] = recv[c] /\ ws'[c] = ws[c]
      <4>1. phase[c] = "connect"
        BY <3>1, <3>3 DEF AppCmds
      <4> QED BY <1>0, <1>1, <3>2, <3>3, <4>1, OpStates DEF Calling, AppCmds, Claiming, Early, Wired
    <3>4. CASE /\ op[App(c)].cmd = "bind" /\ op'[App(c)] = Idle
               /\ phase'[c] = "bound" /\ claimed'[c] = claimed[c] /\ mailbox'[c] = mailbox[c]
               /\ recv'[c] = recv[c] /\ ws'[c] = ws[c]
      <4>1. phase[c] = "connect"
        BY <3>1, <3>4 DEF AppCmds
      <4> QED BY <1>0, <1>1, <3>2, <3>4, <4>1, OpStates DEF Calling, AppCmds, Claiming, Early, Wired
    <3>5. CASE /\ op[App(c)].cmd = "allocate" /\ op'[App(c)] = [at |-> "lock", cmd |-> "claim"]
               /\ phase'[c] = phase[c] /\ claimed'[c] = claimed[c] /\ mailbox'[c] = mailbox[c]
               /\ recv'[c] = recv[c] /\ ws'[c] = ws[c]
      <4>1. phase[c] = "meet"
        BY <3>1, <3>5 DEF AppCmds
      <4> QED BY <1>0, <1>1, <3>2, <3>5, <4>1, OpStates DEF Calling, AppCmds, Claiming, Early, Wired
    <3>6. CASE /\ op[App(c)].cmd = "claim" /\ op'[App(c)] = [at |-> "lock", cmd |-> "open"]
               /\ phase'[c] = phase[c] /\ claimed'[c] = TRUE /\ mailbox'[c] = m.box
               /\ recv'[c] = recv[c] /\ ws'[c] = ws[c]
      <4>1. phase[c] = "meet" /\ m.box # 0 /\ mailbox[c] = 0
        <5>1. phase[c] = "meet"
          BY <3>1, <3>6 DEF AppCmds
        <5> QED BY <1>0, <3>1, <3>6, <5>1 DEF Claiming, Early
      <4> QED BY <1>0, <1>1, <3>2, <3>6, <4>1, OpStates DEF Calling, AppCmds, Claiming, Early, Wired
    <3>7. CASE /\ op[App(c)].cmd = "open" /\ op'[App(c)] = Idle
               /\ phase'[c] = "talk" /\ claimed'[c] = claimed[c] /\ mailbox'[c] = mailbox[c]
               /\ recv'[c] = "start" /\ ws'[c] = ws[c]
      <4>1. phase[c] = "meet"
        BY <3>1, <3>7 DEF AppCmds
      <4> QED BY <1>0, <1>1, <3>2, <3>7, <4>1, OpStates DEF Calling, AppCmds, Claiming, Early, Wired
    <3>8. CASE /\ op[App(c)].cmd = "add" /\ op'[App(c)] = Idle
               /\ phase'[c] = phase[c] /\ claimed'[c] = claimed[c] /\ mailbox'[c] = mailbox[c]
               /\ recv'[c] = recv[c] /\ ws'[c] = ws[c]
      <4>1. phase[c] = "talk"
        BY <3>1, <3>8 DEF AppCmds
      <4> QED BY <1>0, <1>1, <3>2, <3>8, <4>1, OpStates DEF Calling, AppCmds, Claiming, Early, Wired
    <3>9. CASE /\ op[App(c)].cmd = "close" /\ op'[App(c)] = Idle
               /\ phase'[c] = "closed" /\ claimed'[c] = claimed[c] /\ mailbox'[c] = mailbox[c]
               /\ recv'[c] = recv[c] /\ ws'[c] = "nil"
      <4>1. phase[c] = "closing"
        BY <3>1, <3>9 DEF AppCmds
      <4> QED BY <1>0, <1>1, <3>2, <3>9, <4>1, OpStates DEF Calling, AppCmds, Claiming, Early, Wired
    <3> QED BY <3>2, <3>3, <3>4, <3>5, <3>6, <3>7, <3>8, <3>9, Zenon DEF Succeeded
  <2> QED BY <2>2, <2>3
<1>2. CASE t = Recv(c)
  <2>1. op[Recv(c)] # Idle /\ op[Recv(c)].cmd = "release" /\ recv[c] = "release"
    BY <1>0, <1>2 DEF Calling
  <2>2. /\ op'[App(c)] = op[App(c)] /\ got'[c] = got[c] /\ added'[c] = added[c]
        /\ op'[Recv(c)] = Idle /\ mailbox'[c] = mailbox[c] /\ phase'[c] = phase[c] /\ ws'[c] = ws[c]
        /\ claimed'[c] = FALSE /\ recv'[c] = "scan"
    BY <1>0, <1>2, <2>1, ReleaseEnds
  <2>3. phase[c] # "off"
    BY <1>0, <2>1 DEF Claiming
  <2>4. Calling(c)'
    BY <1>0, <2>2 DEF Calling
  <2>5. Claiming(c)'
    BY <1>0, <2>1, <2>2 DEF Claiming, Early
  <2> QED BY <1>0, <1>2, <2>2, <2>3, <2>4, <2>5, OpStates DEF Wired
<1> QED BY <1>1, <1>2

\* A command that ends, and what its thread no longer waits for.
LEMMA EndMine ==
  ASSUME TypeInv, NEW c \in Client, NEW t \in {App(c), Recv(c)}, op[t] # Idle, NEW m,
         Fail(t) \/ (Succeed(t, m) /\ (op[t].cmd = "claim" => m.box \in 1..Len(boxes))),
         events'[c] = events[c], offset'[c] = offset[c], toServer'[c] = toServer[c],
         waiter'[t] = "none", \A s \in {App(c), Recv(c)} : s # t => waiter'[s] = waiter[s],
         BoxIn(toClient[c])', BoxIn(pending[c])'
  PROVE  Mine(c)'
<1>0. Wired(c) /\ Requests(c) /\ Waiting(App(c)) /\ Waiting(Recv(c)) /\ App(c) # Recv(c)
  BY TypeInvIs, Threads DEF Mine
<1>1. /\ Calling(c)' /\ Claiming(c)' /\ phase'[c] # "off"
      /\ ws'[c] = "nil" <=> phase'[c] \in {"off", "closed"}
      /\ op'[t].at \in {"idle", "lock"}
      /\ \A s \in {App(c), Recv(c)} : s # t => op'[s] = op[s]
      /\ mailbox[c] # 0 => mailbox'[c] = mailbox[c]
  BY Ending
<1>2. Wired(c)'
  BY <1>1 DEF Wired
<1>3. Requests(c)'
  BY <1>0, <1>1 DEF Requests
<1>4. Waiting(App(c))' /\ Waiting(Recv(c))'
  <2>1. CASE t = App(c)
    BY <1>0, <1>1, <2>1 DEF Waiting
  <2>2. CASE t = Recv(c)
    BY <1>0, <1>1, <2>2 DEF Waiting
  <2> QED BY <2>1, <2>2
<1> QED BY <1>1, <1>2, <1>3, <1>4 DEF Mine, Replies

\* A thread is one of its client's.
LEMMA ThreadOf ==
  ASSUME NEW c \in Client, NEW t \in Thread, t[1] = c
  PROVE  t \in {App(c), Recv(c)}
BY Threads

\* Send.
LEMMA SendMine ==
  ASSUME TypeInv, NEW c \in Client, NEW t \in Thread, t[1] = c, Send(t)
  PROVE  Mine(c)'
<1>0. /\ TypeOK /\ Calling(c) /\ Claiming(c) /\ Wired(c) /\ Requests(c) /\ Replies(c)
      /\ Waiting(App(c)) /\ Waiting(Recv(c)) /\ t \in {App(c), Recv(c)} /\ App(c) # Recv(c)
      /\ App(c) \in Thread /\ Recv(c) \in Thread
  BY TypeInvIs, Threads, ThreadOf DEF Mine
<1>1. op[t].at = "lock" /\ op[t] # Idle /\ waiter[t] = "none" /\ op[t].cmd \in Command
  BY <1>0, OpStates DEF Send, Waiting, TypeOK
<1>2. UNCHANGED <<waiter, pending, events, offset, toClient, boxes>>
  BY DEF Send, serverVars
<1>3. BoxIn(toClient[c])' /\ BoxIn(pending[c])'
  BY <1>0, <1>2 DEF Replies, BoxIn
<1>4. CASE Fail(t) /\ UNCHANGED <<toServer, locked, crashed>>
  BY <1>0, <1>1, <1>2, <1>3, <1>4, EndMine
<1>5. CASE UNCHANGED <<appVars, recv, ws, op, toServer, locked>>
  <2>1. Same(c) /\ toClient'[c] = toClient[c] /\ boxes' = boxes
    BY <1>2, <1>5 DEF Send, Same, appVars, serverVars
  <2>2. Len(boxes) \in Nat
    BY <1>0 DEF TypeOK
  <2> QED BY <2>1, <2>2, SameMine
<1>6. CASE /\ ws[c] = "up"
           /\ toServer' = [toServer EXCEPT ![c] =
                              Append(@, [thread |-> t, cmd |-> op[t].cmd, arg |-> Arg(t)])]
           /\ op' = [op EXCEPT ![t].at = "ack"]
           /\ UNCHANGED <<appVars, recv, ws>>
  <2>1. op' = [op EXCEPT ![t] = [at |-> "ack", cmd |-> op[t].cmd]]
    BY <1>0, <1>1, <1>6, OpMoved
  <2>2. /\ op'[t] = [at |-> "ack", cmd |-> op[t].cmd] /\ op'[t] # Idle
        /\ \A s \in {App(c), Recv(c)} : s # t => op'[s] = op[s]
    BY <1>0, <2>1 DEF TypeOK, Idle
  <2>3. /\ op'[App(c)] = Idle <=> op[App(c)] = Idle
        /\ op[App(c)] # Idle => op'[App(c)].cmd = op[App(c)].cmd
        /\ op'[Recv(c)] = Idle <=> op[Recv(c)] = Idle
        /\ op[Recv(c)] # Idle => op'[Recv(c)].cmd = op[Recv(c)].cmd
    BY <1>0, <1>1, <2>2
  <2>4. Calling(c)'
    BY <1>0, <1>6, <2>3 DEF Calling, appVars
  <2>5. Claiming(c)'
    <3>1. phase[c] = "meet" => op'[App(c)].cmd = op[App(c)].cmd
      BY <1>0, <2>3 DEF Calling
    <3> QED BY <1>0, <1>2, <1>6, <3>1 DEF Claiming, Early, appVars
  <2>6. Wired(c)'
    <3>1. phase[c] # "off"
      BY <1>0, <1>6 DEF Wired
    <3> QED BY <1>0, <1>6, <3>1 DEF Wired, appVars
  <2>7. Requests(c)'
    <3> DEFINE r == [thread |-> t, cmd |-> op[t].cmd, arg |-> Arg(t)]
    <3>1. r.thread = t /\ r.cmd = op[t].cmd /\ r.arg = Arg(t)
      OBVIOUS
    <3>2. r.cmd = "open" => r.arg = mailbox[c] /\ mailbox[c] # 0
      <4> SUFFICES ASSUME op[t].cmd = "open" PROVE Arg(t) = mailbox[c] /\ mailbox[c] # 0
        OBVIOUS
      <4>1. t = App(c) /\ phase[c] = "meet"
        BY <1>0, <1>1 DEF Calling, AppCmds
      <4> QED BY <1>0, <4>1 DEF Claiming, Arg
    <3>3. r.cmd = "add" => r.arg \in 1..Adds
      <4> SUFFICES ASSUME op[t].cmd = "add" PROVE Arg(t) \in 1..Adds
        OBVIOUS
      <4>1. t = App(c) /\ added[c] # 0
        BY <1>0, <1>1 DEF Calling, AppCmds
      <4> QED BY <1>0, <4>1, BoundAssumption DEF TypeOK, Arg
    <3> HIDE DEF r
    <3>4. toServer[c] \in Seq(Request)
      BY <1>0 DEF TypeOK
    <3>5. toServer'[c] = Append(toServer[c], r)
      BY <1>0, <1>6 DEF TypeOK, r
    <3>6. Len(toServer[c]) \in Nat /\ Len(toServer'[c]) = Len(toServer[c]) + 1
          /\ toServer'[c][Len(toServer[c]) + 1] = r
          /\ \A k \in 1..Len(toServer[c]) : toServer'[c][k] = toServer[c][k]
      BY <3>4, <3>5
    <3>7. \A k \in 1..Len(toServer'[c]) : k \in 1..Len(toServer[c]) \/ k = Len(toServer[c]) + 1
      BY <3>6
    <3>8. mailbox'[c] = mailbox[c]
      BY <1>6 DEF appVars
    <3> QED BY <1>0, <3>1, <3>2, <3>3, <3>6, <3>7, <3>8 DEF Requests
  <2>8. Waiting(App(c))' /\ Waiting(Recv(c))'
    BY <1>0, <1>1, <1>2, <2>2 DEF Waiting
  <2> QED BY <1>3, <2>4, <2>5, <2>6, <2>7, <2>8 DEF Mine, Replies
<1> QED BY <1>0, <1>4, <1>5, <1>6 DEF Send

\* Register and NotFound.
LEMMA WaiterMine ==
  ASSUME TypeInv, NEW c \in Client, NEW t \in Thread, t[1] = c, Register(t) \/ NotFound(t)
  PROVE  Mine(c)'
<1>0. /\ TypeOK /\ Mine(c) /\ t \in {App(c), Recv(c)} /\ App(c) # Recv(c)
      /\ App(c) \in Thread /\ Recv(c) \in Thread
  BY TypeInvIs, Threads, ThreadOf
<1>1. /\ \E w : waiter' = [waiter EXCEPT ![t] = w]
      /\ UNCHANGED <<appVars, op, pending, recvVars, netVars, serverVars>>
      /\ op[t].at \in {"ack", "reply"}
  BY <1>0 DEF Register, NotFound, Mine, Waiting, TypeOK
<1>2. Waiting(App(c))' /\ Waiting(Recv(c))'
  BY <1>0, <1>1 DEF Mine, Waiting, TypeOK
<1>3. Calling(c)' /\ Claiming(c)'
  BY <1>0, <1>1 DEF Mine, Calling, Claiming, Early, appVars, recvVars
<1>4. Wired(c)' /\ Requests(c)' /\ Replies(c)'
  BY <1>0, <1>1 DEF Mine, Wired, Requests, Replies, BoxIn, appVars, recvVars, netVars, serverVars
<1> QED BY <1>2, <1>3, <1>4 DEF Mine

\* Read.
LEMMA ReadMine ==
  ASSUME TypeInv, NEW c \in Client, NEW t \in Thread, t[1] = c, Read(t)
  PROVE  Mine(c)'
<1> DEFINE k == Min(Found(t))
<1> DEFINE m == pending[c][k]
<1>0. /\ TypeOK /\ Mine(c) /\ t \in {App(c), Recv(c)} /\ App(c) # Recv(c)
      /\ App(c) \in Thread /\ Recv(c) \in Thread
  BY TypeInvIs, Threads, ThreadOf
<1>1. /\ k \in 1..Len(pending[c]) /\ m.type = Wanted(t)
      /\ Without(pending[c], k, RemoveAt(pending[c], k))
  BY <1>0, FoundIs DEF Read
<1>2. /\ pending' = [pending EXCEPT ![c] = RemoveAt(pending[c], k)]
      /\ waiter' = [waiter EXCEPT ![t] = "none"]
      /\ UNCHANGED <<events, offset, bell, toServer, toClient, serverVars>>
      /\ waiter[t] # "none"
  BY DEF Read
<1> HIDE DEF k
<1>3. BoxIn(pending[c])'
  <2> DEFINE q == RemoveAt(pending[c], k)
  <2>1. pending'[c] = q /\ boxes' = boxes
    BY <1>0, <1>2 DEF TypeOK, serverVars
  <2> HIDE DEF q
  <2>2. Without(pending[c], k, q)
    BY <1>1 DEF q
  <2>3. Within(q, pending[c])
    BY <2>2, WithoutFrom
  <2> QED BY <1>0, <2>1, <2>3 DEF Within, Mine, Replies, BoxIn
<1>4. BoxIn(toClient[c])'
  BY <1>0, <1>2 DEF Mine, Replies, BoxIn, serverVars
<1>5. waiter'[t] = "none" /\ \A s \in {App(c), Recv(c)} : s # t => waiter'[s] = waiter[s]
  BY <1>0, <1>2 DEF TypeOK
<1>6. op[t].at \in {"ack", "reply"} /\ op[t] # Idle
  BY <1>0, <1>2, OpStates DEF Mine, Waiting
<1>7. CASE \/ Fail(t)
           \/ Succeed(t, m) /\ (op[t].at = "reply" \/ op[t].cmd \notin DOMAIN Awaits)
  <2>1. op[t].cmd = "claim" /\ ~Fail(t) => m.box \in 1..Len(boxes)
    <3> SUFFICES ASSUME op[t].cmd = "claim", ~Fail(t) PROVE m.box \in 1..Len(boxes)
      OBVIOUS
    <3>1. op[t].at = "reply"
      BY <1>7 DEF Awaits
    <3>2. m.type = "claimed"
      BY <1>1, <3>1 DEF Wanted, Awaits
    <3> QED BY <1>0, <1>1, <3>2 DEF Mine, Replies, BoxIn
  <2> HIDE DEF m
  <2> QED BY <1>0, <1>2, <1>3, <1>4, <1>5, <1>6, <1>7, <2>1, EndMine
<1>8. CASE /\ op[t].at = "ack" /\ op[t].cmd \in DOMAIN Awaits
           /\ op' = [op EXCEPT ![t].at = "reply"]
           /\ UNCHANGED <<appVars, recv, ws>>
  <2>1. op' = [op EXCEPT ![t] = [at |-> "reply", cmd |-> op[t].cmd]]
    BY <1>0, <1>6, <1>8, OpMoved
  <2>2. /\ op'[t] = [at |-> "reply", cmd |-> op[t].cmd] /\ op'[t] # Idle
        /\ \A s \in {App(c), Recv(c)} : s # t => op'[s] = op[s]
    BY <1>0, <2>1 DEF TypeOK, Idle
  <2>3. /\ op'[App(c)] = Idle <=> op[App(c)] = Idle
        /\ op[App(c)] # Idle => op'[App(c)].cmd = op[App(c)].cmd
        /\ op'[Recv(c)] = Idle <=> op[Recv(c)] = Idle
        /\ op[Recv(c)] # Idle => op'[Recv(c)].cmd = op[Recv(c)].cmd
    BY <1>0, <1>6, <2>2
  <2>4. Calling(c)'
    BY <1>0, <1>8, <2>3 DEF Mine, Calling, appVars
  <2>5. Claiming(c)'
    <3>1. phase[c] = "meet" => op'[App(c)].cmd = op[App(c)].cmd
      BY <1>0, <2>3 DEF Mine, Calling
    <3> QED BY <1>0, <1>2, <1>8, <3>1 DEF Mine, Claiming, Early, appVars
  <2>6. Wired(c)'
    <3>1. phase[c] # "off"
      <4>1. op[App(c)] # Idle => phase[c] # "off"
        BY <1>0 DEF Mine, Calling, AppCmds
      <4>2. op[Recv(c)] # Idle => phase[c] # "off"
        BY <1>0 DEF Mine, Calling, Claiming
      <4> QED BY <1>0, <1>6, <4>1, <4>2
    <3> QED BY <1>0, <1>8, <3>1 DEF Mine, Wired, appVars
  <2>7. Requests(c)'
    BY <1>0, <1>2, <1>8 DEF Mine, Requests, appVars
  <2>8. Waiting(App(c))' /\ Waiting(Recv(c))'
    BY <1>0, <1>5, <1>8, <2>2 DEF Mine, Waiting
  <2> QED BY <1>3, <1>4, <2>4, <2>5, <2>6, <2>7, <2>8 DEF Mine, Replies
<1>9. \/ Fail(t)
      \/ Succeed(t, m) /\ (op[t].at = "reply" \/ op[t].cmd \notin DOMAIN Awaits)
      \/ /\ op[t].at = "ack" /\ op[t].cmd \in DOMAIN Awaits
         /\ op' = [op EXCEPT ![t].at = "reply"]
         /\ UNCHANGED <<appVars, recv, ws>>
  BY DEF Read, k
<1> QED BY <1>7, <1>8, <1>9

\* CutOff.
LEMMA CutOffMine ==
  ASSUME TypeInv, NEW c \in Client, NEW t \in Thread, t[1] = c, CutOff(t)
  PROVE  Mine(c)'
<1>0. /\ TypeOK /\ Mine(c) /\ t \in {App(c), Recv(c)} /\ App(c) # Recv(c)
      /\ App(c) \in Thread /\ Recv(c) \in Thread
  BY TypeInvIs, Threads, ThreadOf
<1>1. /\ waiter[t] # "none" /\ waiter' = [waiter EXCEPT ![t] = "none"] /\ Fail(t)
      /\ UNCHANGED <<pending, events, offset, toServer, toClient, serverVars>>
  BY DEF CutOff
<1>2. op[t] # Idle
  BY <1>0, <1>1, OpStates DEF Mine, Waiting
<1>3. waiter'[t] = "none" /\ \A s \in {App(c), Recv(c)} : s # t => waiter'[s] = waiter[s]
  BY <1>0, <1>1 DEF TypeOK
<1>4. BoxIn(toClient[c])' /\ BoxIn(pending[c])'
  BY <1>0, <1>1 DEF Mine, Replies, BoxIn, serverVars
<1> QED BY <1>0, <1>1, <1>2, <1>3, <1>4, EndMine

\* Dispatch.
LEMMA DispatchMine ==
  ASSUME TypeInv, NEW c \in Client, Dispatch(c)
  PROVE  Mine(c)'
<1> DEFINE m == Head(toClient[c])
<1>0. /\ TypeOK /\ Mine(c) /\ App(c) \in Thread /\ Recv(c) \in Thread
      /\ toClient[c] \in Seq(Reply \cup Message) /\ toClient[c] # <<>>
      /\ events[c] \in Seq(Event) /\ pending[c] \in Seq(Reply)
  <2>1. TypeOK /\ Mine(c)
    BY TypeInvIs
  <2> QED BY <2>1, Threads DEF TypeOK, Dispatch
<1>1. /\ ws[c] = "up" /\ toClient' = [toClient EXCEPT ![c] = Tail(toClient[c])]
      /\ UNCHANGED <<appVars, op, locked, recv, offset, ws, toServer, serverVars>>
  BY DEF Dispatch
<1>2. phase[c] # "off"
  BY <1>0, <1>1 DEF Mine, Wired
<1>3. BoxIn(toClient[c])'
  <2> DEFINE q == Tail(toClient[c])
  <2>1. toClient'[c] = q /\ boxes' = boxes
    BY <1>0, <1>1 DEF TypeOK, serverVars
  <2>2. \A i \in 1..Len(q) : i + 1 \in 1..Len(toClient[c]) /\ q[i] = toClient[c][i + 1]
    BY <1>0
  <2> HIDE DEF q
  <2> QED BY <1>0, <2>1, <2>2 DEF Mine, Replies, BoxIn
<1>4. events'[c] = events[c] \/ events'[c] = Append(events[c], m.event)
  BY <1>0 DEF Dispatch, TypeOK
<1>5. Len(events[c]) \in Nat /\ Len(events'[c]) \in Nat /\ Len(events[c]) <= Len(events'[c])
  BY <1>0, <1>4
<1>6. BoxIn(pending[c])'
  <2>1. boxes' = boxes
    BY <1>1 DEF serverVars
  <2>2. CASE UNCHANGED pending
    BY <1>0, <2>1, <2>2 DEF Mine, Replies, BoxIn
  <2>3. CASE m.type # "message" /\ pending' = [pending EXCEPT ![c] = Append(@, m)]
    <3>1. m = toClient[c][1] /\ 1 \in 1..Len(toClient[c])
      BY <1>0
    <3>2. m.type = "claimed" => m.box \in 1..Len(boxes)
      BY <1>0, <3>1 DEF Mine, Replies, BoxIn
    <3>3. pending'[c] = Append(pending[c], m)
      BY <1>0, <2>3 DEF TypeOK
    <3> HIDE DEF m
    <3>4. /\ Len(pending[c]) \in Nat /\ Len(pending'[c]) = Len(pending[c]) + 1
          /\ pending'[c][Len(pending[c]) + 1] = m
          /\ \A i \in 1..Len(pending[c]) : pending'[c][i] = pending[c][i]
      BY <1>0, <3>3
    <3>5. \A i \in 1..Len(pending'[c]) : i \in 1..Len(pending[c]) \/ i = Len(pending[c]) + 1
      BY <3>4
    <3> QED BY <1>0, <2>1, <3>2, <3>4, <3>5 DEF Mine, Replies, BoxIn
  <2> QED BY <2>2, <2>3 DEF Dispatch
<1>7. \A t \in Thread : waiter'[t] # "none" => waiter[t] # "none"
  BY DEF Dispatch
<1>8. Calling(c)'
  BY <1>0, <1>1 DEF Mine, Calling, appVars
<1>9. Claiming(c)'
  BY <1>0, <1>1, <1>5 DEF Mine, Claiming, Early, appVars
<1>10. Wired(c)'
  BY <1>0, <1>1, <1>2 DEF Mine, Wired, appVars
<1>11. Requests(c)'
  BY <1>0, <1>1 DEF Mine, Requests, appVars
<1>12. Waiting(App(c))' /\ Waiting(Recv(c))'
  BY <1>0, <1>1, <1>7 DEF Mine, Waiting
<1> QED BY <1>3, <1>6, <1>8, <1>9, <1>10, <1>11, <1>12 DEF Mine, Replies

\* The connection is lost.
LEMMA LossMine ==
  ASSUME TypeInv, NEW c \in Client, ReadEnds(c) \/ LoseConnection(c)
  PROVE  Mine(c)'
<1>0. TypeOK /\ Mine(c)
  BY TypeInvIs
<1>1. /\ ws[c] = "up" /\ ws' = [ws EXCEPT ![c] = "lost"]
      /\ UNCHANGED <<appVars, cmdVars, recvVars, toServer, toClient, serverVars>>
  BY DEF ReadEnds, LoseConnection
<1>2. Wired(c)'
  BY <1>0, <1>1 DEF Mine, Wired, TypeOK, appVars
<1>3. Calling(c)' /\ Claiming(c)'
  BY <1>0, <1>1 DEF Mine, Calling, Claiming, Early, appVars, cmdVars, recvVars
<1>4. Requests(c)' /\ Replies(c)' /\ Waiting(App(c))' /\ Waiting(Recv(c))'
  BY <1>0, <1>1 DEF Mine, Requests, Replies, BoxIn, Waiting, appVars, cmdVars, serverVars
<1> QED BY <1>2, <1>3, <1>4 DEF Mine

\* recvMailboxMsgs.
LEMMA ScanMine ==
  ASSUME TypeInv, NEW c \in Client, StartRecv(c) \/ Scan(c) \/ Notified(c)
  PROVE  Mine(c)'
<1>0. TypeOK /\ Mine(c)
  BY TypeInvIs
<1>1. /\ UNCHANGED <<appVars, cmdVars, events, netVars, serverVars>>
      /\ recv[c] \in {"start", "scan", "wait"}
  BY DEF StartRecv, Scan, Notified
<1>2. recv'[c] \in {"scan", "wait"} \/ (recv'[c] = "offer" /\ offset'[c] \in 1..Len(events[c]))
  <2>1. CASE StartRecv(c) \/ Notified(c)
    BY <1>0, <2>1 DEF StartRecv, Notified, TypeOK
  <2>2. CASE Scan(c)
    <3>1. \/ /\ Theirs(c) # {} /\ offset' = [offset EXCEPT ![c] = Min(Theirs(c))]
             /\ recv' = [recv EXCEPT ![c] = "offer"]
          \/ recv' = [recv EXCEPT ![c] = "wait"]
      BY <2>2 DEF Scan, Theirs
    <3>2. Theirs(c) # {} => Min(Theirs(c)) \in 1..Len(events[c])
      BY <1>0, TheirsAre
    <3> QED BY <1>0, <3>1, <3>2 DEF TypeOK
  <2> QED BY <2>1, <2>2
<1>3. Calling(c)'
  BY <1>0, <1>1, <1>2 DEF Mine, Calling, appVars, cmdVars
<1>4. Claiming(c)'
  BY <1>0, <1>1, <1>2 DEF Mine, Claiming, Early, appVars, cmdVars
<1>5. Wired(c)' /\ Requests(c)'
  BY <1>0, <1>1 DEF Mine, Wired, Requests, appVars, cmdVars, netVars, serverVars
<1>6. Replies(c)' /\ Waiting(App(c))' /\ Waiting(Recv(c))'
  BY <1>0, <1>1 DEF Mine, Replies, BoxIn, Waiting, cmdVars, netVars, serverVars
<1> QED BY <1>3, <1>4, <1>5, <1>6 DEF Mine

\* The application takes a message.
LEMMA DeliverMine ==
  ASSUME TypeInv, NEW c \in Client, Deliver(c)
  PROVE  Mine(c)'
<1>0. TypeOK /\ Mine(c) /\ App(c) \in Thread /\ Recv(c) \in Thread /\ App(c) # Recv(c)
  BY TypeInvIs, Threads
<1>1. /\ recv[c] = "offer" /\ phase[c] = "talk"
      /\ UNCHANGED <<phase, added, claimed, mailbox, waiter, locked, pending, events, offset, netVars, serverVars>>
      /\ \/ /\ recv' = [recv EXCEPT ![c] = "release"]
            /\ op' = [op EXCEPT ![Recv(c)] = [at |-> "lock", cmd |-> "release"]]
         \/ /\ recv' = [recv EXCEPT ![c] = "scan"]
            /\ UNCHANGED op
  BY DEF Deliver, Begin
<1>2. op[Recv(c)] = Idle /\ waiter[Recv(c)] = "none"
  BY <1>0, <1>1, OpStates DEF Mine, Calling, Waiting, TypeOK
<1>3. /\ op'[App(c)] = op[App(c)]
      /\ \/ recv'[c] = "release" /\ op'[Recv(c)] = [at |-> "lock", cmd |-> "release"]
         \/ recv'[c] = "scan" /\ op'[Recv(c)] = Idle
  BY <1>0, <1>1, <1>2 DEF TypeOK
<1>4. Calling(c)'
  BY <1>0, <1>1, <1>3 DEF Mine, Calling, Idle
<1>5. Claiming(c)'
  BY <1>0, <1>1, <1>3 DEF Mine, Claiming, Early
<1>6. Wired(c)' /\ Requests(c)'
  BY <1>0, <1>1 DEF Mine, Wired, Requests, netVars, serverVars
<1>7. Replies(c)'
  BY <1>0, <1>1 DEF Mine, Replies, BoxIn, netVars, serverVars
<1>8. Waiting(App(c))' /\ Waiting(Recv(c))'
  BY <1>0, <1>1, <1>2, <1>3, OpStates DEF Mine, Waiting
<1> QED BY <1>4, <1>5, <1>6, <1>7, <1>8 DEF Mine

\* Connect.
LEMMA ConnectMine ==
  ASSUME TypeInv, NEW c \in Client, Connect(c)
  PROVE  Mine(c)'
<1>0. TypeOK /\ Mine(c) /\ App(c) \in Thread /\ Recv(c) \in Thread /\ App(c) # Recv(c)
  BY TypeInvIs, Threads
<1>1. /\ phase[c] = "off" /\ phase'[c] = "connect" /\ ws'[c] = "up" /\ toClient'[c] = <<Plain("welcome")>>
      /\ op'[App(c)] = [at |-> "reply", cmd |-> "connect"] /\ op'[Recv(c)] = op[Recv(c)]
      /\ UNCHANGED <<added, got, claimed, mailbox, waiter, locked, pending, recvVars, toServer, serverVars>>
  BY <1>0 DEF Connect, Goes, TypeOK
<1>2. Calling(c)'
  <2>1. "connect" \in AppCmds(phase'[c]) /\ op'[App(c)].cmd = "connect" /\ op'[App(c)] # Idle
    BY <1>1 DEF AppCmds, Idle
  <2>2. recv'[c] = recv[c]
    BY <1>1 DEF recvVars
  <2> QED BY <1>0, <1>1, <2>1, <2>2 DEF Mine, Calling
<1>3. Claiming(c)'
  BY <1>0, <1>1 DEF Mine, Claiming, Early, recvVars
<1>4. Wired(c)' /\ Requests(c)'
  BY <1>0, <1>1 DEF Mine, Wired, Requests
<1>5. Replies(c)'
  BY <1>0, <1>1 DEF Mine, Replies, BoxIn, Plain, serverVars
<1>6. Waiting(App(c))' /\ Waiting(Recv(c))'
  BY <1>0, <1>1 DEF Mine, Waiting, Awaits
<1> QED BY <1>2, <1>3, <1>4, <1>5, <1>6 DEF Mine

\* The other calls of the application.
LEMMA CallMine ==
  ASSUME TypeInv, NEW c \in Client, Meet(c) \/ AddMessage(c) \/ Close(c)
  PROVE  Mine(c)'
<1>0. TypeOK /\ Mine(c) /\ App(c) \in Thread /\ Recv(c) \in Thread /\ App(c) # Recv(c)
  BY TypeInvIs, Threads
<1>1. /\ op'[Recv(c)] = op[Recv(c)]
      /\ UNCHANGED <<got, claimed, mailbox, waiter, locked, pending, recvVars, netVars, serverVars>>
      /\ \E cmd \in {"allocate", "claim", "add", "close"} :
            /\ op'[App(c)] = [at |-> "lock", cmd |-> cmd]
            /\ \/ phase[c] = "bound" /\ phase'[c] = "meet" /\ cmd \in {"allocate", "claim"}
               \/ phase[c] = "talk" /\ phase'[c] = "talk" /\ cmd = "add" /\ added'[c] # 0 /\ op[App(c)] = Idle
               \/ phase[c] \in {"talk", "failed"} /\ phase'[c] = "closing" /\ cmd = "close" /\ op[App(c)] = Idle
  <2>1. UNCHANGED <<got, claimed, mailbox, waiter, locked, pending, recvVars, netVars, serverVars>>
    BY DEF Meet, AddMessage, Close
  <2>2. CASE Meet(c)
    BY <1>0, <2>1, <2>2 DEF Meet, Goes, Begin, TypeOK
  <2>3. CASE AddMessage(c)
    <3>1. /\ added'[c] = added[c] + 1 /\ added[c] \in 0..Adds /\ phase[c] = "talk" /\ phase'[c] = "talk"
          /\ op[App(c)] = Idle /\ op' = [op EXCEPT ![App(c)] = [at |-> "lock", cmd |-> "add"]]
      BY <1>0, <2>3 DEF AddMessage, Begin, TypeOK
    <3>2. added'[c] # 0
      BY <3>1, BoundAssumption
    <3>3. op'[App(c)] = [at |-> "lock", cmd |-> "add"] /\ op'[Recv(c)] = op[Recv(c)]
      BY <1>0, <3>1 DEF TypeOK
    <3> QED BY <2>1, <3>1, <3>2, <3>3
  <2>4. CASE Close(c)
    BY <1>0, <2>1, <2>4 DEF Close, Goes, Begin, TypeOK
  <2> QED BY <2>2, <2>3, <2>4
<1>2. PICK cmd \in {"allocate", "claim", "add", "close"} :
            /\ op'[App(c)] = [at |-> "lock", cmd |-> cmd]
            /\ \/ phase[c] = "bound" /\ phase'[c] = "meet" /\ cmd \in {"allocate", "claim"}
               \/ phase[c] = "talk" /\ phase'[c] = "talk" /\ cmd = "add" /\ added'[c] # 0 /\ op[App(c)] = Idle
               \/ phase[c] \in {"talk", "failed"} /\ phase'[c] = "closing" /\ cmd = "close" /\ op[App(c)] = Idle
  BY <1>1
<1>3. op[App(c)] = Idle
  BY <1>0, <1>2 DEF Mine, Calling, AppCmds
<1>4. waiter'[App(c)] = "none"
  BY <1>0, <1>1, <1>3, OpStates DEF Mine, Waiting, TypeOK
<1>5. Calling(c)'
  BY <1>0, <1>1, <1>2 DEF Mine, Calling, AppCmds, recvVars, Idle
<1>6. Claiming(c)'
  BY <1>0, <1>1, <1>2 DEF Mine, Claiming, Early, recvVars
<1>7. Wired(c)' /\ Requests(c)'
  BY <1>0, <1>1, <1>2 DEF Mine, Wired, Requests, netVars, serverVars, recvVars
<1>8. Replies(c)'
  BY <1>0, <1>1 DEF Mine, Replies, BoxIn, netVars, serverVars
<1>9. Waiting(App(c))' /\ Waiting(Recv(c))'
  BY <1>0, <1>1, <1>2, <1>4 DEF Mine, Waiting
<1> QED BY <1>5, <1>6, <1>7, <1>8, <1>9 DEF Mine

\* The server's handler.
LEMMA ServeMine ==
  ASSUME TypeInv, NEW c \in Client, Serve(c)
  PROVE  Mine(c)'
<1>0. TypeOK /\ Mine(c) /\ Len(boxes) \in Nat /\ Len(boxes') \in Nat /\ Len(boxes) <= Len(boxes')
  BY TypeInvIs, BoxesServed
<1>1. /\ UNCHANGED <<appVars, cmdVars, recvVars, ws>>
      /\ toServer[c] \in Seq(Request) /\ toServer[c] # <<>>
      /\ toServer'[c] = Tail(toServer[c])
  BY <1>0, AskedIs DEF TypeOK
<1>2. Calling(c)' /\ Claiming(c)'
  BY <1>0, <1>1 DEF Mine, Calling, Claiming, Early, appVars, cmdVars, recvVars
<1>3. Waiting(App(c))' /\ Waiting(Recv(c))'
  BY <1>0, <1>1 DEF Mine, Waiting, cmdVars
<1>4. Wired(c)'
  <2>1. phase[c] # "off"
    BY <1>0, <1>1 DEF Mine, Wired
  <2> QED BY <1>0, <1>1, <2>1 DEF Mine, Wired, appVars
<1>5. Requests(c)'
  <2> DEFINE q == Tail(toServer[c])
  <2>1. \A i \in 1..Len(q) : i + 1 \in 1..Len(toServer[c]) /\ q[i] = toServer[c][i + 1]
    BY <1>1
  <2>2. toServer'[c] = q /\ mailbox' = mailbox
    BY <1>1 DEF appVars
  <2> HIDE DEF q
  <2> QED BY <1>0, <2>1, <2>2 DEF Mine, Requests
<1>6. BoxIn(pending[c])'
  BY <1>0, <1>1 DEF Mine, Replies, BoxIn, cmdVars
<1>7. BoxIn(toClient[c])'
  <2>1. PICK f : /\ Sends(f)
                 /\ Len(f[c]) \in Nat \ {0} /\ f[c][1] = Ack(Asked(c))
                 /\ \A k \in 2..Len(f[c]) :
                      \/ f[c][k].type \in {"allocated", "released", "closed", "error", "message"}
                      \/ /\ f[c][k] = [type |-> "claimed", box |-> plate'] /\ plate' \in 1..Len(boxes')
    BY ServeSends
  <2>2. \A k \in 1..Len(f[c]) : f[c][k].type = "claimed" => f[c][k].box \in 1..Len(boxes')
    <3> SUFFICES ASSUME NEW k \in 1..Len(f[c]), f[c][k].type = "claimed" PROVE f[c][k].box \in 1..Len(boxes')
      OBVIOUS
    <3>1. k # 1
      BY <2>1 DEF Ack
    <3>2. k \in 2..Len(f[c])
      BY <2>1, <3>1
    <3> QED BY <2>1, <3>2
  <2>3. CASE ws[c] # "up"
    <3>1. toClient'[c] = toClient[c]
      BY <1>0, <2>1, <2>3, SendsJoins
    <3> QED BY <1>0, <3>1 DEF Mine, Replies, BoxIn
  <2>4. CASE ws[c] = "up"
    <3>1. Hears(c, f[c])
      BY <1>0, <2>1, <2>4, SendsJoins
    <3>2. PICK q, v : v = toClient'[c] /\ Joined(toClient[c], q, v) /\ q = f[c]
      BY <3>1 DEF Hears
    <3>3. \A k \in 1..Len(q) : q[k].type = "claimed" => q[k].box \in 1..Len(boxes')
      BY <2>2, <3>2
    <3>4. ASSUME NEW k \in 1..Len(v), v[k].type = "claimed" PROVE v[k].box \in 1..Len(boxes')
      <4>0. Joined(toClient[c], q, v)
        BY <3>2
      <4>1. Mixed(toClient[c], q, v)
        BY <4>0, JoinedFrom
      <4>2. CASE \E j \in 1..Len(toClient[c]) : v[k] = toClient[c][j]
        BY <1>0, <3>4, <4>2 DEF Mine, Replies, BoxIn
      <4>3. CASE \E j \in 1..Len(q) : v[k] = q[j]
        BY <3>3, <3>4, <4>3
      <4> QED BY <4>1, <4>2, <4>3 DEF Mixed
    <3> QED BY <3>2, <3>4 DEF BoxIn
  <2> QED BY <2>3, <2>4
<1> QED BY <1>2, <1>3, <1>4, <1>5, <1>6, <1>7 DEF Mine, Replies

\* The handler returns: the client keeps its own state.
LEMMA HangUpMine ==
  ASSUME TypeInv, NEW c \in Client, HangUp(c)
  PROVE  Mine(c)'
<1>0. TypeOK /\ Mine(c)
  BY TypeInvIs
<1>1. /\ UNCHANGED <<appVars, cmdVars, recvVars, ws, toClient, boxes, plate>>
      /\ toServer'[c] = <<>> /\ opened'[c] = 0
  BY <1>0 DEF HangUp, TypeOK
<1>2. Calling(c)' /\ Claiming(c)'
  BY <1>0, <1>1 DEF Mine, Calling, Claiming, Early, appVars, cmdVars, recvVars
<1>3. Waiting(App(c))' /\ Waiting(Recv(c))' /\ Replies(c)'
  BY <1>0, <1>1 DEF Mine, Waiting, Replies, BoxIn, cmdVars
<1>4. Wired(c)' /\ Requests(c)'
  BY <1>0, <1>1 DEF Mine, Wired, Requests, appVars, cmdVars, recvVars
<1> QED BY <1>2, <1>3, <1>4 DEF Mine

-----------------------------------------------------------------------------
(* The invariant of the types.                                             *)

\* What client c does, or the server for it.
Step(c) ==
    \/ \E t \in Thread : t[1] = c /\ (Send(t) \/ Register(t) \/ NotFound(t) \/ Read(t) \/ CutOff(t))
    \/ Dispatch(c) \/ ReadEnds(c) \/ LoseConnection(c)
    \/ StartRecv(c) \/ Scan(c) \/ Notified(c) \/ Deliver(c)
    \/ Connect(c) \/ Meet(c) \/ AddMessage(c) \/ Close(c)
    \/ Serve(c) \/ HangUp(c)

\* For every other client, nothing changes but that it may be sent messages.
LEMMA Elsewhere ==
  ASSUME TypeInv, NEW c \in Client, Step(c), NEW d \in Client, d # c
  PROVE  /\ Same(d)
         /\ \/ toClient'[d] = toClient[d]
            \/ /\ ws[d] = "up"
               /\ \E q : Hears(d, q) /\ \A k \in 1..Len(q) : q[k].type = "message"
<1>0. TypeOK
  BY DEF TypeInv
<1>1. CASE \E t \in Thread : t[1] = c /\ (Send(t) \/ Register(t) \/ NotFound(t) \/ Read(t) \/ CutOff(t))
  BY <1>0, <1>1, ThreadElsewhere
<1>2. CASE \/ Dispatch(c) \/ ReadEnds(c) \/ LoseConnection(c)
           \/ StartRecv(c) \/ Scan(c) \/ Notified(c) \/ Deliver(c)
           \/ Connect(c) \/ Meet(c) \/ AddMessage(c) \/ Close(c)
  BY <1>0, <1>2, ClientElsewhere
<1>3. CASE Serve(c)
  <2>1. PICK f : Sends(f) /\ \A e \in Client \ {c} : \A k \in 1..Len(f[e]) : f[e][k].type = "message"
    BY <1>3, ServeSends
  <2>2. ws[d] # "up" => toClient'[d] = toClient[d]
    BY <1>0, <2>1, SendsJoins
  <2>3. ws[d] = "up" => Hears(d, f[d])
    BY <1>0, <2>1, SendsJoins
  <2> DEFINE q == f[d]
  <2>4. (ws[d] = "up" => Hears(d, q)) /\ \A k \in 1..Len(q) : q[k].type = "message"
    BY <2>1, <2>3
  <2> HIDE DEF q
  <2>5. Same(d)
    BY <1>3, ServerElsewhere
  <2> QED BY <2>2, <2>4, <2>5
<1>4. CASE HangUp(c)
  <2>1. UNCHANGED toClient
    BY <1>4 DEF HangUp
  <2> QED BY <1>4, <2>1, ServerElsewhere
<1> QED BY <1>1, <1>2, <1>3, <1>4, Zenon DEF Step

\* Which steps change the mailboxes.
LEMMA BoxesKept ==
  ASSUME TypeInv, NEW c \in Client, Step(c)
  PROVE  /\ Len(boxes) \in Nat /\ Len(boxes') \in Nat /\ Len(boxes) <= Len(boxes')
         /\ ~Serve(c) => UNCHANGED <<boxes, plate>>
<1>0. Len(boxes) \in Nat
  BY DEF TypeInv, TypeOK
<1>1. CASE Serve(c)
  BY <1>1, BoxesServed
<1>2. CASE ~Serve(c)
  <2>1. UNCHANGED <<boxes, plate>>
    <3>1. CASE HangUp(c)
      BY <3>1, SMTT(20) DEF HangUp
    <3>2. CASE ~HangUp(c)
      BY <1>2, <3>2 DEF Step, Send, Register, NotFound, Read, CutOff, Dispatch, ReadEnds, LoseConnection,
         StartRecv, Scan, Notified, Deliver, Connect, Meet, AddMessage, Close, serverVars
    <3> QED BY <3>1, <3>2
  <2> QED BY <1>0, <2>1
<1> QED BY <1>1, <1>2

\* The client that steps stays in order.
LEMMA OwnMine ==
  ASSUME TypeInv, NEW c \in Client, Step(c)
  PROVE  Mine(c)'
BY SendMine, WaiterMine, ReadMine, CutOffMine, DispatchMine, LossMine, ScanMine, DeliverMine, ConnectMine,
   CallMine, ServeMine, HangUpMine, Zenon DEF Step

\* A step of a client, the end of a context, or none.
LEMMA NextStep ==
  ASSUME [Next]_vars
  PROVE  \/ \E c \in Client : Step(c) /\ UNCHANGED cancelled
         \/ \E c \in Client : Cancel(c)
         \/ UNCHANGED vars
BY Steps, Zenon DEF Step

\* A step that is no client's leaves all as it is, for each.
LEMMA StillSame ==
  ASSUME (\E c \in Client : Cancel(c)) \/ UNCHANGED vars
  PROVE  /\ UNCHANGED <<appVars, cmdVars, recvVars, netVars, serverVars, crashed>>
         /\ \A d \in Client : Same(d) /\ toClient'[d] = toClient[d]
<1>1. UNCHANGED <<appVars, cmdVars, recvVars, netVars, serverVars, crashed>>
  BY DEF Cancel, vars
<1> QED BY <1>1 DEF Same, appVars, cmdVars, recvVars, netVars, serverVars

\* The invariant is inductive.
LEMMA TypeInvStep ==
  ASSUME TypeInv, [Next]_vars
  PROVE  TypeInv'
<1>1. TypeOK'
  BY StepType
<1>2. \A d \in Client : Mine(d)'
  <2>1. CASE \E c \in Client : Step(c) /\ UNCHANGED cancelled
    <3>1. PICK c \in Client : Step(c)
      BY <2>1
    <3>2. ASSUME NEW d \in Client PROVE Mine(d)'
      <4>1. CASE d = c
        BY <3>1, <4>1, OwnMine
      <4>2. CASE d # c
        BY <3>1, <4>2, Elsewhere, BoxesKept, SameMine
      <4> QED BY <4>1, <4>2
    <3> QED BY <3>2
  <2>2. CASE (\E c \in Client : Cancel(c)) \/ UNCHANGED vars
    <3>1. boxes' = boxes /\ Len(boxes) \in Nat
      BY <2>2, StillSame DEF serverVars, TypeInv, TypeOK
    <3> QED BY <2>2, <3>1, StillSame, SameMine
  <2> QED BY <2>1, <2>2, NextStep
<1>3. ASSUME NEW t \in Thread PROVE Waiting(t)'
  <2>1. t[1] \in Client /\ (t = App(t[1]) \/ t = Recv(t[1]))
    BY Threads
  <2>2. Waiting(App(t[1]))' /\ Waiting(Recv(t[1]))'
    BY <1>2, <2>1 DEF Mine
  <2> QED BY <2>1, <2>2 DEF Waiting
<1> QED BY <1>1, <1>2, <1>3 DEF TypeInv, Mine

\* It holds at first.
LEMMA TypeInvInit ==
  ASSUME Init
  PROVE  TypeInv
<1>1. TypeOK
  <2>1. boxes \in Seq([claims: Nat, msgs: Seq(Event)]) /\ plate \in 0..Len(boxes) /\ Len(boxes) \in Nat
    <3>1. CASE boxes = <<>> /\ plate = 0
      BY <3>1
    <3>2. CASE \E n \in Others \ {0} : boxes = <<[claims |-> n, msgs |-> <<>>]>> /\ plate = 1
      <4>1. PICK n \in Others \ {0} : boxes = <<[claims |-> n, msgs |-> <<>>]>> /\ plate = 1
        BY <3>2
      <4>2. [claims |-> n, msgs |-> <<>>] \in [claims: Nat, msgs: Seq(Event)]
        BY OthersAssumption
      <4> DEFINE x == [claims |-> n, msgs |-> <<>>]
      <4> HIDE DEF x
      <4>3. boxes = <<x>> /\ x \in [claims: Nat, msgs: Seq(Event)]
        BY <4>1, <4>2 DEF x
      <4> QED BY <4>1, <4>3
    <3> QED BY <3>1, <3>2 DEF Init
  <2>2. \A t \in Thread : Idle \in OpState
    BY OpStates
  <2>3. /\ phase \in [Client -> Phase] /\ op \in [Thread -> OpState] /\ ws \in [Client -> {"up", "lost", "nil"}]
        /\ waiter \in [Thread -> {"none", "empty", "full"}] /\ locked \in [Client -> BOOLEAN]
    BY <2>2 DEF Init, Phase
  <2>4. /\ pending \in [Client -> Seq(Reply)] /\ events \in [Client -> Seq(Event)]
        /\ recv \in [Client -> {"off", "start", "scan", "offer", "release", "wait"}]
        /\ offset \in [Client -> Nat] /\ bell \in [Client -> {"none", "empty", "full"}]
    BY DEF Init
  <2>5. /\ claimed \in [Client -> BOOLEAN] /\ mailbox \in [Client -> 0..Len(boxes)]
        /\ added \in [Client -> 0..Adds] /\ got \in [Client -> Seq(Event)]
        /\ opened \in [Client -> 0..Len(boxes)]
    BY <2>1, BoundAssumption DEF Init
  <2>6. /\ toServer \in [Client -> Seq(Request)] /\ toClient \in [Client -> Seq(Reply \cup Message)]
        /\ cancelled \subseteq Cancels /\ crashed \subseteq Client
    BY DEF Init
  <2> QED BY <2>1, <2>3, <2>4, <2>5, <2>6 DEF TypeOK
<1>2. ASSUME NEW c \in Client PROVE Mine(c)
  <2>1. /\ App(c) \in Thread /\ Recv(c) \in Thread
    BY Threads
  <2>2. /\ phase[c] = "off" /\ op[App(c)] = Idle /\ op[Recv(c)] = Idle
        /\ waiter[App(c)] = "none" /\ waiter[Recv(c)] = "none" /\ recv[c] = "off" /\ ws[c] = "nil"
        /\ pending[c] = <<>> /\ events[c] = <<>> /\ claimed[c] = FALSE /\ mailbox[c] = 0 /\ got[c] = <<>>
        /\ toServer[c] = <<>> /\ toClient[c] = <<>> /\ opened[c] = 0
    BY <2>1 DEF Init
  <2>3. Calling(c) /\ Claiming(c) /\ Wired(c)
    BY <2>2 DEF Calling, Claiming, Early, Wired
  <2>4. Requests(c) /\ Replies(c)
    BY <2>2 DEF Requests, Replies, BoxIn
  <2>5. Waiting(App(c)) /\ Waiting(Recv(c))
    BY <2>2, OpStates DEF Waiting
  <2> QED BY <2>3, <2>4, <2>5 DEF Mine
<1> QED BY <1>1, <1>2, TypeInvIs

\* The variables stay of their types: among them, a client opens only a mailbox that
\* exists, and the collector's offset never runs past the messages that it has.
THEOREM TypeCorrect == Spec => []TypeOK
<1>1. Init => TypeInv
  BY TypeInvInit
<1>2. TypeInv /\ [Next]_vars => TypeInv'
  BY TypeInvStep
<1>3. TypeInv => TypeOK
  BY DEF TypeInv
<1> QED BY <1>1, <1>2, <1>3, PTL DEF Spec

-----------------------------------------------------------------------------
(* A command on its way, as its request or as its ack, is the token of the *)
(* thread that awaits the ack.                                             *)

\* Where q holds an element of M.
Marks(q, M) == {k \in 1..Len(q) : q[k] \in M}

\* What thread t sends, and the acks that are for it.
RequestsOf(t) == {r \in Request : r.thread = t}
AcksOf(t) == {m \in Reply : m.type = "ack" /\ m.thread = t}

\* A thread has no token, or one, for the command whose ack it awaits.
NoToken(sent, coming, there, t) ==
    Marks(sent, RequestsOf(t)) = {} /\ Marks(coming, AcksOf(t)) = {} /\ Marks(there, AcksOf(t)) = {}

\* At most one token, in the place that the state o of the command tells.
TokenState(sent, coming, there, o, t) ==
    \/ NoToken(sent, coming, there, t)
    \/ \E k \in 1..Len(sent) :
          /\ Marks(sent, RequestsOf(t)) = {k} /\ Marks(coming, AcksOf(t)) = {} /\ Marks(there, AcksOf(t)) = {}
          /\ o = [at |-> "ack", cmd |-> sent[k].cmd]
    \/ \E k \in 1..Len(coming) :
          /\ Marks(sent, RequestsOf(t)) = {} /\ Marks(coming, AcksOf(t)) = {k} /\ Marks(there, AcksOf(t)) = {}
          /\ o = [at |-> "ack", cmd |-> coming[k].cmd]
    \/ \E k \in 1..Len(there) :
          /\ Marks(sent, RequestsOf(t)) = {} /\ Marks(coming, AcksOf(t)) = {} /\ Marks(there, AcksOf(t)) = {k}
          /\ o = [at |-> "ack", cmd |-> there[k].cmd]

\* The token of thread t.
TokenOf(t) == TokenState(toServer[t[1]], toClient[t[1]], pending[t[1]], op[t], t)

\* A thread whose command its context has cut off, which may leave a token behind.
Cut(t) == /\ t[1] \in cancelled
          /\ t = App(t[1]) => phase[t[1]] \in {"failed", "closing", "closed"}

\* sendCmdMu is held by the one thread that awaits an ack.
Locking(c) ==
    /\ op[App(c)].at = "ack" \/ op[Recv(c)].at = "ack" <=> locked[c]
    /\ ~(op[App(c)].at = "ack" /\ op[Recv(c)].at = "ack")

\* The acks in q are for the threads of c.
AcksIn(q, c) == \A k \in 1..Len(q) : q[k].type = "ack" => q[k].thread \in {App(c), Recv(c)}

\* The acks of client c.
Acked(c) ==
    /\ AcksIn(toClient[c], c) /\ AcksIn(pending[c], c)
    /\ Locking(c)
    /\ ~Cut(App(c)) => TokenOf(App(c))
    /\ ~Cut(Recv(c)) => TokenOf(Recv(c))

\* The inductive invariant of the acks.
AckInv == TypeInv /\ \A c \in Client : Acked(c)

\* A sequence with at most the one mark of another, at another place perhaps.
Fewer(q, v, M) ==
    \/ Marks(v, M) = {}
    \/ \E j, k : Marks(q, M) = {k} /\ Marks(v, M) = {j} /\ v[j] = q[k]

\* At most one mark.
Single(q, M) == Marks(q, M) = {} \/ \E k : Marks(q, M) = {k}

\* A sequence that does not change keeps its places.
LEMMA FewerSame ==
  ASSUME NEW q, NEW M, Single(q, M)
  PROVE  Fewer(q, q, M)
BY DEF Single, Fewer

\* A mark is where its element is.
LEMMA MarksAre ==
  ASSUME NEW q, NEW M
  PROVE  \A k : k \in Marks(q, M) <=> k \in 1..Len(q) /\ q[k] \in M
BY DEF Marks

\* When something is left out.
LEMMA MarksWithout ==
  ASSUME NEW q, NEW M, NEW i, NEW v, Without(q, i, v), Single(q, M)
  PROVE  Fewer(q, v, M) /\ (Marks(q, M) = {i} => Marks(v, M) = {})
<1>1. \A k \in 1..Len(v) : \E j \in 1..Len(q) : /\ v[k] = q[j] /\ j # i
                                                /\ (k < i /\ j = k) \/ (~(k < i) /\ j = k + 1)
  BY WithoutElements
<1>2. Len(q) \in Nat /\ i \in 1..Len(q) /\ Len(v) = Len(q) - 1
  BY DEF Without
<1>3. ASSUME Marks(q, M) = {} PROVE Marks(v, M) = {}
  <2>1. \A k \in 1..Len(v) : v[k] \notin M
    BY <1>1, <1>3, MarksAre
  <2> QED BY <2>1, MarksAre
<1>4. ASSUME NEW k, Marks(q, M) = {k}
      PROVE  Fewer(q, v, M) /\ (k = i => Marks(v, M) = {})
  <2>1. \A j \in 1..Len(q) : q[j] \in M <=> j = k
    BY <1>4, MarksAre
  <2>2. k \in 1..Len(q)
    BY <1>4, MarksAre
  <2>3. CASE k = i
    <3>1. \A j \in 1..Len(v) : v[j] \notin M
      BY <1>1, <2>1, <2>3
    <3> QED BY <3>1, MarksAre DEF Fewer
  <2>4. CASE k # i
    <3> DEFINE l == IF k < i THEN k ELSE k - 1
    <3>1. l \in 1..Len(v) /\ v[l] = q[k]
      <4>1. l \in 1..Len(v)
        BY <1>2, <2>2, <2>4
      <4>2. PICK j \in 1..Len(q) : v[l] = q[j] /\ ((l < i /\ j = l) \/ (~(l < i) /\ j = l + 1))
        BY <1>1, <4>1
      <4>3. j = k
        BY <1>2, <2>2, <2>4, <4>2
      <4> QED BY <4>1, <4>2, <4>3
    <3>2. ASSUME NEW n \in 1..Len(v), v[n] \in M PROVE n = l
      <4>1. PICK j \in 1..Len(q) : v[n] = q[j] /\ ((n < i /\ j = n) \/ (~(n < i) /\ j = n + 1))
        BY <1>1
      <4>2. j = k
        BY <2>1, <3>2, <4>1
      <4> QED BY <1>2, <2>4, <4>1, <4>2
    <3>3. v[l] \in M
      BY <2>1, <2>2, <3>1
    <3> HIDE DEF l
    <3>4. Marks(v, M) = {l}
      BY <3>1, <3>2, <3>3, MarksAre
    <3> QED BY <1>4, <2>4, <3>1, <3>4 DEF Fewer
  <2> QED BY <2>3, <2>4
<1> QED BY <1>3, <1>4 DEF Single, Fewer

\* When something comes after.
LEMMA MarksJoined ==
  ASSUME NEW p, NEW q, NEW v, NEW M, Joined(p, q, v), Single(p, M)
  PROVE  /\ Marks(q, M) = {} => Fewer(p, v, M)
         /\ \A k : Marks(p, M) = {} /\ Marks(q, M) = {k} =>
               Marks(v, M) = {Len(p) + k} /\ v[Len(p) + k] = q[k]
<1>1. \A k \in 1..Len(v) : \/ k \in 1..Len(p) /\ v[k] = p[k]
                           \/ \E j \in 1..Len(q) : k = Len(p) + j /\ v[k] = q[j]
  BY JoinedElements
<1>2. /\ Len(p) \in Nat /\ Len(q) \in Nat /\ Len(v) = Len(p) + Len(q)
      /\ \A k \in 1..Len(p) : v[k] = p[k]
      /\ \A k \in 1..Len(q) : v[Len(p) + k] = q[k]
  BY DEF Joined
<1>3. ASSUME Marks(q, M) = {} PROVE Marks(v, M) = Marks(p, M)
  <2>1. \A j \in 1..Len(q) : q[j] \notin M
    BY <1>3, MarksAre
  <2>2. \A k : k \in 1..Len(v) /\ v[k] \in M => k \in 1..Len(p) /\ p[k] \in M
    BY <1>1, <2>1
  <2>3. \A k : k \in 1..Len(p) /\ p[k] \in M => k \in 1..Len(v) /\ v[k] \in M
    BY <1>2
  <2>4. \A k : k \in Marks(v, M) <=> k \in Marks(p, M)
    BY <2>2, <2>3, MarksAre
  <2> QED BY <2>4, Zenon
<1>4. ASSUME Marks(q, M) = {} PROVE Fewer(p, v, M)
  <2>1. \A k : Marks(p, M) = {k} => v[k] = p[k]
    BY <1>2, MarksAre
  <2> QED BY <1>3, <1>4, <2>1 DEF Single, Fewer
<1>5. ASSUME NEW k, Marks(p, M) = {}, Marks(q, M) = {k}
      PROVE  Marks(v, M) = {Len(p) + k} /\ v[Len(p) + k] = q[k]
  <2>1. \A j \in 1..Len(q) : q[j] \in M <=> j = k
    BY <1>5, MarksAre
  <2>2. k \in 1..Len(q)
    BY <1>5, MarksAre
  <2>3. \A j \in 1..Len(p) : p[j] \notin M
    BY <1>5, MarksAre
  <2>4. Len(p) + k \in 1..Len(v) /\ v[Len(p) + k] = q[k] /\ q[k] \in M
    BY <1>2, <2>1, <2>2
  <2>5. ASSUME NEW n \in 1..Len(v), v[n] \in M PROVE n = Len(p) + k
    BY <1>1, <2>1, <2>3, <2>5
  <2> QED BY <2>4, <2>5, MarksAre
<1> QED BY <1>4, <1>5

\* The marks that a thread's token leaves.
LEMMA TokenSingles ==
  ASSUME NEW sent, NEW coming, NEW there, NEW o, NEW t, TokenState(sent, coming, there, o, t)
  PROVE  /\ Single(sent, RequestsOf(t)) /\ Single(coming, AcksOf(t)) /\ Single(there, AcksOf(t))
         /\ o.at # "ack" => NoToken(sent, coming, there, t)
<1>1. CASE NoToken(sent, coming, there, t)
  BY <1>1 DEF NoToken, Single
<1>2. CASE \E k \in 1..Len(sent) :
          /\ Marks(sent, RequestsOf(t)) = {k} /\ Marks(coming, AcksOf(t)) = {} /\ Marks(there, AcksOf(t)) = {}
          /\ o = [at |-> "ack", cmd |-> sent[k].cmd]
  <2>1. o.at = "ack"
    BY <1>2
  <2> QED BY <1>2, <2>1, Zenon DEF Single
<1>3. CASE \E k \in 1..Len(coming) :
          /\ Marks(sent, RequestsOf(t)) = {} /\ Marks(coming, AcksOf(t)) = {k} /\ Marks(there, AcksOf(t)) = {}
          /\ o = [at |-> "ack", cmd |-> coming[k].cmd]
  <2>1. o.at = "ack"
    BY <1>3
  <2> QED BY <1>3, <2>1, Zenon DEF Single
<1>4. CASE \E k \in 1..Len(there) :
          /\ Marks(sent, RequestsOf(t)) = {} /\ Marks(coming, AcksOf(t)) = {} /\ Marks(there, AcksOf(t)) = {k}
          /\ o = [at |-> "ack", cmd |-> there[k].cmd]
  <2>1. o.at = "ack"
    BY <1>4
  <2> QED BY <1>4, <2>1, Zenon DEF Single
<1> QED BY <1>1, <1>2, <1>3, <1>4, Zenon DEF TokenState

\* A token stays what it is, or is lost.
LEMMA FewerTokens ==
  ASSUME NEW sent, NEW coming, NEW there, NEW o, NEW t, TokenState(sent, coming, there, o, t),
         NEW sent2, NEW coming2, NEW there2,
         Fewer(sent, sent2, RequestsOf(t)), Fewer(coming, coming2, AcksOf(t)), Fewer(there, there2, AcksOf(t))
  PROVE  /\ TokenState(sent2, coming2, there2, o, t)
         /\ NoToken(sent, coming, there, t) => NoToken(sent2, coming2, there2, t)
<1> DEFINE R == RequestsOf(t)
<1> DEFINE A == AcksOf(t)
<1>0. /\ \A q, v, M : Fewer(q, v, M) => (Marks(q, M) = {} => Marks(v, M) = {})
      /\ \A q, v, M : Fewer(q, v, M) /\ Marks(v, M) # {} => 
            \A k : Marks(q, M) = {k} => \E j \in 1..Len(v) : Marks(v, M) = {j} /\ v[j] = q[k]
  <2>1. ASSUME NEW q, NEW v, NEW M, Fewer(q, v, M)
        PROVE  /\ Marks(q, M) = {} => Marks(v, M) = {}
               /\ Marks(v, M) # {} => 
                     \A k : Marks(q, M) = {k} => \E j \in 1..Len(v) : Marks(v, M) = {j} /\ v[j] = q[k]
    BY <2>1, MarksAre DEF Fewer
  <2> QED BY <2>1
<1>1. ASSUME NoToken(sent, coming, there, t) PROVE NoToken(sent2, coming2, there2, t)
  BY <1>0, <1>1 DEF NoToken
<1>2. CASE \E k \in 1..Len(sent) :
          /\ Marks(sent, R) = {k} /\ Marks(coming, A) = {} /\ Marks(there, A) = {}
          /\ o = [at |-> "ack", cmd |-> sent[k].cmd]
  <2>1. Marks(coming2, A) = {} /\ Marks(there2, A) = {}
    BY <1>0, <1>2
  <2>2. CASE Marks(sent2, R) = {}
    BY <2>1, <2>2 DEF TokenState, NoToken
  <2>3. CASE Marks(sent2, R) # {}
    <3>1. PICK j \in 1..Len(sent2) : Marks(sent2, R) = {j} /\ o = [at |-> "ack", cmd |-> sent2[j].cmd]
      BY <1>0, <1>2, <2>3
    <3>2. /\ Marks(sent2, RequestsOf(t)) = {j} /\ Marks(coming2, AcksOf(t)) = {} /\ Marks(there2, AcksOf(t)) = {}
          /\ o = [at |-> "ack", cmd |-> sent2[j].cmd]
      BY <2>1, <3>1
    <3> QED BY <1>1, <3>2, Zenon DEF TokenState
  <2> QED BY <1>2, <2>1, <2>2, <2>3 DEF NoToken
<1>3. CASE \E k \in 1..Len(coming) :
          /\ Marks(sent, R) = {} /\ Marks(coming, A) = {k} /\ Marks(there, A) = {}
          /\ o = [at |-> "ack", cmd |-> coming[k].cmd]
  <2>1. Marks(sent2, R) = {} /\ Marks(there2, A) = {}
    BY <1>0, <1>3
  <2>2. CASE Marks(coming2, A) = {}
    BY <2>1, <2>2 DEF TokenState, NoToken
  <2>3. CASE Marks(coming2, A) # {}
    <3>1. PICK j \in 1..Len(coming2) : Marks(coming2, A) = {j} /\ o = [at |-> "ack", cmd |-> coming2[j].cmd]
      BY <1>0, <1>3, <2>3
    <3>2. /\ Marks(sent2, RequestsOf(t)) = {} /\ Marks(coming2, AcksOf(t)) = {j} /\ Marks(there2, AcksOf(t)) = {}
          /\ o = [at |-> "ack", cmd |-> coming2[j].cmd]
      BY <2>1, <3>1
    <3> QED BY <1>1, <3>2, Zenon DEF TokenState
  <2> QED BY <1>3, <2>1, <2>2, <2>3 DEF NoToken
<1>4. CASE \E k \in 1..Len(there) :
          /\ Marks(sent, R) = {} /\ Marks(coming, A) = {} /\ Marks(there, A) = {k}
          /\ o = [at |-> "ack", cmd |-> there[k].cmd]
  <2>1. Marks(sent2, R) = {} /\ Marks(coming2, A) = {}
    BY <1>0, <1>4
  <2>2. CASE Marks(there2, A) = {}
    BY <2>1, <2>2 DEF TokenState, NoToken
  <2>3. CASE Marks(there2, A) # {}
    <3>1. PICK j \in 1..Len(there2) : Marks(there2, A) = {j} /\ o = [at |-> "ack", cmd |-> there2[j].cmd]
      BY <1>0, <1>4, <2>3
    <3>2. /\ Marks(sent2, RequestsOf(t)) = {} /\ Marks(coming2, AcksOf(t)) = {} /\ Marks(there2, AcksOf(t)) = {j}
          /\ o = [at |-> "ack", cmd |-> there2[j].cmd]
      BY <2>1, <3>1
    <3> QED BY <1>1, <3>2, Zenon DEF TokenState
  <2> QED BY <1>4, <2>1, <2>2, <2>3 DEF NoToken
<1> QED BY <1>1, <1>2, <1>3, <1>4, Zenon DEF TokenState

\* A token stays, or is lost; a thread without a token may go on.
LEMMA TokenKept ==
  ASSUME NEW t, TokenOf(t), NEW sent, NEW coming, NEW there,
         sent = toServer'[t[1]], coming = toClient'[t[1]], there = pending'[t[1]],
         Fewer(toServer[t[1]], sent, RequestsOf(t)), Fewer(toClient[t[1]], coming, AcksOf(t)),
         Fewer(pending[t[1]], there, AcksOf(t)),
         op'[t] = op[t] \/ op[t].at # "ack"
  PROVE  TokenOf(t)'
<1> DEFINE c == t[1]
<1>1. TokenState(toServer[c], toClient[c], pending[c], op[t], t)
  BY DEF TokenOf
<1>2. /\ TokenState(sent, coming, there, op[t], t)
      /\ NoToken(toServer[c], toClient[c], pending[c], t) => NoToken(sent, coming, there, t)
  BY <1>1, FewerTokens
<1>3. op[t].at # "ack" => NoToken(toServer[c], toClient[c], pending[c], t)
  BY <1>1, TokenSingles
<1>4. PICK o : o = op'[t]
  OBVIOUS
<1>5. TokenState(sent, coming, there, o, t)
  <2>1. CASE op'[t] = op[t]
    BY <1>2, <1>4, <2>1
  <2>2. CASE op[t].at # "ack"
    BY <1>2, <1>3, <2>2 DEF TokenState
  <2> QED BY <2>1, <2>2
<1>6. TokenState(toServer'[c], toClient'[c], pending'[c], op'[t], t)
  BY <1>4, <1>5
<1> QED BY <1>6 DEF TokenOf

\* The places of a token: each of them holds one at most.
LEMMA TokenMarks ==
  ASSUME NEW t, TokenOf(t)
  PROVE  /\ Single(toServer[t[1]], RequestsOf(t)) /\ Single(toClient[t[1]], AcksOf(t))
         /\ Single(pending[t[1]], AcksOf(t))
         /\ Fewer(toServer[t[1]], toServer[t[1]], RequestsOf(t))
         /\ Fewer(toClient[t[1]], toClient[t[1]], AcksOf(t))
         /\ Fewer(pending[t[1]], pending[t[1]], AcksOf(t))
<1> DEFINE c == t[1]
<1>1. TokenState(toServer[c], toClient[c], pending[c], op[t], t)
  BY DEF TokenOf
<1>2. Single(toServer[c], RequestsOf(t)) /\ Single(toClient[c], AcksOf(t)) /\ Single(pending[c], AcksOf(t))
  BY <1>1, TokenSingles
<1> QED BY <1>2, FewerSame

\* Where nothing is sent, received or read.
LEMMA TokenStays ==
  ASSUME NEW t, TokenOf(t), toServer'[t[1]] = toServer[t[1]], toClient'[t[1]] = toClient[t[1]],
         pending'[t[1]] = pending[t[1]], op'[t] = op[t] \/ op[t].at # "ack"
  PROVE  TokenOf(t)'
<1> DEFINE c == t[1]
<1>1. PICK sent, coming, there : sent = toServer[c] /\ coming = toClient[c] /\ there = pending[c]
  OBVIOUS
<1>2. /\ Fewer(toServer[c], sent, RequestsOf(t)) /\ Fewer(toClient[c], coming, AcksOf(t))
      /\ Fewer(pending[c], there, AcksOf(t))
  BY <1>1, TokenMarks
<1> QED BY <1>1, <1>2, TokenKept

\* A client whose commands, requests and acks do not change.
LEMMA AckedStays ==
  ASSUME NEW c \in Client, Acked(c), toServer'[c] = toServer[c], toClient'[c] = toClient[c],
         pending'[c] = pending[c], locked'[c] = locked[c],
         \A t \in {App(c), Recv(c)} : op'[t] = op[t] \/ (op[t].at # "ack" /\ op'[t].at # "ack"),
         \A t \in {App(c), Recv(c)} : Cut(t) => Cut(t)'
  PROVE  Acked(c)'
<1>0. App(c)[1] = c /\ Recv(c)[1] = c
  BY Threads
<1>1. AcksIn(toClient[c], c)' /\ AcksIn(pending[c], c)'
  BY DEF Acked, AcksIn
<1>2. Locking(c)'
  BY DEF Acked, Locking
<1>3. (~Cut(App(c)) => TokenOf(App(c)))'
  BY <1>0, TokenStays DEF Acked
<1>4. (~Cut(Recv(c)) => TokenOf(Recv(c)))'
  BY <1>0, TokenStays DEF Acked
<1> QED BY <1>1, <1>2, <1>3, <1>4 DEF Acked

\* A client that is closing, or has failed, does not come back.
LEMMA Ended ==
  ASSUME TypeInv, NEW c \in Client, Step(c), phase[c] \in {"failed", "closing", "closed"}
  PROVE  phase'[c] \in {"failed", "closing", "closed"}
<1>0. TypeOK /\ Mine(c)
  BY TypeInvIs
<1>1. CASE \E t \in Thread : t[1] = c /\ (Send(t) \/ Register(t) \/ NotFound(t) \/ Read(t) \/ CutOff(t))
  <2>1. PICK t \in Thread : t[1] = c /\ (Send(t) \/ Register(t) \/ NotFound(t) \/ Read(t) \/ CutOff(t))
    BY <1>1
  <2>2. t \in {App(c), Recv(c)}
    BY <2>1, ThreadOf
  <2>3. CASE UNCHANGED phase
    BY <2>3
  <2>4. CASE Fail(t)
    BY <1>0, <2>1, <2>4 DEF Fail, Goes, TypeOK
  <2>5. CASE (Send(t) \/ Read(t)) /\ \E m : Succeed(t, m)
    <3>1. op[t] # Idle
      BY <1>0, <2>2, <2>5, OpStates DEF Mine, Waiting, Send, Read
    <3>2. CASE t = App(c)
      <4>1. op[t].cmd \in AppCmds(phase[c])
        BY <1>0, <3>1, <3>2 DEF Mine, Calling
      <4>2. op[t].cmd \notin {"bind", "open"}
        BY <4>1 DEF AppCmds
      <4> QED BY <1>0, <2>1, <2>5, <4>2 DEF Succeed, Goes, TypeOK, appVars
    <3>3. CASE t = Recv(c)
      <4>1. op[t].cmd = "release"
        BY <1>0, <3>1, <3>3 DEF Mine, Calling
      <4> QED BY <2>5, <4>1 DEF Succeed
    <3> QED BY <2>2, <3>2, <3>3
  <2> QED BY <2>1, <2>3, <2>4, <2>5 DEF Send, Register, NotFound, Read, CutOff, appVars
<1>2. CASE Connect(c) \/ Meet(c) \/ Close(c)
  BY <1>0, <1>2 DEF Connect, Meet, Close, Goes, TypeOK
<1>3. CASE \/ Dispatch(c) \/ ReadEnds(c) \/ LoseConnection(c)
           \/ StartRecv(c) \/ Scan(c) \/ Notified(c) \/ Deliver(c) \/ AddMessage(c)
           \/ Serve(c) \/ HangUp(c)
  BY <1>3 DEF Dispatch, ReadEnds, LoseConnection, StartRecv, Scan, Notified, Deliver, AddMessage, Serve, HangUp, appVars
<1> QED BY <1>1, <1>2, <1>3 DEF Step

\* What has been cut off stays so.
LEMMA CutStays ==
  ASSUME TypeInv, NEW c \in Client, Step(c), UNCHANGED cancelled, NEW t \in {App(c), Recv(c)}, Cut(t)
  PROVE  Cut(t)'
<1>1. t[1] = c
  BY Threads
<1> QED BY <1>1, Ended DEF Cut

\* Steps that send, receive and read nothing.
LEMMA QuietAcked ==
  ASSUME TypeInv, NEW c \in Client, Acked(c), Step(c), UNCHANGED cancelled,
         \/ \E t \in Thread : t[1] = c /\ (Register(t) \/ NotFound(t))
         \/ ReadEnds(c) \/ LoseConnection(c)
         \/ StartRecv(c) \/ Scan(c) \/ Notified(c) \/ Deliver(c)
         \/ Meet(c) \/ AddMessage(c) \/ Close(c)
  PROVE  Acked(c)'
<1>0. /\ TypeOK /\ Mine(c) /\ App(c) # Recv(c) /\ App(c) \in Thread /\ Recv(c) \in Thread
      /\ Idle.at = "idle"
  BY TypeInvIs, Threads, OpStates
<1>1. \A t \in {App(c), Recv(c)} : Cut(t) => Cut(t)'
  BY CutStays
<1>2. UNCHANGED <<pending, locked, toServer, toClient>>
  BY DEF Register, NotFound, ReadEnds, LoseConnection, StartRecv, Scan, Notified, Deliver, Meet, AddMessage, Close,
     cmdVars, netVars
<1>3. \/ UNCHANGED op
      \/ \E cmd : op[App(c)] = Idle /\ op' = [op EXCEPT ![App(c)] = [at |-> "lock", cmd |-> cmd]]
      \/ \E cmd : op[Recv(c)] = Idle /\ op' = [op EXCEPT ![Recv(c)] = [at |-> "lock", cmd |-> cmd]]
  <2>1. CASE Deliver(c)
    <3>1. op[Recv(c)] = Idle
      BY <1>0, <2>1 DEF Deliver, Mine, Calling
    <3> QED BY <2>1, <3>1 DEF Deliver, Begin
  <2>2. CASE Meet(c) \/ AddMessage(c) \/ Close(c)
    <3>1. op[App(c)] = Idle
      BY <1>0, <2>2 DEF Meet, AddMessage, Close, Mine, Calling, AppCmds
    <3>2. \E cmd : Begin(App(c), cmd)
      BY <2>2, Zenon DEF Meet, AddMessage, Close
    <3> QED BY <3>1, <3>2 DEF Begin
  <2>3. CASE \/ \E t \in Thread : t[1] = c /\ (Register(t) \/ NotFound(t))
             \/ ReadEnds(c) \/ LoseConnection(c) \/ StartRecv(c) \/ Scan(c) \/ Notified(c)
    BY <2>3 DEF Register, NotFound, ReadEnds, LoseConnection, StartRecv, Scan, Notified, cmdVars
  <2> QED BY <2>1, <2>2, <2>3
<1>4. \A t \in {App(c), Recv(c)} : op'[t] = op[t] \/ (op[t].at # "ack" /\ op'[t].at # "ack")
  BY <1>0, <1>3 DEF TypeOK
<1> QED BY <1>1, <1>2, <1>4, AckedStays

\* The welcome.
LEMMA ConnectAcked ==
  ASSUME TypeInv, NEW c \in Client, Acked(c), Step(c), UNCHANGED cancelled, Connect(c)
  PROVE  Acked(c)'
<1>0. /\ TypeOK /\ Mine(c) /\ App(c) # Recv(c) /\ App(c) \in Thread /\ Recv(c) \in Thread
      /\ Idle.at = "idle" /\ App(c)[1] = c /\ Recv(c)[1] = c
  BY TypeInvIs, Threads, OpStates
<1>1. \A t \in {App(c), Recv(c)} : Cut(t) => Cut(t)'
  BY CutStays
<1>2. /\ op[App(c)] = Idle /\ toClient[c] = <<>>
      /\ UNCHANGED <<pending, locked, toServer>>
      /\ op'[App(c)].at = "reply" /\ op'[Recv(c)] = op[Recv(c)]
  BY <1>0 DEF Connect, Mine, Calling, Wired, AppCmds, TypeOK
<1>3. PICK v : v = toClient'[c] /\ Len(v) = 1 /\ v[1].type = "welcome"
  BY <1>0 DEF Connect, Plain, TypeOK
<1>4. AcksIn(toClient[c], c)' /\ AcksIn(pending[c], c)'
  BY <1>2, <1>3 DEF Acked, AcksIn
<1>5. Locking(c)'
  BY <1>0, <1>2 DEF Acked, Locking
<1>6. ASSUME NEW t \in {App(c), Recv(c)}, TokenOf(t) PROVE TokenOf(t)'
  <2>1. v[1] \notin AcksOf(t)
    BY <1>3 DEF AcksOf
  <2>2. Fewer(toClient[c], v, AcksOf(t))
    BY <1>3, <2>1, MarksAre DEF Fewer
  <2>3. PICK sent, there : sent = toServer'[c] /\ there = pending'[c]
    OBVIOUS
  <2>4. Fewer(toServer[c], sent, RequestsOf(t)) /\ Fewer(pending[c], there, AcksOf(t))
    BY <1>0, <1>2, <1>6, <2>3, TokenMarks
  <2>5. op'[t] = op[t] \/ op[t].at # "ack"
    BY <1>0, <1>2
  <2>6. t[1] = c
    BY <1>0
  <2> QED BY <1>3, <1>6, <2>2, <2>3, <2>4, <2>5, <2>6, TokenKept
<1> QED BY <1>1, <1>4, <1>5, <1>6 DEF Acked

\* The end of the server's handler.
LEMMA HangUpAcked ==
  ASSUME TypeInv, NEW c \in Client, Acked(c), Step(c), UNCHANGED cancelled, HangUp(c)
  PROVE  Acked(c)'
<1>0. TypeOK /\ App(c)[1] = c /\ Recv(c)[1] = c
  BY Threads DEF TypeInv
<1>1. \A t \in {App(c), Recv(c)} : Cut(t) => Cut(t)'
  BY CutStays
<1>2. UNCHANGED <<op, pending, locked, toClient>>
  BY DEF HangUp, cmdVars
<1>3. PICK v : v = toServer'[c] /\ Len(v) = 0
  BY <1>0 DEF HangUp, TypeOK
<1>4. AcksIn(toClient[c], c)' /\ AcksIn(pending[c], c)'
  BY <1>2 DEF Acked, AcksIn
<1>5. Locking(c)'
  BY <1>2 DEF Acked, Locking
<1>6. ASSUME NEW t \in {App(c), Recv(c)}, TokenOf(t) PROVE TokenOf(t)'
  <2>2. Fewer(toServer[c], v, RequestsOf(t))
    BY <1>3, MarksAre DEF Fewer
  <2>3. PICK coming, there : coming = toClient'[c] /\ there = pending'[c]
    OBVIOUS
  <2>4. Fewer(toClient[c], coming, AcksOf(t)) /\ Fewer(pending[c], there, AcksOf(t))
    BY <1>0, <1>2, <1>6, <2>3, TokenMarks
  <2>5. op'[t] = op[t] /\ t[1] = c
    BY <1>0, <1>2
  <2> QED BY <1>3, <1>6, <2>2, <2>3, <2>4, <2>5, TokenKept
<1> QED BY <1>1, <1>4, <1>5, <1>6 DEF Acked



\* Send: the thread's request is its token.
LEMMA SendAcked ==
  ASSUME TypeInv, NEW c \in Client, Acked(c), Step(c), UNCHANGED cancelled,
         NEW t \in Thread, t[1] = c, Send(t)
  PROVE  Acked(c)'
<1>0. /\ TypeOK /\ Mine(c) /\ App(c) # Recv(c) /\ App(c) \in Thread /\ Recv(c) \in Thread
      /\ Idle.at = "idle" /\ App(c)[1] = c /\ Recv(c)[1] = c /\ t \in {App(c), Recv(c)}
  BY TypeInvIs, Threads, ThreadOf, OpStates
<1>1. \A s \in {App(c), Recv(c)} : Cut(s) => Cut(s)'
  BY CutStays
<1>2. UNCHANGED <<pending, toClient>> /\ op[t].at = "lock" /\ op[t] # Idle /\ op[t].cmd \in Command /\ ~locked[c]
  BY <1>0, OpStates DEF Send, TypeOK
<1>3. CASE Fail(t) /\ UNCHANGED <<toServer, locked, crashed>>
  <2>1. op' = [op EXCEPT ![t] = Idle]
    BY <1>3 DEF Fail, End
  <2>2. \A s \in {App(c), Recv(c)} : op'[s] = op[s] \/ (op[s].at # "ack" /\ op'[s].at # "ack")
    BY <1>0, <1>2, <2>1 DEF TypeOK
  <2> QED BY <1>1, <1>2, <1>3, <2>2, AckedStays
<1>4. CASE UNCHANGED <<appVars, recv, ws, op, toServer, locked>>
  BY <1>1, <1>2, <1>4, AckedStays
<1>5. CASE /\ ws[c] = "up"
           /\ toServer' = [toServer EXCEPT ![c] =
                              Append(@, [thread |-> t, cmd |-> op[t].cmd, arg |-> Arg(t)])]
           /\ locked' = [locked EXCEPT ![c] = TRUE]
           /\ op' = [op EXCEPT ![t].at = "ack"]
  <2>1. op' = [op EXCEPT ![t] = [at |-> "ack", cmd |-> op[t].cmd]]
    BY <1>0, <1>2, <1>5, OpMoved
  <2>2. /\ op'[t] = [at |-> "ack", cmd |-> op[t].cmd]
        /\ \A s \in {App(c), Recv(c)} : s # t => op'[s] = op[s]
    BY <1>0, <2>1 DEF TypeOK
  <2>3. locked'[c]
    BY <1>0, <1>5 DEF TypeOK
  <2>4. Locking(c)'
    BY <1>0, <1>2, <2>2, <2>3 DEF Acked, Locking
  <2>5. AcksIn(toClient[c], c)' /\ AcksIn(pending[c], c)'
    BY <1>2 DEF Acked, AcksIn
  <2> DEFINE r == [thread |-> t, cmd |-> op[t].cmd, arg |-> Arg(t)]
  <2>6. r.thread = t /\ r.cmd = op[t].cmd
    OBVIOUS
  <2>7. toServer'[c] = Append(toServer[c], r) /\ toServer[c] \in Seq(Request)
    BY <1>0, <1>5 DEF TypeOK
  <2>8. toServer' \in [Client -> Seq(Request)]
    BY StepType, <1>5, SendType DEF TypeOK
  <2> HIDE DEF r
  <2>9. PICK v : v = toServer'[c]
    OBVIOUS
  <2>10. /\ Len(v) = Len(toServer[c]) + 1 /\ v[Len(toServer[c]) + 1] = r /\ Len(toServer[c]) \in Nat
         /\ \A k \in 1..Len(toServer[c]) : v[k] = toServer[c][k]
    BY <2>7, <2>9
  <2>11. r \in Request
    <3>1. v \in Seq(Request)
      BY <2>8, <2>9
    <3> QED BY <2>10, <3>1, ElementOfSeq
  <2>12. PICK q : Len(q) = 1 /\ q[1] = r
    <3>1. Len(<<r>>) = 1 /\ <<r>>[1] = r
      OBVIOUS
    <3> QED BY <3>1, Zenon
  <2>13. Joined(toServer[c], q, v)
    BY <2>10, <2>12 DEF Joined
  <2>14. PICK coming, there : coming = toClient'[c] /\ there = pending'[c]
    OBVIOUS
  <2>15. ASSUME TokenOf(t) PROVE TokenOf(t)'
    <3>1. NoToken(toServer[c], toClient[c], pending[c], t)
      BY <1>0, <1>2, <2>15, TokenSingles DEF TokenOf
    <3>2. r \in RequestsOf(t)
      BY <2>6, <2>11 DEF RequestsOf
    <3>3. Marks(toServer[c], RequestsOf(t)) = {}
      BY <3>1 DEF NoToken
    <3>4. Marks(v, RequestsOf(t)) = {Len(toServer[c]) + 1}
      <4> DEFINE M == RequestsOf(t)
      <4> HIDE DEF M
      <4>1. \A k \in 1..Len(toServer[c]) : v[k] \notin M
        BY <2>10, <3>3, MarksAre DEF M
      <4>2. \A k : k \in 1..Len(v) /\ v[k] \in M <=> k = Len(toServer[c]) + 1
        BY <2>10, <3>2, <4>1 DEF M
      <4> QED BY <4>2, MarksAre DEF M
    <3>5. Marks(coming, AcksOf(t)) = {} /\ Marks(there, AcksOf(t)) = {}
      BY <1>2, <2>14, <3>1 DEF NoToken
    <3>6. PICK o : o = op'[t] /\ o = [at |-> "ack", cmd |-> r.cmd]
      BY <2>2, <2>6
    <3>7. PICK k \in 1..Len(v) : k = Len(toServer[c]) + 1
      BY <2>10
    <3>8. /\ Marks(v, RequestsOf(t)) = {k} /\ Marks(coming, AcksOf(t)) = {} /\ Marks(there, AcksOf(t)) = {}
          /\ o = [at |-> "ack", cmd |-> v[k].cmd]
      BY <2>10, <3>4, <3>5, <3>6, <3>7
    <3>9. TokenState(v, coming, there, o, t)
      BY <3>8, Zenon DEF TokenState
    <3> QED BY <1>0, <2>9, <2>14, <3>6, <3>9 DEF TokenOf
  <2>16. ASSUME NEW s \in {App(c), Recv(c)}, s # t, TokenOf(s) PROVE TokenOf(s)'
    <3>1. s[1] = c
      BY <1>0
    <3>2. Marks(q, RequestsOf(s)) = {}
      BY <2>6, <2>12, <2>16, MarksAre DEF RequestsOf
    <3>3. Fewer(toServer[c], v, RequestsOf(s))
      BY <2>13, <2>16, <3>1, <3>2, TokenMarks, MarksJoined
    <3>4. Fewer(toClient[c], coming, AcksOf(s)) /\ Fewer(pending[c], there, AcksOf(s))
      BY <1>2, <2>14, <2>16, <3>1, TokenMarks
    <3>5. op'[s] = op[s]
      BY <2>2, <2>16
    <3> QED BY <2>9, <2>14, <2>16, <3>1, <3>3, <3>4, <3>5, TokenKept
  <2>17. \A s \in {App(c), Recv(c)} : TokenOf(s) => TokenOf(s)'
    BY <2>15, <2>16
  <2> QED BY <1>1, <2>4, <2>5, <2>17 DEF Acked
<1> QED BY <1>0, <1>3, <1>4, <1>5 DEF Send

\* No mark; one mark, and it is x.
Bare(q, M) == Marks(q, M) = {}
Marked(q, M, x) == \E j \in 1..Len(q) : Marks(q, M) = {j} /\ q[j] = x

\* What is put after a sequence brings at most its first element as a mark.
LEMMA MarksGained ==
  ASSUME NEW p, NEW q, NEW v, NEW M, Joined(p, q, v), Single(p, M), Len(q) >= 1,
         \A k \in 2..Len(q) : q[k] \notin M
  PROVE  /\ q[1] \notin M => Fewer(p, v, M)
         /\ Bare(p, M) /\ q[1] \in M => Marked(v, M, q[1])
<1>0. /\ Len(p) \in Nat /\ Len(q) \in Nat /\ Len(v) = Len(p) + Len(q)
      /\ \A k \in 1..Len(p) : v[k] = p[k]
      /\ \A k \in 1..Len(q) : v[Len(p) + k] = q[k]
  BY DEF Joined
<1>1. \A k \in 1..Len(q) : k = 1 \/ k \in 2..Len(q)
  BY <1>0
<1>2. ASSUME q[1] \notin M PROVE Fewer(p, v, M)
  <2>1. Marks(q, M) = {}
    BY <1>1, <1>2, MarksAre
  <2> QED BY <2>1, MarksJoined
<1>3. ASSUME Bare(p, M), q[1] \in M
      PROVE  Marked(v, M, q[1])
  <2>1. \A k \in 1..Len(p) : p[k] \notin M
    BY <1>3, MarksAre DEF Bare
  <2> DEFINE j == Len(p) + 1
  <2>2. j \in 1..Len(v) /\ v[j] = q[1]
    BY <1>0
  <2>3. \A k \in 1..Len(v) : k \in 1..Len(p) \/ \E i \in 1..Len(q) : k = Len(p) + i
    BY JoinedElements
  <2>4. ASSUME NEW k \in 1..Len(v), v[k] \in M PROVE k = j
    <3>1. k \notin 1..Len(p)
      BY <1>0, <2>1, <2>4
    <3>2. PICK i \in 1..Len(q) : k = Len(p) + i
      BY <2>3, <3>1
    <3>3. q[i] \in M
      BY <1>0, <2>4, <3>2
    <3>4. i = 1
      BY <1>1, <3>3
    <3> QED BY <3>2, <3>4
  <2> HIDE DEF j
  <2>5. Marks(v, M) = {j}
    BY <1>3, <2>2, <2>4, MarksAre
  <2> QED BY <2>2, <2>5 DEF Marked
<1> QED BY <1>2, <1>3

\* Where a token is.
LEMMA TokenPlaces ==
  ASSUME NEW sent, NEW coming, NEW there, NEW o, NEW t, TokenState(sent, coming, there, o, t)
  PROVE  /\ \A k : k \in Marks(sent, RequestsOf(t)) =>
              /\ Marks(sent, RequestsOf(t)) = {k} /\ Marks(coming, AcksOf(t)) = {} /\ Marks(there, AcksOf(t)) = {}
              /\ o = [at |-> "ack", cmd |-> sent[k].cmd]
         /\ \A k : k \in Marks(coming, AcksOf(t)) =>
              /\ Marks(sent, RequestsOf(t)) = {} /\ Marks(coming, AcksOf(t)) = {k} /\ Marks(there, AcksOf(t)) = {}
              /\ o = [at |-> "ack", cmd |-> coming[k].cmd]
         /\ \A k : k \in Marks(there, AcksOf(t)) =>
              /\ Marks(sent, RequestsOf(t)) = {} /\ Marks(coming, AcksOf(t)) = {} /\ Marks(there, AcksOf(t)) = {k}
              /\ o = [at |-> "ack", cmd |-> there[k].cmd]
<1> DEFINE R == Marks(sent, RequestsOf(t))
<1> DEFINE A == Marks(coming, AcksOf(t))
<1> DEFINE B == Marks(there, AcksOf(t))
<1>1. \/ R = {} /\ A = {} /\ B = {}
      \/ \E k : R = {k} /\ A = {} /\ B = {} /\ o = [at |-> "ack", cmd |-> sent[k].cmd]
      \/ \E k : R = {} /\ A = {k} /\ B = {} /\ o = [at |-> "ack", cmd |-> coming[k].cmd]
      \/ \E k : R = {} /\ A = {} /\ B = {k} /\ o = [at |-> "ack", cmd |-> there[k].cmd]
  BY Zenon DEF TokenState, NoToken
<1> HIDE DEF R, A, B
<1>2. ASSUME NEW k, k \in R
      PROVE  R = {k} /\ A = {} /\ B = {} /\ o = [at |-> "ack", cmd |-> sent[k].cmd]
  <2>1. PICK j : R = {j} /\ A = {} /\ B = {} /\ o = [at |-> "ack", cmd |-> sent[j].cmd]
    BY <1>1, <1>2
  <2>2. j = k
    BY <1>2, <2>1
  <2> QED BY <2>1, <2>2
<1>3. ASSUME NEW k, k \in A
      PROVE  R = {} /\ A = {k} /\ B = {} /\ o = [at |-> "ack", cmd |-> coming[k].cmd]
  <2>1. PICK j : R = {} /\ A = {j} /\ B = {} /\ o = [at |-> "ack", cmd |-> coming[j].cmd]
    BY <1>1, <1>3
  <2>2. j = k
    BY <1>3, <2>1
  <2> QED BY <2>1, <2>2
<1>4. ASSUME NEW k, k \in B
      PROVE  R = {} /\ A = {} /\ B = {k} /\ o = [at |-> "ack", cmd |-> there[k].cmd]
  <2>1. PICK j : R = {} /\ A = {} /\ B = {j} /\ o = [at |-> "ack", cmd |-> there[j].cmd]
    BY <1>1, <1>4
  <2>2. j = k
    BY <1>4, <2>1
  <2> QED BY <2>1, <2>2
<1> QED BY <1>2, <1>3, <1>4, Zenon DEF R, A, B

\* The server answers the first request: a token goes on as the ack.
LEMMA TokenAnswered ==
  ASSUME NEW sent, NEW coming, NEW there, NEW o, NEW t, TokenState(sent, coming, there, o, t),
         NEW sent2, Without(sent, 1, sent2), NEW q, NEW coming2, Joined(coming, q, coming2),
         Len(q) >= 1, \A k \in 2..Len(q) : q[k].type # "ack",
         sent[1] \in Request, q[1] = Ack(sent[1])
  PROVE  TokenState(sent2, coming2, there, o, t)
<1> DEFINE R == RequestsOf(t)
<1> DEFINE A == AcksOf(t)
<1>1. Single(sent, R) /\ Single(coming, A) /\ Single(there, A)
  BY TokenSingles
<1>2. Fewer(sent, sent2, R) /\ (Marks(sent, R) = {1} => Marks(sent2, R) = {})
  BY <1>1, MarksWithout
<1>3. \A k \in 2..Len(q) : q[k] \notin A
  BY DEF AcksOf
<1>4. q[1] \in A <=> sent[1] \in R
  BY Kinds DEF AcksOf, RequestsOf
<1>5. q[1].cmd = sent[1].cmd
  BY Kinds
<1>6. CASE sent[1] \in R
  <2>1. 1 \in Marks(sent, R)
    BY <1>6, MarksAre DEF Without
  <2>2. /\ Marks(sent, R) = {1} /\ Marks(coming, A) = {} /\ Marks(there, A) = {}
        /\ o = [at |-> "ack", cmd |-> sent[1].cmd]
    BY <2>1, TokenPlaces
  <2>3. \E j \in 1..Len(coming2) : Marks(coming2, A) = {j} /\ coming2[j] = q[1]
    <3>1. Bare(coming, A) /\ q[1] \in A
      BY <1>4, <1>6, <2>2 DEF Bare
    <3>2. Marked(coming2, A, q[1])
      BY <1>1, <1>3, <3>1, MarksGained
    <3> QED BY <3>2 DEF Marked
  <2>4. PICK j \in 1..Len(coming2) : Marks(coming2, A) = {j} /\ coming2[j] = q[1]
    BY <2>3
  <2>5. /\ Marks(sent2, RequestsOf(t)) = {} /\ Marks(coming2, AcksOf(t)) = {j} /\ Marks(there, AcksOf(t)) = {}
        /\ o = [at |-> "ack", cmd |-> coming2[j].cmd]
    BY <1>2, <1>5, <2>2, <2>4
  <2> QED BY <2>5, Zenon DEF TokenState
<1>7. CASE sent[1] \notin R
  <2>1. Fewer(coming, coming2, A)
    BY <1>1, <1>3, <1>4, <1>7, MarksGained
  <2>2. Fewer(there, there, A)
    BY <1>1, FewerSame
  <2> QED BY <1>2, <2>1, <2>2, FewerTokens
<1> QED BY <1>6, <1>7

\* The dispatcher takes a reply: a token goes on into pendingMsgs.
LEMMA TokenDispatched ==
  ASSUME NEW sent, NEW coming, NEW there, NEW o, NEW t, TokenState(sent, coming, there, o, t),
         NEW coming2, Without(coming, 1, coming2), NEW q, NEW there2, Joined(there, q, there2),
         Len(q) = 1, q[1] = coming[1]
  PROVE  TokenState(sent, coming2, there2, o, t)
<1> DEFINE R == RequestsOf(t)
<1> DEFINE A == AcksOf(t)
<1>1. Single(sent, R) /\ Single(coming, A) /\ Single(there, A)
  BY TokenSingles
<1>2. Fewer(coming, coming2, A) /\ (Marks(coming, A) = {1} => Marks(coming2, A) = {})
  BY <1>1, MarksWithout
<1>3. Len(q) >= 1 /\ \A k \in 2..Len(q) : q[k] \notin A
  OBVIOUS
<1>4. CASE coming[1] \in A
  <2>1. 1 \in Marks(coming, A)
    BY <1>4, MarksAre DEF Without
  <2>2. /\ Marks(sent, R) = {} /\ Marks(coming, A) = {1} /\ Marks(there, A) = {}
        /\ o = [at |-> "ack", cmd |-> coming[1].cmd]
    BY <2>1, TokenPlaces
  <2>3. \E j \in 1..Len(there2) : Marks(there2, A) = {j} /\ there2[j] = q[1]
    <3>1. Bare(there, A) /\ q[1] \in A
      BY <1>4, <2>2 DEF Bare
    <3>2. Marked(there2, A, q[1])
      BY <1>1, <1>3, <3>1, MarksGained
    <3> QED BY <3>2 DEF Marked
  <2>4. PICK j \in 1..Len(there2) : Marks(there2, A) = {j} /\ there2[j] = q[1]
    BY <2>3
  <2>5. /\ Marks(sent, RequestsOf(t)) = {} /\ Marks(coming2, AcksOf(t)) = {} /\ Marks(there2, AcksOf(t)) = {j}
        /\ o = [at |-> "ack", cmd |-> there2[j].cmd]
    BY <1>2, <2>2, <2>4
  <2> QED BY <2>5, Zenon DEF TokenState
<1>5. CASE coming[1] \notin A
  <2>1. Fewer(there, there2, A)
    BY <1>1, <1>3, <1>5, MarksGained
  <2>2. Fewer(sent, sent, R)
    BY <1>1, FewerSame
  <2> QED BY <1>2, <2>1, <2>2, FewerTokens
<1> QED BY <1>4, <1>5

\* Dispatch.
LEMMA DispatchAcked ==
  ASSUME TypeInv, NEW c \in Client, Acked(c), Step(c), UNCHANGED cancelled, Dispatch(c)
  PROVE  Acked(c)'
<1> DEFINE m == Head(toClient[c])
<1>0. /\ TypeOK /\ App(c) \in Thread /\ Recv(c) \in Thread /\ App(c)[1] = c /\ Recv(c)[1] = c
      /\ toClient[c] \in Seq(Reply \cup Message) /\ toClient[c] # <<>> /\ pending[c] \in Seq(Reply)
  BY Threads DEF TypeInv, TypeOK, Dispatch
<1>1. \A t \in {App(c), Recv(c)} : Cut(t) => Cut(t)'
  BY CutStays
<1>2. UNCHANGED <<op, locked, toServer>>
  BY DEF Dispatch
<1>3. m = toClient[c][1] /\ m \in Reply \cup Message /\ Len(toClient[c]) >= 1
  BY <1>0, Taking
<1>4. PICK coming : coming = toClient'[c] /\ Without(toClient[c], 1, coming)
  <2> DEFINE q == Tail(toClient[c])
  <2>1. Without(toClient[c], 1, q)
    BY <1>0, Taking
  <2>2. toClient' = [toClient EXCEPT ![c] = q] /\ DOMAIN toClient = Client
    <3>1. toClient' = [toClient EXCEPT ![c] = q]
      BY DEF Dispatch
    <3>2. toClient \in [Client -> Seq(Reply \cup Message)]
      BY <1>0 DEF TypeOK
    <3> QED BY <3>1, <3>2
  <2> HIDE DEF q
  <2>3. toClient'[c] = q
    BY <2>2
  <2> QED BY <2>1, <2>3
<1>5. Locking(c)'
  BY <1>2 DEF Acked, Locking
<1>6. AcksIn(toClient[c], c)'
  <2>1. Within(coming, toClient[c])
    BY <1>4, WithoutFrom
  <2> QED BY <1>4, <2>1 DEF Within, Acked, AcksIn
<1>7. CASE m.type = "message"
  <2>1. UNCHANGED pending
    BY <1>7 DEF Dispatch
  <2>2. AcksIn(pending[c], c)'
    BY <2>1 DEF Acked, AcksIn
  <2>3. PICK sent, there : sent = toServer'[c] /\ there = pending'[c]
    OBVIOUS
  <2>4. ASSUME NEW t \in {App(c), Recv(c)}, TokenOf(t) PROVE TokenOf(t)'
    <3>1. Fewer(toClient[c], coming, AcksOf(t))
      BY <1>0, <1>4, <2>4, TokenMarks, MarksWithout
    <3>2. Fewer(toServer[c], sent, RequestsOf(t)) /\ Fewer(pending[c], there, AcksOf(t))
      BY <1>0, <1>2, <2>1, <2>3, <2>4, TokenMarks
    <3>3. op'[t] = op[t] /\ t[1] = c
      BY <1>0, <1>2
    <3> QED BY <1>4, <2>3, <2>4, <3>1, <3>2, <3>3, TokenKept
  <2> QED BY <1>1, <1>5, <1>6, <2>2, <2>4 DEF Acked
<1>8. CASE m.type # "message"
  <2>1. m \in Reply
    BY <1>3, <1>8, Kinds
  <2>2. pending'[c] = Append(pending[c], m)
    BY <1>0, <1>8 DEF Dispatch, TypeOK
  <2>3. PICK q : Len(q) = 1 /\ q[1] = m
    <3>1. Len(<<m>>) = 1 /\ <<m>>[1] = m
      OBVIOUS
    <3> QED BY <3>1, Zenon
  <2> HIDE DEF m
  <2>4. PICK there : there = pending'[c]
    OBVIOUS
  <2>5. Joined(pending[c], q, there)
    BY <1>0, <2>1, <2>2, <2>3, <2>4 DEF Joined
  <2>6. AcksIn(pending[c], c)'
    <3>1. \A k \in 1..Len(there) : (\E j \in 1..Len(pending[c]) : there[k] = pending[c][j]) \/ there[k] = m
      <4>1. Mixed(pending[c], q, there)
        BY <2>5, JoinedFrom
      <4>2. \A j \in 1..Len(q) : q[j] = m
        BY <2>3
      <4> QED BY <4>1, <4>2 DEF Mixed
    <3>2. m.type = "ack" => m.thread \in {App(c), Recv(c)}
      BY <1>0, <1>3 DEF Acked, AcksIn
    <3> QED BY <2>4, <3>1, <3>2 DEF Acked, AcksIn
  <2>7. PICK sent : sent = toServer[c] /\ sent = toServer'[c]
    BY <1>2
  <2>8. ASSUME NEW t \in {App(c), Recv(c)}, TokenOf(t) PROVE TokenOf(t)'
    <3>1. t[1] = c
      BY <1>0
    <3>2. PICK o : o = op[t] /\ o = op'[t]
      BY <1>2
    <3>3. TokenState(sent, toClient[c], pending[c], o, t)
      BY <2>7, <2>8, <3>1, <3>2 DEF TokenOf
    <3>4. TokenState(sent, coming, there, o, t)
      BY <1>3, <1>4, <2>3, <2>5, <3>3, TokenDispatched
    <3> QED BY <1>4, <2>4, <2>7, <3>1, <3>2, <3>4 DEF TokenOf
  <2> QED BY <1>1, <1>5, <1>6, <2>6, <2>8 DEF Acked
<1> QED BY <1>7, <1>8

\* Serve.
LEMMA ServeAcked ==
  ASSUME TypeInv, NEW c \in Client, Acked(c), Step(c), UNCHANGED cancelled, Serve(c)
  PROVE  Acked(c)'
<1>0. TypeOK /\ App(c)[1] = c /\ Recv(c)[1] = c
  BY Threads DEF TypeInv
<1>1. \A t \in {App(c), Recv(c)} : Cut(t) => Cut(t)'
  BY CutStays
<1>2. /\ UNCHANGED <<op, locked, pending>>
      /\ toServer[c] \in Seq(Request) /\ toServer[c] # <<>> /\ toServer'[c] = Tail(toServer[c])
      /\ Asked(c) = toServer[c][1] /\ Asked(c) \in Request /\ Asked(c).thread \in {App(c), Recv(c)}
  BY <1>0, AskedIs DEF TypeOK, cmdVars
<1>3. PICK sent : sent = toServer'[c] /\ Without(toServer[c], 1, sent)
  <2> DEFINE q == Tail(toServer[c])
  <2>1. Without(toServer[c], 1, q)
    BY <1>2, Taking
  <2>2. toServer'[c] = q
    BY <1>2
  <2> HIDE DEF q
  <2> QED BY <2>1, <2>2
<1>4. Locking(c)' /\ AcksIn(pending[c], c)'
  BY <1>2 DEF Acked, Locking, AcksIn
<1>5. PICK there : there = pending[c] /\ there = pending'[c]
  BY <1>2
<1>6. PICK f : /\ Sends(f) /\ Len(f[c]) \in Nat \ {0} /\ f[c][1] = Ack(Asked(c))
               /\ \A k \in 2..Len(f[c]) :
                     \/ f[c][k].type \in {"allocated", "released", "closed", "error", "message"}
                     \/ f[c][k] = [type |-> "claimed", box |-> plate']
  BY ServeSends
<1>7. \A k \in 2..Len(f[c]) : f[c][k].type # "ack"
  BY <1>6
<1>8. CASE ws[c] # "up"
  <2>1. toClient'[c] = toClient[c]
    BY <1>0, <1>6, <1>8, SendsJoins
  <2>2. AcksIn(toClient[c], c)'
    BY <2>1 DEF Acked, AcksIn
  <2>3. PICK coming : coming = toClient[c] /\ coming = toClient'[c]
    BY <2>1
  <2>4. ASSUME NEW t \in {App(c), Recv(c)}, TokenOf(t) PROVE TokenOf(t)'
    <3>1. Fewer(toServer[c], sent, RequestsOf(t))
      BY <1>0, <1>3, <2>4, TokenMarks, MarksWithout
    <3>2. Fewer(toClient[c], coming, AcksOf(t)) /\ Fewer(pending[c], there, AcksOf(t))
      BY <1>0, <1>5, <2>3, <2>4, TokenMarks
    <3>3. op'[t] = op[t] /\ t[1] = c
      BY <1>0, <1>2
    <3> QED BY <1>3, <1>5, <2>3, <2>4, <3>1, <3>2, <3>3, TokenKept
  <2> QED BY <1>1, <1>4, <2>2, <2>4 DEF Acked
<1>9. CASE ws[c] = "up"
  <2>1. Hears(c, f[c])
    BY <1>0, <1>6, <1>9, SendsJoins
  <2>2. PICK q, coming : coming = toClient'[c] /\ Joined(toClient[c], q, coming) /\ q = f[c]
    BY <2>1 DEF Hears
  <2>3. /\ Len(q) >= 1 /\ q[1] = Ack(toServer[c][1]) /\ toServer[c][1] \in Request
        /\ \A k \in 2..Len(q) : q[k].type # "ack"
    BY <1>2, <1>6, <1>7, <2>2
  <2>4. Joined(toClient[c], q, coming)
    BY <2>2
  <2>5. AcksIn(toClient[c], c)'
    <3>1. Mixed(toClient[c], q, coming)
      BY <2>4, JoinedFrom
    <3>2. \A j \in 1..Len(q) : q[j].type = "ack" => q[j].thread \in {App(c), Recv(c)}
      <4>1. \A j \in 1..Len(q) : j = 1 \/ j \in 2..Len(q)
        BY <2>3, <1>6, <2>2
      <4>2. q[1].thread \in {App(c), Recv(c)}
        BY <1>2, <2>3, Kinds
      <4> QED BY <2>3, <4>1, <4>2
    <3>3. \A k \in 1..Len(coming) : coming[k].type = "ack" => coming[k].thread \in {App(c), Recv(c)}
      <4>1. \A j \in 1..Len(toClient[c]) : toClient[c][j].type = "ack" => toClient[c][j].thread \in {App(c), Recv(c)}
        BY DEF Acked, AcksIn
      <4> QED BY <3>1, <3>2, <4>1 DEF Mixed
    <3> QED BY <2>2, <3>3 DEF AcksIn
  <2>6. ASSUME NEW t \in {App(c), Recv(c)}, TokenOf(t) PROVE TokenOf(t)'
    <3>1. t[1] = c
      BY <1>0
    <3>2. PICK o : o = op[t] /\ o = op'[t]
      BY <1>2
    <3>3. TokenState(toServer[c], toClient[c], there, o, t)
      BY <1>5, <2>6, <3>1, <3>2 DEF TokenOf
    <3>4. TokenState(sent, coming, there, o, t)
      BY <1>3, <2>3, <2>4, <3>3, TokenAnswered
    <3> QED BY <1>3, <1>5, <2>2, <3>1, <3>2, <3>4 DEF TokenOf
  <2> QED BY <1>1, <1>4, <2>5, <2>6 DEF Acked
<1> QED BY <1>8, <1>9

\* A command that its client's context ends is cut off.
LEMMA FailCuts ==
  ASSUME TypeInv, NEW c \in Client, NEW t \in {App(c), Recv(c)}, Fail(t), op[t] # Idle,
         c \in cancelled, UNCHANGED cancelled
  PROVE  Cut(t)'
<1>0. TypeOK /\ Mine(c) /\ App(c)[1] = c /\ Recv(c)[1] = c /\ App(c) # Recv(c)
  BY TypeInvIs, Threads
<1>1. CASE t = App(c)
  <2>1. op[App(c)].cmd # "release"
    BY <1>0, <1>1 DEF Mine, Calling, AppCmds
  <2>2. phase'[c] \in {"failed", "closed"}
    BY <1>0, <1>1, <2>1, FailApp
  <2> QED BY <1>0, <1>1, <2>2 DEF Cut
<1>2. CASE t = Recv(c)
  BY <1>0, <1>2 DEF Cut
<1> QED BY <1>1, <1>2

\* CutOff.
LEMMA CutOffAcked ==
  ASSUME TypeInv, NEW c \in Client, Acked(c), Step(c), UNCHANGED cancelled,
         NEW t \in Thread, t[1] = c, CutOff(t)
  PROVE  Acked(c)'
<1>0. /\ TypeOK /\ Mine(c) /\ App(c) # Recv(c) /\ App(c) \in Thread /\ Recv(c) \in Thread
      /\ Idle.at = "idle" /\ App(c)[1] = c /\ Recv(c)[1] = c /\ t \in {App(c), Recv(c)}
  BY TypeInvIs, Threads, ThreadOf, OpStates
<1>1. \A s \in {App(c), Recv(c)} : Cut(s) => Cut(s)'
  BY CutStays
<1>2. /\ UNCHANGED <<pending, toServer, toClient>> /\ op' = [op EXCEPT ![t] = Idle] /\ Fail(t)
      /\ c \in cancelled /\ op[t].at \in {"ack", "reply"} /\ op[t] # Idle
      /\ locked' = IF op[t].at = "ack" THEN [locked EXCEPT ![c] = FALSE] ELSE locked
  BY <1>0 DEF CutOff, Fail, End, Mine, Waiting
<1>3. op'[t] = Idle /\ \A s \in {App(c), Recv(c)} : s # t => op'[s] = op[s]
  BY <1>0, <1>2 DEF TypeOK
<1>4. Cut(t)'
  BY <1>0, <1>2, FailCuts
<1>5. Locking(c)'
  <2>1. CASE op[t].at = "ack"
    <3>1. ~locked'[c]
      BY <1>0, <1>2, <2>1 DEF TypeOK
    <3> QED BY <1>0, <1>3, <2>1, <3>1 DEF Acked, Locking
  <2>2. CASE op[t].at = "reply"
    BY <1>0, <1>2, <1>3, <2>2 DEF Acked, Locking
  <2> QED BY <1>2, <2>1, <2>2
<1>6. AcksIn(toClient[c], c)' /\ AcksIn(pending[c], c)'
  BY <1>2 DEF Acked, AcksIn
<1>7. ASSUME NEW s \in {App(c), Recv(c)}, s # t, TokenOf(s) PROVE TokenOf(s)'
  BY <1>0, <1>2, <1>3, <1>7, TokenStays
<1>8. \A s \in {App(c), Recv(c)} : ~Cut(s)' => TokenOf(s)'
  BY <1>1, <1>4, <1>7 DEF Acked
<1> QED BY <1>5, <1>6, <1>8 DEF Acked

\* What a command's success, or failure, leaves its thread at.
LEMMA OpEnds ==
  ASSUME NEW t, NEW m, Fail(t) \/ Succeed(t, m)
  PROVE  \E o : op' = [op EXCEPT ![t] = o] /\ o.at \in {"idle", "lock"}
<1>1. CASE Fail(t)
  <2>1. op' = [op EXCEPT ![t] = Idle] /\ Idle.at \in {"idle", "lock"}
    BY <1>1, OpStates DEF Fail, End
  <2> QED BY <2>1, Zenon
<1>2. CASE Succeed(t, m)
  <2>1. (\E cmd : Begin(t, cmd)) \/ End(t)
    BY <1>2, Zenon DEF Succeed
  <2>2. ASSUME NEW cmd, Begin(t, cmd) PROVE \E o : op' = [op EXCEPT ![t] = o] /\ o.at \in {"idle", "lock"}
    <3> DEFINE o == [at |-> "lock", cmd |-> cmd]
    <3>1. op' = [op EXCEPT ![t] = o] /\ o.at \in {"idle", "lock"}
      BY <2>2 DEF Begin
    <3> HIDE DEF o
    <3> QED BY <3>1, Zenon
  <2>3. ASSUME End(t) PROVE \E o : op' = [op EXCEPT ![t] = o] /\ o.at \in {"idle", "lock"}
    <3>1. op' = [op EXCEPT ![t] = Idle] /\ Idle.at \in {"idle", "lock"}
      BY <2>3, OpStates DEF End
    <3> QED BY <3>1, Zenon
  <2> QED BY <2>1, <2>2, <2>3
<1> QED BY <1>1, <1>2

\* Read: a thread that awaits an ack finds its own.
LEMMA ReadAcked ==
  ASSUME TypeInv, NEW c \in Client, Acked(c), Step(c), UNCHANGED cancelled,
         NEW t \in Thread, t[1] = c, Read(t)
  PROVE  Acked(c)'
<1> DEFINE k == Min(Found(t))
<1> DEFINE m == pending[c][k]
<1>0. /\ TypeOK /\ Mine(c) /\ App(c) # Recv(c) /\ App(c) \in Thread /\ Recv(c) \in Thread
      /\ Idle.at = "idle" /\ App(c)[1] = c /\ Recv(c)[1] = c /\ t \in {App(c), Recv(c)}
  BY TypeInvIs, Threads, ThreadOf, OpStates
<1>1. \A s \in {App(c), Recv(c)} : Cut(s) => Cut(s)'
  BY CutStays
<1>2. /\ k \in 1..Len(pending[c]) /\ m.type = Wanted(t) /\ m \in Reply
      /\ Without(pending[c], k, RemoveAt(pending[c], k))
  BY <1>0, FoundIs DEF Read
<1>3. /\ UNCHANGED <<toServer, toClient>> /\ waiter[t] # "none"
      /\ pending' = [pending EXCEPT ![c] = RemoveAt(pending[c], k)]
      /\ \/ /\ op[t].at = "reply" /\ Succeed(t, m) /\ UNCHANGED locked
         \/ /\ op[t].at = "ack" /\ locked' = [locked EXCEPT ![c] = FALSE]
            /\ \/ (m.thread # t \/ m.cmd # op[t].cmd) /\ Fail(t)
               \/ m.thread = t /\ m.cmd = op[t].cmd /\ op' = [op EXCEPT ![t].at = "reply"]
               \/ m.thread = t /\ m.cmd = op[t].cmd /\ Succeed(t, m)
  BY DEF Read
<1> HIDE DEF k, m
<1>4. PICK there : there = pending'[c] /\ Without(pending[c], k, there)
  <2> DEFINE q == RemoveAt(pending[c], k)
  <2>1. Without(pending[c], k, q)
    BY <1>2
  <2>2. pending'[c] = q
    BY <1>0, <1>3 DEF TypeOK
  <2> HIDE DEF q
  <2> QED BY <2>1, <2>2
<1>5. AcksIn(toClient[c], c)' /\ AcksIn(pending[c], c)'
  <2>1. Within(there, pending[c])
    BY <1>4, WithoutFrom
  <2> QED BY <1>3, <1>4, <2>1 DEF Within, Acked, AcksIn
<1>6. op[t].at \in {"ack", "reply"} /\ op[t] # Idle
  BY <1>0, <1>3, OpStates DEF Mine, Waiting
<1>7. op'[t].at # "ack" /\ \A s \in {App(c), Recv(c)} : s # t => op'[s] = op[s]
  <2>1. CASE Fail(t) \/ Succeed(t, m)
    <3>1. PICK o : op' = [op EXCEPT ![t] = o] /\ o.at \in {"idle", "lock"}
      BY <2>1, OpEnds
    <3> QED BY <1>0, <3>1 DEF TypeOK
  <2>2. CASE op' = [op EXCEPT ![t].at = "reply"]
    <3>1. op' = [op EXCEPT ![t] = [at |-> "reply", cmd |-> op[t].cmd]]
      BY <1>0, <1>6, <2>2, OpMoved
    <3> QED BY <1>0, <3>1 DEF TypeOK
  <2> QED BY <1>3, <2>1, <2>2
<1>8. Locking(c)'
  <2>1. CASE op[t].at = "ack"
    <3>1. ~locked'[c]
      BY <1>0, <1>3, <2>1 DEF TypeOK
    <3> QED BY <1>0, <1>7, <2>1, <3>1 DEF Acked, Locking
  <2>2. CASE op[t].at = "reply"
    BY <1>0, <1>3, <1>7, <2>2 DEF Acked, Locking
  <2> QED BY <1>6, <2>1, <2>2
<1>9. PICK sent, coming : sent = toServer'[c] /\ coming = toClient'[c]
  OBVIOUS
<1>10. ASSUME NEW s \in {App(c), Recv(c)}, TokenOf(s)
       PROVE  /\ op'[s] = op[s] \/ op[s].at # "ack" => TokenOf(s)'
              /\ Fewer(pending[c], there, AcksOf(s))
              /\ Marks(pending[c], AcksOf(s)) = {k} => Marks(there, AcksOf(s)) = {}
  <2>1. Fewer(pending[c], there, AcksOf(s)) /\ (Marks(pending[c], AcksOf(s)) = {k} => Marks(there, AcksOf(s)) = {})
    BY <1>0, <1>4, <1>10, TokenMarks, MarksWithout
  <2>2. Fewer(toServer[c], sent, RequestsOf(s)) /\ Fewer(toClient[c], coming, AcksOf(s))
    BY <1>0, <1>3, <1>9, <1>10, TokenMarks
  <2>3. s[1] = c
    BY <1>0
  <2> QED BY <1>4, <1>9, <1>10, <2>1, <2>2, <2>3, TokenKept
<1>11. ASSUME NEW s \in {App(c), Recv(c)}, s # t, ~Cut(s)' PROVE TokenOf(s)'
  <2>1. TokenOf(s)
    BY <1>1, <1>11 DEF Acked
  <2> QED BY <1>7, <1>10, <1>11, <2>1
<1>12. ASSUME ~Cut(t)' PROVE TokenOf(t)'
  <2>1. TokenOf(t)
    BY <1>0, <1>1, <1>12 DEF Acked
  <2>2. CASE op[t].at # "ack"
    BY <1>0, <1>10, <2>1, <2>2
  <2>3. CASE op[t].at = "ack"
    <3>1. m = pending[c][k] /\ m.type = "ack" /\ m.thread \in {App(c), Recv(c)}
      BY <1>2, <2>3 DEF Acked, AcksIn, Wanted, m
    <3>2. k \in Marks(pending[c], AcksOf(m.thread))
      BY <1>2, <3>1, MarksAre DEF AcksOf
    <3>3. \A s \in {App(c), Recv(c)} : TokenOf(s) /\ k \in Marks(pending[c], AcksOf(s)) =>
             /\ Marks(toServer[c], RequestsOf(s)) = {} /\ Marks(toClient[c], AcksOf(s)) = {}
             /\ Marks(pending[c], AcksOf(s)) = {k} /\ op[s] = [at |-> "ack", cmd |-> m.cmd]
      BY <1>0, <3>1, TokenPlaces DEF TokenOf
    <3>4. CASE m.thread = t
      <4>1. /\ Marks(toServer[c], RequestsOf(t)) = {} /\ Marks(toClient[c], AcksOf(t)) = {}
            /\ Marks(pending[c], AcksOf(t)) = {k}
        BY <1>0, <2>1, <3>2, <3>3, <3>4
      <4>2. Marks(there, AcksOf(t)) = {}
        BY <1>0, <1>10, <2>1, <4>1
      <4>3. NoToken(sent, coming, there, t)
        BY <1>3, <1>9, <4>1, <4>2 DEF NoToken
      <4>4. PICK o : o = op'[t]
        OBVIOUS
      <4>5. TokenState(sent, coming, there, o, t)
        BY <4>3 DEF TokenState
      <4> QED BY <1>0, <1>4, <1>9, <4>4, <4>5 DEF TokenOf
    <3>5. CASE m.thread # t
      <4>1. ~TokenOf(m.thread)
        BY <1>0, <2>3, <3>1, <3>2, <3>3, <3>5 DEF Acked, Locking
      <4>2. Cut(m.thread)
        BY <3>1, <4>1 DEF Acked
      <4>3. c \in cancelled
        BY <1>0, <3>1, <4>2 DEF Cut
      <4>4. Fail(t)
        BY <1>3, <2>3, <3>5
      <4> QED BY <1>0, <1>6, <1>12, <4>3, <4>4, FailCuts
    <3> QED BY <3>4, <3>5
  <2> QED BY <2>2, <2>3
<1> QED BY <1>0, <1>5, <1>8, <1>11, <1>12 DEF Acked

\* For the other clients nothing changes, and for all when a context ends.
LEMMA SameAcked ==
  ASSUME TypeOK, NEW d \in Client, Acked(d), Same(d), cancelled \subseteq cancelled',
         \/ toClient'[d] = toClient[d]
         \/ \E q : Hears(d, q) /\ \A k \in 1..Len(q) : q[k].type = "message"
  PROVE  Acked(d)'
<1>0. App(d)[1] = d /\ Recv(d)[1] = d
  BY Threads
<1>1. \A t \in {App(d), Recv(d)} : Cut(t) => Cut(t)'
  BY <1>0 DEF Cut, Same
<1>2. /\ op'[App(d)] = op[App(d)] /\ op'[Recv(d)] = op[Recv(d)] /\ locked'[d] = locked[d]
      /\ pending'[d] = pending[d] /\ toServer'[d] = toServer[d]
  BY DEF Same
<1>3. CASE toClient'[d] = toClient[d]
  BY <1>1, <1>2, <1>3, AckedStays
<1>4. CASE \E q : Hears(d, q) /\ \A k \in 1..Len(q) : q[k].type = "message"
  <2>1. PICK q, coming : /\ coming = toClient'[d] /\ Joined(toClient[d], q, coming)
                         /\ \A k \in 1..Len(q) : q[k].type = "message"
    BY <1>4 DEF Hears
  <2>2. Joined(toClient[d], q, coming)
    BY <2>1
  <2>3. AcksIn(toClient[d], d)' /\ AcksIn(pending[d], d)'
    <3>1. Mixed(toClient[d], q, coming)
      BY <2>2, JoinedFrom
    <3> QED BY <1>2, <2>1, <3>1 DEF Acked, AcksIn, Mixed
  <2>4. Locking(d)'
    BY <1>2 DEF Acked, Locking
  <2>5. PICK sent, there : sent = toServer'[d] /\ there = pending'[d]
    OBVIOUS
  <2>6. ASSUME NEW t \in {App(d), Recv(d)}, TokenOf(t) PROVE TokenOf(t)'
    <3>1. \A k \in 1..Len(q) : q[k] \notin AcksOf(t)
      BY <2>1 DEF AcksOf
    <3>2. Marks(q, AcksOf(t)) = {}
      BY <3>1, MarksAre
    <3>3. Single(toClient[d], AcksOf(t))
      BY <1>0, <2>6, TokenMarks
    <3>4. Fewer(toClient[d], coming, AcksOf(t))
      BY <2>2, <3>2, <3>3, MarksJoined
    <3>5. Fewer(toServer[d], sent, RequestsOf(t)) /\ Fewer(pending[d], there, AcksOf(t))
      BY <1>0, <1>2, <2>5, <2>6, TokenMarks
    <3>6. op'[t] = op[t] /\ t[1] = d
      BY <1>0, <1>2
    <3> QED BY <2>1, <2>5, <2>6, <3>4, <3>5, <3>6, TokenKept
  <2> QED BY <1>1, <2>3, <2>4, <2>6 DEF Acked
<1> QED BY <1>3, <1>4

\* The client that steps.
LEMMA OwnAcked ==
  ASSUME TypeInv, NEW c \in Client, Acked(c), Step(c), UNCHANGED cancelled
  PROVE  Acked(c)'
BY QuietAcked, ConnectAcked, HangUpAcked, SendAcked, DispatchAcked, ServeAcked, CutOffAcked, ReadAcked, Zenon
   DEF Step

\* The invariant of the acks is inductive.
LEMMA AckInvStep ==
  ASSUME AckInv, [Next]_vars
  PROVE  AckInv'
<1>0. TypeInv /\ TypeOK
  BY DEF AckInv, TypeInv
<1>1. TypeInv'
  BY <1>0, TypeInvStep
<1>2. CASE \E c \in Client : Step(c) /\ UNCHANGED cancelled
  <2>1. PICK c \in Client : Step(c) /\ UNCHANGED cancelled
    BY <1>2
  <2>2. ASSUME NEW d \in Client PROVE Acked(d)'
    <3>1. CASE d = c
      BY <1>0, <2>1, <3>1, OwnAcked DEF AckInv
    <3>2. CASE d # c
      <4>1. /\ Same(d)
            /\ \/ toClient'[d] = toClient[d]
               \/ \E q : Hears(d, q) /\ \A k \in 1..Len(q) : q[k].type = "message"
        BY <1>0, <2>1, <3>2, Elsewhere
      <4> QED BY <1>0, <2>1, <4>1, SameAcked DEF AckInv
    <3> QED BY <3>1, <3>2
  <2> QED BY <1>1, <2>2 DEF AckInv
<1>3. CASE (\E c \in Client : Cancel(c)) \/ UNCHANGED vars
  <2>1. cancelled \subseteq cancelled'
    BY <1>3 DEF Cancel, vars
  <2> QED BY <1>0, <1>1, <1>3, <2>1, StillSame, SameAcked DEF AckInv
<1> QED BY <1>2, <1>3, NextStep

\* It holds at first.
LEMMA AckInvInit ==
  ASSUME Init
  PROVE  AckInv
<1>1. TypeInv
  BY TypeInvInit
<1>2. ASSUME NEW c \in Client PROVE Acked(c)
  <2>1. /\ App(c) \in Thread /\ Recv(c) \in Thread /\ App(c)[1] = c /\ Recv(c)[1] = c
    BY Threads
  <2>2. /\ op[App(c)] = Idle /\ op[Recv(c)] = Idle /\ locked[c] = FALSE
        /\ Len(toServer[c]) = 0 /\ Len(toClient[c]) = 0 /\ Len(pending[c]) = 0
    BY <2>1 DEF Init
  <2>3. AcksIn(toClient[c], c) /\ AcksIn(pending[c], c) /\ Locking(c)
    BY <2>2, OpStates DEF AcksIn, Locking
  <2>4. \A M : Marks(toServer[c], M) = {} /\ Marks(toClient[c], M) = {} /\ Marks(pending[c], M) = {}
    BY <2>2, MarksAre
  <2>5. \A t : NoToken(toServer[c], toClient[c], pending[c], t)
    BY <2>4 DEF NoToken
  <2>6. TokenOf(App(c)) /\ TokenOf(Recv(c))
    BY <2>1, <2>5, Zenon DEF TokenOf, TokenState
  <2> QED BY <2>3, <2>6 DEF Acked
<1> QED BY <1>1, <1>2 DEF AckInv

\* The token is what the ack's thread waits for.
LEMMA AwaitedIs ==
  ASSUME AckInv, NEW c \in Client \ cancelled, NEW q \in {pending[c], toClient[c]}, NEW k \in 1..Len(q),
         q[k].type = "ack"
  PROVE  q[k].thread \in {App(c), Recv(c)} /\ op[q[k].thread] = [at |-> "ack", cmd |-> q[k].cmd]
<1>0. TypeOK
  BY DEF AckInv, TypeInv
<1>1. Acked(c) /\ pending[c] \in Seq(Reply) /\ toClient[c] \in Seq(Reply \cup Message)
  BY <1>0 DEF AckInv, TypeOK
<1>2. TokenOf(App(c)) /\ TokenOf(Recv(c)) /\ App(c)[1] = c /\ Recv(c)[1] = c
  BY <1>1, Threads DEF Acked, Cut
<1> DEFINE t == q[k].thread
<1>3. t \in {App(c), Recv(c)}
  BY <1>1 DEF Acked, AcksIn
<1>4. q[k] \in Reply
  <2>1. q[k] \in Reply \cup Message
    BY <1>1
  <2> QED BY <2>1, Kinds
<1>5. k \in Marks(q, AcksOf(t))
  BY <1>4, MarksAre DEF AcksOf
<1>6. TokenState(toServer[c], toClient[c], pending[c], op[t], t)
  BY <1>2, <1>3 DEF TokenOf
<1> HIDE DEF t
<1>7. op[t] = [at |-> "ack", cmd |-> q[k].cmd]
  <2>1. CASE q = pending[c]
    <3>1. k \in Marks(pending[c], AcksOf(t))
      BY <1>5, <2>1
    <3>2. op[t] = [at |-> "ack", cmd |-> pending[c][k].cmd]
      BY <1>6, <3>1, TokenPlaces
    <3> QED BY <2>1, <3>2
  <2>2. CASE q = toClient[c]
    <3>1. k \in Marks(toClient[c], AcksOf(t))
      BY <1>5, <2>2
    <3>2. op[t] = [at |-> "ack", cmd |-> toClient[c][k].cmd]
      BY <1>6, <3>1, TokenPlaces
    <3> QED BY <2>2, <3>2
  <2> QED BY <2>1, <2>2
<1> QED BY <1>3, <1>7 DEF t

\* It implies that every ack is awaited.
LEMMA AckInvAwaited ==
  ASSUME AckInv
  PROVE  AcksAwaited
<1>0. TypeOK
  BY DEF AckInv, TypeInv
<1> SUFFICES ASSUME NEW c \in Client \ cancelled, NEW m \in Range(pending[c]) \cup Range(toClient[c]),
                    m.type = "ack"
             PROVE  op[m.thread] = [at |-> "ack", cmd |-> m.cmd]
  BY DEF AcksAwaited
<1>1. pending[c] \in Seq(Reply) /\ toClient[c] \in Seq(Reply \cup Message)
  BY <1>0 DEF TypeOK
<1>2. PICK q \in {pending[c], toClient[c]} : \E k \in 1..Len(q) : m = q[k]
  BY <1>1 DEF Range
<1> QED BY <1>2, AwaitedIs

\* Every ack answers the command whose thread waits for it, until the client's context
\* ends: sendAndWait never reads the ack of another call.
THEOREM AcksAreAwaited == Spec => []AcksAwaited
<1>1. Init => AckInv
  BY AckInvInit
<1>2. AckInv /\ [Next]_vars => AckInv'
  BY AckInvStep
<1>3. AckInv => AcksAwaited
  BY AckInvAwaited
<1> QED BY <1>1, <1>2, <1>3, PTL DEF Spec

-----------------------------------------------------------------------------
(* The end of the connection.                                              *)

\* The nameplate is released after the first message and before the second.
Releasing(c) ==
    /\ op[Recv(c)] # Idle => claimed[c] /\ Len(got[c]) = 1
    /\ claimed[c] /\ op[Recv(c)] = Idle => got[c] = <<>>

\* The process has ended in a release, after Close.
Stranded(c) == /\ phase[c] = "closed"
            /\ op[Recv(c)] = [at |-> "lock", cmd |-> "release"]

\* The inductive invariant of the end of the connection.
EndInv == /\ TypeInv
          /\ \A c \in Client : Releasing(c)
          /\ \A c \in crashed : Stranded(c)

\* What is known of a client.
LEMMA EndInvOf ==
  ASSUME EndInv, NEW c \in Client
  PROVE  /\ TypeOK /\ Mine(c) /\ Releasing(c) /\ App(c) # Recv(c) /\ App(c) \in Thread /\ Recv(c) \in Thread
         /\ App(c)[1] = c /\ Recv(c)[1] = c /\ Idle.at = "idle" /\ (c \in crashed => Stranded(c))
BY TypeInvIs, Threads, OpStates DEF EndInv

\* A command ends, and the nameplate with it if it is the release.
LEMMA EndedCommand ==
  ASSUME EndInv, NEW c \in Client, NEW t \in {App(c), Recv(c)}, op[t] # Idle, NEW m,
         Fail(t) \/ Succeed(t, m)
  PROVE  Releasing(c)'
<1>0. /\ TypeOK /\ Mine(c) /\ Releasing(c) /\ App(c) # Recv(c)
  BY EndInvOf
<1>1. CASE t = App(c)
  <2>1. op[App(c)].cmd \in AppCmds(phase[c]) /\ op[App(c)].cmd # "release"
    BY <1>0, <1>1 DEF Mine, Calling, AppCmds
  <2>2. CASE Fail(App(c))
    BY <1>0, <2>1, <2>2, FailApp DEF Releasing
  <2>3. CASE Succeed(App(c), m)
    <3>1. op'[Recv(c)] = op[Recv(c)] /\ got'[c] = got[c] /\ Succeeded(c, m)
      BY <1>0, <2>1, <2>3, SucceedApp
    <3>2. op[App(c)].cmd = "claim" => op[Recv(c)] = Idle /\ got[c] = <<>>
      BY <1>0, <2>1 DEF Mine, Calling, Claiming, AppCmds
    <3> QED BY <1>0, <3>1, <3>2 DEF Succeeded, Releasing
  <2> QED BY <1>1, <2>2, <2>3
<1>2. CASE t = Recv(c)
  <2>1. op[Recv(c)].cmd = "release"
    BY <1>0, <1>2 DEF Mine, Calling
  <2>2. op'[Recv(c)] = Idle /\ claimed'[c] = FALSE
    BY <1>0, <1>2, <2>1, ReleaseEnds
  <2> QED BY <2>2 DEF Releasing
<1> QED BY <1>1, <1>2

\* A thread's step keeps to the one release.
LEMMA ThreadReleasing ==
  ASSUME EndInv, NEW c \in Client, NEW t \in Thread, t[1] = c,
         Send(t) \/ Register(t) \/ NotFound(t) \/ Read(t) \/ CutOff(t)
  PROVE  Releasing(c)'
<1>0. /\ TypeOK /\ Mine(c) /\ Releasing(c) /\ App(c) # Recv(c) /\ App(c) \in Thread /\ Recv(c) \in Thread
      /\ t \in {App(c), Recv(c)} /\ Idle.at = "idle"
  BY EndInvOf, ThreadOf
<1>1. CASE Register(t) \/ NotFound(t)
  BY <1>0, <1>1 DEF Register, NotFound, Releasing, appVars
<1>2. CASE UNCHANGED <<appVars, op>>
  BY <1>0, <1>2 DEF Releasing, appVars
<1>3. CASE /\ op[t] # Idle /\ UNCHANGED appVars
           /\ \E a \in {"ack", "reply"} : op' = [op EXCEPT ![t].at = a]
  <2>1. PICK a \in {"ack", "reply"} : op' = [op EXCEPT ![t].at = a]
    BY <1>3
  <2>2. op' = [op EXCEPT ![t] = [at |-> a, cmd |-> op[t].cmd]]
    BY <1>0, <1>3, <2>1, OpMoved
  <2>3. [at |-> a, cmd |-> op[t].cmd] # Idle
    BY <1>0
  <2>4. op'[Recv(c)] = Idle <=> op[Recv(c)] = Idle
    BY <1>0, <1>3, <2>2, <2>3 DEF TypeOK
  <2> QED BY <1>0, <1>3, <2>4 DEF Releasing, appVars
<1>4. CASE op[t] # Idle /\ (Fail(t) \/ \E m : Succeed(t, m))
  BY <1>0, <1>4, EndedCommand
<1>5. CASE Send(t)
  <2>1. op[t] # Idle
    BY <1>0, <1>5 DEF Send
  <2> QED BY <1>2, <1>3, <1>4, <1>5, <2>1 DEF Send
<1>6. CASE Read(t)
  <2>1. op[t] # Idle
    BY <1>0, <1>6 DEF Read
  <2>2. \/ Fail(t)
        \/ \E m : Succeed(t, m)
        \/ op' = [op EXCEPT ![t].at = "reply"] /\ UNCHANGED appVars
    BY <1>6 DEF Read
  <2> QED BY <1>3, <1>4, <2>1, <2>2
<1>7. CASE CutOff(t)
  <2>1. op[t] # Idle /\ Fail(t)
    BY <1>0, <1>7 DEF CutOff, Mine, Waiting
  <2> QED BY <1>4, <2>1
<1> QED BY <1>1, <1>5, <1>6, <1>7

\* The client that steps keeps to the one release.
LEMMA OwnReleasing ==
  ASSUME EndInv, NEW c \in Client, Step(c)
  PROVE  Releasing(c)'
<1>0. /\ TypeOK /\ Mine(c) /\ Releasing(c) /\ App(c) # Recv(c) /\ App(c) \in Thread /\ Recv(c) \in Thread
      /\ Idle.at = "idle"
  BY EndInvOf
<1>1. CASE \E t \in Thread : t[1] = c /\ (Send(t) \/ Register(t) \/ NotFound(t) \/ Read(t) \/ CutOff(t))
  BY <1>1, ThreadReleasing
<1>2. CASE \/ Dispatch(c) \/ StartRecv(c) \/ Scan(c) \/ Notified(c) \/ Serve(c) \/ HangUp(c)
           \/ ReadEnds(c) \/ LoseConnection(c)
  <2>1. UNCHANGED <<appVars, op>>
    BY <1>2 DEF Dispatch, StartRecv, Scan, Notified, Serve, HangUp, ReadEnds, LoseConnection, cmdVars
  <2> QED BY <1>0, <2>1 DEF Releasing, appVars
<1>3. CASE Deliver(c)
  <2>1. op[Recv(c)] = Idle /\ UNCHANGED claimed
    BY <1>0, <1>3 DEF Deliver, Mine, Calling
  <2>2. CASE claimed[c] /\ Begin(Recv(c), "release")
    <3>1. got'[c] = Append(<<>>, events[c][offset[c]])
      BY <1>0, <1>3, <2>1, <2>2 DEF Deliver, TypeOK, Releasing
    <3>2. op'[Recv(c)] = [at |-> "lock", cmd |-> "release"] /\ op'[Recv(c)] # Idle
      BY <1>0, <2>2 DEF Begin, TypeOK
    <3> QED BY <2>1, <2>2, <3>1, <3>2 DEF Releasing
  <2>3. CASE ~claimed[c] /\ UNCHANGED op
    BY <2>1, <2>3 DEF Releasing
  <2> QED BY <1>3, <2>2, <2>3 DEF Deliver
<1>4. CASE Connect(c) \/ Meet(c) \/ AddMessage(c) \/ Close(c)
  <2>1. op'[Recv(c)] = op[Recv(c)] /\ UNCHANGED <<got, claimed>>
    BY <1>0, <1>4 DEF Connect, Meet, AddMessage, Close, Begin, TypeOK
  <2> QED BY <1>0, <2>1 DEF Releasing
<1> QED BY <1>1, <1>2, <1>3, <1>4 DEF Step

\* A process ends only in the release, and stays so.
LEMMA OwnEnding ==
  ASSUME EndInv, NEW c \in Client, Step(c)
  PROVE  /\ crashed \subseteq crashed' /\ crashed' \subseteq crashed \cup {c}
         /\ c \in crashed' => Stranded(c)'
<1>0. /\ TypeOK /\ Mine(c) /\ Releasing(c) /\ App(c) # Recv(c) /\ App(c) \in Thread /\ Recv(c) \in Thread
      /\ Idle.at = "idle" /\ (c \in crashed => Stranded(c))
  BY EndInvOf
<1>1. CASE c \in crashed
  <2>1. /\ phase[c] = "closed" /\ op[Recv(c)] = [at |-> "lock", cmd |-> "release"] /\ op[Recv(c)] # Idle
        /\ op[App(c)] = Idle /\ ws[c] = "nil" /\ recv[c] = "release"
        /\ waiter[App(c)] = "none" /\ waiter[Recv(c)] = "none"
    BY <1>0, <1>1 DEF Stranded, Mine, Calling, Wired, Waiting, AppCmds, TypeOK
  <2>2. CASE \E t \in Thread : t[1] = c /\ (Send(t) \/ Register(t) \/ NotFound(t) \/ Read(t) \/ CutOff(t))
    <3>1. PICK t \in Thread : t[1] = c /\ (Send(t) \/ Register(t) \/ NotFound(t) \/ Read(t) \/ CutOff(t))
      BY <2>2
    <3>2. t \in {App(c), Recv(c)}
      BY <3>1, ThreadOf
    <3>3. Send(t)
      BY <1>0, <2>1, <3>1, <3>2 DEF Register, NotFound, Read, CutOff
    <3>4. UNCHANGED <<appVars, op>> /\ crashed' = crashed \cup {c}
      BY <2>1, <3>1, <3>3 DEF Send
    <3> QED BY <1>1, <2>1, <3>4 DEF Stranded, appVars
  <2>3. CASE ~\E t \in Thread : t[1] = c /\ (Send(t) \/ Register(t) \/ NotFound(t) \/ Read(t) \/ CutOff(t))
    <3>1. Serve(c) \/ HangUp(c)
      BY <2>1, <2>3 DEF Step, Dispatch, ReadEnds, LoseConnection, StartRecv, Scan, Notified, Deliver,
         Connect, Meet, AddMessage, Close
    <3>2. UNCHANGED <<appVars, op, crashed>>
      BY <3>1 DEF Serve, HangUp, cmdVars
    <3> QED BY <2>1, <3>2 DEF Stranded, appVars
  <2> QED BY <2>2, <2>3
<1>2. CASE c \notin crashed
  <2>1. CASE \E t \in Thread : t[1] = c /\ Send(t)
    <3>1. PICK t \in Thread : t[1] = c /\ Send(t)
      BY <2>1
    <3>2. t \in {App(c), Recv(c)} /\ op[t].at = "lock" /\ op[t] # Idle
      BY <1>0, <3>1, ThreadOf DEF Send
    <3>3. CASE UNCHANGED crashed
      BY <1>2, <3>3
    <3>4. CASE ws[c] = "nil" /\ crashed' = crashed \cup {c} /\ UNCHANGED <<appVars, op>>
      <4>1. phase[c] \in {"off", "closed"}
        BY <1>0, <3>4 DEF Mine, Wired
      <4>2. t = Recv(c)
        BY <1>0, <3>2, <4>1 DEF Mine, Calling, AppCmds
      <4>3. phase[c] = "closed"
        BY <1>0, <3>2, <4>1, <4>2 DEF Mine, Calling, Claiming
      <4>4. op[Recv(c)] = [at |-> "lock", cmd |-> "release"]
        <5>1. op[Recv(c)] = [at |-> op[Recv(c)].at, cmd |-> op[Recv(c)].cmd]
          BY <1>0, <3>2, <4>2, OpStates DEF TypeOK
        <5> QED BY <1>0, <3>2, <4>2, <5>1 DEF Mine, Calling
      <4> QED BY <3>4, <4>3, <4>4 DEF Stranded, appVars
    <3> QED BY <3>1, <3>3, <3>4 DEF Send
  <2>2. CASE ~\E t \in Thread : t[1] = c /\ Send(t)
    <3>1. UNCHANGED crashed
      BY <2>2 DEF Step, Register, NotFound, Read, CutOff, Dispatch, ReadEnds, LoseConnection, StartRecv, Scan,
         Notified, Deliver, Connect, Meet, AddMessage, Close, Serve, HangUp
    <3> QED BY <1>2, <3>1
  <2> QED BY <2>1, <2>2
<1> QED BY <1>1, <1>2

\* The invariant is inductive.
LEMMA EndInvStep ==
  ASSUME EndInv, [Next]_vars
  PROVE  EndInv'
<1>0. /\ TypeInv /\ TypeOK /\ crashed \subseteq Client
      /\ \A c \in Client : Releasing(c) /\ (c \in crashed => Stranded(c))
  BY DEF EndInv, TypeInv, TypeOK
<1>1. TypeInv'
  BY <1>0, TypeInvStep
<1>2. ASSUME NEW d \in Client, Same(d) PROVE Releasing(d)' /\ (d \in crashed => Stranded(d)')
  BY <1>0, <1>2 DEF Releasing, Stranded, Same
<1>3. CASE \E c \in Client : Step(c) /\ UNCHANGED cancelled
  <2>1. PICK c \in Client : Step(c)
    BY <1>3
  <2>2. Releasing(c)'
    BY <2>1, OwnReleasing
  <2>3. /\ crashed' \subseteq crashed \cup {c}
        /\ c \in crashed' => Stranded(c)'
    BY <2>1, OwnEnding
  <2>4. ASSUME NEW d \in Client, d # c PROVE Releasing(d)' /\ (d \in crashed => Stranded(d)')
    BY <1>0, <1>2, <2>1, <2>4, Elsewhere
  <2>5. ASSUME NEW d \in crashed' PROVE Stranded(d)'
    BY <1>0, <2>3, <2>4, <2>5
  <2>6. ASSUME NEW d \in Client PROVE Releasing(d)'
    BY <2>2, <2>4
  <2> QED BY <1>1, <2>5, <2>6 DEF EndInv
<1>4. CASE (\E c \in Client : Cancel(c)) \/ UNCHANGED vars
  <2>1. UNCHANGED crashed /\ \A d \in Client : Same(d)
    BY <1>4, StillSame
  <2> QED BY <1>0, <1>1, <1>2, <2>1 DEF EndInv
<1> QED BY <1>3, <1>4, NextStep

\* The one command that may find the client closed is the release of the nameplate,
\* between the first message the application takes and the second, whatever breaks and
\* whoever closes when: with a message more, or one less, there is no such command.
THEOREM ReleaseAloneMeetsClosed == Spec => []OnlyReleaseMeetsClosed
<1>1. Init => EndInv
  <2> SUFFICES ASSUME Init PROVE EndInv
    OBVIOUS
  <2>1. crashed = {} /\ \A c \in Client : Releasing(c)
    BY Threads DEF Init, Releasing
  <2> QED BY <2>1, TypeInvInit DEF EndInv
<1>2. EndInv /\ [Next]_vars => EndInv'
  BY EndInvStep
<1>3. EndInv => OnlyReleaseMeetsClosed
  <2> SUFFICES ASSUME EndInv, NEW c \in crashed
               PROVE  /\ op[Recv(c)] = [at |-> "lock", cmd |-> "release"]
                      /\ claimed[c] /\ Len(got[c]) = 1
    BY DEF OnlyReleaseMeetsClosed
  <2>1. c \in Client /\ Stranded(c) /\ Releasing(c)
    BY DEF EndInv, TypeInv, TypeOK
  <2>2. op[Recv(c)].at = "lock" /\ Idle.at = "idle"
    BY <2>1, OpStates DEF Stranded
  <2> QED BY <2>1, <2>2 DEF Stranded, Releasing
<1> QED BY <1>1, <1>2, <1>3, PTL DEF Spec

-----------------------------------------------------------------------------
(* Two sides meet in a mailbox.                                             *)

\* The ack of an open, and a request to add, in a sequence.
OpenAck(q) == \E k \in 1..Len(q) : q[k].type = "ack" /\ q[k].cmd = "open"
Adding(q) == \E k \in 1..Len(q) : q[k].cmd = "add"

\* A client has its own mailbox open when messages are added through its connection.
Opening(c) ==
    /\ opened[c] # 0 => opened[c] = mailbox[c]
    /\ Adding(toServer[c]) => opened[c] # 0
    /\ ws[c] = "up" /\ (OpenAck(toClient[c]) \/ OpenAck(pending[c]) \/ phase[c] = "talk")
          => opened[c] # 0

\* A message is in the mailbox of the side that added it, and comes to clients of
\* that mailbox.
FromBox(c, e) == mailbox[c] # 0 /\ mailbox[e.side] = mailbox[c]
\* The messages of a mailbox are of sides whose mailbox it is.
InBox(b, ms) == \A k \in 1..Len(ms) : mailbox[ms[k].side] = b
Homes == \A b \in 1..Len(boxes) : InBox(b, boxes[b].msgs)
\* What comes to a client, and what it has noted, is of its mailbox.
Coming(c, q) == \A k \in 1..Len(q) : q[k].type = "message" => FromBox(c, q[k].event)
Noted(c, es) == \A k \in 1..Len(es) : FromBox(c, es[k])
\* What a client has heard of.
Heard(c) == Coming(c, toClient[c]) /\ Noted(c, events[c])

\* The nameplate is given up after a message of another side.
Met(c) ==
    /\ recv[c] = "offer" => events[c][offset[c]].side # c
    /\ got[c] # <<>> => mailbox[c] # 0 /\ \E d \in Client \ {c} : mailbox[d] = mailbox[c]
    /\ recv[c] = "release" \/ (mailbox[c] # 0 /\ ~claimed[c]) => got[c] # <<>>

\* The inductive invariant of the meeting.
MeetInv == TypeInv /\ Homes /\ \A c \in Client : Opening(c) /\ Heard(c) /\ Met(c)

\* Acks in part of what there was, and in what was joined.
LEMMA OpenAckMixed ==
  ASSUME NEW p, NEW q, NEW v, Mixed(p, q, v), OpenAck(v)
  PROVE  OpenAck(p) \/ OpenAck(q)
BY DEF Mixed, OpenAck

\* The same for what is left of a sequence.
LEMMA OpenAckWithout ==
  ASSUME NEW p, NEW i, NEW v, Without(p, i, v), OpenAck(v)
  PROVE  OpenAck(p)
<1>1. \A k \in 1..Len(v) : \E j \in 1..Len(p) : v[k] = p[j]
  BY WithoutElements
<1> QED BY <1>1 DEF OpenAck

\* What a step of a thread of a client does to the client.
Moved(c) ==
    /\ got'[c] = got[c]
    /\ mailbox[c] # 0 => mailbox'[c] = mailbox[c]
    /\ recv'[c] \in {"offer", "release"} => recv'[c] = recv[c]
    /\ mailbox'[c] # 0 /\ ~claimed'[c] => (mailbox[c] # 0 /\ ~claimed[c]) \/ recv[c] = "release"
    /\ phase'[c] = "talk" => phase[c] = "talk" \/ OpenAck(pending[c])
    /\ ws'[c] = "up" => ws[c] = "up"

\* Failing.
LEMMA FailMoves ==
  ASSUME TypeInv, NEW c \in Client, NEW t \in Thread, t[1] = c, op[t] # Idle, Fail(t)
  PROVE  Moved(c)
<1>0. TypeOK /\ Mine(c) /\ t \in {App(c), Recv(c)}
  BY TypeInvIs, ThreadOf
<1>1. CASE t = App(c)
  <2>1. op[App(c)].cmd # "release"
    BY <1>0, <1>1 DEF Mine, Calling, AppCmds
  <2>2. /\ got'[c] = got[c] /\ mailbox'[c] = mailbox[c] /\ claimed'[c] = claimed[c] /\ recv'[c] = recv[c]
        /\ phase'[c] \in {"closed", "failed"} /\ (ws'[c] = "nil" \/ ws'[c] = ws[c])
    BY <1>0, <1>1, <2>1, FailApp
  <2> QED BY <2>2 DEF Moved
<1>2. CASE t = Recv(c)
  <2>1. op[Recv(c)].cmd = "release" /\ recv[c] = "release"
    BY <1>0, <1>2 DEF Mine, Calling
  <2>2. /\ got'[c] = got[c] /\ mailbox'[c] = mailbox[c] /\ phase'[c] = phase[c] /\ ws'[c] = ws[c]
        /\ recv'[c] = "scan"
    BY <1>0, <1>2, <2>1, ReleaseEnds
  <2> QED BY <2>1, <2>2 DEF Moved
<1> QED BY <1>0, <1>1, <1>2

\* Succeeding; the application talks when it has the ack of its open.
LEMMA SucceedMoves ==
  ASSUME TypeInv, NEW c \in Client, NEW t \in Thread, t[1] = c, op[t] # Idle, NEW m, Succeed(t, m),
         op[t].cmd = "open" => OpenAck(pending[c])
  PROVE  Moved(c)
<1>0. TypeOK /\ Mine(c) /\ t \in {App(c), Recv(c)}
  BY TypeInvIs, ThreadOf
<1>1. CASE t = App(c)
  <2>1. op[App(c)].cmd # "release" /\ op[App(c)].cmd \in AppCmds(phase[c])
    BY <1>0, <1>1 DEF Mine, Calling, AppCmds
  <2>2. got'[c] = got[c] /\ Succeeded(c, m)
    BY <1>0, <1>1, <2>1, SucceedApp
  <2>3. op[App(c)].cmd = "claim" => mailbox[c] = 0
    BY <1>0, <2>1 DEF Mine, Claiming, Early, AppCmds
  <2>4. mailbox[c] # 0 => mailbox'[c] = mailbox[c]
    BY <2>2, <2>3 DEF Succeeded
  <2>5. recv'[c] \in {"offer", "release"} => recv'[c] = recv[c]
    BY <2>2 DEF Succeeded
  <2>6. mailbox'[c] # 0 /\ ~claimed'[c] => mailbox[c] # 0 /\ ~claimed[c]
    BY <2>2 DEF Succeeded
  <2>7. phase'[c] = "talk" => phase[c] = "talk" \/ OpenAck(pending[c])
    BY <1>1, <2>2 DEF Succeeded
  <2>8. ws'[c] = "up" => ws[c] = "up"
    BY <2>2 DEF Succeeded
  <2> QED BY <2>2, <2>4, <2>5, <2>6, <2>7, <2>8 DEF Moved
<1>2. CASE t = Recv(c)
  <2>1. op[Recv(c)].cmd = "release" /\ recv[c] = "release"
    BY <1>0, <1>2 DEF Mine, Calling
  <2>2. /\ got'[c] = got[c] /\ mailbox'[c] = mailbox[c] /\ phase'[c] = phase[c] /\ ws'[c] = ws[c]
        /\ recv'[c] = "scan"
    BY <1>0, <1>2, <2>1, ReleaseEnds
  <2> QED BY <2>1, <2>2 DEF Moved
<1> QED BY <1>0, <1>1, <1>2

\* Nothing of it moving.
LEMMA StayMoves ==
  ASSUME NEW c \in Client, UNCHANGED <<appVars, recv, ws>>
  PROVE  Moved(c)
BY DEF Moved, appVars

\* A step of a thread.
LEMMA ThreadMoves ==
  ASSUME TypeInv, NEW c \in Client, NEW t \in Thread, t[1] = c,
         Send(t) \/ Register(t) \/ NotFound(t) \/ Read(t) \/ CutOff(t)
  PROVE  /\ Moved(c) /\ UNCHANGED <<events, offset, toClient, boxes, plate, opened>>
         /\ OpenAck(pending'[c]) => OpenAck(pending[c])
         /\ Adding(toServer'[c]) => Adding(toServer[c]) \/ (ws[c] = "up" /\ phase[c] = "talk")
<1>0. TypeOK /\ Mine(c) /\ t \in {App(c), Recv(c)} /\ Idle.at = "idle"
  BY TypeInvIs, ThreadOf, OpStates
<1>1. CASE Register(t) \/ NotFound(t)
  BY <1>1, StayMoves DEF Register, NotFound, recvVars, netVars, serverVars
<1>2. CASE CutOff(t)
  <2>1. op[t] # Idle
    BY <1>0, <1>2 DEF CutOff, Mine, Waiting
  <2>2. Fail(t) /\ UNCHANGED <<pending, events, offset, toServer, toClient, serverVars>>
    BY <1>2 DEF CutOff
  <2> QED BY <2>1, <2>2, FailMoves DEF serverVars
<1>3. CASE Send(t)
  <2>1. op[t] # Idle /\ UNCHANGED <<pending, events, offset, toClient, serverVars>>
    BY <1>0, <1>3 DEF Send
  <2>2. CASE Fail(t) /\ UNCHANGED toServer
    BY <2>1, <2>2, FailMoves DEF serverVars
  <2>3. CASE UNCHANGED <<appVars, recv, ws, toServer>>
    BY <2>1, <2>3, StayMoves DEF serverVars
  <2>4. CASE /\ ws[c] = "up" /\ UNCHANGED <<appVars, recv, ws>>
             /\ toServer' = [toServer EXCEPT ![c] =
                                Append(@, [thread |-> t, cmd |-> op[t].cmd, arg |-> Arg(t)])]
    <3> DEFINE r == [thread |-> t, cmd |-> op[t].cmd, arg |-> Arg(t)]
    <3>1. r.cmd = op[t].cmd
      OBVIOUS
    <3>2. op[t].cmd = "add" => phase[c] = "talk"
      BY <1>0, <2>1 DEF Mine, Calling, AppCmds
    <3>3. toServer'[c] = Append(toServer[c], r) /\ toServer[c] \in Seq(Request)
      BY <1>0, <2>4 DEF TypeOK
    <3> HIDE DEF r
    <3>4. /\ Len(toServer[c]) \in Nat /\ Len(toServer'[c]) = Len(toServer[c]) + 1
          /\ toServer'[c][Len(toServer[c]) + 1] = r
          /\ \A k \in 1..Len(toServer[c]) : toServer'[c][k] = toServer[c][k]
      BY <3>3
    <3>5. \A k \in 1..Len(toServer'[c]) : k \in 1..Len(toServer[c]) \/ k = Len(toServer[c]) + 1
      BY <3>4
    <3>6. Adding(toServer'[c]) => Adding(toServer[c]) \/ r.cmd = "add"
      BY <3>4, <3>5 DEF Adding
    <3> QED BY <2>1, <2>4, <3>1, <3>2, <3>6, StayMoves DEF serverVars
  <2> QED BY <1>3, <2>2, <2>3, <2>4 DEF Send
<1>4. CASE Read(t)
  <2> DEFINE k == Min(Found(t))
  <2> DEFINE m == pending[c][k]
  <2>1. /\ k \in 1..Len(pending[c]) /\ m.type = Wanted(t)
        /\ Without(pending[c], k, RemoveAt(pending[c], k))
    BY <1>0, <1>4, FoundIs DEF Read
  <2>2. /\ pending' = [pending EXCEPT ![c] = RemoveAt(pending[c], k)]
        /\ UNCHANGED <<events, offset, toServer, toClient, serverVars>> /\ waiter[t] # "none"
    BY <1>4 DEF Read
  <2>3. \/ Fail(t)
        \/ op[t].at = "reply" /\ Succeed(t, m)
        \/ /\ op[t].at = "ack" /\ m.cmd = op[t].cmd /\ Succeed(t, m)
        \/ UNCHANGED <<appVars, recv, ws>>
    BY <1>4 DEF Read
  <2> HIDE DEF k
  <2>4. op[t] # Idle /\ (op[t].at = "reply" => op[t].cmd \in DOMAIN Awaits)
    BY <1>0, <2>2, OpStates DEF Mine, Waiting
  <2>5. op[t].at = "reply" => op[t].cmd # "open"
    BY <2>4 DEF Awaits
  <2>6. op[t].at = "ack" /\ m.cmd = op[t].cmd /\ op[t].cmd = "open" => OpenAck(pending[c])
    BY <2>1 DEF Wanted, OpenAck
  <2> HIDE DEF m
  <2>7. Moved(c)
    BY <2>3, <2>4, <2>5, <2>6, FailMoves, SucceedMoves, StayMoves
  <2>8. pending'[c] = RemoveAt(pending[c], k)
    BY <1>0, <2>2 DEF TypeOK
  <2>9. OpenAck(pending'[c]) => OpenAck(pending[c])
    BY <2>1, <2>8, OpenAckWithout
  <2> QED BY <2>2, <2>7, <2>9 DEF serverVars
<1> QED BY <1>1, <1>2, <1>3, <1>4

\* A mailbox, once known, stays.
Kept == \A d \in Client : mailbox[d] # 0 => mailbox'[d] = mailbox[d]

\* No step takes the mailbox of a client away.
LEMMA MailboxKept ==
  ASSUME TypeInv, NEW c \in Client, Step(c)
  PROVE  Kept
<1>1. \A d \in Client : d # c => mailbox'[d] = mailbox[d]
  BY Elsewhere DEF Same
<1>2. mailbox[c] # 0 => mailbox'[c] = mailbox[c]
  <2>1. CASE \E t \in Thread : t[1] = c /\ (Send(t) \/ Register(t) \/ NotFound(t) \/ Read(t) \/ CutOff(t))
    BY <2>1, ThreadMoves DEF Moved
  <2>2. CASE \/ Dispatch(c) \/ ReadEnds(c) \/ LoseConnection(c)
             \/ StartRecv(c) \/ Scan(c) \/ Notified(c) \/ Deliver(c)
             \/ Connect(c) \/ Meet(c) \/ AddMessage(c) \/ Close(c)
             \/ Serve(c) \/ HangUp(c)
    <3>1. UNCHANGED mailbox
      BY <2>2 DEF Dispatch, ReadEnds, LoseConnection, StartRecv, Scan, Notified, Deliver,
         Connect, Meet, AddMessage, Close, Serve, HangUp, appVars
    <3> QED BY <3>1
  <2> QED BY <2>1, <2>2 DEF Step
<1> QED BY <1>1, <1>2 DEF Kept

\* So that what a message tells of it stays true.
LEMMA BoxStays ==
  ASSUME Kept, NEW b \in Nat \ {0}, NEW ms \in Seq(Event), InBox(b, ms)
  PROVE  InBox(b, ms)'
<1> SUFFICES ASSUME NEW k \in 1..Len(ms) PROVE mailbox'[ms[k].side] = b
  BY DEF InBox
<1>1. ms[k] \in Event /\ ms[k].side \in Client
  <2>1. ms[k] \in Event
    OBVIOUS
  <2> QED BY <2>1 DEF Event
<1> QED BY <1>1 DEF InBox, Kept

\* The events of a client stay those of its mailbox.
LEMMA NotedStays ==
  ASSUME Kept, NEW c \in Client, NEW es \in Seq(Event), Noted(c, es)
  PROVE  Noted(c, es)'
<1> SUFFICES ASSUME NEW k \in 1..Len(es) PROVE mailbox'[c] # 0 /\ mailbox'[es[k].side] = mailbox'[c]
  BY DEF Noted, FromBox
<1>1. es[k].side \in Client
  <2>1. es[k] \in Event
    OBVIOUS
  <2> QED BY <2>1 DEF Event
<1> QED BY <1>1 DEF Noted, FromBox, Kept

\* And so do the messages on their way to it.
LEMMA ComingStays ==
  ASSUME Kept, NEW c \in Client, NEW q \in Seq(Reply \cup Message), Coming(c, q)
  PROVE  Coming(c, q)'
<1> SUFFICES ASSUME NEW k \in 1..Len(q), q[k].type = "message"
             PROVE  mailbox'[c] # 0 /\ mailbox'[q[k].event.side] = mailbox'[c]
  BY DEF Coming, FromBox
<1>1. q[k].event.side \in Client
  <2>1. q[k] \in Reply \cup Message
    OBVIOUS
  <2>2. q[k].event \in Event
    BY <2>1, Kinds
  <2> QED BY <2>2 DEF Event
<1> QED BY <1>1 DEF Coming, FromBox, Kept

\* What is said of the events and of what comes, after the step.
LEMMA HeardStays ==
  ASSUME Kept, NEW c \in Client, NEW es \in Seq(Event), es = events'[c], Noted(c, es),
         NEW q \in Seq(Reply \cup Message), q = toClient'[c], Coming(c, q)
  PROVE  Heard(c)'
<1>1. Noted(c, es)' /\ Coming(c, q)'
  BY NotedStays, ComingStays
<1>2. Noted(c, events[c])'
  BY <1>1 DEF Noted, FromBox
<1>3. Coming(c, toClient[c])'
  BY <1>1 DEF Coming, FromBox
<1> QED BY <1>2, <1>3 DEF Heard

\* Messages of its mailbox join what comes.
LEMMA ComingMixed ==
  ASSUME NEW c, NEW p, NEW q, NEW v, Mixed(p, q, v), Coming(c, p), Coming(c, q)
  PROVE  Coming(c, v)
<1> SUFFICES ASSUME NEW k \in 1..Len(v), v[k].type = "message" PROVE FromBox(c, v[k].event)
  BY DEF Coming
<1>1. CASE \E j \in 1..Len(p) : v[k] = p[j]
  BY <1>1 DEF Coming
<1>2. CASE \E j \in 1..Len(q) : v[k] = q[j]
  BY <1>2 DEF Coming
<1> QED BY <1>1, <1>2 DEF Mixed

\* For every client, what the server sends are messages of its mailbox.
LEMMA SentHome ==
  ASSUME MeetInv, NEW c \in Client, Serve(c)
  PROVE  \E f : Sends(f) /\ \A d \in Client : Coming(d, f[d])
<1> DEFINE r == Asked(c)
<1>0. TypeInv /\ TypeOK /\ Homes /\ \A d \in Client : Opening(d)
  BY TypeInvIs DEF MeetInv
<1>1. CASE ServeBind(c, r) \/ ServeAllocate(c, r) \/ ServeRelease(c, r) \/ ServeClose(c, r)
  <2>1. PICK ms \in Seq(Reply \cup Message) :
            /\ Sends(Answers(c, ms)) /\ Len(ms) \in 1..2 /\ ms[1] = Ack(r)
            /\ Len(ms) = 2 => ms[2].type \in {"allocated", "released", "closed"}
    BY <1>0, <1>1, PlainServed
  <2>2. Ack(r).type = "ack"
    BY DEF Ack
  <2>3. \A k \in 1..Len(ms) : ms[k].type # "message"
    <3>0. \A n \in 1..2 : \A k \in 1..n : k = 1 \/ (k = 2 /\ n = 2)
      OBVIOUS
    <3>1. Len(ms) \in 1..2
      BY <2>1
    <3>2. \A k \in 1..Len(ms) : k = 1 \/ (k = 2 /\ Len(ms) = 2)
      BY <3>0, <3>1, Zenon
    <3> QED BY <2>1, <2>2, <3>2
  <2>4. Coming(c, ms) /\ \A d \in Client : Coming(d, <<>>)
    BY <2>3 DEF Coming
  <2>5. \A d \in Client : Coming(d, Answers(c, ms)[d])
    BY <2>4 DEF Answers
  <2> QED BY <2>1, <2>5
<1>2. CASE ServeClaim(c, r)
  <2>1. PICK ms \in Seq(Reply \cup Message) :
            /\ Sends(Answers(c, ms)) /\ Len(ms) = 2 /\ ms[1] = Ack(r)
            /\ ms[2].type \in {"claimed", "error"}
    BY <1>0, <1>2, ClaimServed DEF Plain
  <2>2. Ack(r).type = "ack"
    BY DEF Ack
  <2>3. \A k \in 1..Len(ms) : ms[k].type # "message"
    <3>0. \A n \in 1..2 : \A k \in 1..n : k = 1 \/ (k = 2 /\ n = 2)
      OBVIOUS
    <3>1. Len(ms) \in 1..2
      BY <2>1
    <3>2. \A k \in 1..Len(ms) : k = 1 \/ (k = 2 /\ Len(ms) = 2)
      BY <3>0, <3>1, Zenon
    <3> QED BY <2>1, <2>2, <3>2
  <2>4. Coming(c, ms) /\ \A d \in Client : Coming(d, <<>>)
    BY <2>3 DEF Coming
  <2>5. \A d \in Client : Coming(d, Answers(c, ms)[d])
    BY <2>4 DEF Answers
  <2> QED BY <2>1, <2>5
<1>3. CASE ServeOpen(c, r)
  <2> DEFINE b == mailbox[c]
  <2>1. b \in 1..Len(boxes)
    BY <1>0, <1>3, OpenServed
  <2>2. PICK ms \in Seq(Reply \cup Message) :
            /\ Sends(Answers(c, ms)) /\ Len(ms) = Len(boxes[b].msgs) + 1 /\ ms[1] = Ack(r)
            /\ \A k \in 1..Len(boxes[b].msgs) : ms[1 + k] = MessageOf(boxes[b].msgs[k])
    BY <1>0, <1>3, OpenBrings
  <2>3. Ack(r).type = "ack"
    BY DEF Ack
  <2>4. boxes[b].msgs \in Seq(Event) /\ InBox(b, boxes[b].msgs)
    BY <1>0, <2>1, RecordedIs DEF Homes
  <2> DEFINE es == boxes[b].msgs
  <2>5. b # 0
    BY <2>1
  <2> HIDE DEF es
  <2>6. Len(es) \in Nat /\ \A k \in 1..Len(ms) : k = 1 \/ (k - 1 \in 1..Len(es) /\ ms[k] = MessageOf(es[k - 1]))
    <3>1. Len(es) \in Nat /\ Len(ms) = Len(es) + 1 /\ \A j \in 1..Len(es) : ms[1 + j] = MessageOf(es[j])
      BY <2>2, <2>4 DEF es
    <3>2. \A k \in 1..Len(ms) : k = 1 \/ (k - 1 \in 1..Len(es) /\ k = 1 + (k - 1))
      BY <3>1
    <3> QED BY <3>1, <3>2
  <2>7. Coming(c, ms)
    <3> SUFFICES ASSUME NEW k \in 1..Len(ms), ms[k].type = "message" PROVE FromBox(c, ms[k].event)
      BY DEF Coming
    <3>1. k - 1 \in 1..Len(es) /\ ms[k] = MessageOf(es[k - 1])
      BY <2>2, <2>3, <2>6
    <3>2. ms[k].event = es[k - 1]
      BY <3>1 DEF MessageOf
    <3>3. mailbox[es[k - 1].side] = b
      BY <2>4, <3>1 DEF InBox, es
    <3> QED BY <2>5, <3>2, <3>3 DEF FromBox
  <2>8. \A d \in Client : Coming(d, Answers(c, ms)[d])
    BY <2>7 DEF Coming, Answers
  <2> QED BY <2>2, <2>8
<1>4. CASE ServeAdd(c, r)
  <2> DEFINE e == [side |-> c, n |-> r.arg]
  <2>1. PICK f : /\ Sends(f)
                 /\ \A d \in Client \ {c} :
                       IF opened[d] = opened[c] THEN Len(f[d]) = 1 /\ f[d][1] = MessageOf(e)
                       ELSE Len(f[d]) = 0
                 /\ Len(f[c]) = 2 /\ f[c][1] = Ack(r) /\ f[c][2] = MessageOf(e)
    BY <1>0, <1>4, AddServed
  <2>2. opened[c] # 0
    <3>1. r = toServer[c][1] /\ Len(toServer[c]) >= 1 /\ toServer[c] \in Seq(Request) /\ r.cmd = "add"
      BY <1>0, <1>4, AskedIs DEF ServeAdd
    <3>2. 1 \in 1..Len(toServer[c])
      BY <3>1
    <3> QED BY <1>0, <3>1, <3>2 DEF Opening, Adding
  <2>3. Ack(r).type = "ack" /\ MessageOf(e).event.side = c
    BY DEF Ack, MessageOf
  <2>4. \A d \in Client : opened[d] = opened[c] => FromBox(d, MessageOf(e).event)
    BY <1>0, <2>2, <2>3 DEF Opening, FromBox
  <2> HIDE DEF e
  <2>5. ASSUME NEW d \in Client PROVE Coming(d, f[d])
    <3>1. CASE d = c
      BY <2>1, <2>3, <2>4, <3>1 DEF Coming
    <3>2. CASE d # c /\ opened[d] = opened[c]
      BY <2>1, <2>4, <3>2 DEF Coming
    <3>3. CASE d # c /\ opened[d] # opened[c]
      BY <2>1, <3>3 DEF Coming
    <3> QED BY <3>1, <3>2, <3>3
  <2> QED BY <2>1, <2>5
<1> QED BY <1>1, <1>2, <1>3, <1>4, Zenon DEF Serve, Asked

\* The server keeps each message in the mailbox of its side.
LEMMA HomesStep ==
  ASSUME MeetInv, NEW c \in Client, Step(c)
  PROVE  Homes'
<1>0. /\ TypeInv /\ TypeOK /\ Homes /\ Opening(c) /\ Kept /\ boxes \in Seq(Box) /\ Len(boxes) \in Nat
  <2>1. TypeInv /\ Homes /\ Opening(c)
    BY DEF MeetInv
  <2>2. TypeOK
    BY <2>1 DEF TypeInv
  <2>3. boxes \in Seq(Box) /\ Len(boxes) \in Nat
    BY <2>2 DEF TypeOK, Box
  <2> QED BY <2>1, <2>2, <2>3, MailboxKept
<1>1. ASSUME NEW b \in 1..Len(boxes) PROVE InBox(b, boxes[b].msgs) /\ boxes[b].msgs \in Seq(Event)
  BY <1>0, <1>1, RecordedIs DEF Homes
<1>2. ASSUME NEW b \in 1..Len(boxes), NEW ms \in Seq(Event), InBox(b, ms) PROVE InBox(b, ms)'
  <2>1. b \in Nat \ {0}
    BY <1>0
  <2> QED BY <1>0, <1>2, <2>1, BoxStays
<1>3. CASE /\ Len(boxes') = Len(boxes)
           /\ \A b \in 1..Len(boxes) : boxes'[b].msgs = boxes[b].msgs
  <2> SUFFICES ASSUME NEW b \in 1..Len(boxes) PROVE InBox(b, boxes[b].msgs)'
    BY <1>3 DEF Homes
  <2> DEFINE ms == boxes[b].msgs
  <2>1. PICK v : v = ms
    OBVIOUS
  <2>2. InBox(b, v)' /\ boxes'[b].msgs = v
    BY <1>1, <1>2, <1>3, <2>1
  <2> QED BY <2>2 DEF InBox
<1>4. CASE ~Serve(c)
  <2>1. UNCHANGED boxes
    BY <1>0, <1>4, BoxesKept
  <2> QED BY <1>3, <2>1
<1>5. CASE Serve(c)
  <2> DEFINE r == Asked(c)
  <2>1. CASE ServeBind(c, r) \/ ServeRelease(c, r) \/ ServeClose(c, r) \/ ServeOpen(c, r)
    <3>1. UNCHANGED boxes
      BY <2>1 DEF ServeBind, ServeRelease, ServeClose, ServeOpen, serverVars
    <3> QED BY <1>3, <3>1
  <2>2. CASE \E n \in Nat : boxes' = Append(boxes, [claims |-> n, msgs |-> <<>>])
    <3>1. PICK n \in Nat : boxes' = Append(boxes, [claims |-> n, msgs |-> <<>>])
      BY <2>2
    <3>2. /\ Len(boxes') = Len(boxes) + 1 /\ \A b \in 1..Len(boxes) : boxes'[b] = boxes[b]
          /\ boxes'[Len(boxes) + 1].msgs = <<>>
      BY <1>0, <3>1, BoxNew
    <3> SUFFICES ASSUME NEW b \in 1..Len(boxes) + 1 PROVE InBox(b, boxes[b].msgs)'
      BY <3>2 DEF Homes
    <3>3. CASE b \in 1..Len(boxes)
      <4> DEFINE ms == boxes[b].msgs
      <4>1. PICK v : v = ms
        OBVIOUS
      <4>2. InBox(b, v)' /\ boxes'[b].msgs = v
        BY <1>1, <1>2, <3>2, <3>3, <4>1
      <4> QED BY <4>2 DEF InBox
    <3>4. CASE b = Len(boxes) + 1
      BY <3>2, <3>4 DEF InBox
    <3> QED BY <1>0, <3>3, <3>4
  <2>3. CASE ServeAllocate(c, r)
    BY <2>2, <2>3 DEF ServeAllocate, NewBox
  <2>4. CASE ServeClaim(c, r)
    <3>1. \/ boxes' = Append(boxes, [claims |-> 1, msgs |-> <<>>])
          \/ plate \in 1..Len(boxes) /\ boxes' = [boxes EXCEPT ![plate].claims = @ + 1]
          \/ UNCHANGED boxes
      <4>1. plate \in 0..Len(boxes)
        BY <1>0 DEF TypeOK
      <4> QED BY <1>0, <2>4, <4>1 DEF ServeClaim, NewBox
    <3>2. CASE boxes' = Append(boxes, [claims |-> 1, msgs |-> <<>>])
      BY <2>2, <3>2
    <3>3. CASE plate \in 1..Len(boxes) /\ boxes' = [boxes EXCEPT ![plate].claims = @ + 1]
      BY <1>0, <1>3, <3>3, BoxClaimed
    <3>4. CASE UNCHANGED boxes
      BY <1>3, <3>4
    <3> QED BY <3>1, <3>2, <3>3, <3>4
  <2>5. CASE ServeAdd(c, r)
    <3> DEFINE e == [side |-> c, n |-> r.arg]
    <3>1. e \in Event /\ boxes' = [boxes EXCEPT ![opened[c]].msgs = Append(@, e)] /\ e.side = c
      BY <1>0, <1>5, <2>5, AddServed
    <3>2. opened[c] \in 0..Len(boxes)
      BY <1>0 DEF TypeOK
    <3> HIDE DEF e
    <3>3. CASE opened[c] = 0
      <4>1. UNCHANGED boxes
        BY <1>0, <3>1, <3>3, BoxMissed
      <4> QED BY <1>3, <4>1
    <3>4. CASE opened[c] \in 1..Len(boxes)
      <4> DEFINE o == opened[c]
      <4>0. o # 0 /\ mailbox[c] = o
        BY <1>0, <3>4 DEF Opening
      <4>1. /\ Len(boxes') = Len(boxes)
            /\ \A b \in 1..Len(boxes) :
                  boxes'[b].msgs = IF b = o THEN Append(boxes[o].msgs, e) ELSE boxes[b].msgs
        BY <1>0, <3>1, <3>4, BoxAdded
      <4> HIDE DEF o
      <4> SUFFICES ASSUME NEW b \in 1..Len(boxes) PROVE InBox(b, boxes[b].msgs)'
        BY <4>1 DEF Homes
      <4>2. PICK v : v = boxes'[b].msgs
        OBVIOUS
      <4>3. v \in Seq(Event) /\ InBox(b, v)
        <5>1. CASE b # o
          BY <1>1, <4>1, <4>2, <5>1
        <5>2. CASE b = o
          <6> DEFINE ms == boxes[b].msgs
          <6>1. v = Append(ms, e) /\ ms \in Seq(Event) /\ InBox(b, ms)
            BY <1>1, <4>1, <4>2, <5>2
          <6> HIDE DEF ms
          <6>2. /\ v \in Seq(Event) /\ Len(ms) \in Nat /\ Len(v) = Len(ms) + 1 /\ v[Len(ms) + 1] = e
                /\ \A k \in 1..Len(ms) : v[k] = ms[k]
            BY <3>1, <6>1
          <6>3. \A k \in 1..Len(v) : k \in 1..Len(ms) \/ k = Len(ms) + 1
            BY <6>2
          <6> QED BY <3>1, <4>0, <5>2, <6>1, <6>2, <6>3 DEF InBox
        <5> QED BY <5>1, <5>2
      <4>4. InBox(b, v)'
        BY <1>2, <4>3
      <4> QED BY <4>2, <4>4 DEF InBox
    <3> QED BY <1>0, <3>2, <3>3, <3>4
  <2> QED BY <1>5, <2>1, <2>3, <2>4, <2>5 DEF Serve, Asked
<1> QED BY <1>4, <1>5

\* What comes to a client that does not step, and to one that the server answers.
LEMMA HeardSent ==
  ASSUME TypeOK, Kept, UNCHANGED mailbox, NEW d \in Client, Heard(d), events'[d] = events[d],
         toClient' \in [Client -> Seq(Reply \cup Message)], NEW f, Sends(f), Coming(d, f[d])
  PROVE  Heard(d)'
<1>1. PICK v : v = toClient'[d]
  OBVIOUS
<1>2. v \in Seq(Reply \cup Message) /\ events[d] \in Seq(Event)
  BY <1>1 DEF TypeOK
<1>3. Coming(d, v)
  <2>1. CASE ws[d] # "up"
    <3>1. v = toClient[d]
      BY <1>1, <2>1, SendsJoins
    <3> QED BY <3>1 DEF Heard
  <2>2. CASE ws[d] = "up"
    <3>1. Hears(d, f[d])
      BY <2>2, SendsJoins
    <3>2. Joined(toClient[d], f[d], v)
      BY <1>1, <3>1 DEF Hears
    <3>3. Mixed(toClient[d], f[d], v)
      BY <3>2, JoinedFrom
    <3> QED BY <3>3, ComingMixed DEF Heard
  <2> QED BY <2>1, <2>2
<1>4. PICK es : es = events[d]
  OBVIOUS
<1>5. Noted(d, es) /\ es \in Seq(Event) /\ es = events'[d]
  BY <1>2, <1>4 DEF Heard
<1> QED BY <1>1, <1>2, <1>3, <1>5, HeardStays

\* Or nothing comes.
LEMMA HeardSame ==
  ASSUME TypeOK, Kept, NEW d \in Client, Heard(d), events'[d] = events[d], toClient'[d] = toClient[d]
  PROVE  Heard(d)'
<1>1. PICK v : v = toClient[d]
  OBVIOUS
<1>2. PICK es : es = events[d]
  OBVIOUS
<1>3. /\ v \in Seq(Reply \cup Message) /\ v = toClient'[d] /\ Coming(d, v)
      /\ es \in Seq(Event) /\ es = events'[d] /\ Noted(d, es)
  BY <1>1, <1>2 DEF TypeOK, Heard
<1> QED BY <1>3, HeardStays

\* Each client only hears of its own mailbox.
LEMMA HeardStep ==
  ASSUME MeetInv, NEW c \in Client, Step(c), NEW d \in Client
  PROVE  Heard(d)'
<1>0. TypeInv /\ TypeOK /\ Heard(d) /\ Kept
  <2>1. TypeInv /\ Heard(d)
    BY DEF MeetInv
  <2> QED BY <2>1, MailboxKept DEF TypeInv
<1>1. CASE Serve(c)
  <2>1. PICK f : Sends(f) /\ \A x \in Client : Coming(x, f[x])
    BY <1>1, SentHome
  <2>2. UNCHANGED <<mailbox, events>> /\ toClient' \in [Client -> Seq(Reply \cup Message)]
    BY <1>0, <1>1, BoxesServed DEF Serve, appVars, recvVars
  <2>3. Coming(d, f[d]) /\ events'[d] = events[d]
    BY <2>1, <2>2
  <2> QED BY <1>0, <2>1, <2>2, <2>3, HeardSent
<1>2. CASE Dispatch(c)
  <2>1. CASE d # c
    <3>1. events'[d] = events[d] /\ toClient'[d] = toClient[d]
      BY <1>0, <1>2, <2>1 DEF Dispatch, TypeOK
    <3> QED BY <1>0, <3>1, HeardSame
  <2>2. CASE d = c
    <3> DEFINE m == Head(toClient[c])
    <3>1. toClient[c] \in Seq(Reply \cup Message) /\ toClient[c] # <<>> /\ events[c] \in Seq(Event)
      BY <1>0, <1>2 DEF Dispatch, TypeOK
    <3>2. PICK q : q = toClient'[c]
      OBVIOUS
    <3>3. q = Tail(toClient[c])
      BY <1>0, <1>2, <3>2 DEF Dispatch, TypeOK
    <3>4. q \in Seq(Reply \cup Message) /\ Without(toClient[c], 1, q) /\ m = toClient[c][1] /\ 1 \in 1..Len(toClient[c])
      BY <3>1, <3>3, Taking
    <3>5. Within(q, toClient[c])
      BY <3>4, WithoutFrom
    <3>6. Coming(c, q)
      BY <1>0, <2>2, <3>5 DEF Within, Heard, Coming
    <3>7. m \in Reply \cup Message
      BY <3>1, <3>4
    <3>8. m.type = "message" => m.event \in Event /\ FromBox(c, m.event)
      BY <1>0, <2>2, <3>4, <3>7, Kinds DEF Heard, Coming
    <3>9. \/ events'[c] = events[c]
          \/ m.type = "message" /\ events'[c] = Append(events[c], m.event)
      BY <1>0, <1>2 DEF Dispatch, TypeOK
    <3> HIDE DEF m
    <3>10. PICK es : es = events'[c]
      OBVIOUS
    <3>11. es \in Seq(Event) /\ Noted(c, es)
      <4>1. CASE events'[c] = events[c]
        BY <1>0, <2>2, <3>1, <3>10, <4>1 DEF Heard
      <4>2. CASE m.type = "message" /\ events'[c] = Append(events[c], m.event)
        <5> DEFINE e == m.event
        <5>1. e \in Event /\ FromBox(c, e) /\ es = Append(events[c], e)
          BY <3>8, <3>10, <4>2
        <5> HIDE DEF e
        <5>2. /\ es \in Seq(Event) /\ Len(events[c]) \in Nat /\ Len(es) = Len(events[c]) + 1
              /\ es[Len(events[c]) + 1] = e
              /\ \A k \in 1..Len(events[c]) : es[k] = events[c][k]
          BY <3>1, <5>1
        <5>3. \A k \in 1..Len(es) : k \in 1..Len(events[c]) \/ k = Len(events[c]) + 1
          BY <5>2
        <5> QED BY <1>0, <2>2, <5>1, <5>2, <5>3 DEF Heard, Noted
      <4> QED BY <3>9, <4>1, <4>2
    <3> QED BY <1>0, <2>2, <3>2, <3>4, <3>6, <3>10, <3>11, HeardStays
  <2> QED BY <2>1, <2>2
<1>3. CASE Connect(c)
  <2>1. events'[d] = events[d]
    BY <1>3 DEF Connect, recvVars
  <2>2. CASE d # c
    <3>1. toClient'[d] = toClient[d]
      BY <1>0, <1>3, <2>2 DEF Connect, TypeOK
    <3> QED BY <1>0, <2>1, <3>1, HeardSame
  <2>3. CASE d = c
    <3> DEFINE w == Plain("welcome")
    <3>1. w \in Reply /\ w.type = "welcome"
      BY Kinds
    <3>2. toClient'[c] = <<w>>
      BY <1>0, <1>3 DEF Connect, TypeOK
    <3> HIDE DEF w
    <3>3. PICK q : q = toClient'[c]
      OBVIOUS
    <3>4. q \in Seq(Reply \cup Message) /\ Coming(c, q)
      BY <3>1, <3>2, <3>3 DEF Coming
    <3>5. PICK es : es = events[c]
      OBVIOUS
    <3>6. es = events'[c] /\ es \in Seq(Event) /\ Noted(c, es)
      BY <1>0, <2>1, <2>3, <3>5 DEF TypeOK, Heard
    <3> QED BY <1>0, <2>3, <3>3, <3>4, <3>6, HeardStays
  <2> QED BY <2>2, <2>3
<1>4. CASE \E t \in Thread : t[1] = c /\ (Send(t) \/ Register(t) \/ NotFound(t) \/ Read(t) \/ CutOff(t))
  <2>1. UNCHANGED <<events, toClient>>
    BY <1>0, <1>4, ThreadMoves
  <2> QED BY <1>0, <2>1, HeardSame
<1>5. CASE \/ ReadEnds(c) \/ LoseConnection(c) \/ StartRecv(c) \/ Scan(c) \/ Notified(c) \/ Deliver(c)
           \/ Meet(c) \/ AddMessage(c) \/ Close(c) \/ HangUp(c)
  <2>1. UNCHANGED <<events, toClient>>
    BY <1>5 DEF ReadEnds, LoseConnection, StartRecv, Scan, Notified, Deliver,
       Meet, AddMessage, Close, HangUp, recvVars, netVars
  <2> QED BY <1>0, <2>1, HeardSame
<1> QED BY <1>1, <1>2, <1>3, <1>4, <1>5 DEF Step

\* A client that does not step keeps its mailbox open.
LEMMA OpeningElsewhere ==
  ASSUME MeetInv, NEW c \in Client, Step(c), NEW d \in Client, d # c
  PROVE  Opening(d)'
<1>0. TypeInv /\ Opening(d) /\ Same(d)
  BY Elsewhere DEF MeetInv
<1>1. OpenAck(toClient'[d]) => OpenAck(toClient[d])
  <2>1. CASE toClient'[d] = toClient[d]
    BY <2>1
  <2>2. CASE \E q : Hears(d, q) /\ \A k \in 1..Len(q) : q[k].type = "message"
    <3>1. PICK q : Hears(d, q) /\ \A k \in 1..Len(q) : q[k].type = "message"
      BY <2>2
    <3>2. PICK v : v = toClient'[d] /\ Joined(toClient[d], q, v)
      BY <3>1 DEF Hears
    <3>3. Mixed(toClient[d], q, v)
      BY <3>2, JoinedFrom
    <3>4. ~OpenAck(q)
      BY <3>1 DEF OpenAck
    <3>5. OpenAck(v) => OpenAck(toClient[d])
      BY <3>3, <3>4, OpenAckMixed
    <3> QED BY <3>2, <3>5 DEF OpenAck
  <2> QED BY <1>0, <2>1, <2>2, Elsewhere
<1> QED BY <1>0, <1>1 DEF Opening, Same

\* Nor does one that does.
LEMMA OpeningServed ==
  ASSUME MeetInv, NEW c \in Client, Serve(c)
  PROVE  Opening(c)'
<1> DEFINE r == Asked(c)
<1>0. /\ TypeInv /\ TypeOK /\ Opening(c) /\ ws'[c] = ws[c] /\ phase'[c] = phase[c]
      /\ mailbox'[c] = mailbox[c] /\ pending'[c] = pending[c]
  <2>1. TypeInv /\ Opening(c)
    BY DEF MeetInv
  <2> QED BY <2>1 DEF TypeInv, Serve, appVars, cmdVars
<1>1. Adding(toServer'[c]) => Adding(toServer[c])
  <2> DEFINE q == Tail(toServer[c])
  <2>1. toServer[c] \in Seq(Request) /\ toServer[c] # <<>> /\ toServer'[c] = q
    BY <1>0 DEF Serve, TypeOK
  <2>2. Without(toServer[c], 1, q)
    BY <2>1, Taking
  <2> HIDE DEF q
  <2>3. Within(q, toServer[c])
    BY <2>2, WithoutFrom
  <2> QED BY <2>1, <2>3 DEF Within, Adding
<1>2. OpenAck(toClient'[c]) => OpenAck(toClient[c]) \/ r.cmd = "open"
  <2>1. PICK f : /\ Sends(f) /\ Len(f[c]) \in Nat \ {0} /\ f[c][1] = Ack(r)
                 /\ \A k \in 2..Len(f[c]) : \/ f[c][k].type \in {"allocated", "released", "closed", "error", "message"}
                                            \/ f[c][k] = [type |-> "claimed", box |-> plate']
    BY <1>0, ServeSends
  <2> DEFINE p == f[c]
  <2>2. Ack(r).cmd = r.cmd
    BY DEF Ack
  <2>3. OpenAck(p) => r.cmd = "open"
    <3> SUFFICES ASSUME NEW k \in 1..Len(p), p[k].type = "ack", p[k].cmd = "open" PROVE r.cmd = "open"
      BY DEF OpenAck
    <3>1. k = 1 \/ k \in 2..Len(p)
      BY <2>1
    <3>2. k \notin 2..Len(p)
      BY <2>1
    <3> QED BY <2>1, <2>2, <3>1, <3>2
  <2>4. CASE ws[c] # "up"
    BY <1>0, <2>1, <2>4, SendsJoins
  <2>5. CASE ws[c] = "up"
    <3>1. Hears(c, p)
      BY <1>0, <2>1, <2>5, SendsJoins
    <3> HIDE DEF p
    <3>2. PICK v : v = toClient'[c] /\ Joined(toClient[c], p, v)
      BY <3>1 DEF Hears
    <3>3. Mixed(toClient[c], p, v)
      BY <3>2, JoinedFrom
    <3>4. OpenAck(v) => OpenAck(toClient[c]) \/ OpenAck(p)
      BY <3>3, OpenAckMixed
    <3>5. OpenAck(toClient'[c]) => OpenAck(v)
      BY <3>2 DEF OpenAck
    <3> QED BY <2>3, <3>4, <3>5
  <2> QED BY <2>4, <2>5
<1>3. \/ r.cmd = "open" /\ opened'[c] = mailbox[c] /\ mailbox[c] # 0
      \/ r.cmd # "open" /\ opened'[c] = opened[c]
  <2>1. CASE ServeOpen(c, r)
    <3>1. r.cmd = "open" /\ opened' = [opened EXCEPT ![c] = r.arg]
      BY <2>1 DEF ServeOpen
    <3>2. r.arg = mailbox[c] /\ mailbox[c] # 0
      BY <1>0, <3>1, AskedIs
    <3> QED BY <1>0, <3>1, <3>2 DEF TypeOK
  <2>2. CASE \/ ServeBind(c, r) \/ ServeAllocate(c, r) \/ ServeClaim(c, r) \/ ServeAdd(c, r)
             \/ ServeRelease(c, r) \/ ServeClose(c, r)
    BY <2>2 DEF ServeBind, ServeAllocate, ServeClaim, ServeAdd, ServeRelease, ServeClose, serverVars
  <2> QED BY <2>1, <2>2 DEF Serve, Asked
<1> QED BY <1>0, <1>1, <1>2, <1>3 DEF Opening

\* The client that steps has its mailbox open when it adds.
LEMMA OpeningOwn ==
  ASSUME MeetInv, NEW c \in Client, Step(c)
  PROVE  Opening(c)'
<1>0. /\ TypeInv /\ TypeOK /\ Mine(c) /\ Opening(c) /\ Kept
  <2>1. TypeInv /\ Opening(c)
    BY DEF MeetInv
  <2> QED BY <2>1, TypeInvIs, MailboxKept
<1>1. opened[c] # 0 => mailbox'[c] = mailbox[c]
  <2>1. opened[c] \in Nat
    BY <1>0 DEF TypeOK
  <2> QED BY <1>0, <2>1 DEF Opening, Kept
<1>2. CASE \E t \in Thread : t[1] = c /\ (Send(t) \/ Register(t) \/ NotFound(t) \/ Read(t) \/ CutOff(t))
  <2>1. /\ Moved(c) /\ UNCHANGED <<toClient, opened>>
        /\ OpenAck(pending'[c]) => OpenAck(pending[c])
        /\ Adding(toServer'[c]) => Adding(toServer[c]) \/ (ws[c] = "up" /\ phase[c] = "talk")
    BY <1>0, <1>2, ThreadMoves
  <2> QED BY <1>0, <1>1, <2>1 DEF Opening, Moved
<1>3. CASE Dispatch(c)
  <2> DEFINE m == Head(toClient[c])
  <2>1. /\ toClient[c] \in Seq(Reply \cup Message) /\ toClient[c] # <<>> /\ pending[c] \in Seq(Reply)
        /\ toClient'[c] = Tail(toClient[c])
        /\ UNCHANGED <<opened, mailbox, phase, ws, toServer>>
    BY <1>0, <1>3 DEF Dispatch, TypeOK, appVars, serverVars
  <2>2. Without(toClient[c], 1, Tail(toClient[c])) /\ m = toClient[c][1] /\ 1 \in 1..Len(toClient[c])
    BY <2>1, Taking
  <2>3. OpenAck(toClient'[c]) => OpenAck(toClient[c])
    BY <2>1, <2>2, OpenAckWithout
  <2>4. \/ pending'[c] = pending[c]
        \/ pending'[c] = Append(pending[c], m)
    BY <1>0, <1>3 DEF Dispatch, TypeOK
  <2>5. m.type = "ack" /\ m.cmd = "open" => OpenAck(toClient[c])
    BY <2>2 DEF OpenAck
  <2> HIDE DEF m
  <2>6. OpenAck(pending'[c]) => OpenAck(pending[c]) \/ (m.type = "ack" /\ m.cmd = "open")
    <3>1. CASE pending'[c] = Append(pending[c], m)
      <4>1. /\ Len(pending[c]) \in Nat /\ Len(pending'[c]) = Len(pending[c]) + 1
            /\ pending'[c][Len(pending[c]) + 1] = m
            /\ \A k \in 1..Len(pending[c]) : pending'[c][k] = pending[c][k]
        BY <2>1, <3>1
      <4>2. \A k \in 1..Len(pending'[c]) : k \in 1..Len(pending[c]) \/ k = Len(pending[c]) + 1
        BY <4>1
      <4> QED BY <4>1, <4>2 DEF OpenAck
    <3> QED BY <2>4, <3>1
  <2> QED BY <1>0, <2>1, <2>3, <2>5, <2>6 DEF Opening
<1>4. CASE ReadEnds(c) \/ LoseConnection(c)
  <2>1. /\ ws'[c] # "up" /\ UNCHANGED <<opened, mailbox, toServer>>
    BY <1>0, <1>4 DEF ReadEnds, LoseConnection, TypeOK, appVars, serverVars
  <2> QED BY <1>0, <2>1 DEF Opening
<1>5. CASE StartRecv(c) \/ Scan(c) \/ Notified(c) \/ Deliver(c) \/ AddMessage(c)
  <2>1. UNCHANGED <<opened, mailbox, phase, ws, toServer, toClient, pending>>
    BY <1>5 DEF StartRecv, Scan, Notified, Deliver, AddMessage, appVars, cmdVars, netVars, serverVars
  <2> QED BY <1>0, <2>1 DEF Opening
<1>6. CASE Meet(c) \/ Close(c)
  <2>1. UNCHANGED <<opened, mailbox, ws, toServer, toClient, pending>> /\ phase'[c] # "talk"
    BY <1>0, <1>6 DEF Meet, Close, Goes, TypeOK, netVars, serverVars
  <2> QED BY <1>0, <2>1 DEF Opening
<1>7. CASE Connect(c)
  <2>1. UNCHANGED <<opened, mailbox, toServer, pending>> /\ phase'[c] = "connect" /\ phase[c] = "off"
    BY <1>0, <1>7 DEF Connect, Goes, TypeOK, serverVars
  <2>2. toClient'[c] = <<Plain("welcome")>>
    BY <1>0, <1>7 DEF Connect, TypeOK
  <2>3. pending[c] = <<>> /\ toServer[c] = <<>> /\ opened[c] = 0
    BY <1>0, <2>1 DEF Mine, Wired
  <2>4. ~OpenAck(toClient'[c])
    BY <2>2 DEF OpenAck, Plain
  <2>5. ~OpenAck(pending'[c]) /\ ~Adding(toServer'[c])
    BY <2>1, <2>3 DEF OpenAck, Adding
  <2> QED BY <2>1, <2>3, <2>4, <2>5 DEF Opening
<1>8. CASE Serve(c)
  BY <1>8, OpeningServed
<1>9. CASE HangUp(c)
  <2>1. ws'[c] # "up" /\ opened'[c] = 0 /\ toServer'[c] = <<>>
    BY <1>0, <1>9 DEF HangUp, TypeOK
  <2>2. ~Adding(toServer'[c])
    BY <2>1 DEF Adding
  <2> QED BY <2>1, <2>2 DEF Opening
<1> QED BY <1>2, <1>3, <1>4, <1>5, <1>6, <1>7, <1>8, <1>9 DEF Step

\* Whom a client has heard of stays in its mailbox.
LEMMA PeerStays ==
  ASSUME Kept, NEW c \in Client, mailbox[c] # 0, \E d \in Client \ {c} : mailbox[d] = mailbox[c]
  PROVE  mailbox'[c] # 0 /\ \E d \in Client \ {c} : mailbox'[d] = mailbox'[c]
BY DEF Kept

\* A client that takes no message.
LEMMA MetStays ==
  ASSUME TypeInv, Kept, NEW c \in Client, Met(c), got'[c] = got[c],
         recv'[c] = "offer" => events'[c][offset'[c]].side # c,
         recv'[c] = "release" => recv[c] = "release",
         mailbox'[c] # 0 /\ ~claimed'[c] => (mailbox[c] # 0 /\ ~claimed[c]) \/ recv[c] = "release"
  PROVE  Met(c)'
<1>1. got[c] # <<>> => mailbox'[c] # 0 /\ \E d \in Client \ {c} : mailbox'[d] = mailbox'[c]
  BY PeerStays DEF Met
<1> QED BY <1>1 DEF Met

\* The message on offer stays where it is.
LEMMA OfferStays ==
  ASSUME TypeInv, NEW c \in Client, Met(c), recv[c] = "offer", offset'[c] = offset[c],
         \/ events'[c] = events[c]
         \/ \E e : events'[c] = Append(events[c], e)
  PROVE  events'[c][offset'[c]].side # c
<1>1. TypeOK /\ offset[c] \in 1..Len(events[c]) /\ events[c] \in Seq(Event) /\ events[c][offset[c]].side # c
  <2>1. TypeOK /\ Mine(c)
    BY TypeInvIs
  <2> QED BY <2>1 DEF Mine, Claiming, Met, TypeOK
<1>2. CASE events'[c] = events[c]
  BY <1>1, <1>2
<1>3. CASE \E e : events'[c] = Append(events[c], e)
  <2>1. PICK e : events'[c] = Append(events[c], e)
    BY <1>3
  <2>2. events'[c][offset[c]] = events[c][offset[c]]
    BY <1>1, <2>1
  <2> QED BY <1>1, <2>2
<1> QED BY <1>2, <1>3

\* No client gives up its nameplate before it has had a message.
LEMMA MetStep ==
  ASSUME MeetInv, NEW c \in Client, Step(c), NEW d \in Client
  PROVE  Met(d)'
<1>0. TypeInv /\ TypeOK /\ Mine(c) /\ Mine(d) /\ Heard(c) /\ Met(c) /\ Met(d) /\ Kept
  <2>1. TypeInv /\ Heard(c) /\ Met(c) /\ Met(d)
    BY DEF MeetInv
  <2> QED BY <2>1, TypeInvIs, MailboxKept
<1>1. CASE d # c
  <2>1. Same(d)
    BY <1>0, <1>1, Elsewhere
  <2>2. recv[d] = "offer" => events[d][offset[d]].side # d
    BY <1>0 DEF Met
  <2> QED BY <1>0, <2>1, <2>2, MetStays DEF Same
<1>2. CASE d = c /\ \E t \in Thread : t[1] = c /\ (Send(t) \/ Register(t) \/ NotFound(t) \/ Read(t) \/ CutOff(t))
  <2>1. Moved(c) /\ UNCHANGED <<events, offset>>
    BY <1>0, <1>2, ThreadMoves
  <2>2. recv[c] = "offer" => events[c][offset[c]].side # c
    BY <1>0 DEF Met
  <2> QED BY <1>0, <1>2, <2>1, <2>2, MetStays DEF Moved
<1>3. CASE d = c /\ Dispatch(c)
  <2>1. UNCHANGED <<appVars, recv, offset>>
    BY <1>3 DEF Dispatch
  <2>2. events'[c] = events[c] \/ events'[c] = Append(events[c], Head(toClient[c]).event)
    BY <1>0, <1>3 DEF Dispatch, TypeOK
  <2>3. recv'[c] = "offer" => events'[c][offset'[c]].side # c
    BY <1>0, <2>1, <2>2, OfferStays
  <2> QED BY <1>0, <1>3, <2>1, <2>3, MetStays DEF appVars
<1>4. CASE d = c /\ \/ ReadEnds(c) \/ LoseConnection(c)
                    \/ Connect(c) \/ Meet(c) \/ AddMessage(c) \/ Close(c)
                    \/ Serve(c) \/ HangUp(c)
  <2>1. UNCHANGED <<got, claimed, mailbox, events, recv, offset>>
    BY <1>4 DEF ReadEnds, LoseConnection, Connect, Meet, AddMessage, Close, Serve, HangUp, appVars, recvVars
  <2>2. recv[c] = "offer" => events[c][offset[c]].side # c
    BY <1>0 DEF Met
  <2> QED BY <1>0, <1>4, <2>1, <2>2, MetStays
<1>5. CASE d = c /\ (StartRecv(c) \/ Scan(c) \/ Notified(c))
  <2>1. UNCHANGED <<appVars, events>>
    BY <1>5 DEF StartRecv, Scan, Notified
  <2>2. /\ recv'[c] # "release"
        /\ recv'[c] = "offer" => events[c][offset'[c]].side # c
    <3>1. CASE StartRecv(c) \/ Notified(c)
      BY <1>0, <3>1 DEF StartRecv, Notified, TypeOK
    <3>2. CASE Scan(c)
      <4>1. \/ /\ Theirs(c) # {} /\ offset' = [offset EXCEPT ![c] = Min(Theirs(c))]
               /\ recv' = [recv EXCEPT ![c] = "offer"]
            \/ recv' = [recv EXCEPT ![c] = "wait"]
        BY <3>2 DEF Scan, Theirs
      <4>2. Theirs(c) # {} => events[c][Min(Theirs(c))].side # c
        BY <1>0, TheirsAre
      <4>3. /\ offset \in [Client -> Nat]
            /\ recv \in [Client -> {"off", "start", "scan", "offer", "release", "wait"}]
        BY <1>0 DEF TypeOK
      <4> QED BY <4>1, <4>2, <4>3
    <3> QED BY <1>5, <3>1, <3>2
  <2> QED BY <1>0, <1>5, <2>1, <2>2, MetStays DEF appVars
<1>6. CASE d = c /\ Deliver(c)
  <2> DEFINE e == events[c][offset[c]]
  <2>1. /\ recv[c] = "offer" /\ offset[c] \in 1..Len(events[c]) /\ events[c] \in Seq(Event)
        /\ got[c] \in Seq(Event) /\ got'[c] = Append(got[c], e) /\ recv'[c] # "offer"
        /\ UNCHANGED mailbox
    BY <1>0, <1>6 DEF Deliver, Mine, Claiming, TypeOK
  <2>2. e \in Event /\ e.side # c /\ FromBox(c, e)
    BY <1>0, <2>1 DEF Met, Heard, Noted
  <2> HIDE DEF e
  <2>3. e.side \in Client /\ mailbox[c] # 0 /\ mailbox[e.side] = mailbox[c]
    BY <2>2 DEF FromBox, Event
  <2>4. got'[c] # <<>>
    BY <2>1, <2>2
  <2> QED BY <1>6, <2>1, <2>2, <2>3, <2>4 DEF Met
<1> QED BY <1>1, <1>2, <1>3, <1>4, <1>5, <1>6 DEF Step

\* The invariant is inductive.
LEMMA MeetInvStep ==
  ASSUME MeetInv, [Next]_vars
  PROVE  MeetInv'
<1>0. TypeInv /\ TypeOK /\ Homes /\ \A c \in Client : Opening(c) /\ Heard(c) /\ Met(c)
  BY DEF MeetInv, TypeInv
<1>1. TypeInv'
  BY <1>0, TypeInvStep
<1>2. CASE \E c \in Client : Step(c) /\ UNCHANGED cancelled
  <2>1. PICK c \in Client : Step(c)
    BY <1>2
  <2>2. Homes'
    BY <2>1, HomesStep
  <2>3. ASSUME NEW d \in Client PROVE Opening(d)' /\ Heard(d)' /\ Met(d)'
    <3>1. Opening(d)'
      BY <2>1, OpeningOwn, OpeningElsewhere
    <3> QED BY <2>1, <3>1, HeardStep, MetStep
  <2> QED BY <1>1, <2>2, <2>3 DEF MeetInv
<1>3. CASE (\E c \in Client : Cancel(c)) \/ UNCHANGED vars
  <2>1. /\ UNCHANGED <<appVars, cmdVars, recvVars, netVars, serverVars, crashed>>
        /\ UNCHANGED <<mailbox, boxes>>
    BY <1>3, StillSame DEF appVars, serverVars
  <2>2. Homes'
    BY <1>0, <2>1 DEF Homes, InBox
  <2>3. ASSUME NEW d \in Client PROVE Opening(d)' /\ Heard(d)' /\ Met(d)'
    <3>1. Opening(d)'
      BY <1>0, <2>1 DEF Opening, OpenAck, Adding, appVars, cmdVars, netVars, serverVars
    <3>2. Heard(d)'
      BY <1>0, <2>1 DEF Heard, Coming, Noted, FromBox, recvVars, netVars
    <3>3. Met(d)'
      BY <1>0, <2>1 DEF Met, appVars, recvVars
    <3> QED BY <3>1, <3>2, <3>3
  <2> QED BY <1>1, <2>2, <2>3 DEF MeetInv
<1> QED BY <1>2, <1>3, NextStep

\* It holds at first.
LEMMA MeetInvInit ==
  ASSUME Init
  PROVE  MeetInv
<1>1. TypeInv
  BY TypeInvInit
<1>2. Homes
  <2>1. ASSUME NEW b \in 1..Len(boxes) PROVE boxes[b].msgs = <<>>
    <3>1. CASE boxes = <<>>
      BY <2>1, <3>1
    <3>2. CASE \E n \in Others \ {0} : boxes = <<[claims |-> n, msgs |-> <<>>]>>
      <4>1. PICK n \in Others \ {0} : boxes = <<[claims |-> n, msgs |-> <<>>]>>
        BY <3>2
      <4> DEFINE x == [claims |-> n, msgs |-> <<>>]
      <4>2. x.msgs = <<>> /\ boxes = <<x>>
        BY <4>1
      <4> HIDE DEF x
      <4>3. boxes[b] = x
        BY <2>1, <4>2
      <4> QED BY <4>2, <4>3
    <3> QED BY <3>1, <3>2 DEF Init
  <2> QED BY <2>1 DEF Homes, InBox
<1>3. ASSUME NEW c \in Client PROVE Opening(c) /\ Heard(c) /\ Met(c)
  <2>1. /\ opened[c] = 0 /\ toServer[c] = <<>> /\ toClient[c] = <<>> /\ ws[c] = "nil"
        /\ events[c] = <<>> /\ recv[c] = "off" /\ got[c] = <<>> /\ mailbox[c] = 0
    BY DEF Init
  <2>2. ~Adding(toServer[c]) /\ Coming(c, toClient[c]) /\ Noted(c, events[c])
    BY <2>1 DEF Adding, Coming, Noted
  <2> QED BY <2>1, <2>2 DEF Opening, Heard, Met
<1> QED BY <1>1, <1>2, <1>3 DEF MeetInv

\* A client gives up the nameplate only when another has found the mailbox through it:
\* whatever happens to the connections and the contexts, and however many clients there
\* are.  It has had a message, of another side, and every message is of a side whose
\* mailbox is the one that the client has opened.
THEOREM ReleasedAfterMeeting == Spec => []ReleaseAfterMeeting
<1>1. Init => MeetInv
  BY MeetInvInit
<1>2. MeetInv /\ [Next]_vars => MeetInv'
  BY MeetInvStep
<1>3. MeetInv => ReleaseAfterMeeting
  <2> SUFFICES ASSUME MeetInv PROVE ReleaseAfterMeeting
    OBVIOUS
  <2> SUFFICES ASSUME NEW c \in Client, op[Recv(c)] # Idle \/ (mailbox[c] # 0 /\ ~claimed[c])
               PROVE  \E d \in Client \ {c} : mailbox[d] = mailbox[c]
    BY DEF ReleaseAfterMeeting
  <2>1. TypeInv /\ Met(c)
    BY DEF MeetInv
  <2>2. op[Recv(c)] # Idle => recv[c] = "release"
    BY <2>1, TypeInvIs DEF Mine, Calling
  <2> QED BY <2>1, <2>2 DEF Met
<1> QED BY <1>1, <1>2, <1>3, PTL DEF Spec

-----------------------------------------------------------------------------
(* What a step of its threads does to the application of a client.         *)

\* Nothing.
AppRests(c) ==
    phase'[c] = phase[c] /\ op'[App(c)] = op[App(c)] /\ mailbox'[c] = mailbox[c] /\ toServer'[c] = toServer[c]

\* Request r is sent, by it or by recvMailboxMsgs.
AppSends(c, r) ==
    /\ phase'[c] = phase[c] /\ mailbox'[c] = mailbox[c] /\ toServer'[c] = Append(toServer[c], r)
    /\ \/ r.thread = Recv(c) /\ r.cmd = "release" /\ op'[App(c)] = op[App(c)]
       \/ /\ r.thread = App(c) /\ r.cmd = op[App(c)].cmd /\ r.arg = Arg(App(c))
          /\ op[App(c)].at = "lock" /\ op'[App(c)] = [at |-> "ack", cmd |-> r.cmd]

\* It fails.
AppFails(c) ==
    /\ phase'[c] \in {"failed", "closed"} /\ op'[App(c)] = Idle
    /\ mailbox'[c] = mailbox[c] /\ toServer'[c] = toServer[c]

\* It has the ack of a command that gets an answer.
AppAcked(c) ==
    /\ phase'[c] = phase[c] /\ mailbox'[c] = mailbox[c] /\ toServer'[c] = toServer[c]
    /\ op[App(c)].at = "ack" /\ op[App(c)].cmd \in DOMAIN Awaits
    /\ op'[App(c)] = [at |-> "reply", cmd |-> op[App(c)].cmd]

\* It has m, the answer, or the ack of a command that gets no other.
AppSucceeds(c, m) ==
    /\ Succeeded(c, m) /\ toServer'[c] = toServer[c]
    /\ \/ op[App(c)].at = "reply" /\ m.type = Awaits[op[App(c)].cmd]
       \/ /\ op[App(c)].at = "ack" /\ op[App(c)].cmd \notin DOMAIN Awaits
          /\ m.type = "ack" /\ m.cmd = op[App(c)].cmd

AppStep(c) ==
    \/ AppRests(c)
    \/ \E r \in Request : AppSends(c, r)
    \/ AppFails(c)
    \/ AppAcked(c)
    \/ \E k \in 1..Len(pending[c]) : AppSucceeds(c, pending[c][k])

\* Failing.
LEMMA FailSteps ==
  ASSUME TypeInv, NEW c \in Client, NEW t \in Thread, t[1] = c, op[t] # Idle, Fail(t), toServer'[c] = toServer[c]
  PROVE  AppStep(c) /\ added'[c] = added[c]
<1>0. TypeOK /\ Mine(c) /\ t \in {App(c), Recv(c)}
  BY TypeInvIs, ThreadOf
<1>1. CASE t = App(c)
  <2>1. op[App(c)].cmd # "release"
    BY <1>0, <1>1 DEF Mine, Calling, AppCmds
  <2>2. /\ added'[c] = added[c] /\ mailbox'[c] = mailbox[c] /\ op'[App(c)] = Idle
        /\ phase'[c] \in {"closed", "failed"}
    BY <1>0, <1>1, <2>1, FailApp
  <2> QED BY <2>2 DEF AppStep, AppFails
<1>2. CASE t = Recv(c)
  <2>1. op[Recv(c)].cmd = "release"
    BY <1>0, <1>2 DEF Mine, Calling
  <2>2. /\ added'[c] = added[c] /\ mailbox'[c] = mailbox[c] /\ op'[App(c)] = op[App(c)] /\ phase'[c] = phase[c]
    BY <1>0, <1>2, <2>1, ReleaseEnds
  <2> QED BY <2>2 DEF AppStep, AppRests
<1> QED BY <1>0, <1>1, <1>2

\* Succeeding with m.
LEMMA SucceedSteps ==
  ASSUME TypeInv, NEW c \in Client, NEW t \in Thread, t[1] = c, op[t] # Idle, toServer'[c] = toServer[c],
         NEW k \in 1..Len(pending[c]), NEW m, m = pending[c][k], Succeed(t, m),
         \/ op[t].at = "reply" /\ m.type = Awaits[op[t].cmd]
         \/ op[t].at = "ack" /\ op[t].cmd \notin DOMAIN Awaits /\ m.type = "ack" /\ m.cmd = op[t].cmd
  PROVE  AppStep(c) /\ added'[c] = added[c]
<1>0. TypeOK /\ Mine(c) /\ t \in {App(c), Recv(c)}
  BY TypeInvIs, ThreadOf
<1>1. CASE t = App(c)
  <2>1. op[App(c)].cmd # "release"
    BY <1>0, <1>1 DEF Mine, Calling, AppCmds
  <2>2. added'[c] = added[c] /\ Succeeded(c, m)
    BY <1>0, <1>1, <2>1, SucceedApp
  <2>3. AppSucceeds(c, m)
    BY <1>1, <2>2 DEF AppSucceeds
  <2> QED BY <2>2, <2>3 DEF AppStep
<1>2. CASE t = Recv(c)
  <2>1. op[Recv(c)].cmd = "release"
    BY <1>0, <1>2 DEF Mine, Calling
  <2>2. /\ added'[c] = added[c] /\ mailbox'[c] = mailbox[c] /\ op'[App(c)] = op[App(c)] /\ phase'[c] = phase[c]
    BY <1>0, <1>2, <2>1, ReleaseEnds
  <2> QED BY <2>2 DEF AppStep, AppRests
<1> QED BY <1>0, <1>1, <1>2

\* Sending.
LEMMA SendSteps ==
  ASSUME TypeInv, NEW c \in Client, NEW t \in Thread, t[1] = c, Send(t)
  PROVE  AppStep(c) /\ added'[c] = added[c] /\ UNCHANGED pending
<1>0. /\ TypeOK /\ Mine(c) /\ t \in {App(c), Recv(c)} /\ Idle.at = "idle" /\ App(c) # Recv(c)
      /\ App(c) \in Thread /\ Recv(c) \in Thread
  BY TypeInvIs, ThreadOf, OpStates, Threads
<1>1. op[t] # Idle /\ op[t].at = "lock" /\ UNCHANGED pending
  BY <1>0 DEF Send
<1>2. CASE Fail(t) /\ UNCHANGED toServer
  BY <1>1, <1>2, FailSteps
<1>3. CASE UNCHANGED <<appVars, op, toServer>>
  BY <1>1, <1>3 DEF AppStep, AppRests, appVars
<1>4. CASE /\ UNCHANGED <<appVars, recv, ws>> /\ op' = [op EXCEPT ![t].at = "ack"]
           /\ toServer' = [toServer EXCEPT ![c] =
                              Append(@, [thread |-> t, cmd |-> op[t].cmd, arg |-> Arg(t)])]
  <2> DEFINE r == [thread |-> t, cmd |-> op[t].cmd, arg |-> Arg(t)]
  <2>1. r.thread = t /\ r.cmd = op[t].cmd /\ r.arg = Arg(t) /\ toServer'[c] = Append(toServer[c], r)
    BY <1>0, <1>4 DEF TypeOK
  <2>2. r \in Request
    <3>1. op[t].cmd \in Command
      BY <1>0, <1>1, OpStates DEF TypeOK
    <3>2. Arg(t) \in Nat
      BY <1>0 DEF Arg, TypeOK
    <3> QED BY <3>1, <3>2 DEF Request
  <2>3. op' = [op EXCEPT ![t] = [at |-> "ack", cmd |-> op[t].cmd]]
    BY <1>0, <1>1, <1>4, OpMoved
  <2> HIDE DEF r
  <2>4. /\ op'[t] = [at |-> "ack", cmd |-> r.cmd]
        /\ t = Recv(c) => op'[App(c)] = op[App(c)]
    BY <1>0, <2>1, <2>3 DEF TypeOK
  <2>5. t = Recv(c) => op[t].cmd = "release"
    BY <1>0, <1>1 DEF Mine, Calling
  <2>6. AppSends(c, r)
    BY <1>0, <1>1, <1>4, <2>1, <2>4, <2>5 DEF AppSends, appVars
  <2> QED BY <1>1, <1>4, <2>2, <2>6 DEF AppStep, appVars
<1> QED BY <1>2, <1>3, <1>4 DEF Send

\* Any of its steps.
LEMMA AppSteps ==
  ASSUME TypeInv, NEW c \in Client, NEW t \in Thread, t[1] = c,
         Send(t) \/ Register(t) \/ NotFound(t) \/ Read(t) \/ CutOff(t)
  PROVE  AppStep(c) /\ added'[c] = added[c] /\ Within(pending'[c], pending[c])
<1>0. TypeOK /\ Mine(c) /\ t \in {App(c), Recv(c)} /\ Idle.at = "idle"
  BY TypeInvIs, ThreadOf, OpStates
<1>1. pending'[c] = pending[c] => Within(pending'[c], pending[c])
  BY DEF Within
<1>2. CASE Register(t) \/ NotFound(t)
  <2>1. UNCHANGED <<appVars, op, pending, toServer>>
    BY <1>2 DEF Register, NotFound, netVars
  <2> QED BY <1>1, <2>1 DEF AppStep, AppRests, appVars
<1>3. CASE CutOff(t)
  <2>1. op[t] # Idle
    BY <1>0, <1>3 DEF CutOff, Mine, Waiting
  <2>2. Fail(t) /\ UNCHANGED <<pending, toServer>>
    BY <1>3 DEF CutOff
  <2> QED BY <1>1, <2>1, <2>2, FailSteps
<1>4. CASE Send(t)
  BY <1>1, <1>4, SendSteps
<1>5. CASE Read(t)
  <2> DEFINE k == Min(Found(t))
  <2> DEFINE m == pending[c][k]
  <2>1. /\ k \in 1..Len(pending[c]) /\ m.type = Wanted(t)
        /\ Without(pending[c], k, RemoveAt(pending[c], k))
    BY <1>0, <1>5, FoundIs DEF Read
  <2>2. pending' = [pending EXCEPT ![c] = RemoveAt(pending[c], k)] /\ UNCHANGED toServer /\ waiter[t] # "none"
    BY <1>5 DEF Read
  <2>3. \/ Fail(t)
        \/ op[t].at = "reply" /\ Succeed(t, m)
        \/ op[t].at = "ack" /\ m.cmd = op[t].cmd /\ op[t].cmd \notin DOMAIN Awaits /\ Succeed(t, m)
        \/ /\ op[t].at = "ack" /\ op[t].cmd \in DOMAIN Awaits
           /\ op' = [op EXCEPT ![t].at = "reply"] /\ UNCHANGED <<appVars, recv, ws>>
    BY <1>5 DEF Read
  <2> HIDE DEF k
  <2>4. op[t] # Idle
    BY <1>0, <2>2, OpStates DEF Mine, Waiting
  <2>5. Within(pending'[c], pending[c])
    <3> DEFINE q == RemoveAt(pending[c], k)
    <3>1. pending'[c] = q /\ Without(pending[c], k, q)
      BY <1>0, <2>1, <2>2 DEF TypeOK
    <3> HIDE DEF q
    <3>2. Within(q, pending[c])
      BY <3>1, WithoutFrom
    <3> QED BY <3>1, <3>2
  <2>6. CASE Fail(t)
    BY <2>2, <2>4, <2>5, <2>6, FailSteps
  <2>7. CASE op[t].at = "reply" /\ Succeed(t, m)
    <3>1. m.type = Awaits[op[t].cmd]
      BY <2>1, <2>7 DEF Wanted
    <3> HIDE DEF m
    <3>2. m = pending[c][k]
      BY DEF m
    <3> QED BY <2>1, <2>2, <2>4, <2>5, <2>7, <3>1, <3>2, SucceedSteps
  <2>8. CASE op[t].at = "ack" /\ m.cmd = op[t].cmd /\ op[t].cmd \notin DOMAIN Awaits /\ Succeed(t, m)
    <3>1. m.type = "ack"
      BY <2>1, <2>8 DEF Wanted
    <3> HIDE DEF m
    <3>2. m = pending[c][k]
      BY DEF m
    <3> QED BY <2>1, <2>2, <2>4, <2>5, <2>8, <3>1, <3>2, SucceedSteps
  <2>9. CASE /\ op[t].at = "ack" /\ op[t].cmd \in DOMAIN Awaits
             /\ op' = [op EXCEPT ![t].at = "reply"] /\ UNCHANGED <<appVars, recv, ws>>
    <3>1. op' = [op EXCEPT ![t] = [at |-> "reply", cmd |-> op[t].cmd]]
      BY <1>0, <2>4, <2>9, OpMoved
    <3>2. App(c) \in Thread /\ Recv(c) \in Thread /\ App(c) # Recv(c)
      BY Threads
    <3>3. IF t = App(c) THEN op'[App(c)] = [at |-> "reply", cmd |-> op[t].cmd] ELSE op'[App(c)] = op[App(c)]
      BY <1>0, <3>1, <3>2 DEF TypeOK
    <3>4. AppRests(c) \/ AppAcked(c)
      BY <2>2, <2>9, <3>3 DEF AppRests, AppAcked, appVars
    <3> QED BY <2>5, <2>9, <3>4 DEF AppStep, appVars
  <2> QED BY <2>3, <2>6, <2>7, <2>8, <2>9
<1> QED BY <1>2, <1>3, <1>4, <1>5

-----------------------------------------------------------------------------
(* Two sides to a mailbox.                                                 *)

\* A client has claimed mailbox b when it knows it, or will when it reads the reply.
ClaimedIn(q, b) == \E k \in 1..Len(q) : q[k].type = "claimed" /\ q[k].box = b
Claims(c, b) == mailbox[c] = b \/ ClaimedIn(toClient[c], b) \/ ClaimedIn(pending[c], b)
Claimants(b) == {c \in Client : Claims(c, b)}

\* The server counts them, up to two.
Room == \A b \in 1..Len(boxes) : boxes[b].claims <= 2 /\ Cardinality(Claimants(b)) <= boxes[b].claims

\* The inductive invariant of the claims.
RoomInv == TypeInv /\ Room

\* Claims in joined sequences, and in part of one.
LEMMA ClaimedMixed ==
  ASSUME NEW p, NEW q, NEW v, NEW b, Mixed(p, q, v), ClaimedIn(v, b)
  PROVE  ClaimedIn(p, b) \/ ClaimedIn(q, b)
BY DEF Mixed, ClaimedIn

\* Taking messages from a queue brings no claim.
LEMMA ClaimedWithin ==
  ASSUME NEW p, NEW v, NEW b, Within(v, p), ClaimedIn(v, b)
  PROVE  ClaimedIn(p, b)
BY DEF Within, ClaimedIn

\* Another client has not claimed b in the meantime.
LEMMA ClaimsElsewhere ==
  ASSUME TypeInv, NEW c \in Client, Step(c), NEW d \in Client, d # c, NEW b, Claims(d, b)'
  PROVE  Claims(d, b)
<1>1. Same(d)
  BY Elsewhere
<1>2. CASE toClient'[d] = toClient[d]
  BY <1>1, <1>2 DEF Claims, ClaimedIn, Same
<1>3. CASE \E q : Hears(d, q) /\ \A k \in 1..Len(q) : q[k].type = "message"
  <2>1. PICK q : Hears(d, q) /\ \A k \in 1..Len(q) : q[k].type = "message"
    BY <1>3
  <2>2. PICK v : v = toClient'[d] /\ Joined(toClient[d], q, v)
    BY <2>1 DEF Hears
  <2>3. Mixed(toClient[d], q, v) /\ ~ClaimedIn(q, b)
    BY <2>1, <2>2, JoinedFrom DEF ClaimedIn
  <2>4. ClaimedIn(v, b) => ClaimedIn(toClient[d], b)
    BY <2>3, ClaimedMixed
  <2> QED BY <1>1, <2>2, <2>4 DEF Claims, ClaimedIn, Same
<1> QED BY <1>2, <1>3, Elsewhere

\* Nor has a client by itself.
LEMMA ClaimsOwn ==
  ASSUME TypeInv, NEW c \in Client, Step(c), ~Serve(c), NEW b \in Nat \ {0}, Claims(c, b)'
  PROVE  Claims(c, b)
<1>0. TypeOK /\ Mine(c)
  BY TypeInvIs
<1>1. CASE \E t \in Thread : t[1] = c /\ (Send(t) \/ Register(t) \/ NotFound(t) \/ Read(t) \/ CutOff(t))
  <2>1. AppStep(c) /\ Within(pending'[c], pending[c]) /\ toClient'[c] = toClient[c]
    BY <1>1, AppSteps, ThreadMoves
  <2>2. mailbox'[c] = mailbox[c] \/ ClaimedIn(pending[c], mailbox'[c])
    <3>1. CASE \E k \in 1..Len(pending[c]) : AppSucceeds(c, pending[c][k])
      <4>1. PICK k \in 1..Len(pending[c]) : AppSucceeds(c, pending[c][k])
        BY <3>1
      <4> DEFINE m == pending[c][k]
      <4>2. mailbox'[c] = mailbox[c] \/ (op[App(c)].cmd = "claim" /\ mailbox'[c] = m.box)
        BY <4>1 DEF AppSucceeds, Succeeded
      <4>3. op[App(c)].cmd = "claim" => m.type = "claimed"
        BY <4>1 DEF AppSucceeds, Awaits
      <4> QED BY <4>2, <4>3 DEF ClaimedIn
    <3> QED BY <2>1, <3>1 DEF AppStep, AppRests, AppSends, AppFails, AppAcked
  <2>3. PICK v : v = pending'[c]
    OBVIOUS
  <2>4. ClaimedIn(v, b) => ClaimedIn(pending[c], b)
    BY <2>1, <2>3, ClaimedWithin
  <2> QED BY <2>1, <2>2, <2>3, <2>4 DEF Claims, ClaimedIn
<1>2. CASE Dispatch(c)
  <2> DEFINE m == Head(toClient[c])
  <2>1. /\ toClient[c] \in Seq(Reply \cup Message) /\ toClient[c] # <<>> /\ pending[c] \in Seq(Reply)
        /\ toClient'[c] = Tail(toClient[c]) /\ UNCHANGED mailbox
    BY <1>0, <1>2 DEF Dispatch, TypeOK, appVars
  <2>2. Without(toClient[c], 1, Tail(toClient[c])) /\ m = toClient[c][1] /\ 1 \in 1..Len(toClient[c])
    BY <2>1, Taking
  <2>3. PICK v : v = toClient'[c]
    OBVIOUS
  <2>4. ClaimedIn(v, b) => ClaimedIn(toClient[c], b)
    BY <2>1, <2>2, <2>3, WithoutFrom, ClaimedWithin
  <2>5. pending'[c] = pending[c] \/ pending'[c] = Append(pending[c], m)
    BY <1>0, <1>2 DEF Dispatch, TypeOK
  <2>6. m.type = "claimed" /\ m.box = b => ClaimedIn(toClient[c], b)
    BY <2>2 DEF ClaimedIn
  <2> HIDE DEF m
  <2>7. ClaimedIn(pending'[c], b) => ClaimedIn(pending[c], b) \/ (m.type = "claimed" /\ m.box = b)
    <3>1. CASE pending'[c] = Append(pending[c], m)
      <4>1. /\ Len(pending[c]) \in Nat /\ Len(pending'[c]) = Len(pending[c]) + 1
            /\ pending'[c][Len(pending[c]) + 1] = m
            /\ \A k \in 1..Len(pending[c]) : pending'[c][k] = pending[c][k]
        BY <2>1, <3>1
      <4>2. \A k \in 1..Len(pending'[c]) : k \in 1..Len(pending[c]) \/ k = Len(pending[c]) + 1
        BY <4>1
      <4> QED BY <4>1, <4>2 DEF ClaimedIn
    <3> QED BY <2>5, <3>1
  <2> QED BY <2>1, <2>3, <2>4, <2>6, <2>7 DEF Claims, ClaimedIn
<1>3. CASE Connect(c)
  <2>1. toClient'[c] = <<Plain("welcome")>> /\ UNCHANGED <<mailbox, pending>>
    BY <1>0, <1>3 DEF Connect, TypeOK
  <2>2. ~ClaimedIn(toClient'[c], b)
    BY <2>1 DEF ClaimedIn, Plain
  <2> QED BY <2>1, <2>2 DEF Claims, ClaimedIn
<1>4. CASE \/ ReadEnds(c) \/ LoseConnection(c)
           \/ StartRecv(c) \/ Scan(c) \/ Notified(c) \/ Deliver(c)
           \/ Meet(c) \/ AddMessage(c) \/ Close(c) \/ HangUp(c)
  <2>1. UNCHANGED <<mailbox, toClient, pending>>
    BY <1>4 DEF ReadEnds, LoseConnection, StartRecv, Scan, Notified, Deliver, Meet, AddMessage, Close, HangUp,
       appVars, cmdVars, netVars
  <2> QED BY <2>1 DEF Claims, ClaimedIn
<1> QED BY <1>1, <1>2, <1>3, <1>4 DEF Step

\* The server has it claim what a claimed reply says.
LEMMA ClaimsServed ==
  ASSUME TypeInv, NEW c \in Client, Serve(c), NEW b \in Nat \ {0}, Claims(c, b)'
  PROVE  \/ Claims(c, b)
         \/ /\ ServeClaim(c, Asked(c)) /\ b = plate'
            /\ \/ /\ plate = 0 /\ plate' = Len(boxes) + 1
                  /\ boxes' = Append(boxes, [claims |-> 1, msgs |-> <<>>])
               \/ /\ plate # 0 /\ plate' = plate /\ boxes[plate].claims <= 1
                  /\ boxes' = [boxes EXCEPT ![plate].claims = @ + 1]
<1> DEFINE r == Asked(c)
<1>0. TypeOK /\ UNCHANGED <<mailbox, pending>>
  BY DEF TypeInv, Serve, appVars, cmdVars
<1>1. ASSUME NEW f, Sends(f), ~ClaimedIn(f[c], b)
      PROVE  Claims(c, b)
  <2>1. CASE ws[c] # "up"
    <3>1. toClient'[c] = toClient[c]
      BY <1>0, <1>1, <2>1, SendsJoins
    <3> QED BY <1>0, <3>1 DEF Claims, ClaimedIn
  <2>2. CASE ws[c] = "up"
    <3>1. Hears(c, f[c])
      BY <1>0, <1>1, <2>2, SendsJoins
    <3>2. PICK v : v = toClient'[c] /\ Joined(toClient[c], f[c], v)
      BY <3>1 DEF Hears
    <3>3. Mixed(toClient[c], f[c], v)
      BY <3>2, JoinedFrom
    <3>4. ClaimedIn(v, b) => ClaimedIn(toClient[c], b)
      BY <1>1, <3>3, ClaimedMixed
    <3> QED BY <1>0, <3>2, <3>4 DEF Claims, ClaimedIn
  <2> QED BY <2>1, <2>2
<1>2. CASE ServeClaim(c, r)
  <2>1. PICK ms \in Seq(Reply \cup Message) :
            /\ Sends(Answers(c, ms))
            /\ Len(ms) = 2 /\ ms[1] = Ack(r)
            /\ \/ /\ ms[2] = [type |-> "claimed", box |-> plate']
                  /\ \/ /\ plate = 0 /\ plate' = Len(boxes) + 1
                        /\ boxes' = Append(boxes, [claims |-> 1, msgs |-> <<>>])
                     \/ /\ plate # 0 /\ plate' = plate /\ boxes[plate].claims <= 1
                        /\ boxes' = [boxes EXCEPT ![plate].claims = @ + 1]
               \/ ms[2] = Plain("error") /\ UNCHANGED <<boxes, plate>>
    BY <1>2, ClaimServed
  <2>2. Answers(c, ms)[c] = ms
    BY DEF Answers
  <2>3. Ack(r).type = "ack"
    BY DEF Ack
  <2>4. \A k \in 1..Len(ms) : k = 1 \/ k = 2
    BY <2>1
  <2>5. CASE ms[2] = [type |-> "claimed", box |-> plate'] /\ b = plate'
    BY <1>2, <2>1, <2>5 DEF Plain
  <2>6. CASE ~(ms[2] = [type |-> "claimed", box |-> plate'] /\ b = plate')
    <3>1. ms[2].type # "claimed" \/ ms[2].box # b
      BY <2>1, <2>6 DEF Plain
    <3>2. ~ClaimedIn(ms, b)
      BY <2>1, <2>3, <2>4, <3>1 DEF ClaimedIn
    <3> DEFINE f == Answers(c, ms)
    <3>3. Sends(f) /\ ~ClaimedIn(f[c], b)
      BY <2>1, <2>2, <3>2
    <3> HIDE DEF f
    <3> QED BY <1>1, <3>3
  <2> QED BY <2>5, <2>6
<1>3. CASE ~ServeClaim(c, r)
  <2>1. PICK f : /\ Sends(f) /\ Len(f[c]) \in Nat \ {0} /\ f[c][1] = Ack(r)
                 /\ \A k \in 2..Len(f[c]) :
                      \/ f[c][k].type \in {"allocated", "released", "closed", "error", "message"}
                      \/ f[c][k] = [type |-> "claimed", box |-> plate'] /\ r.cmd = "claim"
    BY ServeSends, SMTT(20)
  <2>2. r.cmd # "claim"
    BY <1>3 DEF Serve, Asked, ServeBind, ServeAllocate, ServeClaim, ServeOpen, ServeAdd, ServeRelease, ServeClose
  <2>3. Ack(r).type = "ack"
    BY DEF Ack
  <2>4. ~ClaimedIn(f[c], b)
    <3> SUFFICES ASSUME NEW k \in 1..Len(f[c]), f[c][k].type = "claimed" PROVE FALSE
      BY DEF ClaimedIn
    <3>1. k = 1 \/ k \in 2..Len(f[c])
      BY <2>1
    <3> QED BY <2>1, <2>2, <2>3, <3>1
  <2> QED BY <1>1, <2>1, <2>4
<1> QED BY <1>2, <1>3

\* No client has claimed a mailbox that the server does not have.
LEMMA NoneClaims ==
  ASSUME TypeInv, NEW d \in Client, NEW b \in Nat, b > Len(boxes)
  PROVE  ~Claims(d, b)
<1>1. TypeOK /\ Mine(d) /\ Len(boxes) \in Nat
  <2>1. TypeOK /\ Mine(d)
    BY TypeInvIs
  <2>2. Len(boxes) \in Nat
    BY <2>1 DEF TypeOK
  <2> QED BY <2>1, <2>2
<1>2. mailbox[d] # b
  BY <1>1 DEF TypeOK
<1>3. ~ClaimedIn(toClient[d], b) /\ ~ClaimedIn(pending[d], b)
  BY <1>1 DEF Mine, Replies, BoxIn, ClaimedIn
<1> QED BY <1>2, <1>3 DEF Claims

\* How the claims of mailbox b change.
LEMMA ClaimCounts ==
  ASSUME TypeInv, NEW c \in Client, Step(c), NEW b \in 1..Len(boxes')
  PROVE  /\ \A d \in Client : Claims(d, b)' => Claims(d, b) \/ d = c
         /\ \/ b = Len(boxes) + 1 /\ boxes'[b].claims = 1
            \/ b = Len(boxes) + 1 /\ boxes'[b].claims = 0 /\ \A d \in Client : Claims(d, b)' => Claims(d, b)
            \/ b \in 1..Len(boxes) /\ boxes'[b].claims = boxes[b].claims + 1 /\ boxes[b].claims <= 1
            \/ /\ b \in 1..Len(boxes) /\ boxes'[b].claims = boxes[b].claims
               /\ \A d \in Client : Claims(d, b)' => Claims(d, b)
<1>0. /\ TypeOK /\ Len(boxes) \in Nat /\ Len(boxes') \in Nat /\ b \in Nat \ {0} /\ plate \in 0..Len(boxes)
  <2>1. Len(boxes) \in Nat /\ Len(boxes') \in Nat
    BY BoxesKept
  <2>2. TypeOK
    BY DEF TypeInv
  <2>3. plate \in 0..Len(boxes)
    BY <2>2 DEF TypeOK
  <2>4. b \in Nat \ {0}
    BY <2>1
  <2> QED BY <2>1, <2>2, <2>3, <2>4
<1>1. \A d \in Client : Claims(d, b)' => Claims(d, b) \/ d = c
  BY ClaimsElsewhere
<1>2. CASE ~Serve(c)
  <2>1. boxes' = boxes
    BY <1>2, BoxesKept
  <2>2. \A d \in Client : Claims(d, b)' => Claims(d, b)
    BY <1>0, <1>1, <1>2, ClaimsOwn
  <2> QED BY <1>1, <2>1, <2>2
<1>3. CASE Serve(c)
  <2> DEFINE r == Asked(c)
  <2> DEFINE Taken == \/ /\ plate = 0 /\ plate' = Len(boxes) + 1
                         /\ boxes' = Append(boxes, [claims |-> 1, msgs |-> <<>>])
                      \/ /\ plate # 0 /\ plate' = plate /\ boxes[plate].claims <= 1
                         /\ boxes' = [boxes EXCEPT ![plate].claims = @ + 1]
  <2>1. Claims(c, b)' => Claims(c, b) \/ (ServeClaim(c, r) /\ b = plate' /\ Taken)
    BY <1>0, <1>3, ClaimsServed
  <2> HIDE DEF Taken
  <2>2. CASE ServeBind(c, r) \/ ServeRelease(c, r) \/ ServeClose(c, r) \/ ServeOpen(c, r)
    <3>1. boxes' = boxes
      BY <2>2 DEF ServeBind, ServeRelease, ServeClose, ServeOpen, serverVars
    <3>2. r.cmd # "claim"
      BY <2>2 DEF ServeBind, ServeRelease, ServeClose, ServeOpen
    <3>3. \A d \in Client : Claims(d, b)' => Claims(d, b)
      BY <1>1, <2>1, <3>2 DEF ServeClaim
    <3> QED BY <1>1, <3>1, <3>3
  <2>3. CASE ServeAllocate(c, r)
    <3>1. boxes' = Append(boxes, [claims |-> 0, msgs |-> <<>>]) /\ r.cmd # "claim"
      BY <2>3 DEF ServeAllocate, NewBox
    <3>2. \A d \in Client : Claims(d, b)' => Claims(d, b)
      BY <1>1, <2>1, <3>1 DEF ServeClaim
    <3>3. /\ Len(boxes') = Len(boxes) + 1 /\ \A a \in 1..Len(boxes) : boxes'[a] = boxes[a]
          /\ boxes'[Len(boxes) + 1].claims = 0
      BY <1>0, <3>1, BoxNew
    <3>4. b \in 1..Len(boxes) \/ b = Len(boxes) + 1
      BY <1>0, <3>3
    <3> QED BY <1>1, <3>2, <3>3, <3>4
  <2>4. CASE ServeAdd(c, r)
    <3> DEFINE e == [side |-> c, n |-> r.arg]
    <3>1. e \in Event /\ boxes' = [boxes EXCEPT ![opened[c]].msgs = Append(@, e)] /\ r.cmd # "claim"
      BY <1>3, <2>4, AddServed DEF ServeAdd
    <3> HIDE DEF e
    <3>2. \A d \in Client : Claims(d, b)' => Claims(d, b)
      BY <1>1, <2>1, <3>1 DEF ServeClaim
    <3>3. b \in 1..Len(boxes) /\ boxes'[b].claims = boxes[b].claims
      <4>1. CASE opened[c] = 0
        BY <1>0, <3>1, <4>1, BoxMissed
      <4>2. CASE opened[c] # 0
        <5>1. opened[c] \in 1..Len(boxes)
          BY <1>0, <4>2 DEF TypeOK
        <5>2. Len(boxes') = Len(boxes) /\ \A a \in 1..Len(boxes) : boxes'[a].claims = boxes[a].claims
          BY <1>0, <3>1, <5>1, BoxAdded
        <5> QED BY <5>2
      <4> QED BY <4>1, <4>2
    <3> QED BY <1>1, <3>2, <3>3
  <2>5. CASE ServeClaim(c, r)
    <3>1. Taken \/ boxes' = boxes
      BY <1>3, <2>5, ClaimServed DEF Taken
    <3>2. CASE plate = 0 /\ plate' = Len(boxes) + 1 /\ boxes' = Append(boxes, [claims |-> 1, msgs |-> <<>>])
      <4>1. /\ Len(boxes') = Len(boxes) + 1 /\ \A a \in 1..Len(boxes) : boxes'[a] = boxes[a]
            /\ boxes'[Len(boxes) + 1].claims = 1
        BY <1>0, <3>2, BoxNew
      <4>2. CASE b = Len(boxes) + 1
        BY <1>1, <4>1, <4>2
      <4>3. CASE b # Len(boxes) + 1
        <5>1. b \in 1..Len(boxes) /\ b # plate'
          BY <1>0, <3>2, <4>1, <4>3
        <5>2. \A d \in Client : Claims(d, b)' => Claims(d, b)
          BY <1>1, <2>1, <5>1
        <5> QED BY <1>1, <4>1, <5>1, <5>2
      <4> QED BY <4>2, <4>3
    <3>3. CASE /\ plate # 0 /\ plate' = plate /\ boxes[plate].claims <= 1
               /\ boxes' = [boxes EXCEPT ![plate].claims = @ + 1]
      <4>0. plate \in 1..Len(boxes)
        BY <1>0, <3>3
      <4>1. /\ Len(boxes') = Len(boxes)
            /\ \A a \in 1..Len(boxes) :
                  boxes'[a].claims = IF a = plate THEN boxes[plate].claims + 1 ELSE boxes[a].claims
        BY <1>0, <3>3, <4>0, BoxClaimed
      <4>2. CASE b = plate
        BY <1>1, <3>3, <4>0, <4>1, <4>2
      <4>3. CASE b # plate
        <5>1. \A d \in Client : Claims(d, b)' => Claims(d, b)
          BY <1>1, <2>1, <3>3, <4>3
        <5> QED BY <1>1, <4>1, <4>3, <5>1
      <4> QED BY <4>2, <4>3
    <3>4. CASE boxes' = boxes
      <4>1. ~Taken
        <5>1. boxes' = Append(boxes, [claims |-> 1, msgs |-> <<>>]) => Len(boxes') = Len(boxes) + 1
          BY <1>0, BoxNew
        <5>2. ASSUME plate \in 1..Len(boxes), boxes' = [boxes EXCEPT ![plate].claims = @ + 1] PROVE FALSE
          <6>1. boxes'[plate].claims = boxes[plate].claims + 1
            BY <1>0, <5>2, BoxClaimed
          <6>2. boxes[plate].claims \in Nat
            BY <1>0, <5>2, RecordedIs
          <6> QED BY <3>4, <6>1, <6>2
        <5> QED BY <1>0, <3>4, <5>1, <5>2 DEF Taken
      <4>2. \A d \in Client : Claims(d, b)' => Claims(d, b)
        BY <1>1, <2>1, <4>1
      <4> QED BY <1>1, <3>4, <4>2
    <3> QED BY <3>1, <3>2, <3>3, <3>4 DEF Taken
  <2> QED BY <1>3, <2>2, <2>3, <2>4, <2>5 DEF Serve, Asked
<1> QED BY <1>2, <1>3

\* The number of some clients, when they are some of others, or one more.
LEMMA Counts ==
  ASSUME NEW K \in SUBSET Client, NEW L \in SUBSET Client
  PROVE  /\ Cardinality(K) \in Nat /\ Cardinality(L) \in Nat
         /\ L \subseteq K => Cardinality(L) <= Cardinality(K)
         /\ \A c \in Client : L \subseteq K \cup {c} => Cardinality(L) <= Cardinality(K) + 1
         /\ K = {} => Cardinality(K) = 0
<1>1. IsFiniteSet(K) /\ IsFiniteSet(L)
  BY FiniteClients, FS_Subset
<1>2. Cardinality(K) \in Nat /\ Cardinality(L) \in Nat
  BY <1>1, FS_CardinalityType
<1>3. L \subseteq K => Cardinality(L) <= Cardinality(K)
  BY <1>1, FS_Subset
<1>4. ASSUME NEW c \in Client, L \subseteq K \cup {c} PROVE Cardinality(L) <= Cardinality(K) + 1
  <2>1. /\ IsFiniteSet(K \cup {c})
        /\ Cardinality(K \cup {c}) = IF c \in K THEN Cardinality(K) ELSE Cardinality(K) + 1
    BY <1>1, FS_AddElement
  <2>2. Cardinality(L) <= Cardinality(K \cup {c})
    BY <1>4, <2>1, FS_Subset
  <2> QED BY <1>2, <2>1, <2>2
<1>5. K = {} => Cardinality(K) = 0
  BY FS_EmptySet
<1> QED BY <1>2, <1>3, <1>4, <1>5

\* The count stays right.
LEMMA RoomStep ==
  ASSUME RoomInv, NEW c \in Client, Step(c)
  PROVE  Room'
<1>0. TypeInv /\ TypeOK /\ Room /\ Len(boxes) \in Nat
  <2>1. TypeInv /\ Room /\ TypeOK
    BY DEF RoomInv, TypeInv
  <2>2. Len(boxes) \in Nat
    BY <2>1 DEF TypeOK
  <2> QED BY <2>1, <2>2
<1> SUFFICES ASSUME NEW b \in 1..Len(boxes')
             PROVE  boxes'[b].claims <= 2 /\ Cardinality(Claimants(b)') <= boxes'[b].claims
  BY DEF Room
<1>1. PICK K : K = {d \in Client : Claims(d, b)}
  OBVIOUS
<1>2. PICK L : L = {d \in Client : Claims(d, b)'}
  OBVIOUS
<1>3. Claimants(b) = K /\ Claimants(b)' = L
  BY <1>1, <1>2 DEF Claimants
<1>4. /\ K \in SUBSET Client /\ L \in SUBSET Client /\ L \subseteq K \cup {c}
      /\ (\A d \in Client : Claims(d, b)' => Claims(d, b)) => L \subseteq K
  BY <1>0, <1>1, <1>2, ClaimCounts
<1>5. /\ Cardinality(K) \in Nat /\ Cardinality(L) \in Nat
      /\ L \subseteq K => Cardinality(L) <= Cardinality(K)
      /\ Cardinality(L) <= Cardinality(K) + 1
      /\ K = {} => Cardinality(K) = 0
  BY <1>4, Counts
<1>6. b \in 1..Len(boxes) => /\ boxes[b].claims \in Nat /\ boxes[b].claims <= 2
                             /\ Cardinality(K) <= boxes[b].claims
  BY <1>0, <1>3, RecordedIs DEF Room
<1>7. b = Len(boxes) + 1 => K = {}
  BY <1>0, <1>1, NoneClaims
<1>8. \/ b = Len(boxes) + 1 /\ boxes'[b].claims = 1
      \/ b = Len(boxes) + 1 /\ boxes'[b].claims = 0 /\ L \subseteq K
      \/ b \in 1..Len(boxes) /\ boxes'[b].claims = boxes[b].claims + 1 /\ boxes[b].claims <= 1
      \/ b \in 1..Len(boxes) /\ boxes'[b].claims = boxes[b].claims /\ L \subseteq K
  BY <1>0, <1>4, ClaimCounts
<1>9. boxes'[b].claims <= 2 /\ Cardinality(L) <= boxes'[b].claims
  BY <1>5, <1>6, <1>7, <1>8, SMTT(20)
<1> QED BY <1>3, <1>9

\* The invariant is inductive.
LEMMA RoomInvStep ==
  ASSUME RoomInv, [Next]_vars
  PROVE  RoomInv'
<1>0. TypeInv /\ Room
  BY DEF RoomInv
<1>1. TypeInv'
  BY <1>0, TypeInvStep
<1>2. CASE \E c \in Client : Step(c) /\ UNCHANGED cancelled
  BY <1>1, <1>2, RoomStep DEF RoomInv
<1>3. CASE (\E c \in Client : Cancel(c)) \/ UNCHANGED vars
  <2>1. UNCHANGED <<mailbox, boxes, toClient, pending>>
    BY <1>3, StillSame DEF appVars, cmdVars, netVars, serverVars
  <2>2. Room'
    BY <1>0, <2>1 DEF Room, Claimants, Claims, ClaimedIn
  <2> QED BY <1>1, <2>2 DEF RoomInv
<1> QED BY <1>2, <1>3, NextStep

\* It holds at first.
LEMMA RoomInvInit ==
  ASSUME Init
  PROVE  RoomInv
<1>1. TypeInv
  BY TypeInvInit
<1> SUFFICES ASSUME NEW b \in 1..Len(boxes)
             PROVE  boxes[b].claims <= 2 /\ Cardinality(Claimants(b)) <= boxes[b].claims
  BY <1>1 DEF RoomInv, Room
<1>2. boxes[b].claims \in 0..2
  <2>1. CASE boxes = <<>>
    BY <2>1
  <2>2. CASE \E n \in Others \ {0} : boxes = <<[claims |-> n, msgs |-> <<>>]>>
    <3>1. PICK n \in Others \ {0} : boxes = <<[claims |-> n, msgs |-> <<>>]>>
      BY <2>2
    <3> DEFINE x == [claims |-> n, msgs |-> <<>>]
    <3>2. x.claims = n /\ boxes = <<x>> /\ n \in 0..2
      BY <3>1, OthersAssumption
    <3> HIDE DEF x
    <3>3. boxes[b] = x
      BY <3>2
    <3> QED BY <3>2, <3>3
  <2> QED BY <2>1, <2>2 DEF Init
<1>3. \A c \in Client : ~Claims(c, b)
  <2> SUFFICES ASSUME NEW c \in Client PROVE ~Claims(c, b)
    OBVIOUS
  <2>1. mailbox[c] = 0 /\ toClient[c] = <<>> /\ pending[c] = <<>> /\ b # 0
    BY DEF Init
  <2> QED BY <2>1 DEF Claims, ClaimedIn
<1>4. PICK K : K = Claimants(b)
  OBVIOUS
<1>5. Cardinality(K) = 0
  BY <1>3, <1>4, Counts DEF Claimants
<1> QED BY <1>2, <1>4, <1>5

\* Two clients of a mailbox that are not c are one.
LEMMA OnePeer ==
  ASSUME RoomInv, NEW c \in Client, mailbox[c] # 0,
         NEW d \in Client \ {c}, mailbox[d] = mailbox[c], NEW e \in Client \ {c}, mailbox[e] = mailbox[c]
  PROVE  d = e
<1> SUFFICES ASSUME d # e PROVE FALSE
  OBVIOUS
<1> DEFINE b == mailbox[c]
<1>1. b \in 1..Len(boxes)
  <2>1. TypeOK
    BY DEF RoomInv, TypeInv
  <2>2. mailbox[c] \in 0..Len(boxes)
    BY <2>1 DEF TypeOK
  <2> QED BY <2>2
<1>2. PICK K : K = Claimants(b)
  OBVIOUS
<1>3. c \in K /\ d \in K /\ e \in K /\ K \in SUBSET Client
  BY <1>2 DEF Claimants, Claims
<1>4. boxes[b].claims \in Nat /\ boxes[b].claims <= 2 /\ Cardinality(K) <= boxes[b].claims
  BY <1>1, <1>2, RecordedIs DEF RoomInv, TypeInv, Room
<1> HIDE DEF b
<1>5. IsFiniteSet({c}) /\ Cardinality({c}) = 1
  BY FS_Singleton
<1>6. IsFiniteSet({c} \cup {d}) /\ Cardinality({c} \cup {d}) = 2
  <2>1. d \notin {c} /\ 1 + 1 = 2
    OBVIOUS
  <2>2. Cardinality({c} \cup {d}) = Cardinality({c}) + 1 /\ IsFiniteSet({c} \cup {d})
    BY <1>5, <2>1, FS_AddElement
  <2> QED BY <1>5, <2>1, <2>2
<1>7. Cardinality(({c} \cup {d}) \cup {e}) = 3
  <2>1. e \notin {c} \cup {d} /\ 2 + 1 = 3
    OBVIOUS
  <2>2. Cardinality(({c} \cup {d}) \cup {e}) = Cardinality({c} \cup {d}) + 1
    BY <1>6, <2>1, FS_AddElement
  <2> QED BY <1>6, <2>1, <2>2
<1>8. Cardinality(({c} \cup {d}) \cup {e}) <= Cardinality(K) /\ Cardinality(K) \in Nat
  <2>1. ({c} \cup {d}) \cup {e} \in SUBSET Client /\ ({c} \cup {d}) \cup {e} \subseteq K
    BY <1>3
  <2> QED BY <1>3, <2>1, Counts
<1> QED BY <1>4, <1>7, <1>8

-----------------------------------------------------------------------------
(* The messages of a mailbox.                                              *)

\* Each side's messages are in order, from its first on.
Numbered(ms) ==
    /\ \A j, k \in 1..Len(ms) : j < k /\ ms[j].side = ms[k].side => ms[j].n < ms[k].n
    /\ \A k \in 1..Len(ms) : \A m \in 1..(ms[k].n - 1) :
          \E j \in 1..(k - 1) : ms[j] = [side |-> ms[k].side, n |-> m]

\* The next of its side.
LEMMA NumberedAppend ==
  ASSUME NEW ms \in Seq(Event), NEW e \in Event, Numbered(ms),
         \A k \in 1..Len(ms) : ms[k].side = e.side => ms[k].n < e.n,
         \A m \in 1..(e.n - 1) : \E j \in 1..Len(ms) : ms[j] = [side |-> e.side, n |-> m]
  PROVE  Numbered(Append(ms, e))
<1> DEFINE v == Append(ms, e)
<1>1. /\ Len(ms) \in Nat /\ Len(v) = Len(ms) + 1 /\ v[Len(ms) + 1] = e
      /\ \A k \in 1..Len(ms) : v[k] = ms[k]
  OBVIOUS
<1> HIDE DEF v
<1>2. \A k \in 1..Len(v) : k \in 1..Len(ms) \/ k = Len(ms) + 1
  BY <1>1
<1>3. ASSUME NEW j \in 1..Len(v), NEW k \in 1..Len(v), j < k, v[j].side = v[k].side
      PROVE  v[j].n < v[k].n
  <2>1. j \in 1..Len(ms)
    BY <1>1, <1>2, <1>3
  <2> QED BY <1>1, <1>2, <1>3, <2>1 DEF Numbered
<1>4. ASSUME NEW k \in 1..Len(v), NEW m \in 1..(v[k].n - 1)
      PROVE  \E j \in 1..(k - 1) : v[j] = [side |-> v[k].side, n |-> m]
  <2>1. CASE k \in 1..Len(ms)
    <3>1. \E j \in 1..(k - 1) : ms[j] = [side |-> ms[k].side, n |-> m]
      BY <1>1, <1>4, <2>1 DEF Numbered
    <3> QED BY <1>1, <2>1, <3>1
  <2>2. CASE k = Len(ms) + 1
    <3>1. \E j \in 1..Len(ms) : ms[j] = [side |-> e.side, n |-> m]
      BY <1>1, <1>4, <2>2
    <3> QED BY <1>1, <2>2, <3>1
  <2> QED BY <1>2, <2>1, <2>2
<1>5. Numbered(v)
  BY <1>3, <1>4 DEF Numbered
<1> QED BY <1>5 DEF v

\* A step keeps the messages of every mailbox, or adds to that of client c its message e.
MsgsKept ==
    /\ Len(boxes) \in Nat /\ Len(boxes') \in Nat /\ Len(boxes) <= Len(boxes')
    /\ \A b \in 1..Len(boxes) : boxes'[b].msgs = boxes[b].msgs
    /\ \A b \in 1..Len(boxes') : b \in 1..Len(boxes) \/ boxes'[b].msgs = <<>>

MsgAdded(c, e) ==
    /\ Len(boxes) \in Nat /\ Len(boxes') = Len(boxes) /\ mailbox[c] \in 1..Len(boxes) /\ opened[c] = mailbox[c]
    /\ \A b \in 1..Len(boxes) :
          boxes'[b].msgs = IF b = mailbox[c] THEN Append(boxes[b].msgs, e) ELSE boxes[b].msgs

\* The server adds a message when it serves an add.
ServesAdd(c) == Serve(c) /\ ServeAdd(c, Asked(c))
NewEvent(c) == [side |-> c, n |-> Asked(c).arg]

\* A step keeps the events of every mailbox, or stores the one event the server answers an add with.
LEMMA MsgsStep ==
  ASSUME MeetInv, NEW c \in Client, Step(c)
  PROVE  \/ MsgsKept /\ ~ServesAdd(c)
         \/ ServesAdd(c) /\ NewEvent(c) \in Event /\ MsgAdded(c, NewEvent(c))
<1> DEFINE r == Asked(c)
<1>0. /\ TypeInv /\ TypeOK /\ Opening(c) /\ Len(boxes) \in Nat
  <2>1. TypeInv /\ Opening(c)
    BY DEF MeetInv
  <2>2. TypeOK
    BY <2>1 DEF TypeInv
  <2>3. Len(boxes) \in Nat
    BY <2>2 DEF TypeOK
  <2> QED BY <2>1, <2>2, <2>3
<1>1. UNCHANGED boxes => MsgsKept
  BY <1>0 DEF MsgsKept
<1>2. CASE ~Serve(c)
  <2>1. UNCHANGED boxes
    BY <1>0, <1>2, BoxesKept
  <2> QED BY <1>1, <1>2, <2>1 DEF ServesAdd
<1>3. CASE Serve(c)
  <2>1. CASE ServeBind(c, r) \/ ServeRelease(c, r) \/ ServeClose(c, r) \/ ServeOpen(c, r)
    <3>1. UNCHANGED boxes /\ ~ServeAdd(c, r)
      BY <2>1 DEF ServeBind, ServeRelease, ServeClose, ServeOpen, ServeAdd, serverVars
    <3> QED BY <1>1, <3>1 DEF ServesAdd
  <2>2. ASSUME NEW n \in Nat, boxes' = Append(boxes, [claims |-> n, msgs |-> <<>>])
        PROVE  MsgsKept
    <3>1. /\ Len(boxes') = Len(boxes) + 1 /\ \A b \in 1..Len(boxes) : boxes'[b] = boxes[b]
          /\ boxes'[Len(boxes) + 1].msgs = <<>>
      BY <1>0, <2>2, BoxNew
    <3>2. \A b \in 1..Len(boxes') : b \in 1..Len(boxes) \/ b = Len(boxes) + 1
      BY <1>0, <3>1
    <3> QED BY <1>0, <3>1, <3>2 DEF MsgsKept
  <2>3. CASE ServeAllocate(c, r)
    <3>1. boxes' = Append(boxes, [claims |-> 0, msgs |-> <<>>]) /\ ~ServeAdd(c, r)
      BY <2>3 DEF ServeAllocate, NewBox, ServeAdd
    <3> QED BY <2>2, <3>1 DEF ServesAdd
  <2>4. CASE ServeClaim(c, r)
    <3>0. ~ServeAdd(c, r)
      BY <2>4 DEF ServeClaim, ServeAdd
    <3>1. \/ boxes' = Append(boxes, [claims |-> 1, msgs |-> <<>>])
          \/ plate \in 1..Len(boxes) /\ boxes' = [boxes EXCEPT ![plate].claims = @ + 1]
          \/ UNCHANGED boxes
      <4>1. plate \in 0..Len(boxes)
        BY <1>0 DEF TypeOK
      <4> QED BY <1>0, <2>4, <4>1 DEF ServeClaim, NewBox
    <3>2. CASE plate \in 1..Len(boxes) /\ boxes' = [boxes EXCEPT ![plate].claims = @ + 1]
      <4>1. Len(boxes') = Len(boxes) /\ \A b \in 1..Len(boxes) : boxes'[b].msgs = boxes[b].msgs
        BY <1>0, <3>2, BoxClaimed
      <4> QED BY <1>0, <3>0, <4>1 DEF MsgsKept, ServesAdd
    <3> QED BY <1>1, <2>2, <3>0, <3>1, <3>2 DEF ServesAdd
  <2>5. CASE ServeAdd(c, r)
    <3> DEFINE e == NewEvent(c)
    <3> DEFINE o == opened[c]
    <3>1. e \in Event /\ boxes' = [boxes EXCEPT ![o].msgs = Append(@, e)]
      BY <1>0, <1>3, <2>5, AddServed DEF NewEvent
    <3>2. Adding(toServer[c])
      <4>1. toServer[c] \in Seq(Request) /\ Len(toServer[c]) >= 1 /\ toServer[c][1] = r
        BY <1>0, <1>3, AskedIs
      <4>2. r.cmd = "add"
        BY <2>5 DEF ServeAdd
      <4> HIDE DEF r
      <4>3. 1 \in 1..Len(toServer[c])
        BY <4>1
      <4> QED BY <4>1, <4>2, <4>3 DEF Adding
    <3>3. o \in 1..Len(boxes) /\ o = mailbox[c]
      <4>1. o \in 0..Len(boxes)
        BY <1>0 DEF TypeOK
      <4> QED BY <1>0, <3>2, <4>1 DEF Opening
    <3> HIDE DEF e, o
    <3>4. /\ Len(boxes') = Len(boxes)
          /\ \A b \in 1..Len(boxes) :
                boxes'[b].msgs = IF b = o THEN Append(boxes[o].msgs, e) ELSE boxes[b].msgs
      BY <1>0, <3>1, <3>3, BoxAdded
    <3>5. MsgAdded(c, e)
      BY <1>0, <3>3, <3>4 DEF MsgAdded, o
    <3> QED BY <1>3, <2>5, <3>1, <3>5 DEF ServesAdd, e
  <2> QED BY <1>3, <2>1, <2>3, <2>4, <2>5 DEF Serve, Asked
<1> QED BY <1>2, <1>3

\* The server has the m-th message of client d.
Stored(d, m) ==
    \E b \in 1..Len(boxes) : \E j \in 1..Len(boxes[b].msgs) : boxes[b].msgs[j] = [side |-> d, n |-> m]

\* One more at most.
LEMMA StoredStep ==
  ASSUME MeetInv, NEW c \in Client, Step(c), NEW d \in Client, NEW m
  PROVE  Stored(d, m)' <=> Stored(d, m) \/ (ServesAdd(c) /\ d = c /\ m = Asked(c).arg)
<1> DEFINE x == [side |-> d, n |-> m]
<1>1. CASE MsgsKept /\ ~ServesAdd(c)
  <2>1. ASSUME Stored(d, m)' PROVE Stored(d, m)
    <3>1. PICK b \in 1..Len(boxes') : \E j \in 1..Len(boxes'[b].msgs) : boxes'[b].msgs[j] = x
      BY <2>1 DEF Stored
    <3>2. b \in 1..Len(boxes)
      <4>1. boxes'[b].msgs # <<>>
        BY <3>1
      <4> QED BY <1>1, <4>1 DEF MsgsKept
    <3> QED BY <1>1, <3>1, <3>2 DEF MsgsKept, Stored
  <2>2. ASSUME Stored(d, m) PROVE Stored(d, m)'
    <3>1. PICK b \in 1..Len(boxes) : \E j \in 1..Len(boxes[b].msgs) : boxes[b].msgs[j] = x
      BY <2>2 DEF Stored
    <3>2. b \in 1..Len(boxes')
      BY <1>1 DEF MsgsKept
    <3> QED BY <1>1, <3>1, <3>2 DEF MsgsKept, Stored
  <2> QED BY <1>1, <2>1, <2>2
<1>2. CASE ServesAdd(c) /\ NewEvent(c) \in Event /\ MsgAdded(c, NewEvent(c))
  <2> DEFINE e == NewEvent(c)
  <2>1. x = e <=> d = c /\ m = Asked(c).arg
    BY DEF NewEvent
  <2>2. ASSUME NEW b \in 1..Len(boxes)
        PROVE  (\E j \in 1..Len(boxes'[b].msgs) : boxes'[b].msgs[j] = x)
                  <=> (\E j \in 1..Len(boxes[b].msgs) : boxes[b].msgs[j] = x) \/ (b = mailbox[c] /\ x = e)
    <3>1. CASE b # mailbox[c]
      BY <1>2, <3>1 DEF MsgAdded
    <3>2. CASE b = mailbox[c]
      <4>0. TypeOK
        BY DEF MeetInv, TypeInv
      <4>1. PICK ms : ms = boxes[b].msgs
        OBVIOUS
      <4>2. PICK v : v = boxes'[b].msgs
        OBVIOUS
      <4>3. ms \in Seq(Event) /\ v = Append(ms, e) /\ e \in Event
        BY <1>2, <3>2, <4>0, <4>1, <4>2, RecordedIs DEF MsgAdded
      <4> HIDE DEF e, x
      <4>4. /\ Len(ms) \in Nat /\ Len(v) = Len(ms) + 1 /\ v[Len(ms) + 1] = e
            /\ \A j \in 1..Len(ms) : v[j] = ms[j]
        BY <4>3
      <4>5. \A j \in 1..Len(v) : j \in 1..Len(ms) \/ j = Len(ms) + 1
        BY <4>4
      <4>6. (\E j \in 1..Len(v) : v[j] = x) <=> (\E j \in 1..Len(ms) : ms[j] = x) \/ x = e
        BY <4>4, <4>5
      <4> QED BY <3>2, <4>1, <4>2, <4>6
    <3> QED BY <3>1, <3>2
  <2>3. Len(boxes') = Len(boxes) /\ mailbox[c] \in 1..Len(boxes)
    BY <1>2 DEF MsgAdded
  <2> HIDE DEF e, x
  <2>4. Stored(d, m)' <=> \E b \in 1..Len(boxes) : \E j \in 1..Len(boxes'[b].msgs) : boxes'[b].msgs[j] = x
    BY <2>3 DEF Stored, x
  <2>5. Stored(d, m) <=> \E b \in 1..Len(boxes) : \E j \in 1..Len(boxes[b].msgs) : boxes[b].msgs[j] = x
    BY DEF Stored, x
  <2> QED BY <1>2, <2>1, <2>2, <2>3, <2>4, <2>5
<1> QED BY <1>1, <1>2, MsgsStep

-----------------------------------------------------------------------------
(* The requests of the application.                                        *)

\* The acks of an add in a sequence; a command that is in one once.
AddAck(q) == \E k \in 1..Len(q) : q[k].type = "ack" /\ q[k].cmd = "add"
Once(q, cmd) == \A j, k \in 1..Len(q) : q[j].cmd = cmd /\ q[k].cmd = cmd => j = k

\* What it opens and adds is asked for by the application, not by recvMailboxMsgs.
AppAsks(q, c) == \A k \in 1..Len(q) : q[k].cmd \in {"open", "add"} => q[k].thread = App(c)
AppAcks(q, c) == \A k \in 1..Len(q) : q[k].type = "ack" /\ q[k].cmd \in {"open", "add"} => q[k].thread = App(c)
Owned(c) == AppAsks(toServer[c], c) /\ AppAcks(toClient[c], c) /\ AppAcks(pending[c], c)

\* Two queues whose acks are for the application's thread mix into such a queue.
LEMMA AcksMixed ==
  ASSUME NEW c, NEW p, NEW q, NEW v, Mixed(p, q, v), AppAcks(p, c), AppAcks(q, c)
  PROVE  AppAcks(v, c)
<1> SUFFICES ASSUME NEW k \in 1..Len(v), v[k].type = "ack" /\ v[k].cmd \in {"open", "add"}
             PROVE  v[k].thread = App(c)
  BY DEF AppAcks
<1>1. CASE \E j \in 1..Len(p) : v[k] = p[j]
  BY <1>1 DEF AppAcks
<1>2. CASE \E j \in 1..Len(q) : v[k] = q[j]
  BY <1>2 DEF AppAcks
<1> QED BY <1>1, <1>2 DEF Mixed

\* So does what is left of one.
LEMMA AcksWithin ==
  ASSUME NEW c, NEW p, NEW v, Within(v, p), AppAcks(p, c)
  PROVE  AppAcks(v, c)
<1> SUFFICES ASSUME NEW k \in 1..Len(v), v[k].type = "ack" /\ v[k].cmd \in {"open", "add"}
             PROVE  v[k].thread = App(c)
  BY DEF AppAcks
<1>1. PICK j \in 1..Len(p) : v[k] = p[j]
  BY DEF Within
<1> QED BY <1>1 DEF AppAcks

\* One more at the end.
LEMMA AppendMixed ==
  ASSUME NEW S, NEW q \in Seq(S), NEW m \in S
  PROVE  /\ \A k \in 1..Len(Append(q, m)) : \/ k \in 1..Len(q) /\ Append(q, m)[k] = q[k]
                                            \/ k = Len(q) + 1 /\ Append(q, m)[k] = m
         /\ Len(q) \in Nat
<1> DEFINE v == Append(q, m)
<1>1. /\ Len(q) \in Nat /\ Len(v) = Len(q) + 1 /\ v[Len(q) + 1] = m
      /\ \A k \in 1..Len(q) : v[k] = q[k]
  OBVIOUS
<1> HIDE DEF v
<1>2. \A k \in 1..Len(v) : \/ k \in 1..Len(q) /\ v[k] = q[k]
                           \/ k = Len(q) + 1 /\ v[k] = m
  BY <1>1
<1> QED BY <1>1, <1>2 DEF v

\* A client's dispatcher: what it takes, and where that goes.
LEMMA Dispatched ==
  ASSUME TypeOK, NEW c \in Client, Dispatch(c)
  PROVE  LET m == toClient[c][1] IN
         /\ toClient[c] \in Seq(Reply \cup Message) /\ 1 \in 1..Len(toClient[c]) /\ ws[c] = "up"
         /\ m \in Reply \cup Message
         /\ toClient'[c] = Tail(toClient[c]) /\ Without(toClient[c], 1, Tail(toClient[c]))
         /\ pending[c] \in Seq(Reply) /\ events[c] \in Seq(Event)
         /\ \/ m.type = "message" /\ m.event \in Event /\ events'[c] = Append(events[c], m.event) /\ pending'[c] = pending[c]
            \/ m.type # "message" /\ m \in Reply /\ events'[c] = events[c] /\ pending'[c] = Append(pending[c], m)
         /\ UNCHANGED <<appVars, op, locked, recv, offset, ws, toServer, serverVars, crashed>>
<1> DEFINE m == Head(toClient[c])
<1>1. /\ toClient[c] \in Seq(Reply \cup Message) /\ toClient[c] # <<>> /\ ws[c] = "up"
      /\ toClient'[c] = Tail(toClient[c]) /\ pending[c] \in Seq(Reply) /\ events[c] \in Seq(Event)
      /\ UNCHANGED <<appVars, op, locked, recv, offset, ws, toServer, serverVars, crashed>>
  BY DEF Dispatch, TypeOK
<1>2. /\ Without(toClient[c], 1, Tail(toClient[c])) /\ m = toClient[c][1] /\ 1 \in 1..Len(toClient[c])
      /\ m \in Reply \cup Message
  BY <1>1, Taking
<1>3. \/ m.type = "message" /\ events'[c] = Append(events[c], m.event) /\ pending'[c] = pending[c]
      \/ m.type # "message" /\ events'[c] = events[c] /\ pending'[c] = Append(pending[c], m)
  BY DEF Dispatch, TypeOK
<1> HIDE DEF m
<1>4. (m.type = "message" => m.event \in Event) /\ (m.type # "message" => m \in Reply)
  BY <1>2, Kinds
<1> QED BY <1>1, <1>2, <1>3, <1>4

\* A request of a client is not recvMailboxMsgs's, nor is its ack.
LEMMA OwnedStep ==
  ASSUME TypeInv, NEW c \in Client, Step(c), NEW d \in Client, Owned(d)
  PROVE  Owned(d)'
<1>0. TypeOK /\ App(c) # Recv(c) /\ Mine(c)
  BY Threads, TypeInvIs
<1>1. ASSUME NEW v, v = toClient'[d], AppAcks(v, d), NEW p, p = pending'[d], AppAcks(p, d),
             NEW q, q = toServer'[d], AppAsks(q, d)
      PROVE  Owned(d)'
  BY <1>1 DEF Owned, AppAcks, AppAsks
<1>2. CASE d # c
  <2>1. Same(d)
    BY <1>2, Elsewhere
  <2>2. PICK v : v = toClient'[d]
    OBVIOUS
  <2>3. AppAcks(v, d)
    <3>1. CASE toClient'[d] = toClient[d]
      BY <2>2, <3>1 DEF Owned
    <3>2. CASE \E q : Hears(d, q) /\ \A k \in 1..Len(q) : q[k].type = "message"
      <4>1. PICK q : Hears(d, q) /\ \A k \in 1..Len(q) : q[k].type = "message"
        BY <3>2
      <4>2. Mixed(toClient[d], q, v)
        BY <2>2, <4>1, JoinedFrom DEF Hears
      <4>3. AppAcks(q, d)
        BY <4>1 DEF AppAcks
      <4> QED BY <4>2, <4>3, AcksMixed DEF Owned
    <3> QED BY <1>2, <3>1, <3>2, Elsewhere
  <2> QED BY <1>1, <2>1, <2>2, <2>3 DEF Owned, Same
<1>3. CASE d = c /\ \E t \in Thread : t[1] = c /\ (Send(t) \/ Register(t) \/ NotFound(t) \/ Read(t) \/ CutOff(t))
  <2>1. AppStep(c) /\ Within(pending'[c], pending[c]) /\ toClient'[c] = toClient[c]
    BY <1>3, AppSteps, ThreadMoves
  <2>2. PICK p, q : p = pending'[c] /\ q = toServer'[c]
    OBVIOUS
  <2>3. AppAcks(p, c)
    BY <1>3, <2>1, <2>2, AcksWithin DEF Owned
  <2>4. AppAsks(q, c)
    <3>1. CASE q = toServer[c]
      BY <1>3, <3>1 DEF Owned
    <3>2. CASE \E r \in Request : AppSends(c, r)
      <4>1. PICK r \in Request : AppSends(c, r)
        BY <3>2
      <4>2. q = Append(toServer[c], r) /\ toServer[c] \in Seq(Request) /\ AppAsks(toServer[c], c)
        BY <1>0, <1>3, <2>2, <4>1 DEF AppSends, TypeOK, Owned
      <4>3. r.cmd \in {"open", "add"} => r.thread = App(c)
        BY <4>1 DEF AppSends
      <4>4. \A k \in 1..Len(q) : \/ k \in 1..Len(toServer[c]) /\ q[k] = toServer[c][k]
                                 \/ q[k] = r
        BY <4>2, AppendMixed
      <4> QED BY <4>2, <4>3, <4>4 DEF AppAsks
    <3> QED BY <2>1, <2>2, <3>1, <3>2 DEF AppStep, AppRests, AppFails, AppAcked, AppSucceeds
  <2>5. AppAcks(toClient[c], c)
    BY <1>3 DEF Owned
  <2> QED BY <1>1, <1>3, <2>1, <2>2, <2>3, <2>4, <2>5
<1>4. CASE d = c /\ Dispatch(c)
  <2> DEFINE m == toClient[c][1]
  <2>0. /\ AppAcks(toClient[c], c) /\ AppAcks(pending[c], c) /\ AppAsks(toServer[c], c) /\ toServer'[c] = toServer[c]
    BY <1>0, <1>4, Dispatched DEF Owned
  <2>1. PICK v, p : v = toClient'[c] /\ p = pending'[c]
    OBVIOUS
  <2>2. AppAcks(v, c) /\ (m.type = "ack" /\ m.cmd \in {"open", "add"} => m.thread = App(c))
    <3>1. Without(toClient[c], 1, v) /\ 1 \in 1..Len(toClient[c])
      BY <1>0, <1>4, <2>1, Dispatched
    <3> QED BY <2>0, <3>1, WithoutFrom, AcksWithin DEF AppAcks
  <2>3. \/ p = pending[c]
        \/ p = Append(pending[c], m) /\ m \in Reply /\ pending[c] \in Seq(Reply)
    BY <1>0, <1>4, <2>1, Dispatched
  <2> HIDE DEF m
  <2>4. AppAcks(p, c)
    <3>1. CASE p = Append(pending[c], m) /\ m \in Reply /\ pending[c] \in Seq(Reply)
      <4>1. \A k \in 1..Len(p) : \/ k \in 1..Len(pending[c]) /\ p[k] = pending[c][k]
                                 \/ p[k] = m
        BY <3>1, AppendMixed
      <4> QED BY <2>0, <2>2, <4>1 DEF AppAcks
    <3> QED BY <2>0, <2>3, <3>1
  <2> QED BY <1>1, <1>4, <2>0, <2>1, <2>2, <2>4
<1>5. CASE d = c /\ Connect(c)
  <2>1. toClient'[c] = <<Plain("welcome")>> /\ UNCHANGED <<pending, toServer>>
    BY <1>0, <1>5 DEF Connect, TypeOK
  <2>2. AppAcks(<<Plain("welcome")>>, c)
    BY DEF AppAcks, Plain
  <2> QED BY <1>1, <1>5, <2>1, <2>2 DEF Owned
<1>6. CASE d = c /\ HangUp(c)
  <2>1. toServer'[c] = <<>> /\ UNCHANGED <<toClient, pending>>
    BY <1>0, <1>6 DEF HangUp, TypeOK, cmdVars
  <2>2. AppAsks(<<>>, c)
    BY DEF AppAsks
  <2> QED BY <1>1, <1>6, <2>1, <2>2 DEF Owned
<1>7. CASE d = c /\ \/ ReadEnds(c) \/ LoseConnection(c)
                    \/ StartRecv(c) \/ Scan(c) \/ Notified(c) \/ Deliver(c)
                    \/ Meet(c) \/ AddMessage(c) \/ Close(c)
  <2>1. UNCHANGED <<toServer, toClient, pending>>
    BY <1>7 DEF ReadEnds, LoseConnection, StartRecv, Scan, Notified, Deliver, Meet, AddMessage, Close,
       cmdVars, netVars
  <2> QED BY <2>1 DEF Owned, AppAsks, AppAcks
<1>8. CASE d = c /\ Serve(c)
  <2> DEFINE r == Asked(c)
  <2>0. AppAcks(toClient[c], c) /\ AppAcks(pending[c], c) /\ AppAsks(toServer[c], c) /\ pending'[c] = pending[c]
    BY <1>8 DEF Owned, Serve, cmdVars
  <2>1. /\ toServer[c] \in Seq(Request) /\ toServer[c] # <<>> /\ r = toServer[c][1] /\ 1 \in 1..Len(toServer[c])
        /\ toServer' = [toServer EXCEPT ![c] = Tail(toServer[c])]
    BY <1>8, AskedIs
  <2>2. PICK q, v : q = toServer'[c] /\ v = toClient'[c]
    OBVIOUS
  <2>3. AppAsks(q, c)
    <3>1. q = Tail(toServer[c]) /\ Within(q, toServer[c])
      BY <1>0, <2>1, <2>2, Taking, WithoutFrom DEF TypeOK
    <3> QED BY <2>0, <3>1 DEF AppAsks, Within
  <2>4. AppAcks(v, c)
    <3>1. PICK f : /\ Sends(f) /\ Len(f[c]) \in Nat \ {0} /\ f[c][1] = Ack(r)
                   /\ \A k \in 2..Len(f[c]) :
                        \/ f[c][k].type \in {"allocated", "released", "closed", "error", "message"}
                        \/ f[c][k] = [type |-> "claimed", box |-> plate']
      BY <1>8, ServeSends
    <3>2. Ack(r).thread = r.thread /\ Ack(r).cmd = r.cmd
      BY DEF Ack
    <3>3. r.cmd \in {"open", "add"} => r.thread = App(c)
      BY <2>0, <2>1 DEF AppAsks
    <3>4. AppAcks(f[c], c)
      <4> DEFINE p == f[c]
      <4> SUFFICES ASSUME NEW k \in 1..Len(p), p[k].type = "ack" /\ p[k].cmd \in {"open", "add"}
                   PROVE  p[k].thread = App(c)
        BY DEF AppAcks
      <4>1. k = 1 \/ k \in 2..Len(p)
        BY <3>1
      <4>2. k \notin 2..Len(p)
        BY <3>1
      <4> QED BY <3>1, <3>2, <3>3, <4>1, <4>2
    <3>5. CASE ws[c] # "up"
      <4>1. v = toClient[c]
        BY <1>0, <2>2, <3>1, <3>5, SendsJoins
      <4> QED BY <2>0, <4>1
    <3>6. CASE ws[c] = "up"
      <4>1. Mixed(toClient[c], f[c], v)
        BY <1>0, <2>2, <3>1, <3>6, SendsJoins, JoinedFrom DEF Hears
      <4> QED BY <2>0, <3>4, <4>1, AcksMixed
    <3> QED BY <3>5, <3>6
  <2> QED BY <1>1, <1>8, <2>0, <2>2, <2>3, <2>4
<1> QED BY <1>2, <1>3, <1>4, <1>5, <1>6, <1>7, <1>8 DEF Step

\* A sequence of requests without its first, and with one more.
LEMMA OnceTail ==
  ASSUME NEW S, NEW q \in Seq(S), q # <<>>, NEW cmd, Once(q, cmd)
  PROVE  /\ Once(Tail(q), cmd) /\ Within(Tail(q), q)
         /\ q[1].cmd = cmd => \A k \in 1..Len(Tail(q)) : Tail(q)[k].cmd # cmd
<1> DEFINE v == Tail(q)
<1>1. Len(q) \in Nat /\ Len(q) >= 1 /\ Len(v) = Len(q) - 1 /\ \A k \in 1..Len(v) : v[k] = q[k + 1]
  OBVIOUS
<1>2. Without(q, 1, v)
  BY Taking
<1> HIDE DEF v
<1>3. Within(v, q)
  BY <1>2, WithoutFrom
<1>4. \A k \in 1..Len(v) : k + 1 \in 1..Len(q) /\ v[k] = q[k + 1] /\ k + 1 # 1
  BY <1>1
<1>5. Once(v, cmd)
  BY <1>4, SMTT(20) DEF Once
<1>6. ASSUME q[1].cmd = cmd, NEW k \in 1..Len(v), v[k].cmd = cmd PROVE FALSE
  <2>1. 1 \in 1..Len(q) /\ k + 1 \in 1..Len(q) /\ q[k + 1].cmd = cmd /\ k + 1 # 1
    BY <1>1, <1>4, <1>6
  <2> QED BY <1>6, <2>1 DEF Once
<1> QED BY <1>3, <1>5, <1>6 DEF v

\* A request appended to a queue without one of its command is its only one.
LEMMA OnceAppend ==
  ASSUME NEW S, NEW q \in Seq(S), NEW r \in S, NEW cmd,
         Once(q, cmd), r.cmd = cmd => \A k \in 1..Len(q) : q[k].cmd # cmd
  PROVE  Once(Append(q, r), cmd)
<1> DEFINE v == Append(q, r)
<1>1. \A k \in 1..Len(v) : \/ k \in 1..Len(q) /\ v[k] = q[k]
                           \/ k = Len(q) + 1 /\ v[k] = r
  BY AppendMixed
<1> HIDE DEF v
<1>2. Once(v, cmd)
  <2> SUFFICES ASSUME NEW j \in 1..Len(v), NEW k \in 1..Len(v), v[j].cmd = cmd, v[k].cmd = cmd PROVE j = k
    BY DEF Once
  <2>1. CASE r.cmd = cmd
    <3>1. j = Len(q) + 1 /\ k = Len(q) + 1
      BY <1>1, <2>1
    <3> QED BY <3>1
  <2>2. CASE r.cmd # cmd
    <3>1. j \in 1..Len(q) /\ k \in 1..Len(q) /\ v[j] = q[j] /\ v[k] = q[k]
      BY <1>1, <2>2
    <3> QED BY <3>1 DEF Once
  <2> QED BY <2>1, <2>2
<1> QED BY <1>2 DEF v

\* The application has not closed, nor failed.
Lives(c) == phase[c] \notin {"failed", "closing", "closed"}

\* While it does not wait for an ack, nothing that it asked for is on its way; a request
\* on its way is the one whose ack it waits for.
LEMMA SentFor ==
  ASSUME AckInv, NEW c \in Client, Owned(c), Lives(c)
  PROVE  /\ \A k \in 1..Len(toServer[c]) :
              toServer[c][k].cmd \in {"open", "add"} => op[App(c)] = [at |-> "ack", cmd |-> toServer[c][k].cmd]
         /\ op[App(c)].at # "ack" =>
              /\ \A k \in 1..Len(toServer[c]) : toServer[c][k].cmd \notin {"open", "add"}
              /\ ~AddAck(toClient[c]) /\ ~AddAck(pending[c])
<1> DEFINE t == App(c)
<1>0. TypeOK /\ t[1] = c
  BY Threads DEF AckInv, TypeInv
<1>1. ~Cut(t)
  BY Threads DEF Cut, Lives
<1>2. TokenState(toServer[c], toClient[c], pending[c], op[t], t)
  BY <1>0, <1>1 DEF AckInv, Acked, TokenOf
<1>3. /\ toServer[c] \in Seq(Request) /\ toClient[c] \in Seq(Reply \cup Message) /\ pending[c] \in Seq(Reply)
      /\ AppAsks(toServer[c], c) /\ AppAcks(toClient[c], c) /\ AppAcks(pending[c], c)
  BY <1>0 DEF TypeOK, Owned
<1> HIDE DEF t
<1>4. ASSUME NEW k \in 1..Len(toServer[c]), toServer[c][k].cmd \in {"open", "add"}
      PROVE  k \in Marks(toServer[c], RequestsOf(t)) /\ op[t] = [at |-> "ack", cmd |-> toServer[c][k].cmd]
  <2>1. toServer[c][k] \in Request /\ toServer[c][k].thread = t
    BY <1>3, <1>4 DEF AppAsks, t
  <2>2. k \in Marks(toServer[c], RequestsOf(t))
    BY <2>1, MarksAre DEF RequestsOf
  <2> QED BY <1>2, <2>2, TokenPlaces
<1>5. ASSUME op[t].at # "ack" PROVE ~AddAck(toClient[c]) /\ ~AddAck(pending[c])
  <2>1. Marks(toClient[c], AcksOf(t)) = {} /\ Marks(pending[c], AcksOf(t)) = {}
    <3>1. NoToken(toServer[c], toClient[c], pending[c], t)
      BY <1>2, <1>5, TokenSingles
    <3> QED BY <3>1 DEF NoToken
  <2>2. ASSUME NEW k \in 1..Len(toClient[c]), toClient[c][k].type = "ack", toClient[c][k].cmd = "add"
        PROVE  FALSE
    <3>1. toClient[c][k].thread = t
      BY <1>3, <2>2 DEF AppAcks, t
    <3>2. toClient[c][k] \in Reply
      <4>1. toClient[c][k] \in Reply \cup Message
        BY <1>3
      <4> QED BY <2>2, <4>1, Kinds
    <3>3. k \in Marks(toClient[c], AcksOf(t))
      BY <2>2, <3>1, <3>2, MarksAre DEF AcksOf
    <3> QED BY <2>1, <3>3
  <2>3. ASSUME NEW k \in 1..Len(pending[c]), pending[c][k].type = "ack", pending[c][k].cmd = "add"
        PROVE  FALSE
    <3>1. pending[c][k].thread = t /\ pending[c][k] \in Reply
      BY <1>3, <2>3 DEF AppAcks, t
    <3>2. k \in Marks(pending[c], AcksOf(t))
      BY <2>3, <3>1, MarksAre DEF AcksOf
    <3> QED BY <2>1, <3>2
  <2> QED BY <2>2, <2>3 DEF AddAck
<1>6. op[t].at # "ack" => \A k \in 1..Len(toServer[c]) : toServer[c][k].cmd \notin {"open", "add"}
  <2> SUFFICES ASSUME op[t].at # "ack", NEW k \in 1..Len(toServer[c]), toServer[c][k].cmd \in {"open", "add"}
               PROVE  FALSE
    OBVIOUS
  <2>1. op[t] = [at |-> "ack", cmd |-> toServer[c][k].cmd]
    BY <1>4
  <2> QED BY <2>1
<1>7. \A k \in 1..Len(toServer[c]) :
        toServer[c][k].cmd \in {"open", "add"} => op[t] = [at |-> "ack", cmd |-> toServer[c][k].cmd]
  BY <1>4
<1> QED BY <1>5, <1>6, <1>7 DEF t

\* The mailbox of a client is opened once.
Entering == {"off", "connect", "bound", "meet"}
OpenOnce(c) ==
    /\ Once(toServer[c], "open")
    /\ \A k \in 1..Len(toServer[c]) : toServer[c][k].cmd = "open" => opened[c] = 0
    /\ opened[c] # 0 /\ phase[c] \in Entering => op[App(c)] = [at |-> "ack", cmd |-> "open"]

\* By a step of one of its threads.
LEMMA OpenOnceThread ==
  ASSUME AckInv, NEW c \in Client, Owned(c), OpenOnce(c), AppStep(c), opened'[c] = opened[c]
  PROVE  OpenOnce(c)'
<1>0. /\ TypeInv /\ TypeOK /\ Mine(c) /\ toServer[c] \in Seq(Request)
  <2>1. TypeInv
    BY DEF AckInv
  <2>2. TypeOK /\ Mine(c)
    BY <2>1, TypeInvIs
  <2> QED BY <2>1, <2>2 DEF TypeOK
<1>1. PICK q : q = toServer'[c]
  OBVIOUS
<1> SUFFICES /\ Once(q, "open")
             /\ \A k \in 1..Len(q) : q[k].cmd = "open" => opened[c] = 0
             /\ opened[c] # 0 /\ phase'[c] \in Entering => op'[App(c)] = [at |-> "ack", cmd |-> "open"]
  BY <1>1 DEF OpenOnce, Once
<1>2. CASE AppRests(c)
  BY <1>1, <1>2 DEF AppRests, OpenOnce
<1>3. CASE AppFails(c)
  BY <1>1, <1>3 DEF AppFails, OpenOnce, Entering
<1>4. CASE AppAcked(c)
  BY <1>1, <1>4 DEF AppAcked, OpenOnce, Awaits
<1>5. CASE \E k \in 1..Len(pending[c]) : AppSucceeds(c, pending[c][k])
  <2>1. PICK m : AppSucceeds(c, m)
    BY <1>5
  <2>2. q = toServer[c] /\ Succeeded(c, m)
    BY <1>1, <2>1 DEF AppSucceeds
  <2>3. phase'[c] \in Entering => op[App(c)].cmd \in {"connect", "bind", "allocate", "claim", "add"} /\
                                  (op[App(c)].cmd = "bind" \/ phase'[c] = phase[c])
    BY <2>2 DEF Succeeded, Entering
  <2>4. op[App(c)] # Idle
    BY <2>1, OpStates DEF AppSucceeds
  <2>5. op[App(c)].cmd = "bind" => phase[c] \in Entering
    BY <1>0, <2>4 DEF Mine, Calling, AppCmds, Entering
  <2> QED BY <2>2, <2>3, <2>5 DEF OpenOnce
<1>6. CASE \E r \in Request : AppSends(c, r)
  <2>1. PICK r \in Request : AppSends(c, r)
    BY <1>6
  <2>2. q = Append(toServer[c], r) /\ phase'[c] = phase[c]
    BY <1>1, <2>1 DEF AppSends
  <2>3. ASSUME r.cmd = "open"
        PROVE  opened[c] = 0 /\ \A k \in 1..Len(toServer[c]) : toServer[c][k].cmd # "open"
    <3>1. op[App(c)].cmd = "open" /\ op[App(c)].at = "lock"
      BY <2>1, <2>3 DEF AppSends
    <3>2. phase[c] = "meet"
      BY <1>0, <3>1, OpStates DEF Mine, Calling, AppCmds
    <3>3. Lives(c) /\ opened[c] = 0
      BY <3>1, <3>2 DEF Lives, OpenOnce, Entering
    <3> QED BY <3>1, <3>3, SentFor
  <2>4. Once(q, "open")
    BY <1>0, <2>2, <2>3, OnceAppend DEF OpenOnce
  <2>5. \A k \in 1..Len(q) : \/ k \in 1..Len(toServer[c]) /\ q[k] = toServer[c][k]
                             \/ q[k] = r
    BY <1>0, <2>2, AppendMixed
  <2>6. opened[c] # 0 /\ phase[c] \in Entering => op'[App(c)] = op[App(c)]
    BY <2>1 DEF AppSends, OpenOnce
  <2> QED BY <2>2, <2>3, <2>4, <2>5, <2>6 DEF OpenOnce
<1> QED BY <1>2, <1>3, <1>4, <1>5, <1>6 DEF AppStep

\* By any.
LEMMA OpenOnceStep ==
  ASSUME AckInv, NEW c \in Client, Step(c), NEW d \in Client, Owned(d), OpenOnce(d)
  PROVE  OpenOnce(d)'
<1>0. /\ TypeInv /\ TypeOK /\ Mine(c)
  <2>1. TypeInv
    BY DEF AckInv
  <2> QED BY <2>1, TypeInvIs
<1>1. CASE d # c
  <2>1. Same(d)
    BY <1>0, <1>1, Elsewhere
  <2> QED BY <2>1 DEF Same, OpenOnce, Once
<1>2. CASE d = c /\ \E t \in Thread : t[1] = c /\ (Send(t) \/ Register(t) \/ NotFound(t) \/ Read(t) \/ CutOff(t))
  <2>1. AppStep(c) /\ opened' = opened
    BY <1>0, <1>2, AppSteps, ThreadMoves
  <2> QED BY <1>2, <2>1, OpenOnceThread
<1>3. CASE d = c /\ (Connect(c) \/ Meet(c))
  <2>1. opened[c] = 0 \/ phase[c] \notin {"off", "bound"}
    BY <1>0, <1>3, OpStates DEF OpenOnce, Mine, Wired, Calling, AppCmds, Entering
  <2>2. phase[c] \in {"off", "bound"} /\ UNCHANGED <<toServer, opened>>
    BY <1>3 DEF Connect, Meet, netVars, serverVars
  <2> QED BY <1>3, <2>1, <2>2 DEF OpenOnce, Once
<1>4. CASE d = c /\ (AddMessage(c) \/ Close(c))
  <2>1. UNCHANGED <<toServer, opened>> /\ phase'[c] \in {"talk", "closing"}
    BY <1>0, <1>4 DEF AddMessage, Close, Goes, TypeOK, netVars, serverVars
  <2> QED BY <1>4, <2>1 DEF OpenOnce, Once, Entering
<1>5. CASE d = c /\ HangUp(c)
  <2>1. toServer'[c] = <<>> /\ opened'[c] = 0
    BY <1>0, <1>5 DEF HangUp, TypeOK
  <2> QED BY <1>5, <2>1 DEF OpenOnce, Once
<1>6. CASE d = c /\ \/ Dispatch(c) \/ ReadEnds(c) \/ LoseConnection(c)
                    \/ StartRecv(c) \/ Scan(c) \/ Notified(c)
  <2>1. UNCHANGED <<toServer, opened, phase, op>>
    BY <1>6 DEF Dispatch, ReadEnds, LoseConnection, StartRecv, Scan, Notified,
       appVars, cmdVars, netVars, serverVars
  <2> QED BY <2>1 DEF OpenOnce, Once
<1>7. CASE d = c /\ Deliver(c)
  <2>1. UNCHANGED <<toServer, opened, phase>>
    BY <1>7 DEF Deliver, netVars, serverVars
  <2>2. op'[App(c)] = op[App(c)]
    <3>1. App(c) # Recv(c) /\ (UNCHANGED op \/ \E o : op' = [op EXCEPT ![Recv(c)] = o])
      BY <1>7, Threads DEF Deliver, Begin
    <3> QED BY <1>0, <3>1, Threads DEF TypeOK
  <2> QED BY <1>7, <2>1, <2>2 DEF OpenOnce, Once
<1>8. CASE d = c /\ Serve(c)
  <2> DEFINE r == Asked(c)
  <2>1. /\ toServer[c] \in Seq(Request) /\ toServer[c] # <<>> /\ r = toServer[c][1] /\ Len(toServer[c]) >= 1
        /\ toServer' = [toServer EXCEPT ![c] = Tail(toServer[c])] /\ UNCHANGED <<phase, op>>
        /\ r.cmd = "open" => r.arg = mailbox[c] /\ mailbox[c] # 0
    BY <1>0, <1>8, AskedIs DEF appVars, cmdVars
  <2>2. PICK q : q = toServer'[c]
    OBVIOUS
  <2>3. /\ Once(q, "open") /\ Within(q, toServer[c])
        /\ r.cmd = "open" => \A k \in 1..Len(q) : q[k].cmd # "open"
    <3>1. q = Tail(toServer[c])
      BY <1>0, <2>1, <2>2, SMTT(20) DEF TypeOK
    <3> QED BY <1>8, <2>1, <3>1, OnceTail DEF OpenOnce
  <2>4. r.cmd # "open" => opened' = opened
    BY <1>8 DEF Serve, Asked, ServeBind, ServeAllocate, ServeClaim, ServeOpen, ServeAdd, ServeRelease, ServeClose,
       serverVars
  <2>5. CASE r.cmd # "open"
    BY <1>8, <2>1, <2>2, <2>3, <2>4, <2>5 DEF OpenOnce, Once, Within
  <2>6. CASE r.cmd = "open"
    <3>1. phase[c] \in Entering => Lives(c)
      BY DEF Entering, Lives
    <3>2. phase[c] \in Entering => op[App(c)] = [at |-> "ack", cmd |-> "open"]
      <4>1. 1 \in 1..Len(toServer[c])
        BY <2>1
      <4> QED BY <1>8, <2>1, <2>6, <3>1, <4>1, SentFor
    <3> QED BY <1>8, <2>1, <2>2, <2>3, <2>6, <3>2 DEF OpenOnce, Once
  <2> QED BY <2>5, <2>6
<1> QED BY <1>1, <1>2, <1>3, <1>4, <1>5, <1>6, <1>7, <1>8 DEF Step

-----------------------------------------------------------------------------
(* How many messages a side has added, and the server has.                 *)

\* The numbers of the messages of a side that the server has stored.
StoredBy(d) == {m \in 1..Adds : Stored(d, m)}

\* The numbers a side has stored grow with its own adds, and in no other way.
LEMMA StoredByStep ==
  ASSUME MeetInv, NEW c \in Client, Step(c), NEW d \in Client
  PROVE  /\ ~(ServesAdd(c) /\ d = c) => StoredBy(d)' = StoredBy(d)
         /\ ServesAdd(c) /\ d = c /\ Asked(c).arg \in 1..Adds => StoredBy(d)' = StoredBy(d) \cup {Asked(c).arg}
<1>1. ASSUME NEW m \in 1..Adds
      PROVE  m \in StoredBy(d)' <=> m \in StoredBy(d) \/ (ServesAdd(c) /\ d = c /\ m = Asked(c).arg)
  <2>1. Stored(d, m)' <=> Stored(d, m) \/ (ServesAdd(c) /\ d = c /\ m = Asked(c).arg)
    BY StoredStep
  <2>2. m \in StoredBy(d) <=> Stored(d, m)
    BY DEF StoredBy
  <2>3. m \in StoredBy(d)' <=> Stored(d, m)'
    BY DEF StoredBy, Stored
  <2> QED BY <2>1, <2>2, <2>3
<1>2. StoredBy(d) \subseteq 1..Adds
  BY DEF StoredBy
<1>3. StoredBy(d)' \subseteq 1..Adds
  BY DEF StoredBy, Stored
<1> QED BY <1>1, <1>2, <1>3

\* All that it added is stored, or all but the last, whose request may be on its way.
Done(d) ==
    /\ StoredBy(d) = 1..added[d] /\ ~Adding(toServer[d])
    /\ ~(phase[d] = "talk" /\ op[App(d)].at = "lock")
Due(d) ==
    /\ added[d] # 0 /\ StoredBy(d) = 1..(added[d] - 1) /\ Once(toServer[d], "add")
    /\ \A k \in 1..Len(toServer[d]) : toServer[d][k].cmd = "add" => toServer[d][k].arg = added[d]
    /\ ~(phase[d] = "talk" /\ (op[App(d)] = Idle \/ AddAck(toClient[d]) \/ AddAck(pending[d])))
Counted(d) ==
    /\ Done(d) \/ Due(d)
    /\ phase[d] \in Entering => added[d] = 0

\* q has what p has to add, or less.
FewerAdds(q, p) ==
    /\ Once(p, "add") => Once(q, "add")
    /\ \A k \in 1..Len(q) : q[k].cmd = "add" => \E j \in 1..Len(p) : q[k] = p[j]

\* Nothing is added.
LEMMA CountedKept ==
  ASSUME NEW d \in Client, Counted(d), added'[d] = added[d], StoredBy(d)' = StoredBy(d),
         NEW q, q = toServer'[d], FewerAdds(q, toServer[d]),
         phase'[d] \in Entering => phase[d] \in Entering,
         phase'[d] = "talk" =>
            /\ phase[d] = "talk" /\ op'[App(d)] = op[App(d)]
            /\ AddAck(toClient'[d]) \/ AddAck(pending'[d]) => AddAck(toClient[d]) \/ AddAck(pending[d])
  PROVE  Counted(d)'
<1>1. CASE Done(d)
  <2>1. ~Adding(q)
    BY <1>1 DEF FewerAdds, Done, Adding
  <2>2. Done(d)'
    <3>1. ~Adding(toServer[d])'
      BY <2>1 DEF Adding
    <3> QED BY <1>1, <3>1 DEF Done
  <2> QED BY <2>2 DEF Counted
<1>2. CASE Due(d)
  <2>1. Once(q, "add") /\ \A k \in 1..Len(q) : q[k].cmd = "add" => q[k].arg = added[d]
    BY <1>2 DEF FewerAdds, Due
  <2>2. Due(d)'
    <3>1. Once(toServer'[d], "add")
      BY <2>1
    <3>2. phase'[d] = "talk" => ~(AddAck(toClient'[d]) \/ AddAck(pending'[d]))
      BY <1>2 DEF Due
    <3>3. phase'[d] = "talk" => op'[App(d)] # Idle
      BY <1>2 DEF Due
    <3> QED BY <1>2, <2>1, <3>1, <3>2, <3>3 DEF Due, Once, AddAck, Idle
  <2> QED BY <2>2 DEF Counted
<1> QED BY <1>1, <1>2 DEF Counted

\* By a step of one of its threads.
LEMMA CountedThread ==
  ASSUME AckInv, NEW c \in Client, Owned(c), Counted(c), AppStep(c), added'[c] = added[c],
         toClient'[c] = toClient[c], Within(pending'[c], pending[c]), StoredBy(c)' = StoredBy(c)
  PROVE  Counted(c)'
<1>0. /\ TypeOK /\ Mine(c) /\ toServer[c] \in Seq(Request) /\ added[c] \in Nat
  <2>1. TypeInv
    BY DEF AckInv
  <2>2. TypeOK /\ Mine(c)
    BY <2>1, TypeInvIs
  <2>3. toServer[c] \in Seq(Request)
    BY <2>2 DEF TypeOK
  <2>4. added[c] \in Nat
    BY <2>2, BoundAssumption DEF TypeOK
  <2> QED BY <2>2, <2>3, <2>4
<1>1. AddAck(pending'[c]) => AddAck(pending[c])
  BY DEF AddAck, Within
<1>2. PICK q : q = toServer'[c]
  OBVIOUS
<1>3. FewerAdds(toServer[c], toServer[c])
  BY DEF FewerAdds
<1>4. CASE AppRests(c)
  BY <1>1, <1>2, <1>3, <1>4, CountedKept DEF AppRests
<1>5. CASE AppFails(c)
  <2>1. phase'[c] # "talk" /\ phase'[c] \notin Entering /\ q = toServer[c]
    BY <1>2, <1>5 DEF AppFails, Entering
  <2> QED BY <1>2, <1>3, <2>1, CountedKept
<1>6. CASE AppAcked(c)
  <2>1. op[App(c)] # Idle /\ op[App(c)].cmd # "add" /\ phase'[c] = phase[c] /\ q = toServer[c]
    BY <1>2, <1>6, OpStates DEF AppAcked, Awaits
  <2>2. phase'[c] # "talk"
    BY <1>0, <2>1 DEF Mine, Calling, AppCmds
  <2> QED BY <1>2, <1>3, <2>1, <2>2, CountedKept
<1>7. CASE \E k \in 1..Len(pending[c]) : AppSucceeds(c, pending[c][k])
  <2>1. PICK k \in 1..Len(pending[c]) : AppSucceeds(c, pending[c][k])
    BY <1>7
  <2> DEFINE cmd == op[App(c)].cmd
  <2>2. /\ Succeeded(c, pending[c][k]) /\ q = toServer[c] /\ op[App(c)] # Idle
        /\ cmd = "add" => pending[c][k].type = "ack" /\ pending[c][k].cmd = "add"
    <3>1. Succeeded(c, pending[c][k]) /\ toServer'[c] = toServer[c] /\ op[App(c)].at # "idle"
      BY <2>1 DEF AppSucceeds
    <3>2. op[App(c)] # Idle
      BY <3>1, OpStates
    <3>3. cmd = "add" => op[App(c)].at = "ack" /\ pending[c][k].type = "ack" /\ pending[c][k].cmd = "add"
      <4>1. cmd = "add" => op[App(c)].at # "reply"
        BY <1>0, <3>2 DEF Mine, Waiting, Awaits
      <4> QED BY <2>1, <4>1 DEF AppSucceeds
    <3> QED BY <1>2, <3>1, <3>2, <3>3
  <2>3. cmd \in AppCmds(phase[c])
    BY <1>0, <2>2 DEF Mine, Calling
  <2>4. CASE cmd \in {"open", "add"}
    <3>1. phase'[c] = "talk" /\ op'[App(c)] = Idle
      BY <2>2, <2>3, <2>4 DEF Succeeded, AppCmds
    <3>2. ~Due(c)
      <4>1. CASE cmd = "open"
        <5>1. phase[c] = "meet"
          BY <2>3, <4>1 DEF AppCmds
        <5> QED BY <5>1 DEF Counted, Entering, Due
      <4>2. CASE cmd = "add"
        <5>1. phase[c] = "talk" /\ AddAck(pending[c])
          BY <2>2, <2>3, <4>2 DEF AppCmds, AddAck
        <5> QED BY <5>1 DEF Due
      <4> QED BY <2>4, <4>1, <4>2
    <3>3. Done(c)
      BY <3>2 DEF Counted
    <3>4. ~Adding(toServer[c])'
      BY <1>2, <2>2, <3>3 DEF Done, Adding
    <3>5. op'[App(c)].at # "lock"
      BY <3>1, OpStates
    <3>6. Done(c)'
      BY <3>3, <3>4, <3>5 DEF Done
    <3> QED BY <3>1, <3>6 DEF Counted, Entering
  <2>5. CASE cmd \notin {"open", "add"}
    <3>1. phase'[c] # "talk" /\ (phase'[c] \in Entering => phase[c] \in Entering)
      BY <2>2, <2>3, <2>5 DEF Succeeded, AppCmds, Entering
    <3> QED BY <1>2, <1>3, <2>2, <3>1, CountedKept
  <2> QED BY <2>4, <2>5
<1>8. CASE \E r \in Request : AppSends(c, r)
  <2>1. PICK r \in Request : AppSends(c, r)
    BY <1>8
  <2>2. q = Append(toServer[c], r) /\ phase'[c] = phase[c]
    BY <1>2, <2>1 DEF AppSends
  <2>3. \A k \in 1..Len(q) : \/ k \in 1..Len(toServer[c]) /\ q[k] = toServer[c][k]
                             \/ k = Len(toServer[c]) + 1 /\ q[k] = r
    BY <1>0, <2>2, AppendMixed
  <2>4. CASE r.cmd = "add"
    <3>1. /\ op[App(c)].at = "lock" /\ op[App(c)].cmd = "add" /\ r.arg = Arg(App(c))
          /\ op'[App(c)] = [at |-> "ack", cmd |-> "add"]
      BY <2>1, <2>4 DEF AppSends
    <3>2. phase[c] = "talk" /\ Lives(c)
      BY <1>0, <3>1, OpStates DEF Mine, Calling, AppCmds, Lives
    <3>3. Due(c)
      BY <3>1, <3>2 DEF Counted, Done
    <3>4. r.arg = added[c]
      BY <3>1, Threads DEF Arg
    <3>5. /\ \A k \in 1..Len(toServer[c]) : toServer[c][k].cmd # "add"
          /\ ~AddAck(toClient[c]) /\ ~AddAck(pending[c])
      BY <3>1, <3>2, SentFor
    <3>6. Once(q, "add")
      BY <1>0, <2>2, <3>3, <3>5, OnceAppend DEF Due
    <3>7. \A k \in 1..Len(q) : q[k].cmd = "add" => q[k].arg = added[c]
      BY <2>3, <3>4, <3>5
    <3>8. op'[App(c)] # Idle
      BY <3>1, OpStates
    <3>9. ~AddAck(toClient'[c]) /\ ~AddAck(pending'[c])
      BY <1>1, <3>5
    <3>10. Due(c)'
      BY <1>2, <3>3, <3>6, <3>7, <3>8, <3>9 DEF Due, Once, AddAck, Idle
    <3> QED BY <2>2, <3>10 DEF Counted
  <2>5. CASE r.cmd # "add"
    <3>1. FewerAdds(q, toServer[c])
      <4>1. Once(toServer[c], "add") => Once(q, "add")
        BY <1>0, <2>2, <2>5, OnceAppend
      <4> QED BY <2>3, <2>5, <4>1 DEF FewerAdds
    <3>2. phase[c] = "talk" => op'[App(c)] = op[App(c)]
      BY <1>0, <2>1, <2>5, OpStates DEF AppSends, Mine, Calling, AppCmds
    <3> QED BY <1>1, <1>2, <2>2, <3>1, <3>2, CountedKept
  <2> QED BY <2>4, <2>5
<1> QED BY <1>4, <1>5, <1>6, <1>7, <1>8 DEF AppStep

\* By any.
LEMMA CountedStep ==
  ASSUME AckInv, MeetInv, NEW c \in Client, Step(c), NEW d \in Client, Owned(d), Counted(d)
  PROVE  Counted(d)'
<1>0. /\ TypeInv /\ TypeOK /\ Mine(c) /\ toServer[c] \in Seq(Request) /\ added[c] \in Nat
  <2>1. TypeInv
    BY DEF AckInv
  <2>2. TypeOK /\ Mine(c)
    BY <2>1, TypeInvIs
  <2>3. toServer[c] \in Seq(Request)
    BY <2>2 DEF TypeOK
  <2>4. added[c] \in Nat
    BY <2>2, BoundAssumption DEF TypeOK
  <2> QED BY <2>1, <2>2, <2>3, <2>4
<1>1. PICK q : q = toServer'[d]
  OBVIOUS
<1>2. FewerAdds(toServer[d], toServer[d])
  BY DEF FewerAdds
<1>3. CASE d # c
  <2>1. /\ Same(d)
        /\ \/ toClient'[d] = toClient[d]
           \/ \E p : Hears(d, p) /\ \A k \in 1..Len(p) : p[k].type = "message"
    BY <1>0, <1>3, Elsewhere
  <2>2. AddAck(toClient'[d]) => AddAck(toClient[d])
    <3>1. CASE toClient'[d] = toClient[d]
      BY <3>1
    <3>2. CASE \E p : Hears(d, p) /\ \A k \in 1..Len(p) : p[k].type = "message"
      <4>1. PICK p : Hears(d, p) /\ \A k \in 1..Len(p) : p[k].type = "message"
        BY <3>2
      <4>2. PICK v : v = toClient'[d] /\ Joined(toClient[d], p, v)
        BY <4>1 DEF Hears
      <4>3. Mixed(toClient[d], p, v)
        BY <4>2, JoinedFrom
      <4>4. AddAck(v) => AddAck(toClient[d])
        BY <4>1, <4>3 DEF Mixed, AddAck
      <4> QED BY <4>2, <4>4
    <3> QED BY <2>1, <3>1, <3>2
  <2>3. StoredBy(d)' = StoredBy(d)
    BY <1>3, StoredByStep
  <2> QED BY <1>1, <1>2, <2>1, <2>2, <2>3, CountedKept DEF Same
<1>4. CASE d = c /\ \E t \in Thread : t[1] = c /\ (Send(t) \/ Register(t) \/ NotFound(t) \/ Read(t) \/ CutOff(t))
  <2>1. AppStep(c) /\ added'[c] = added[c] /\ Within(pending'[c], pending[c])
    BY <1>0, <1>4, AppSteps
  <2>2. toClient' = toClient /\ ~Serve(c)
    <3>1. toClient' = toClient /\ boxes' = boxes
      BY <1>0, <1>4, ThreadMoves
    <3>2. toServer' # [toServer EXCEPT ![c] = Tail(toServer[c])] \/ toServer[c] = <<>>
      <4>1. toServer'[c] = toServer[c] \/ \E r \in Request : toServer'[c] = Append(toServer[c], r)
        BY <2>1 DEF AppStep, AppRests, AppSends, AppFails, AppAcked, AppSucceeds
      <4>2. toServer[c] # <<>> => Len(Tail(toServer[c])) = Len(toServer[c]) - 1 /\ Len(toServer[c]) \in Nat
        BY <1>0
      <4>3. \A r \in Request : Len(Append(toServer[c], r)) = Len(toServer[c]) + 1
        BY <1>0
      <4>4. Len(toServer'[c]) # Len(toServer[c]) - 1
        BY <1>0, <4>1, <4>3
      <4> QED BY <1>0, <4>2, <4>4 DEF TypeOK
    <3> QED BY <3>1, <3>2 DEF Serve
  <2>3. StoredBy(c)' = StoredBy(c)
    BY <2>2, StoredByStep DEF ServesAdd
  <2> QED BY <1>4, <2>1, <2>2, <2>3, CountedThread
<1>5. ASSUME ~Serve(c) PROVE StoredBy(d)' = StoredBy(d)
  BY <1>5, StoredByStep DEF ServesAdd
<1>6. CASE d = c /\ (Connect(c) \/ Meet(c) \/ Close(c))
  <2>1. /\ UNCHANGED <<toServer, added>> /\ phase'[c] # "talk"
        /\ phase'[c] \in Entering => phase[c] \in Entering
    BY <1>0, <1>6 DEF Connect, Meet, Close, Goes, TypeOK, netVars, Entering
  <2>2. UNCHANGED boxes
    BY <1>6 DEF Connect, Meet, Close, serverVars
  <2>3. StoredBy(c)' = StoredBy(c)
    BY <2>2 DEF StoredBy, Stored
  <2> QED BY <1>1, <1>2, <1>6, <2>1, <2>3, CountedKept
<1>7. CASE d = c /\ AddMessage(c)
  <2>1. /\ phase[c] = "talk" /\ op[App(c)] = Idle /\ UNCHANGED <<phase, toServer, toClient, pending, boxes>>
        /\ added'[c] = added[c] + 1 /\ op'[App(c)] = [at |-> "lock", cmd |-> "add"]
    BY <1>0, <1>7, Threads DEF AddMessage, Begin, TypeOK, netVars, serverVars
  <2>2. Lives(c) /\ op[App(c)].at # "ack" /\ op'[App(c)] # Idle
    BY <2>1, OpStates DEF Lives
  <2>3. Done(c)
    BY <1>7, <2>1 DEF Counted, Due
  <2>4. ~AddAck(toClient[c]) /\ ~AddAck(pending[c])
    BY <1>0, <1>7, <2>2, SentFor
  <2>5. StoredBy(c)' = StoredBy(c)
    BY <2>1 DEF StoredBy, Stored
  <2>6. added'[c] # 0 /\ StoredBy(c)' = 1..(added'[c] - 1)
    <3>1. added'[c] - 1 = added[c] /\ added'[c] # 0
      BY <1>0, <2>1
    <3> QED BY <2>3, <2>5, <3>1 DEF Done
  <2>7. \A k \in 1..Len(toServer[c]) : toServer[c][k].cmd # "add"
    BY <2>3 DEF Done, Adding
  <2>8. Due(c)'
    BY <2>1, <2>2, <2>4, <2>6, <2>7 DEF Due, Once, AddAck, Idle
  <2> QED BY <1>7, <2>1, <2>8 DEF Counted, Entering
<1>8. CASE d = c /\ HangUp(c)
  <2>1. q = <<>> /\ UNCHANGED <<phase, added, op, toClient, pending, boxes>>
    BY <1>0, <1>1, <1>8 DEF HangUp, TypeOK, appVars, cmdVars
  <2>2. FewerAdds(q, toServer[c])
    BY <2>1 DEF FewerAdds, Once
  <2>3. StoredBy(c)' = StoredBy(c)
    BY <2>1 DEF StoredBy, Stored
  <2> QED BY <1>1, <1>8, <2>1, <2>2, <2>3, CountedKept
<1>9. CASE d = c /\ Dispatch(c)
  <2> DEFINE m == toClient[c][1]
  <2>1. /\ 1 \in 1..Len(toClient[c]) /\ toClient'[c] = Tail(toClient[c])
        /\ Without(toClient[c], 1, Tail(toClient[c])) /\ pending[c] \in Seq(Reply)
        /\ UNCHANGED <<appVars, op, toServer, serverVars>>
    BY <1>0, <1>9, Dispatched
  <2>2. pending'[c] = pending[c] \/ (m \in Reply /\ pending'[c] = Append(pending[c], m))
    BY <1>0, <1>9, Dispatched
  <2>3. AddAck(toClient'[c]) => AddAck(toClient[c])
    <3>1. Within(Tail(toClient[c]), toClient[c])
      BY <2>1, WithoutFrom
    <3> QED BY <2>1, <3>1 DEF Within, AddAck
  <2>4. AddAck(pending'[c]) => AddAck(toClient[c]) \/ AddAck(pending[c])
    <3>1. CASE pending'[c] = pending[c]
      BY <3>1
    <3>2. CASE m \in Reply /\ pending'[c] = Append(pending[c], m)
      <4>1. \A k \in 1..Len(pending'[c]) : (k \in 1..Len(pending[c]) /\ pending'[c][k] = pending[c][k]) \/ pending'[c][k] = m
        BY <2>1, <3>2, AppendMixed
      <4> QED BY <2>1, <4>1 DEF AddAck
    <3> QED BY <2>2, <3>1, <3>2
  <2>5. StoredBy(c)' = StoredBy(c)
    BY <2>1 DEF StoredBy, Stored, serverVars
  <2> QED BY <1>1, <1>2, <1>9, <2>1, <2>3, <2>4, <2>5, CountedKept DEF appVars
<1>10. CASE d = c /\ (ReadEnds(c) \/ LoseConnection(c) \/ StartRecv(c) \/ Scan(c) \/ Notified(c))
  <2>1. UNCHANGED <<appVars, cmdVars, toServer, toClient, boxes>>
    BY <1>10 DEF ReadEnds, LoseConnection, StartRecv, Scan, Notified, netVars, serverVars
  <2>2. StoredBy(c)' = StoredBy(c)
    BY <2>1 DEF StoredBy, Stored
  <2> QED BY <1>1, <1>2, <1>10, <2>1, <2>2, CountedKept DEF appVars, cmdVars
<1>11. CASE d = c /\ Deliver(c)
  <2>1. UNCHANGED <<phase, added, pending, toServer, toClient, boxes>>
    BY <1>11 DEF Deliver, netVars, serverVars
  <2>2. op'[App(c)] = op[App(c)]
    <3>1. App(c) # Recv(c) /\ (UNCHANGED op \/ \E o : op' = [op EXCEPT ![Recv(c)] = o])
      BY <1>11, Threads DEF Deliver, Begin
    <3> QED BY <1>0, <3>1, Threads DEF TypeOK
  <2>3. StoredBy(c)' = StoredBy(c)
    BY <2>1 DEF StoredBy, Stored
  <2> QED BY <1>1, <1>2, <1>11, <2>1, <2>2, <2>3, CountedKept
<1>12. CASE d = c /\ Serve(c)
  <2> DEFINE r == Asked(c)
  <2>1. /\ toServer[c] # <<>> /\ r = toServer[c][1] /\ Len(toServer[c]) >= 1
        /\ q = Tail(toServer[c]) /\ UNCHANGED <<appVars, cmdVars>>
        /\ r.cmd = "add" => r.arg \in 1..Adds
    <3>1. toServer' = [toServer EXCEPT ![c] = Tail(toServer[c])] /\ UNCHANGED <<appVars, cmdVars>>
      BY <1>0, <1>12, AskedIs
    <3>2. q = Tail(toServer[c])
      BY <1>0, <1>1, <1>12, <3>1 DEF TypeOK
    <3> QED BY <1>0, <1>12, <3>1, <3>2, AskedIs
  <2>2. /\ Once(toServer[c], "add") => Once(q, "add")
        /\ Within(q, toServer[c])
        /\ Once(toServer[c], "add") /\ r.cmd = "add" => \A k \in 1..Len(q) : q[k].cmd # "add"
    <3>1. toServer[c] \in Seq(Request) /\ toServer[c] # <<>>
      BY <1>0, <2>1
    <3>2. Within(q, toServer[c])
      <4>1. Without(toServer[c], 1, q)
        BY <2>1, <3>1, Taking
      <4> QED BY <4>1, WithoutFrom
    <3>3. ASSUME Once(toServer[c], "add") PROVE Once(q, "add") /\ (r.cmd = "add" => \A k \in 1..Len(q) : q[k].cmd # "add")
      <4>1. Once(Tail(toServer[c]), "add")
        BY <3>1, <3>3, OnceTail
      <4>2. toServer[c][1].cmd = "add" => \A k \in 1..Len(Tail(toServer[c])) : Tail(toServer[c])[k].cmd # "add"
        BY <3>1, <3>3, OnceTail
      <4> QED BY <2>1, <4>1, <4>2
    <3> QED BY <3>2, <3>3
  <2>3. FewerAdds(q, toServer[c])
    BY <2>2 DEF FewerAdds, Within
  <2>4. CASE ~ServeAdd(c, r)
    <3>1. r.cmd # "add"
      BY <1>12, <2>4 DEF Serve, Asked, ServeBind, ServeAllocate, ServeClaim, ServeOpen, ServeRelease, ServeClose
    <3>2. AddAck(toClient'[c]) => AddAck(toClient[c])
      <4>1. PICK f : /\ Sends(f) /\ Len(f[c]) \in Nat \ {0} /\ f[c][1] = Ack(r)
                     /\ \A k \in 2..Len(f[c]) :
                          \/ f[c][k].type \in {"allocated", "released", "closed", "error", "message"}
                          \/ f[c][k] = [type |-> "claimed", box |-> plate']
        BY <1>0, <1>12, ServeSends
      <4>2. r \in Request /\ Ack(r).cmd = r.cmd
        BY <1>0, <1>12, AskedIs DEF Ack
      <4>3. \A k \in 1..Len(f[c]) : k = 1 \/ k \in 2..Len(f[c])
        BY <4>1
      <4>4. [type |-> "claimed", box |-> plate'].type # "ack"
        OBVIOUS
      <4> HIDE DEF r
      <4>5. ~AddAck(f[c])
        BY <3>1, <4>1, <4>2, <4>3, <4>4 DEF AddAck
      <4>6. CASE ws[c] # "up"
        <5>1. toClient'[c] = toClient[c]
          BY <1>0, <4>1, <4>6, SendsJoins
        <5> QED BY <5>1
      <4>7. CASE ws[c] = "up"
        <5>1. Hears(c, f[c])
          BY <1>0, <4>1, <4>7, SendsJoins
        <5>2. PICK v : v = toClient'[c] /\ Joined(toClient[c], f[c], v)
          BY <5>1 DEF Hears
        <5>3. Mixed(toClient[c], f[c], v)
          BY <5>2, JoinedFrom
        <5>4. AddAck(v) => AddAck(toClient[c])
          BY <4>5, <5>3 DEF Mixed, AddAck
        <5> QED BY <5>2, <5>4
      <4> QED BY <4>6, <4>7
    <3>3. StoredBy(c)' = StoredBy(c)
      BY <2>4, StoredByStep DEF ServesAdd
    <3> QED BY <1>1, <1>12, <2>1, <2>3, <3>2, <3>3, CountedKept DEF appVars, cmdVars
  <2>5. CASE ServeAdd(c, r)
    <3>1. r.cmd = "add" /\ 1 \in 1..Len(toServer[c]) /\ ServesAdd(c)
      BY <1>12, <2>1, <2>5 DEF ServeAdd, ServesAdd
    <3>2. Adding(toServer[c])
      BY <2>1, <3>1 DEF Adding
    <3>3. Due(c)
      BY <1>12, <3>2 DEF Counted, Done
    <3>4. r.arg = added[c] /\ Once(toServer[c], "add")
      BY <2>1, <3>1, <3>3 DEF Due
    <3>5. StoredBy(c)' = StoredBy(c) \cup {r.arg}
      BY <2>1, <3>1, StoredByStep
    <3>6. StoredBy(c)' = 1..added[c]
      <4>1. added[c] # 0 /\ StoredBy(c) = 1..(added[c] - 1)
        BY <3>3 DEF Due
      <4>2. 1..added[c] = (1..(added[c] - 1)) \cup {added[c]}
        BY <1>0, <4>1
      <4> QED BY <3>4, <3>5, <4>1, <4>2
    <3>7. phase[c] = "talk" => op[App(c)].at # "lock"
      <4>1. phase[c] = "talk" => Lives(c)
        BY DEF Lives
      <4>2. phase[c] = "talk" => op[App(c)] = [at |-> "ack", cmd |-> "add"]
        BY <1>12, <2>1, <3>1, <4>1, SentFor
      <4> QED BY <4>2
    <3>8. ~Adding(q)
      BY <2>2, <3>1, <3>4 DEF Adding
    <3>9. Done(c)'
      <4>1. ~Adding(toServer[c])'
        BY <1>1, <1>12, <3>8 DEF Adding
      <4> QED BY <2>1, <3>6, <3>7, <4>1 DEF Done, appVars, cmdVars
    <3> QED BY <1>12, <2>1, <3>9 DEF Counted, appVars
  <2> QED BY <2>4, <2>5
<1> QED BY <1>3, <1>4, <1>6, <1>7, <1>8, <1>9, <1>10, <1>11, <1>12 DEF Step

\* When the server takes a request to add, it is the next message of its side.
LEMMA NextAdded ==
  ASSUME TypeInv, NEW c \in Client, ServesAdd(c), Counted(c)
  PROVE  Asked(c).arg \in 1..Adds /\ StoredBy(c) = 1..(Asked(c).arg - 1)
<1> DEFINE r == Asked(c)
<1>1. /\ toServer[c] \in Seq(Request) /\ r = toServer[c][1] /\ Len(toServer[c]) >= 1
      /\ r.cmd = "add" => r.arg \in 1..Adds
  BY AskedIs DEF ServesAdd
<1>2. r.cmd = "add" /\ 1 \in 1..Len(toServer[c])
  BY <1>1 DEF ServesAdd, ServeAdd
<1>3. Due(c)
  BY <1>1, <1>2 DEF Counted, Done, Adding
<1> QED BY <1>1, <1>2, <1>3 DEF Due

-----------------------------------------------------------------------------
(* The messages of each mailbox are numbered.                              *)

\* That, in every mailbox.
AllNumbered == \A b \in 1..Len(boxes) : Numbered(boxes[b].msgs)

\* The server stores the events of each side in the order of their numbers.
LEMMA NumberedStep ==
  ASSUME MeetInv, NEW c \in Client, Step(c), Counted(c), AllNumbered
  PROVE  AllNumbered'
<1>0. TypeInv /\ TypeOK /\ Homes
  BY DEF MeetInv, TypeInv
<1> SUFFICES ASSUME NEW b \in 1..Len(boxes') PROVE Numbered(boxes'[b].msgs)
  BY DEF AllNumbered, Numbered
<1>1. CASE MsgsKept
  <2>1. CASE b \in 1..Len(boxes)
    BY <1>1, <2>1 DEF MsgsKept, AllNumbered
  <2>2. CASE boxes'[b].msgs = <<>>
    BY <2>2 DEF Numbered
  <2> QED BY <1>1, <2>1, <2>2 DEF MsgsKept
<1>2. CASE ServesAdd(c) /\ NewEvent(c) \in Event /\ MsgAdded(c, NewEvent(c))
  <2> DEFINE e == NewEvent(c)
  <2>0. b \in 1..Len(boxes)
    BY <1>2 DEF MsgAdded
  <2>1. CASE b # mailbox[c]
    BY <1>2, <2>0, <2>1 DEF MsgAdded, AllNumbered
  <2>2. CASE b = mailbox[c]
    <3>1. PICK ms : ms = boxes[b].msgs
      OBVIOUS
    <3>2. ms \in Seq(Event) /\ Numbered(ms) /\ boxes'[b].msgs = Append(ms, e) /\ InBox(b, ms)
      BY <1>0, <1>2, <2>0, <2>2, <3>1, RecordedIs DEF MsgAdded, AllNumbered, Homes
    <3>3. e \in Event /\ e.side = c /\ e.n = Asked(c).arg /\ e.n \in 1..Adds /\ StoredBy(c) = 1..(e.n - 1)
      BY <1>0, <1>2, NextAdded DEF NewEvent
    <3> HIDE DEF e
    <3>4. ASSUME NEW k \in 1..Len(ms), ms[k].side = e.side PROVE ms[k].n < e.n
      <4>1. ms[k] \in Event
        BY <3>2
      <4>2. ms[k].n \in 1..Adds /\ ms[k] = [side |-> c, n |-> ms[k].n]
        BY <3>3, <3>4, <4>1 DEF Event
      <4>3. ms[k].n \in StoredBy(c)
        BY <2>0, <3>1, <4>2 DEF StoredBy, Stored
      <4>4. ms[k].n \in 1..(e.n - 1)
        BY <3>3, <4>3
      <4> QED BY <3>3, <4>4, BoundAssumption
    <3>5. ASSUME NEW m \in 1..(e.n - 1) PROVE \E j \in 1..Len(ms) : ms[j] = [side |-> e.side, n |-> m]
      <4>1. m \in StoredBy(c)
        BY <3>3
      <4>2. PICK d \in 1..Len(boxes) : \E j \in 1..Len(boxes[d].msgs) : boxes[d].msgs[j] = [side |-> c, n |-> m]
        BY <4>1 DEF StoredBy, Stored
      <4>3. PICK j \in 1..Len(boxes[d].msgs) : boxes[d].msgs[j] = [side |-> c, n |-> m]
        BY <4>2
      <4>4. boxes[d].msgs[j].side = c /\ InBox(d, boxes[d].msgs)
        BY <1>0, <4>3 DEF Homes
      <4>5. mailbox[c] = d
        BY <4>3, <4>4 DEF InBox
      <4> QED BY <2>2, <3>1, <3>3, <4>3, <4>5
    <3>6. Numbered(Append(ms, e))
      BY <3>2, <3>3, <3>4, <3>5, NumberedAppend
    <3> QED BY <3>2, <3>6
  <2> QED BY <2>1, <2>2
<1> QED BY <1>1, <1>2, MsgsStep

-----------------------------------------------------------------------------
(* What a client has noted, and what is on its way to it, of its mailbox.  *)

\* es is the beginning of ms; no message is on its way in q.
Prefix(es, ms) == Len(es) <= Len(ms) /\ \A i \in 1..Len(es) : es[i] = ms[i]
Quiet(q) == \A k \in 1..Len(q) : q[k].type # "message"

\* The messages of q are those of ms after the first n, in order; p is where they are.
Follows(p, n, q, ms) ==
    /\ \A k \in 1..Len(q) : q[k].type = "message" => p[k] \in (n + 1)..Len(ms) /\ ms[p[k]] = q[k].event
    /\ \A k, l \in 1..Len(q) : k < l /\ q[k].type = "message" /\ q[l].type = "message" => p[k] < p[l]
    /\ \A i \in (n + 1)..Len(ms) : \E k \in 1..Len(q) : q[k].type = "message" /\ p[k] = i
Rest(n, q, ms) == \E p : Follows(p, n, q, ms)

\* The first of them is taken, or something else.
LEMMA RestTaken ==
  ASSUME NEW n \in Nat, NEW q, NEW ms, Len(ms) \in Nat, Rest(n, q, ms), NEW v, Without(q, 1, v)
  PROVE  /\ q[1].type # "message" => Rest(n, v, ms)
         /\ q[1].type = "message" => n + 1 <= Len(ms) /\ q[1].event = ms[n + 1] /\ Rest(n + 1, v, ms)
<1>1. PICK p : Follows(p, n, q, ms)
  BY DEF Rest
<1> DEFINE r == [k \in 1..Len(v) |-> p[k + 1]]
<1>2. /\ Len(q) \in Nat /\ Len(v) = Len(q) - 1 /\ 1 \in 1..Len(q)
      /\ \A k \in 1..Len(v) : v[k] = q[k + 1] /\ k + 1 \in 1..Len(q) /\ k + 1 # 1 /\ r[k] = p[k + 1]
      /\ \A k \in 1..Len(q) : k # 1 => k - 1 \in 1..Len(v) /\ (k - 1) + 1 = k /\ 1 < k
  <2>1. Len(q) \in Nat /\ Len(v) = Len(q) - 1 /\ 1 \in 1..Len(q)
    BY DEF Without
  <2>2. ASSUME NEW k \in 1..Len(v) PROVE v[k] = q[k + 1] /\ k + 1 \in 1..Len(q) /\ k + 1 # 1 /\ r[k] = p[k + 1]
    <3>1. ~(k < 1) /\ k + 1 \in 1..Len(q) /\ k + 1 # 1
      BY <2>1
    <3> QED BY <3>1 DEF Without
  <2>3. ASSUME NEW k \in 1..Len(q), k # 1 PROVE k - 1 \in 1..Len(v) /\ (k - 1) + 1 = k /\ 1 < k
    BY <2>1, <2>3
  <2> QED BY <2>1, <2>2, <2>3
<1> HIDE DEF r
<1>3. \A k, l \in 1..Len(v) : k < l /\ v[k].type = "message" /\ v[l].type = "message" => r[k] < r[l]
  <2> SUFFICES ASSUME NEW k \in 1..Len(v), NEW l \in 1..Len(v), k < l, v[k].type = "message", v[l].type = "message"
               PROVE  r[k] < r[l]
    OBVIOUS
  <2>1. k + 1 < l + 1
    OBVIOUS
  <2> QED BY <1>1, <1>2, <2>1 DEF Follows
<1>4. CASE q[1].type # "message"
  <2>1. \A k \in 1..Len(v) : v[k].type = "message" => r[k] \in (n + 1)..Len(ms) /\ ms[r[k]] = v[k].event
    BY <1>1, <1>2, SMTT(20) DEF Follows
  <2>2. ASSUME NEW i \in (n + 1)..Len(ms) PROVE \E k \in 1..Len(v) : v[k].type = "message" /\ r[k] = i
    <3>1. PICK k \in 1..Len(q) : q[k].type = "message" /\ p[k] = i
      BY <1>1 DEF Follows
    <3>2. k # 1
      BY <1>4, <3>1
    <3>3. k - 1 \in 1..Len(v) /\ v[k - 1].type = "message" /\ r[k - 1] = i
      BY <1>2, <3>1, <3>2
    <3> QED BY <3>3
  <2>3. Follows(r, n, v, ms)
    BY <1>3, <2>1, <2>2 DEF Follows
  <2> QED BY <1>4, <2>3 DEF Rest
<1>5. CASE q[1].type = "message"
  <2>1. p[1] \in (n + 1)..Len(ms) /\ ms[p[1]] = q[1].event
    BY <1>1, <1>2, <1>5 DEF Follows
  <2>2. p[1] = n + 1
    <3>1. PICK k \in 1..Len(q) : q[k].type = "message" /\ p[k] = n + 1
      BY <1>1, <2>1 DEF Follows
    <3>2. k # 1 => p[1] < p[k]
      BY <1>1, <1>2, <1>5, <3>1 DEF Follows
    <3> QED BY <2>1, <3>1, <3>2
  <2>3. ASSUME NEW k \in 1..Len(v), v[k].type = "message"
        PROVE  r[k] \in (n + 1 + 1)..Len(ms) /\ ms[r[k]] = v[k].event
    <3> DEFINE l == k + 1
    <3>1. l \in 1..Len(q) /\ 1 < l /\ q[l] = v[k] /\ r[k] = p[l] /\ 1 \in 1..Len(q)
      BY <1>2
    <3> HIDE DEF l
    <3>2. p[l] \in (n + 1)..Len(ms) /\ ms[p[l]] = v[k].event
      BY <1>1, <2>3, <3>1 DEF Follows
    <3>3. p[1] < p[l]
      BY <1>1, <1>5, <2>3, <3>1 DEF Follows
    <3>4. p[l] \in (n + 1 + 1)..Len(ms)
      BY <2>2, <3>2, <3>3
    <3> QED BY <3>1, <3>2, <3>4
  <2>4. ASSUME NEW i \in (n + 1 + 1)..Len(ms) PROVE \E k \in 1..Len(v) : v[k].type = "message" /\ r[k] = i
    <3>1. i \in (n + 1)..Len(ms) /\ i # n + 1
      OBVIOUS
    <3>2. PICK k \in 1..Len(q) : q[k].type = "message" /\ p[k] = i
      BY <1>1, <3>1 DEF Follows
    <3>3. k # 1
      BY <2>2, <3>1, <3>2
    <3>4. k - 1 \in 1..Len(v) /\ v[k - 1].type = "message" /\ r[k - 1] = i
      BY <1>2, <3>2, <3>3
    <3> QED BY <3>4
  <2>5. Follows(r, n + 1, v, ms)
    BY <1>3, <2>3, <2>4 DEF Follows
  <2> QED BY <1>5, <2>1, <2>2, <2>5 DEF Rest
<1> QED BY <1>4, <1>5

\* Nothing of the mailbox comes after them.
LEMMA RestQuiet ==
  ASSUME NEW n \in Nat, NEW q, NEW ms, Rest(n, q, ms), NEW f, Quiet(f), NEW v, Joined(q, f, v)
  PROVE  Rest(n, v, ms)
<1>1. PICK p : Follows(p, n, q, ms)
  BY DEF Rest
<1>2. ASSUME NEW k \in 1..Len(v), v[k].type = "message" PROVE k \in 1..Len(q) /\ v[k] = q[k]
  <2>1. (k \in 1..Len(q) /\ v[k] = q[k]) \/ \E j \in 1..Len(f) : k = Len(q) + j /\ v[k] = f[j]
    BY JoinedElements
  <2> QED BY <1>2, <2>1 DEF Quiet
<1>3. \A k \in 1..Len(q) : k \in 1..Len(v) /\ v[k] = q[k]
  BY DEF Joined
<1>4. Follows(p, n, v, ms)
  BY <1>1, <1>2, <1>3 DEF Follows
<1> QED BY <1>4 DEF Rest

\* A message is added to the mailbox, and comes after them.
LEMMA RestAdded ==
  ASSUME NEW n \in Nat, NEW q, NEW ms \in Seq(Event), NEW e \in Event, n <= Len(ms), Rest(n, q, ms),
         NEW f, NEW j \in 1..Len(f), f[j].type = "message", f[j].event = e,
         \A k \in 1..Len(f) : k # j => f[k].type # "message",
         NEW v, Joined(q, f, v)
  PROVE  Rest(n, v, Append(ms, e))
<1>1. PICK p : Follows(p, n, q, ms)
  BY DEF Rest
<1> DEFINE w == Append(ms, e)
<1> DEFINE r == [k \in 1..Len(v) |-> IF k \in 1..Len(q) THEN p[k] ELSE Len(ms) + 1]
<1>2. /\ Len(ms) \in Nat /\ Len(w) = Len(ms) + 1 /\ w[Len(ms) + 1] = e
      /\ \A k \in 1..Len(ms) : w[k] = ms[k]
  OBVIOUS
<1>3. /\ Len(q) \in Nat /\ Len(f) \in Nat /\ Len(v) = Len(q) + Len(f) /\ Len(q) + j \in 1..Len(v)
      /\ Len(q) + j \notin 1..Len(q) /\ v[Len(q) + j] = f[j]
      /\ \A k \in 1..Len(q) : k \in 1..Len(v) /\ v[k] = q[k]
  BY DEF Joined
<1>4. ASSUME NEW k \in 1..Len(v), v[k].type = "message"
      PROVE  (k \in 1..Len(q) /\ v[k] = q[k]) \/ (k = Len(q) + j /\ v[k] = f[j])
  <2>1. (k \in 1..Len(q) /\ v[k] = q[k]) \/ \E i \in 1..Len(f) : k = Len(q) + i /\ v[k] = f[i]
    BY JoinedElements
  <2> QED BY <1>4, <2>1
<1>5. /\ \A k \in 1..Len(q) : r[k] = p[k]
      /\ r[Len(q) + j] = Len(ms) + 1
  BY <1>3
<1> HIDE DEF w, r
<1>6. ASSUME NEW k \in 1..Len(v), v[k].type = "message" PROVE r[k] \in (n + 1)..Len(w) /\ w[r[k]] = v[k].event
  <2>1. CASE k \in 1..Len(q) /\ v[k] = q[k]
    <3>1. p[k] \in (n + 1)..Len(ms) /\ ms[p[k]] = q[k].event
      BY <1>1, <1>6, <2>1 DEF Follows
    <3>2. p[k] \in 1..Len(ms) /\ p[k] \in (n + 1)..Len(w)
      BY <1>2, <3>1
    <3> QED BY <1>2, <1>5, <2>1, <3>1, <3>2
  <2>2. CASE k = Len(q) + j /\ v[k] = f[j]
    <3>1. Len(ms) + 1 \in (n + 1)..Len(w)
      BY <1>2
    <3> QED BY <1>2, <1>5, <2>2, <3>1
  <2> QED BY <1>4, <1>6, <2>1, <2>2
<1>7. ASSUME NEW k \in 1..Len(v), NEW l \in 1..Len(v), k < l, v[k].type = "message", v[l].type = "message"
      PROVE  r[k] < r[l]
  <2>1. k \in 1..Len(q) /\ v[k] = q[k]
    <3>1. CASE k = Len(q) + j
      <4>1. ~(l \in 1..Len(q)) /\ l # Len(q) + j
        BY <1>3, <1>7, <3>1
      <4> QED BY <1>4, <1>7, <4>1
    <3> QED BY <1>4, <1>7, <3>1
  <2>2. p[k] \in (n + 1)..Len(ms)
    BY <1>1, <1>7, <2>1 DEF Follows
  <2>3. CASE l \in 1..Len(q) /\ v[l] = q[l]
    <3>1. p[k] < p[l]
      BY <1>1, <1>7, <2>1, <2>3 DEF Follows
    <3> QED BY <1>5, <2>1, <2>3, <3>1
  <2>4. CASE l = Len(q) + j
    BY <1>2, <1>5, <2>1, <2>2, <2>4
  <2> QED BY <1>4, <1>7, <2>3, <2>4
<1>8. ASSUME NEW i \in (n + 1)..Len(w) PROVE \E k \in 1..Len(v) : v[k].type = "message" /\ r[k] = i
  <2>1. CASE i \in (n + 1)..Len(ms)
    <3>1. PICK k \in 1..Len(q) : q[k].type = "message" /\ p[k] = i
      BY <1>1, <2>1 DEF Follows
    <3> QED BY <1>3, <1>5, <3>1
  <2>2. CASE i = Len(ms) + 1
    BY <1>3, <1>5, <2>2
  <2> QED BY <1>2, <2>1, <2>2
<1>9. Follows(r, n, v, w)
  BY <1>6, <1>7, <1>8 DEF Follows
<1> QED BY <1>9 DEF Rest, w

\* When the mailbox is opened, what it holds comes, after the ack.
LEMMA RestOpened ==
  ASSUME NEW q, Quiet(q), NEW ms \in Seq(Event), NEW f, Len(f) = Len(ms) + 1, f[1].type # "message",
         \A k \in 1..Len(ms) : f[1 + k] = MessageOf(ms[k]), NEW v, Joined(q, f, v)
  PROVE  Rest(0, v, ms)
<1> DEFINE r == [k \in 1..Len(v) |-> k - (Len(q) + 1)]
<1>1. /\ Len(ms) \in Nat /\ Len(q) \in Nat /\ Len(v) = Len(q) + Len(f)
  BY DEF Joined
<1>2. ASSUME NEW k \in 1..Len(v), v[k].type = "message"
      PROVE  k - (Len(q) + 1) \in 1..Len(ms) /\ v[k] = f[1 + (k - (Len(q) + 1))]
  <2>1. PICK j \in 1..Len(f) : k = Len(q) + j /\ v[k] = f[j]
    BY <1>2, JoinedElements DEF Quiet
  <2>2. j # 1 /\ 1 + (k - (Len(q) + 1)) = j
    BY <1>1, <1>2, <2>1
  <2> QED BY <1>1, <2>1, <2>2
<1>3. ASSUME NEW i \in 1..Len(ms)
      PROVE  (Len(q) + 1) + i \in 1..Len(v) /\ v[(Len(q) + 1) + i] = f[1 + i] /\ ((Len(q) + 1) + i) - (Len(q) + 1) = i
  <2>1. 1 + i \in 1..Len(f) /\ Len(q) + (1 + i) = (Len(q) + 1) + i
    BY <1>1
  <2>2. v[Len(q) + (1 + i)] = f[1 + i]
    BY <2>1 DEF Joined
  <2> QED BY <1>1, <2>1, <2>2
<1>4. ASSUME NEW i \in 1..Len(ms) PROVE f[1 + i].type = "message" /\ f[1 + i].event = ms[i]
  <2>1. ms[i] \in Event
    OBVIOUS
  <2> QED BY <2>1, Kinds
<1>5. \A k \in 1..Len(v) : r[k] = k - (Len(q) + 1)
  OBVIOUS
<1> HIDE DEF r
<1>6. \A k \in 1..Len(v) : v[k].type = "message" => r[k] \in (0 + 1)..Len(ms) /\ ms[r[k]] = v[k].event
  BY <1>1, <1>2, <1>4, <1>5
<1>7. \A k, l \in 1..Len(v) : k < l => r[k] < r[l]
  BY <1>1, <1>5
<1>8. ASSUME NEW i \in (0 + 1)..Len(ms) PROVE \E k \in 1..Len(v) : v[k].type = "message" /\ r[k] = i
  <2> DEFINE k == (Len(q) + 1) + i
  <2>1. i \in 1..Len(ms)
    OBVIOUS
  <2>2. k \in 1..Len(v) /\ v[k] = f[1 + i] /\ k - (Len(q) + 1) = i
    BY <1>3, <2>1
  <2> HIDE DEF k
  <2>3. v[k].type = "message" /\ r[k] = i
    BY <1>4, <1>5, <2>1, <2>2
  <2> QED BY <2>2, <2>3
<1>9. Follows(r, 0, v, ms)
  BY <1>6, <1>7, <1>8 DEF Follows
<1> QED BY <1>9 DEF Rest

\* The events of a client are the first messages of its mailbox, and the others are on
\* their way, once the mailbox is open on a connection that stands.
StreamOf(es, q, w, o, b, ms) ==
    /\ b # 0 => Prefix(es, ms)
    /\ w = "up" /\ o = 0 => es = <<>> /\ Quiet(q)
    /\ w = "up" /\ o # 0 => Rest(Len(es), q, ms)
Stream(c) == StreamOf(events[c], toClient[c], ws[c], opened[c], mailbox[c], boxes[mailbox[c]].msgs)

\* A prefix of the stored events stays one when an event is stored, and when the next one is taken.
LEMMA PrefixIs ==
  ASSUME NEW es \in Seq(Event), NEW ms \in Seq(Event), NEW e \in Event, Prefix(es, ms)
  PROVE  /\ Prefix(es, Append(ms, e))
         /\ Len(es) + 1 <= Len(ms) /\ e = ms[Len(es) + 1] => Prefix(Append(es, e), ms)
<1>1. /\ Len(es) \in Nat /\ Len(ms) \in Nat
      /\ Len(Append(ms, e)) = Len(ms) + 1 /\ \A k \in 1..Len(ms) : Append(ms, e)[k] = ms[k]
      /\ Len(Append(es, e)) = Len(es) + 1 /\ \A k \in 1..Len(es) : Append(es, e)[k] = es[k]
      /\ Append(es, e)[Len(es) + 1] = e
  OBVIOUS
<1>2. PICK v, w : v = Append(es, e) /\ w = Append(ms, e)
  OBVIOUS
<1>3. Prefix(es, w)
  BY <1>1, <1>2 DEF Prefix
<1>4. ASSUME Len(es) + 1 <= Len(ms), e = ms[Len(es) + 1] PROVE Prefix(v, ms)
  <2>1. \A k \in 1..Len(v) : k \in 1..Len(es) \/ k = Len(es) + 1
    BY <1>1, <1>2
  <2> QED BY <1>1, <1>2, <1>4, <2>1 DEF Prefix
<1> QED BY <1>2, <1>3, <1>4

\* Where nothing of the mailbox is added or taken.
LEMMA StreamKept ==
  ASSUME NEW d \in Client, Stream(d), events[d] \in Seq(Event),
         events'[d] = events[d], opened'[d] = opened[d], mailbox'[d] = mailbox[d],
         ws'[d] = "up" => ws[d] = "up", opened[d] # 0 => mailbox[d] # 0,
         mailbox[d] # 0 => boxes'[mailbox[d]].msgs = boxes[mailbox[d]].msgs,
         NEW v, v = toClient'[d], v = toClient[d] \/ \E f : Quiet(f) /\ Joined(toClient[d], f, v)
  PROVE  Stream(d)'
<1>1. PICK ms : ms = boxes'[mailbox[d]].msgs
  OBVIOUS
<1>2. StreamOf(events[d], toClient[d], ws[d], opened[d], mailbox[d], boxes[mailbox[d]].msgs)
  BY DEF Stream
<1>3. ws[d] = "up" /\ opened[d] = 0 => events[d] = <<>> /\ Quiet(v)
  <2>1. ws[d] = "up" /\ opened[d] = 0 => events[d] = <<>> /\ Quiet(toClient[d])
    BY <1>2 DEF StreamOf
  <2>2. Quiet(toClient[d]) => Quiet(v)
    <3>1. CASE \E f : Quiet(f) /\ Joined(toClient[d], f, v)
      <4>1. PICK f : Quiet(f) /\ Joined(toClient[d], f, v)
        BY <3>1
      <4>2. Mixed(toClient[d], f, v)
        BY <4>1, JoinedFrom
      <4> QED BY <4>1, <4>2 DEF Quiet, Mixed
    <3> QED BY <3>1
  <2> QED BY <2>1, <2>2
<1>4. ws[d] = "up" /\ opened[d] # 0 => Rest(Len(events[d]), v, ms)
  <2> SUFFICES ASSUME ws[d] = "up", opened[d] # 0 PROVE Rest(Len(events[d]), v, ms)
    OBVIOUS
  <2>1. Rest(Len(events[d]), toClient[d], ms) /\ Len(events[d]) \in Nat
    BY <1>1, <1>2 DEF StreamOf
  <2> QED BY <2>1, RestQuiet
<1>5. mailbox[d] # 0 => Prefix(events[d], ms)
  BY <1>1, <1>2 DEF StreamOf
<1>6. PICK w : w = ws'[d]
  OBVIOUS
<1>7. StreamOf(events[d], v, w, opened[d], mailbox[d], ms)
  BY <1>3, <1>4, <1>5, <1>6 DEF StreamOf
<1>8. StreamOf(events'[d], toClient'[d], ws'[d], opened'[d], mailbox'[d], boxes'[mailbox'[d]].msgs)
  BY <1>1, <1>6, <1>7
<1> QED BY <1>8 DEF Stream

\* What was said of the variables of a client, where they are.
LEMMA StreamTypes ==
  ASSUME TypeOK, NEW d \in Client
  PROVE  /\ events[d] \in Seq(Event) /\ toClient[d] \in Seq(Reply \cup Message) /\ mailbox[d] \in 0..Len(boxes)
         /\ mailbox[d] # 0 => mailbox[d] \in 1..Len(boxes) /\ boxes[mailbox[d]].msgs \in Seq(Event)
<1>1. events[d] \in Seq(Event) /\ toClient[d] \in Seq(Reply \cup Message) /\ mailbox[d] \in 0..Len(boxes)
  BY DEF TypeOK
<1>2. mailbox[d] # 0 => mailbox[d] \in 1..Len(boxes)
  BY <1>1
<1> QED BY <1>1, <1>2, RecordedIs

\* A message is added.
LEMMA StreamAdded ==
  ASSUME MeetInv, NEW c \in Client, ServesAdd(c), NewEvent(c) \in Event, MsgAdded(c, NewEvent(c)),
         NEW d \in Client, Stream(d)
  PROVE  Stream(d)'
<1> DEFINE r == Asked(c)
<1> DEFINE e == NewEvent(c)
<1>0. TypeInv /\ TypeOK /\ Opening(c) /\ Opening(d)
  BY DEF MeetInv, TypeInv
<1>1. /\ UNCHANGED <<events, ws, mailbox, opened>> /\ r \in Request
  <2>1. UNCHANGED <<events, ws, mailbox>> /\ r \in Request
    BY <1>0, AskedIs DEF ServesAdd, appVars, recvVars
  <2> QED BY <2>1 DEF ServesAdd, ServeAdd
<1>2. PICK f : /\ Sends(f)
               /\ \A x \in Client \ {c} : IF opened[x] = opened[c] THEN Len(f[x]) = 1 /\ f[x][1] = MessageOf(e)
                                          ELSE Len(f[x]) = 0
               /\ Len(f[c]) = 2 /\ f[c][1] = Ack(r) /\ f[c][2] = MessageOf(e)
  BY <1>0, AddServed DEF ServesAdd, NewEvent
<1>3. /\ e \in Event /\ MessageOf(e).type = "message" /\ MessageOf(e).event = e /\ Ack(r).type = "ack"
      /\ mailbox[c] \in 1..Len(boxes) /\ opened[c] = mailbox[c]
      /\ \A b \in 1..Len(boxes) :
            boxes'[b].msgs = IF b = mailbox[c] THEN Append(boxes[b].msgs, e) ELSE boxes[b].msgs
  BY <1>1, Kinds DEF MsgAdded
<1> HIDE DEF r, e
<1>4. /\ events[d] \in Seq(Event) /\ toClient[d] \in Seq(Reply \cup Message)
      /\ mailbox[d] # 0 => mailbox[d] \in 1..Len(boxes) /\ boxes[mailbox[d]].msgs \in Seq(Event)
  BY <1>0, StreamTypes
<1>5. PICK v : v = toClient'[d]
  OBVIOUS
<1>6. /\ ws[d] # "up" => v = toClient[d]
      /\ ws[d] = "up" => Joined(toClient[d], f[d], v)
  <2>1. ws[d] # "up" => toClient'[d] = toClient[d]
    BY <1>0, <1>2, SendsJoins
  <2>2. ws[d] = "up" => Hears(d, f[d])
    BY <1>0, <1>2, SendsJoins
  <2> QED BY <1>5, <2>1, <2>2 DEF Hears
<1>7. CASE opened[d] # opened[c]
  <2>1. Quiet(f[d]) /\ d # c
    BY <1>2, <1>7 DEF Quiet
  <2>2. CASE ws[d] # "up" /\ mailbox[d] = mailbox[c]
    <3>1. PICK es, ms : es = events[d] /\ ms = boxes[mailbox[d]].msgs
      OBVIOUS
    <3>2. mailbox[d] \in 1..Len(boxes) /\ es \in Seq(Event) /\ ms \in Seq(Event) /\ Prefix(es, ms)
      BY <1>3, <1>4, <2>2, <3>1 DEF Stream, StreamOf
    <3>3. Prefix(es, Append(ms, e)) /\ boxes'[mailbox[d]].msgs = Append(ms, e)
      BY <1>3, <2>2, <3>1, <3>2, PrefixIs
    <3>4. StreamOf(es, v, ws[d], opened[d], mailbox[d], Append(ms, e))
      BY <2>2, <3>3 DEF StreamOf
    <3>5. StreamOf(events'[d], toClient'[d], ws'[d], opened'[d], mailbox'[d], boxes'[mailbox'[d]].msgs)
      BY <1>1, <1>5, <3>1, <3>3, <3>4
    <3> QED BY <3>5 DEF Stream
  <2>3. CASE ws[d] = "up" /\ mailbox[d] = mailbox[c]
    <3>0. opened[d] = 0
      BY <1>0, <1>3, <1>7, <2>3 DEF Opening
    <3>1. PICK ms : ms = boxes'[mailbox[d]].msgs
      OBVIOUS
    <3>2. events[d] = <<>> /\ Quiet(toClient[d])
      BY <2>3, <3>0 DEF Stream, StreamOf
    <3>3. Quiet(v)
      <4>1. Mixed(toClient[d], f[d], v)
        BY <1>6, <2>3, JoinedFrom
      <4> QED BY <2>1, <3>2, <4>1 DEF Mixed, Quiet
    <3>4. Prefix(<<>>, ms)
      <4>1. boxes'[mailbox[d]].msgs = Append(boxes[mailbox[c]].msgs, e) /\ boxes[mailbox[c]].msgs \in Seq(Event)
        BY <1>0, <1>3, <2>3, RecordedIs
      <4>2. ms \in Seq(Event)
        BY <1>3, <3>1, <4>1
      <4>3. Len(ms) \in Nat
        BY <4>2
      <4> QED BY <4>3 DEF Prefix
    <3>5. StreamOf(<<>>, v, ws[d], opened[d], mailbox[d], ms)
      BY <3>0, <3>3, <3>4 DEF StreamOf
    <3>6. StreamOf(events'[d], toClient'[d], ws'[d], opened'[d], mailbox'[d], boxes'[mailbox'[d]].msgs)
      BY <1>1, <1>5, <3>1, <3>2, <3>5
    <3> QED BY <3>6 DEF Stream
  <2>4. CASE mailbox[d] # mailbox[c]
    <3>1. mailbox[d] # 0 => boxes'[mailbox[d]].msgs = boxes[mailbox[d]].msgs
      BY <1>3, <1>4, <2>4
    <3>2. v = toClient[d] \/ \E g : Quiet(g) /\ Joined(toClient[d], g, v)
      BY <1>6, <2>1
    <3>3. opened[d] # 0 => mailbox[d] # 0
      BY <1>0 DEF Opening
    <3> QED BY <1>1, <1>4, <1>5, <3>1, <3>2, <3>3, StreamKept
  <2> QED BY <2>2, <2>3, <2>4
<1>8. CASE opened[d] = opened[c]
  <2>1. mailbox[d] = mailbox[c] /\ opened[d] # 0
    BY <1>0, <1>3, <1>8 DEF Opening
  <2>2. PICK es, ms, q : es = events[d] /\ ms = boxes[mailbox[d]].msgs /\ q = toClient[d]
    OBVIOUS
  <2>3. es \in Seq(Event) /\ ms \in Seq(Event) /\ Prefix(es, ms) /\ (ws[d] = "up" => Rest(Len(es), q, ms))
    BY <1>3, <1>4, <2>1, <2>2 DEF Stream, StreamOf
  <2>4. Prefix(es, Append(ms, e)) /\ boxes'[mailbox[d]].msgs = Append(ms, e)
    BY <1>3, <2>1, <2>2, <2>3, PrefixIs
  <2>5. ws[d] = "up" => Rest(Len(es), v, Append(ms, e))
    <3> SUFFICES ASSUME ws[d] = "up" PROVE Rest(Len(es), v, Append(ms, e))
      OBVIOUS
    <3>1. PICK g : g = f[d]
      OBVIOUS
    <3>2. PICK j : /\ j \in 1..Len(g) /\ g[j] = MessageOf(e)
                   /\ \A k \in 1..Len(g) : k # j => g[k].type # "message"
      <4>1. CASE d = c
        <5>1. Len(g) = 2 /\ g[1].type # "message" /\ g[2] = MessageOf(e)
          BY <1>2, <1>3, <3>1, <4>1
        <5> QED BY <5>1
      <4>2. CASE d # c
        <5>1. Len(g) = 1 /\ g[1] = MessageOf(e)
          BY <1>2, <1>8, <3>1, <4>2
        <5> QED BY <5>1
      <4> QED BY <4>1, <4>2
    <3>3. Joined(q, g, v) /\ Len(es) \in Nat /\ Len(es) <= Len(ms) /\ g[j].type = "message" /\ g[j].event = e
      BY <1>3, <1>6, <2>2, <2>3, <3>1, <3>2 DEF Prefix
    <3> QED BY <1>3, <2>3, <3>2, <3>3, RestAdded
  <2>6. StreamOf(es, v, ws[d], opened[d], mailbox[d], Append(ms, e))
    BY <2>1, <2>4, <2>5 DEF StreamOf
  <2>7. StreamOf(events'[d], toClient'[d], ws'[d], opened'[d], mailbox'[d], boxes'[mailbox'[d]].msgs)
    BY <1>1, <1>5, <2>2, <2>4, <2>6
  <2> QED BY <2>7 DEF Stream
<1> QED BY <1>7, <1>8

\* What is neither an open nor an add is answered without messages.
LEMMA QuietServed ==
  ASSUME TypeInv, NEW c \in Client, Serve(c), ~ServeOpen(c, Asked(c)), ~ServeAdd(c, Asked(c)),
         NEW v, v = toClient'[c]
  PROVE  v = toClient[c] \/ \E f : Quiet(f) /\ Joined(toClient[c], f, v)
<1> DEFINE r == Asked(c)
<1>0. TypeOK /\ r \in Request /\ Ack(r).type = "ack"
  BY AskedIs, Kinds DEF TypeInv
<1>1. ASSUME NEW ms \in Seq(Reply \cup Message), Sends(Answers(c, ms)), Quiet(ms)
      PROVE  v = toClient[c] \/ \E f : Quiet(f) /\ Joined(toClient[c], f, v)
  <2>1. Answers(c, ms)[c] = ms
    BY DEF Answers
  <2>2. ws[c] # "up" => toClient'[c] = toClient[c]
    BY <1>0, <1>1, SendsJoins
  <2>3. ws[c] = "up" => Hears(c, Answers(c, ms)[c])
    BY <1>0, <1>1, SendsJoins
  <2>4. ws[c] = "up" => Hears(c, ms)
    BY <2>1, <2>3
  <2> QED BY <1>1, <2>2, <2>4 DEF Hears
<1>2. CASE ServeBind(c, r) \/ ServeAllocate(c, r) \/ ServeRelease(c, r) \/ ServeClose(c, r)
  <2>1. PICK ms \in Seq(Reply \cup Message) :
            /\ Sends(Answers(c, ms)) /\ Len(ms) \in 1..2 /\ ms[1] = Ack(r)
            /\ Len(ms) = 2 => ms[2].type \in {"allocated", "released", "closed"}
    BY <1>2, PlainServed
  <2>2. \A k \in 1..Len(ms) : k = 1 \/ (k = 2 /\ Len(ms) = 2)
    <3>1. Len(ms) \in 1..2
      BY <2>1
    <3>2. \A n \in 1..2 : \A k \in 1..n : k = 1 \/ (k = 2 /\ n = 2)
      OBVIOUS
    <3> QED BY <3>1, <3>2
  <2> HIDE DEF r
  <2>3. Quiet(ms)
    BY <1>0, <2>1, <2>2 DEF Quiet
  <2> QED BY <1>1, <2>1, <2>3
<1>3. CASE ServeClaim(c, r)
  <2>1. PICK ms \in Seq(Reply \cup Message) :
            /\ Sends(Answers(c, ms)) /\ Len(ms) = 2 /\ ms[1] = Ack(r)
            /\ ms[2] = [type |-> "claimed", box |-> plate'] \/ ms[2] = Plain("error")
    BY <1>3, ClaimServed
  <2>2. ms[2].type # "message"
    BY <2>1 DEF Plain
  <2>3. \A k \in 1..Len(ms) : k = 1 \/ k = 2
    BY <2>1
  <2> HIDE DEF r
  <2>4. Quiet(ms)
    BY <1>0, <2>1, <2>2, <2>3 DEF Quiet
  <2> QED BY <1>1, <2>1, <2>4
<1> QED BY <1>2, <1>3 DEF Serve, Asked

\* By any step, what a client has noted stays part of its mailbox.
LEMMA StreamStep ==
  ASSUME MeetInv, TypeOK', NEW c \in Client, Step(c), OpenOnce(c), NEW d \in Client, Stream(d)
  PROVE  Stream(d)'
<1>0. TypeInv /\ TypeOK /\ Mine(c) /\ Opening(c) /\ Opening(d) /\ Heard(c) /\ Kept
  <2>1. TypeInv /\ Opening(c) /\ Opening(d) /\ Heard(c)
    BY DEF MeetInv
  <2> QED BY <2>1, TypeInvIs, MailboxKept
<1>1. CASE ServesAdd(c)
  BY <1>1, MsgsStep, StreamAdded
<1> SUFFICES ASSUME ~ServesAdd(c) PROVE Stream(d)'
  BY <1>1
<1>2. /\ events[d] \in Seq(Event) /\ toClient[d] \in Seq(Reply \cup Message)
      /\ mailbox[d] # 0 => mailbox[d] \in 1..Len(boxes) /\ boxes[mailbox[d]].msgs \in Seq(Event)
  BY <1>0, StreamTypes
<1>3. mailbox[d] # 0 => boxes'[mailbox[d]].msgs = boxes[mailbox[d]].msgs
  BY <1>2, MsgsStep DEF MsgsKept
<1>4. opened[d] # 0 => mailbox[d] # 0 /\ opened[d] = mailbox[d]
  BY <1>0 DEF Opening
<1>5. PICK v : v = toClient'[d]
  OBVIOUS
<1>6. ASSUME events'[d] = events[d], opened'[d] = opened[d], mailbox'[d] = mailbox[d],
             ws'[d] = "up" => ws[d] = "up", v = toClient[d] \/ \E f : Quiet(f) /\ Joined(toClient[d], f, v)
      PROVE  Stream(d)'
  BY <1>2, <1>3, <1>4, <1>5, <1>6, StreamKept
<1>7. CASE d # c
  <2>1. Same(d)
    BY <1>0, <1>7, Elsewhere
  <2>2. v = toClient[d]
    <3>1. CASE Serve(c)
      <4>1. \E w : toClient' = [toClient EXCEPT ![c] = w]
        BY <3>1, Zenon DEF Serve, Asked, ServesAdd, ServeBind, ServeAllocate, ServeClaim, ServeOpen, ServeRelease, ServeClose,
           Answer
      <4>2. toClient \in [Client -> Seq(Reply \cup Message)]
        BY <1>0 DEF TypeOK
      <4> QED BY <1>5, <1>7, <4>1, <4>2
    <3>2. CASE \E t \in Thread : t[1] = c /\ (Send(t) \/ Register(t) \/ NotFound(t) \/ Read(t) \/ CutOff(t))
      <4>1. UNCHANGED toClient
        BY <1>0, <3>2, ThreadMoves
      <4> QED BY <1>5, <4>1
    <3>3. CASE Dispatch(c) \/ Connect(c)
      <4>1. \E w : toClient' = [toClient EXCEPT ![c] = w]
        BY <3>3 DEF Dispatch, Connect
      <4> QED BY <1>0, <1>5, <1>7, <4>1 DEF TypeOK
    <3>4. CASE \/ ReadEnds(c) \/ LoseConnection(c) \/ StartRecv(c) \/ Scan(c) \/ Notified(c) \/ Deliver(c)
               \/ Meet(c) \/ AddMessage(c) \/ Close(c) \/ HangUp(c)
      BY <1>5, <3>4 DEF ReadEnds, LoseConnection, StartRecv, Scan, Notified, Deliver, Meet, AddMessage, Close, HangUp,
         netVars
    <3> QED BY <3>1, <3>2, <3>3, <3>4 DEF Step
  <2> QED BY <1>6, <2>1, <2>2 DEF Same
<1>8. CASE d = c /\ \E t \in Thread : t[1] = c /\ (Send(t) \/ Register(t) \/ NotFound(t) \/ Read(t) \/ CutOff(t))
  <2>1. Moved(c) /\ UNCHANGED <<events, offset, toClient, boxes, plate, opened>>
    BY <1>0, <1>8, ThreadMoves
  <2>2. ws'[c] = "up" => ws[c] = "up"
    BY <2>1 DEF Moved
  <2>3. CASE mailbox'[c] = mailbox[c]
    BY <1>5, <1>6, <1>8, <2>1, <2>2, <2>3
  <2>4. CASE mailbox[c] = 0
    <3>1. events[c] = <<>>
      <4>1. \A k \in 1..Len(events[c]) : FALSE
        BY <1>0, <2>4 DEF Heard, Noted, FromBox
      <4>2. Len(events[c]) \in Nat
        BY <1>2, <1>8
      <4>3. Len(events[c]) = 0
        BY <4>1, <4>2
      <4> QED BY <1>2, <1>8, <4>3
    <3>2. PICK ms : ms = boxes'[mailbox'[c]].msgs
      OBVIOUS
    <3>3. PICK b : b = mailbox'[c]
      OBVIOUS
    <3>5. b # 0 => Len(ms) \in Nat
      <4>1. boxes' = boxes /\ mailbox'[c] \in 0..Len(boxes')
        BY <1>0, <2>1 DEF TypeOK
      <4>2. Len(boxes) \in Nat
        BY <1>0 DEF TypeOK
      <4>3. b # 0 => b \in 1..Len(boxes)
        BY <3>3, <4>1, <4>2
      <4>4. b # 0 => boxes[b].msgs \in Seq(Event)
        BY <1>0, <4>3, RecordedIs
      <4> QED BY <3>2, <3>3, <4>1, <4>4
    <3>6. b # 0 => Prefix(<<>>, ms)
      BY <3>5 DEF Prefix
    <3>7. opened[c] = 0 /\ (ws[c] = "up" => Quiet(toClient[c]))
      BY <1>4, <1>8, <2>4 DEF Stream, StreamOf
    <3>8. PICK w : w = ws'[c]
      OBVIOUS
    <3>9. StreamOf(<<>>, v, w, 0, b, ms)
      BY <1>5, <1>8, <2>1, <2>2, <3>6, <3>7, <3>8 DEF StreamOf
    <3>10. StreamOf(events'[c], toClient'[c], ws'[c], opened'[c], mailbox'[c], boxes'[mailbox'[c]].msgs)
      BY <1>5, <1>8, <2>1, <3>1, <3>2, <3>3, <3>7, <3>8, <3>9
    <3> QED BY <1>8, <3>10 DEF Stream
  <2> QED BY <2>1, <2>3, <2>4 DEF Moved
<1>9. CASE d = c /\ \/ ReadEnds(c) \/ LoseConnection(c) \/ StartRecv(c) \/ Scan(c) \/ Notified(c) \/ Deliver(c)
                    \/ Meet(c) \/ AddMessage(c) \/ Close(c)
  <2>1. UNCHANGED <<events, opened, mailbox, toClient>> /\ (ws'[c] = "up" => ws[c] = "up")
    BY <1>0, <1>9 DEF ReadEnds, LoseConnection, StartRecv, Scan, Notified, Deliver, Meet, AddMessage, Close, TypeOK,
       appVars, recvVars, netVars, serverVars
  <2> QED BY <1>5, <1>6, <1>9, <2>1
<1>10. CASE d = c /\ HangUp(c)
  <2>1. UNCHANGED <<events, mailbox, toClient, ws, boxes>> /\ ws[c] # "up"
    BY <1>10 DEF HangUp, appVars, recvVars
  <2>2. PICK o : o = opened'[c]
    OBVIOUS
  <2>3. StreamOf(events[c], toClient[c], ws[c], o, mailbox[c], boxes[mailbox[c]].msgs)
    BY <1>10, <2>1 DEF Stream, StreamOf
  <2>4. StreamOf(events'[c], toClient'[c], ws'[c], opened'[c], mailbox'[c], boxes'[mailbox'[c]].msgs)
    BY <2>1, <2>2, <2>3
  <2> QED BY <1>10, <2>4 DEF Stream
<1>11. CASE d = c /\ Connect(c)
  <2>1. /\ phase[c] = "off" /\ UNCHANGED <<events, mailbox, opened, boxes>> /\ toClient'[c] = <<Plain("welcome")>>
    BY <1>0, <1>11 DEF Connect, TypeOK, recvVars, serverVars
  <2>2. events[c] = <<>> /\ opened[c] = 0 /\ mailbox[c] = 0
    BY <1>0, <2>1 DEF Mine, Wired, Claiming, Early
  <2>3. Quiet(<<Plain("welcome")>>)
    BY DEF Quiet, Plain
  <2>4. Quiet(v)
    BY <1>5, <1>11, <2>1, <2>3
  <2>5. PICK w, ms : w = ws'[c] /\ ms = boxes[mailbox[c]].msgs
    OBVIOUS
  <2>6. StreamOf(<<>>, v, w, 0, 0, ms)
    BY <2>4 DEF StreamOf
  <2>7. StreamOf(events'[c], toClient'[c], ws'[c], opened'[c], mailbox'[c], boxes'[mailbox'[c]].msgs)
    BY <1>5, <1>11, <2>1, <2>2, <2>5, <2>6
  <2> QED BY <1>11, <2>7 DEF Stream
<1>12. CASE d = c /\ Dispatch(c)
  <2> DEFINE m == toClient[c][1]
  <2>1. /\ ws[c] = "up" /\ toClient'[c] = Tail(toClient[c])
        /\ Without(toClient[c], 1, Tail(toClient[c])) /\ 1 \in 1..Len(toClient[c])
        /\ UNCHANGED <<appVars, ws, serverVars>>
    BY <1>0, <1>12, Dispatched
  <2>2. \/ m.type = "message" /\ m.event \in Event /\ events'[c] = Append(events[c], m.event)
        \/ m.type # "message" /\ events'[c] = events[c]
    BY <1>0, <1>12, Dispatched
  <2>3. Without(toClient[c], 1, v) /\ UNCHANGED <<ws, mailbox, opened, boxes>>
    BY <1>5, <1>12, <2>1 DEF appVars, serverVars
  <2>4. PICK es, q, ms : es = events[c] /\ q = toClient[c] /\ ms = boxes[mailbox[c]].msgs
    OBVIOUS
  <2>5. StreamOf(es, q, "up", opened[c], mailbox[c], ms) /\ es \in Seq(Event)
    BY <1>2, <1>12, <2>1, <2>4 DEF Stream
  <2>6. CASE opened[c] = 0
    <3>1. m.type # "message" /\ Quiet(v)
      <4>1. Quiet(q)
        BY <2>5, <2>6 DEF StreamOf
      <4>2. Within(v, q)
        BY <2>3, <2>4, WithoutFrom
      <4> QED BY <2>1, <2>4, <4>1, <4>2 DEF Quiet, Within
    <3>2. StreamOf(es, v, "up", opened[c], mailbox[c], ms)
      BY <2>5, <2>6, <3>1 DEF StreamOf
    <3>3. StreamOf(events'[c], toClient'[c], ws'[c], opened'[c], mailbox'[c], boxes'[mailbox'[c]].msgs)
      BY <1>5, <1>12, <2>1, <2>2, <2>3, <2>4, <3>1, <3>2
    <3> QED BY <1>12, <3>3 DEF Stream
  <2>7. CASE opened[c] # 0
    <3>1. ms \in Seq(Event) /\ mailbox[c] # 0
      BY <1>2, <1>4, <1>12, <2>4, <2>7
    <3>2. Prefix(es, ms) /\ Rest(Len(es), q, ms) /\ Len(es) \in Nat /\ Len(ms) \in Nat
      BY <2>5, <2>7, <3>1 DEF StreamOf
    <3>3. CASE m.type # "message" /\ events'[c] = events[c]
      <4>1. Rest(Len(es), v, ms)
        BY <2>3, <2>4, <3>2, <3>3, RestTaken
      <4>2. StreamOf(es, v, "up", opened[c], mailbox[c], ms)
        BY <2>7, <3>2, <4>1 DEF StreamOf
      <4>3. StreamOf(events'[c], toClient'[c], ws'[c], opened'[c], mailbox'[c], boxes'[mailbox'[c]].msgs)
        BY <1>5, <1>12, <2>1, <2>3, <2>4, <3>3, <4>2
      <4> QED BY <1>12, <4>3 DEF Stream
    <3>4. CASE m.type = "message" /\ m.event \in Event /\ events'[c] = Append(events[c], m.event)
      <4> DEFINE e == m.event
      <4>1. Len(es) + 1 <= Len(ms) /\ e = ms[Len(es) + 1] /\ Rest(Len(es) + 1, v, ms)
        BY <2>3, <2>4, <3>2, <3>4, RestTaken
      <4>2. e \in Event /\ Len(Append(es, e)) = Len(es) + 1 /\ events'[c] = Append(es, e)
        BY <2>4, <2>5, <3>4
      <4> HIDE DEF e
      <4>3. Prefix(Append(es, e), ms)
        BY <2>5, <3>1, <3>2, <4>1, <4>2, PrefixIs
      <4>4. PICK w : w = Append(es, e)
        OBVIOUS
      <4>5. StreamOf(w, v, "up", opened[c], mailbox[c], ms)
        BY <2>7, <4>1, <4>2, <4>3, <4>4 DEF StreamOf
      <4>6. StreamOf(events'[c], toClient'[c], ws'[c], opened'[c], mailbox'[c], boxes'[mailbox'[c]].msgs)
        BY <1>5, <1>12, <2>1, <2>3, <2>4, <4>2, <4>4, <4>5
      <4> QED BY <1>12, <4>6 DEF Stream
    <3> QED BY <2>2, <3>3, <3>4
  <2> QED BY <2>6, <2>7
<1>13. CASE d = c /\ Serve(c) /\ ~ServeOpen(c, Asked(c))
  <2>1. UNCHANGED <<events, mailbox, ws>>
    BY <1>13 DEF Serve, appVars, recvVars
  <2>2. ~ServeAdd(c, Asked(c))
    BY <1>13 DEF ServesAdd
  <2>3. UNCHANGED opened
    BY <1>13, <2>2 DEF Serve, Asked, ServeBind, ServeAllocate, ServeClaim, ServeRelease, ServeClose, serverVars
  <2>4. v = toClient[c] \/ \E f : Quiet(f) /\ Joined(toClient[c], f, v)
    BY <1>0, <1>5, <1>13, <2>2, QuietServed
  <2> QED BY <1>6, <1>13, <2>1, <2>3, <2>4
<1>14. CASE d = c /\ Serve(c) /\ ServeOpen(c, Asked(c))
  <2> DEFINE r == Asked(c)
  <2>1. UNCHANGED <<events, mailbox, ws>> /\ r \in Request /\ Ack(r).type = "ack"
    BY <1>0, <1>14, AskedIs, Kinds DEF appVars, recvVars
  <2>2. opened'[c] = mailbox[c] /\ opened[c] = 0 /\ mailbox[c] # 0
    <3>1. /\ toServer[c] \in Seq(Request) /\ r = toServer[c][1] /\ Len(toServer[c]) >= 1
          /\ r.cmd = "open" => r.arg = mailbox[c] /\ mailbox[c] # 0
      BY <1>0, <1>14, AskedIs
    <3>2. r.cmd = "open" /\ opened'[c] = r.arg /\ 1 \in 1..Len(toServer[c])
      BY <1>0, <1>14, <3>1 DEF ServeOpen, TypeOK
    <3> QED BY <3>1, <3>2 DEF OpenOnce
  <2>3. PICK f \in Seq(Reply \cup Message) :
            /\ Sends(Answers(c, f)) /\ Len(f) = Len(boxes[mailbox[c]].msgs) + 1 /\ f[1] = Ack(r)
            /\ \A k \in 1..Len(boxes[mailbox[c]].msgs) : f[1 + k] = MessageOf(boxes[mailbox[c]].msgs[k])
    BY <1>0, <1>14, OpenBrings
  <2>4. PICK ms : ms = boxes[mailbox[c]].msgs
    OBVIOUS
  <2>5. /\ ms \in Seq(Event) /\ boxes'[mailbox[c]].msgs = ms /\ Prefix(events[c], ms)
        /\ Len(f) = Len(ms) + 1 /\ f[1].type # "message" /\ \A k \in 1..Len(ms) : f[1 + k] = MessageOf(ms[k])
    BY <1>2, <1>3, <1>14, <2>1, <2>2, <2>3, <2>4 DEF Stream, StreamOf
  <2>6. ws[c] = "up" => Joined(toClient[c], f, v) /\ events[c] = <<>> /\ Quiet(toClient[c])
    <3>1. Answers(c, f)[c] = f
      BY DEF Answers
    <3>2. ws[c] = "up" => Hears(c, Answers(c, f)[c])
      BY <1>0, <2>3, SendsJoins
    <3>3. ws[c] = "up" => Hears(c, f)
      BY <3>1, <3>2
    <3> QED BY <1>5, <1>14, <2>2, <3>3 DEF Hears, Stream, StreamOf
  <2>7. ws[c] = "up" => Rest(Len(events[c]), v, ms)
    <3>1. ws[c] = "up" => Rest(0, v, ms)
      BY <2>5, <2>6, RestOpened
    <3>2. Len(<<>>) = 0
      OBVIOUS
    <3> QED BY <2>6, <3>1, <3>2
  <2>8. StreamOf(events[c], v, ws[c], mailbox[c], mailbox[c], ms)
    BY <2>2, <2>5, <2>7 DEF StreamOf
  <2>9. StreamOf(events'[c], toClient'[c], ws'[c], opened'[c], mailbox'[c], boxes'[mailbox'[c]].msgs)
    BY <1>5, <1>14, <2>1, <2>2, <2>5, <2>8
  <2> QED BY <1>14, <2>9 DEF Stream
<1> QED BY <1>7, <1>8, <1>9, <1>10, <1>11, <1>12, <1>13, <1>14 DEF Step

-----------------------------------------------------------------------------
(* What the application has got.                                           *)

\* recvMailboxMsgs is past the i-th event, at which its offset may be.
Past(i, o, r) == i <= o /\ (r = "offer" => i # o)

\* The application of c has what the others have sent, up to there, in order.
OrderedOf(c, es, g, o, r) ==
    /\ o <= Len(es)
    /\ \A k \in 1..Len(g) : g[k].side # c /\ g[k].n = k /\ \E i \in 1..Len(es) : es[i] = g[k]
    /\ \A i \in 1..Len(es) : es[i].side # c => (Past(i, o, r) <=> es[i].n <= Len(g))
Ordered(c) == OrderedOf(c, events[c], got[c], offset[c], recv[c])

\* The others are one.
OneSide(c, es) == \A i, j \in 1..Len(es) : es[i].side # c /\ es[j].side # c => es[i].side = es[j].side

\* Another event.
LEMMA OrderedNoted ==
  ASSUME NEW c, NEW es \in Seq(Event), NEW e \in Event, NEW g \in Seq(Event), NEW o \in Nat, NEW r,
         OrderedOf(c, es, g, o, r), NEW v, v = Append(es, e), Numbered(v), OneSide(c, v)
  PROVE  OrderedOf(c, v, g, o, r)
<1>1. /\ Len(es) \in Nat /\ Len(v) = Len(es) + 1 /\ v[Len(es) + 1] = e
      /\ \A k \in 1..Len(es) : v[k] = es[k]
  OBVIOUS
<1>2. \A k \in 1..Len(v) : k \in 1..Len(es) \/ k = Len(es) + 1
  BY <1>1
<1>3. e.n \in 1..Adds /\ Adds \in Nat /\ Len(g) \in Nat
  BY BoundAssumption DEF Event
<1>4. ASSUME e.side # c, e.n <= Len(g) PROVE FALSE
  <2>1. e.n \in 1..Len(g)
    BY <1>3, <1>4
  <2>2. PICK i \in 1..Len(es) : es[i] = g[e.n]
    BY <2>1 DEF OrderedOf
  <2>3. g[e.n].side # c /\ g[e.n].n = e.n
    BY <2>1 DEF OrderedOf
  <2>4. i \in 1..Len(v) /\ Len(es) + 1 \in 1..Len(v) /\ i < Len(es) + 1 /\ v[i] = es[i]
    BY <1>1
  <2>5. v[i].side = v[Len(es) + 1].side
    BY <1>1, <1>4, <2>2, <2>3, <2>4 DEF OneSide
  <2>6. v[i].n < v[Len(es) + 1].n
    BY <2>4, <2>5 DEF Numbered
  <2> QED BY <1>1, <1>3, <2>2, <2>3, <2>4, <2>6
<1>5. ASSUME NEW i \in 1..Len(v), v[i].side # c PROVE Past(i, o, r) <=> v[i].n <= Len(g)
  <2>1. CASE i \in 1..Len(es)
    BY <1>1, <1>5, <2>1 DEF OrderedOf
  <2>2. CASE i = Len(es) + 1
    <3>1. ~Past(i, o, r)
      BY <1>1, <2>2 DEF Past, OrderedOf
    <3> QED BY <1>1, <1>4, <1>5, <2>2, <3>1
  <2> QED BY <1>2, <2>1, <2>2
<1>6. ASSUME NEW k \in 1..Len(g) PROVE \E i \in 1..Len(v) : v[i] = g[k]
  <2>1. PICK i \in 1..Len(es) : es[i] = g[k]
    BY DEF OrderedOf
  <2> QED BY <1>1, <2>1
<1>7. o <= Len(v)
  BY <1>1 DEF OrderedOf
<1> QED BY <1>5, <1>6, <1>7 DEF OrderedOf

\* The event at the offset is taken by the application.
LEMMA OrderedTaken ==
  ASSUME NEW c, NEW es \in Seq(Event), NEW g \in Seq(Event), NEW o \in 1..Len(es),
         OrderedOf(c, es, g, o, "offer"), Numbered(es), OneSide(c, es), es[o].side # c,
         NEW r, r # "offer", NEW v, v = Append(g, es[o])
  PROVE  OrderedOf(c, es, v, o, r)
<1> DEFINE e == es[o]
<1>1. e \in Event
  OBVIOUS
<1>2. /\ Len(g) \in Nat /\ Len(v) = Len(g) + 1 /\ v[Len(g) + 1] = e
      /\ \A k \in 1..Len(g) : v[k] = g[k]
  BY <1>1
<1>3. e.n \in 1..Adds /\ Adds \in Nat
  BY <1>1, BoundAssumption DEF Event
<1>4. \A i \in 1..Len(es) : es[i].n \in Nat
  <2> SUFFICES ASSUME NEW i \in 1..Len(es) PROVE es[i].n \in Nat
    OBVIOUS
  <2>1. es[i] \in Event
    OBVIOUS
  <2> QED BY <2>1, <1>3 DEF Event
<1>5. ~(e.n <= Len(g))
  BY DEF OrderedOf, Past
<1> HIDE DEF e
<1>6. e.n = Len(g) + 1
  <2> SUFFICES ASSUME e.n # Len(g) + 1 PROVE FALSE
    OBVIOUS
  <2>1. Len(g) + 1 \in 1..(e.n - 1)
    BY <1>2, <1>3, <1>5
  <2>2. PICK j \in 1..(o - 1) : es[j] = [side |-> e.side, n |-> Len(g) + 1]
    BY <2>1 DEF Numbered, e
  <2>3. j \in 1..Len(es) /\ j <= o /\ j # o /\ es[j].side # c /\ es[j].n = Len(g) + 1
    BY <2>2 DEF e
  <2>4. Past(j, o, "offer")
    BY <2>3 DEF Past
  <2>5. es[j].n <= Len(g)
    BY <2>3, <2>4 DEF OrderedOf
  <2> QED BY <1>2, <2>3, <2>5
<1>7. ASSUME NEW i \in 1..Len(es), es[i].side # c PROVE Past(i, o, r) <=> es[i].n <= Len(v)
  <2>1. CASE i = o
    BY <1>2, <1>6, <2>1 DEF Past, e
  <2>2. CASE i # o
    <3>1. Past(i, o, r) <=> es[i].n <= Len(g)
      BY <1>7, <2>2 DEF Past, OrderedOf
    <3>2. es[i].side = e.side
      BY <1>7 DEF OneSide, e
    <3>3. es[i].n # e.n
      <4>1. i < o => es[i].n < es[o].n
        BY <3>2 DEF Numbered, e
      <4>2. o < i => es[o].n < es[i].n
        BY <3>2 DEF Numbered, e
      <4> QED BY <1>3, <1>4, <2>2, <4>1, <4>2 DEF e
    <3> QED BY <1>2, <1>4, <1>6, <3>1, <3>3
  <2> QED BY <2>1, <2>2
<1>8. ASSUME NEW k \in 1..Len(v) PROVE v[k].side # c /\ v[k].n = k /\ \E i \in 1..Len(es) : es[i] = v[k]
  <2>1. CASE k \in 1..Len(g)
    BY <1>2, <2>1 DEF OrderedOf
  <2>2. CASE k = Len(g) + 1
    BY <1>2, <1>6, <2>2 DEF e
  <2> QED BY <1>2, <2>1, <2>2
<1> QED BY <1>7, <1>8 DEF OrderedOf

\* The offset goes on to the next event of another, or to the end.
LEMMA OrderedScanned ==
  ASSUME NEW c, NEW es \in Seq(Event), NEW g, NEW o \in Nat, NEW r, r # "offer", OrderedOf(c, es, g, o, r),
         NEW i \in Nat, i <= Len(es), o <= i, NEW x,
         \A k \in 1..Len(es) : k > o /\ es[k].side # c => i <= k /\ x = "offer",
         x = "offer" => i > o
  PROVE  OrderedOf(c, es, g, i, x)
<1>1. ASSUME NEW k \in 1..Len(es), es[k].side # c PROVE Past(k, i, x) <=> Past(k, o, r)
  BY <1>1 DEF Past
<1> QED BY <1>1 DEF OrderedOf

\* The side of what a client hears of, besides its own.
LEMMA NotedOne ==
  ASSUME RoomInv, NEW c \in Client, NEW es \in Seq(Event), Noted(c, es)
  PROVE  OneSide(c, es)
<1> SUFFICES ASSUME NEW i \in 1..Len(es), NEW j \in 1..Len(es), es[i].side # c, es[j].side # c
             PROVE  es[i].side = es[j].side
  BY DEF OneSide
<1>1. es[i] \in Event /\ es[j] \in Event
  OBVIOUS
<1>2. /\ es[i].side \in Client \ {c} /\ es[j].side \in Client \ {c}
      /\ mailbox[c] # 0 /\ mailbox[es[i].side] = mailbox[c] /\ mailbox[es[j].side] = mailbox[c]
  BY <1>1 DEF Noted, FromBox, Event
<1> QED BY <1>2, OnePeer

\* The first events of a numbered mailbox are numbered.
LEMMA PrefixNumbered ==
  ASSUME NEW es \in Seq(Event), NEW ms \in Seq(Event), Prefix(es, ms), Numbered(ms)
  PROVE  Numbered(es)
<1>1. Len(es) \in Nat /\ Len(ms) \in Nat /\ Len(es) <= Len(ms) /\ \A k \in 1..Len(es) : es[k] = ms[k] /\ k \in 1..Len(ms)
  BY DEF Prefix
<1>2. ASSUME NEW k \in 1..Len(es), NEW m \in 1..(es[k].n - 1)
      PROVE  \E j \in 1..(k - 1) : es[j] = [side |-> es[k].side, n |-> m]
  <2>1. PICK j \in 1..(k - 1) : ms[j] = [side |-> ms[k].side, n |-> m]
    BY <1>1 DEF Numbered
  <2>2. j \in 1..Len(es)
    BY <1>1
  <2> QED BY <1>1, <2>1, <2>2
<1>3. ASSUME NEW j \in 1..Len(es), NEW k \in 1..Len(es), j < k, es[j].side = es[k].side PROVE es[j].n < es[k].n
  BY <1>1, <1>3 DEF Numbered
<1> QED BY <1>2, <1>3 DEF Numbered

\* What a step of a thread leaves of recvMailboxMsgs.
LEMMA OfferRests ==
  ASSUME TypeInv, NEW c \in Client, NEW t \in Thread, t[1] = c,
         Send(t) \/ Register(t) \/ NotFound(t) \/ Read(t) \/ CutOff(t)
  PROVE  recv'[c] = recv[c] \/ (recv[c] # "offer" /\ recv'[c] # "offer")
<1>0. TypeOK /\ Mine(c) /\ t \in {App(c), Recv(c)} /\ Idle.at = "idle"
  BY TypeInvIs, ThreadOf, OpStates
<1>1. ASSUME op[t] # Idle, NEW m, Fail(t) \/ Succeed(t, m)
      PROVE  recv'[c] = recv[c] \/ (recv[c] # "offer" /\ recv'[c] # "offer")
  <2>1. CASE t = App(c)
    <3>1. op[App(c)].cmd # "release" /\ op[App(c)].cmd \in AppCmds(phase[c])
      BY <1>0, <1>1, <2>1 DEF Mine, Calling, AppCmds
    <3>2. CASE Fail(App(c))
      BY <1>0, <3>1, <3>2, FailApp
    <3>3. CASE Succeed(App(c), m)
      <4>1. Succeeded(c, m)
        BY <1>0, <3>1, <3>3, SucceedApp
      <4>2. op[App(c)].cmd = "open" => recv[c] = "off"
        BY <1>0, <3>1 DEF AppCmds, Mine, Claiming
      <4> QED BY <4>1, <4>2 DEF Succeeded
    <3> QED BY <1>1, <2>1, <3>2, <3>3
  <2>2. CASE t = Recv(c)
    <3>1. op[Recv(c)].cmd = "release" /\ recv[c] = "release"
      BY <1>0, <1>1, <2>2 DEF Mine, Calling
    <3>2. recv'[c] = "scan"
      BY <1>0, <1>1, <2>2, <3>1, ReleaseEnds
    <3> QED BY <3>1, <3>2
  <2> QED BY <1>0, <2>1, <2>2
<1>2. CASE Register(t) \/ NotFound(t)
  BY <1>2 DEF Register, NotFound, recvVars
<1>3. op[t].at \in {"lock", "ack", "reply"} => op[t] # Idle
  BY <1>0
<1>4. CASE Send(t)
  <2>1. op[t] # Idle /\ (Fail(t) \/ UNCHANGED recv)
    BY <1>3, <1>4 DEF Send
  <2> QED BY <1>1, <2>1
<1>5. CASE CutOff(t)
  <2>1. op[t] # Idle /\ Fail(t)
    BY <1>0, <1>5 DEF CutOff, Mine, Waiting
  <2> QED BY <1>1, <2>1
<1>6. CASE Read(t)
  <2>1. op[t] # Idle /\ (Fail(t) \/ UNCHANGED recv \/ \E m : Succeed(t, m))
    BY <1>3, <1>6 DEF Read
  <2> QED BY <1>1, <2>1
<1> QED BY <1>2, <1>4, <1>5, <1>6

\* By any step, the application has what the others have sent, in order.
LEMMA OrderedStep ==
  ASSUME RoomInv, MeetInv, AllNumbered, NEW c \in Client, Step(c), Stream(c), Stream(c)',
         NEW d \in Client, Ordered(d)
  PROVE  Ordered(d)'
<1>0. /\ TypeInv /\ TypeOK /\ Mine(c) /\ Heard(c) /\ Met(c) /\ events[c] \in Seq(Event) /\ got[c] \in Seq(Event)
      /\ offset[c] \in Nat /\ recv[c] \in {"off", "start", "scan", "offer", "release", "wait"}
  <2>1. TypeInv /\ Heard(c) /\ Met(c)
    BY DEF MeetInv
  <2>2. TypeOK /\ Mine(c)
    BY <2>1, TypeInvIs
  <2>3. /\ events[c] \in Seq(Event) /\ got[c] \in Seq(Event)
        /\ offset[c] \in Nat /\ recv[c] \in {"off", "start", "scan", "offer", "release", "wait"}
    BY <2>2 DEF TypeOK
  <2> QED BY <2>1, <2>2, <2>3
<1>1. PICK es, g, o, r : es = events'[d] /\ g = got'[d] /\ o = offset'[d] /\ r = recv'[d]
  OBVIOUS
<1>2. ASSUME OrderedOf(d, es, g, o, r) PROVE Ordered(d)'
  <2>1. OrderedOf(d, events'[d], got'[d], offset'[d], recv'[d])
    BY <1>1, <1>2
  <2> QED BY <2>1 DEF Ordered
<1>3. OrderedOf(d, events[d], got[d], offset[d], recv[d])
  BY DEF Ordered
<1>4. ASSUME es = events[d], g = got[d], o = offset[d], r = recv[d] \/ (recv[d] # "offer" /\ r # "offer")
      PROVE  Ordered(d)'
  <2>1. OrderedOf(d, es, g, o, r)
    BY <1>3, <1>4 DEF OrderedOf, Past
  <2> QED BY <1>2, <2>1
<1>5. CASE d # c
  <2>1. Same(d)
    BY <1>0, <1>5, Elsewhere
  <2> QED BY <1>1, <1>4, <2>1 DEF Same
<1>6. CASE d = c /\ \E t \in Thread : t[1] = c /\ (Send(t) \/ Register(t) \/ NotFound(t) \/ Read(t) \/ CutOff(t))
  <2>1. PICK t \in Thread : t[1] = c /\ (Send(t) \/ Register(t) \/ NotFound(t) \/ Read(t) \/ CutOff(t))
    BY <1>6
  <2>2. got'[c] = got[c] /\ UNCHANGED <<events, offset>>
    BY <1>0, <2>1, ThreadMoves DEF Moved
  <2>3. recv'[c] = recv[c] \/ (recv[c] # "offer" /\ recv'[c] # "offer")
    BY <1>0, <2>1, OfferRests
  <2> QED BY <1>1, <1>4, <1>6, <2>2, <2>3
<1>7. CASE d = c /\ \/ ReadEnds(c) \/ LoseConnection(c) \/ StartRecv(c) \/ Notified(c)
                    \/ Connect(c) \/ Meet(c) \/ AddMessage(c) \/ Close(c) \/ Serve(c) \/ HangUp(c)
  <2>1. UNCHANGED <<events, got, offset>>
    BY <1>7 DEF ReadEnds, LoseConnection, StartRecv, Notified, Connect, Meet, AddMessage, Close, Serve, HangUp,
       appVars, recvVars
  <2>2. recv'[c] = recv[c] \/ (recv[c] # "offer" /\ recv'[c] # "offer")
    <3>1. CASE StartRecv(c) \/ Notified(c)
      <4>1. recv[c] # "offer" /\ \E x \in {"scan"} : recv' = [recv EXCEPT ![c] = x]
        BY <3>1 DEF StartRecv, Notified
      <4> QED BY <1>0, <4>1 DEF TypeOK
    <3>2. CASE \/ ReadEnds(c) \/ LoseConnection(c) \/ Connect(c) \/ Meet(c) \/ AddMessage(c) \/ Close(c)
               \/ Serve(c) \/ HangUp(c)
      BY <3>2 DEF ReadEnds, LoseConnection, Connect, Meet, AddMessage, Close, Serve, HangUp, recvVars
    <3> QED BY <1>7, <3>1, <3>2
  <2> QED BY <1>1, <1>4, <1>7, <2>1, <2>2
<1>8. ASSUME events[c] # <<>> PROVE Numbered(events[c])
  <2>1. mailbox[c] # 0
    <3>1. 1 \in 1..Len(events[c])
      BY <1>0, <1>8
    <3> QED BY <1>0, <3>1 DEF Heard, Noted, FromBox
  <2>2. mailbox[c] \in 1..Len(boxes) /\ boxes[mailbox[c]].msgs \in Seq(Event)
    BY <1>0, <2>1, StreamTypes
  <2>3. Prefix(events[c], boxes[mailbox[c]].msgs) /\ Numbered(boxes[mailbox[c]].msgs)
    BY <2>1, <2>2 DEF Stream, StreamOf, AllNumbered
  <2> QED BY <1>0, <2>2, <2>3, PrefixNumbered
<1>9. CASE d = c /\ Scan(c)
  <2> DEFINE S == Theirs(c)
  <2>1. /\ recv[c] = "scan" /\ es = events[c] /\ g = got[c]
        /\ \/ S # {} /\ o = Min(S) /\ r = "offer"
           \/ S = {} /\ o = Len(events[c]) /\ r = "wait"
    <3>1. /\ recv[c] = "scan" /\ UNCHANGED <<events, got>>
          /\ \/ S # {} /\ offset' = [offset EXCEPT ![c] = Min(S)] /\ recv' = [recv EXCEPT ![c] = "offer"]
             \/ S = {} /\ offset' = [offset EXCEPT ![c] = Len(events[c])] /\ recv' = [recv EXCEPT ![c] = "wait"]
      BY <1>9 DEF Scan, Theirs, appVars
    <3>2. /\ offset \in [Client -> Nat]
          /\ recv \in [Client -> {"off", "start", "scan", "offer", "release", "wait"}]
      BY <1>0 DEF TypeOK
    <3> HIDE DEF S
    <3> QED BY <1>1, <1>9, <3>1, <3>2
  <2>2. \A k \in 1..Len(events[c]) : k > offset[c] /\ events[c][k].side # c => k \in S
    BY <1>0 DEF Theirs
  <2>3. \A k \in S : k \in 1..Len(events[c]) /\ k > offset[c]
    BY <1>0 DEF Theirs
  <2>4. S # {} => Min(S) \in S /\ \A k \in S : Min(S) <= k
    <3>1. S \in SUBSET Nat
      BY <1>0, <2>3
    <3> HIDE DEF S
    <3> QED BY <3>1, MinIs
  <2>5. OrderedOf(c, events[c], got[c], offset[c], "scan") /\ Len(events[c]) \in Nat /\ offset[c] <= Len(events[c])
    BY <1>0, <1>3, <1>9, <2>1 DEF OrderedOf
  <2> HIDE DEF S
  <2>6. CASE S # {} /\ o = Min(S) /\ r = "offer"
    <3>1. o \in Nat /\ o <= Len(events[c]) /\ offset[c] <= o /\ o > offset[c]
      BY <1>0, <2>3, <2>4, <2>5, <2>6
    <3>2. \A k \in 1..Len(events[c]) : k > offset[c] /\ events[c][k].side # c => o <= k /\ r = "offer"
      BY <2>2, <2>4, <2>6
    <3>3. OrderedOf(c, events[c], got[c], o, r)
      BY <1>0, <2>5, <3>1, <3>2, OrderedScanned
    <3> QED BY <1>2, <1>9, <2>1, <3>3
  <2>7. CASE S = {} /\ o = Len(events[c]) /\ r = "wait"
    <3>1. \A k \in 1..Len(events[c]) : k > offset[c] /\ events[c][k].side # c => FALSE
      BY <2>2, <2>7
    <3>2. OrderedOf(c, events[c], got[c], o, r)
      BY <1>0, <2>5, <2>7, <3>1, OrderedScanned
    <3> QED BY <1>2, <1>9, <2>1, <3>2
  <2> QED BY <2>1, <2>6, <2>7
<1>10. CASE d = c /\ Deliver(c)
  <2>1. /\ recv[c] = "offer" /\ es = events[c] /\ o = offset[c] /\ offset[c] \in 1..Len(events[c])
        /\ g = Append(got[c], events[c][offset[c]]) /\ r \in {"release", "scan"} /\ events[c][offset[c]].side # c
    <3>1. recv[c] = "offer" /\ UNCHANGED <<events, offset>>
      BY <1>10 DEF Deliver
    <3>2. got'[c] = Append(got[c], events[c][offset[c]])
      BY <1>0, <1>10 DEF Deliver, TypeOK
    <3>3. recv'[c] \in {"release", "scan"}
      BY <1>0, <1>10 DEF Deliver, TypeOK
    <3>4. offset[c] \in 1..Len(events[c]) /\ events[c][offset[c]].side # c
      BY <1>0, <3>1 DEF Mine, Claiming, Met
    <3> QED BY <1>1, <1>10, <3>1, <3>2, <3>3, <3>4
  <2>2. events[c] # <<>>
    BY <1>0, <2>1
  <2>3. Numbered(events[c]) /\ OneSide(c, events[c])
    BY <1>0, <1>8, <2>2, NotedOne DEF Heard
  <2>4. OrderedOf(c, events[c], got[c], offset[c], "offer")
    BY <1>3, <1>10, <2>1
  <2>5. OrderedOf(c, events[c], g, offset[c], r)
    BY <1>0, <2>1, <2>3, <2>4, OrderedTaken
  <2> QED BY <1>2, <1>10, <2>1, <2>5
<1>11. CASE d = c /\ Dispatch(c)
  <2> DEFINE m == toClient[c][1]
  <2>1. /\ 1 \in 1..Len(toClient[c]) /\ g = got[c] /\ o = offset[c] /\ r = recv[c] /\ UNCHANGED <<mailbox, boxes>>
    <3>1. 1 \in 1..Len(toClient[c]) /\ UNCHANGED <<appVars, recv, offset, serverVars>>
      BY <1>0, <1>11, Dispatched
    <3> QED BY <1>1, <1>11, <3>1 DEF appVars, serverVars
  <2>2. \/ m.type = "message" /\ m.event \in Event /\ es = Append(events[c], m.event)
        \/ es = events[c]
    BY <1>0, <1>1, <1>11, Dispatched
  <2>3. CASE es = events[c]
    BY <1>4, <1>11, <2>1, <2>3
  <2>4. CASE m.type = "message" /\ m.event \in Event /\ es = Append(events[c], m.event)
    <3> DEFINE e == m.event
    <3>1. e \in Event /\ FromBox(c, e) /\ es = Append(events[c], e)
      BY <1>0, <2>1, <2>4 DEF Heard, Coming
    <3> HIDE DEF e
    <3>2. /\ es \in Seq(Event) /\ Len(events[c]) \in Nat /\ Len(es) = Len(events[c]) + 1 /\ es[Len(events[c]) + 1] = e
          /\ \A k \in 1..Len(events[c]) : es[k] = events[c][k]
      BY <1>0, <3>1
    <3>3. Noted(c, es)
      <4>1. \A k \in 1..Len(es) : k \in 1..Len(events[c]) \/ k = Len(events[c]) + 1
        BY <3>2
      <4> QED BY <1>0, <3>1, <3>2, <4>1 DEF Heard, Noted
    <3>4. OneSide(c, es)
      BY <3>2, <3>3, NotedOne
    <3>5. mailbox[c] # 0 /\ mailbox[c] \in 1..Len(boxes) /\ boxes[mailbox[c]].msgs \in Seq(Event)
      BY <1>0, <3>1, StreamTypes DEF FromBox
    <3>6. PICK q, w, x : q = toClient'[c] /\ w = ws'[c] /\ x = opened'[c]
      OBVIOUS
    <3>7. StreamOf(events'[c], toClient'[c], ws'[c], opened'[c], mailbox'[c], boxes'[mailbox'[c]].msgs)
      BY DEF Stream
    <3>8. StreamOf(es, q, w, x, mailbox[c], boxes[mailbox[c]].msgs)
      BY <1>1, <1>11, <2>1, <3>6, <3>7
    <3>9. Prefix(es, boxes[mailbox[c]].msgs) /\ Numbered(boxes[mailbox[c]].msgs)
      BY <3>5, <3>8 DEF StreamOf, AllNumbered
    <3>10. Numbered(es)
      BY <3>2, <3>5, <3>9, PrefixNumbered
    <3>11. OrderedOf(c, es, got[c], offset[c], recv[c])
      BY <1>0, <1>3, <1>11, <3>1, <3>4, <3>10, OrderedNoted
    <3> QED BY <1>2, <1>11, <2>1, <3>11
  <2> QED BY <2>2, <2>3, <2>4
<1> QED BY <1>5, <1>6, <1>7, <1>9, <1>10, <1>11 DEF Step

-----------------------------------------------------------------------------
(* The invariant of what is received.                                      *)

InOrderInv ==
    /\ RoomInv /\ AckInv /\ MeetInv /\ AllNumbered
    /\ \A c \in Client : Owned(c) /\ OpenOnce(c) /\ Counted(c) /\ Stream(c) /\ Ordered(c)

\* It is inductive.
LEMMA InOrderInvStep ==
  ASSUME InOrderInv, [Next]_vars
  PROVE  InOrderInv'
<1>0. /\ RoomInv /\ AckInv /\ MeetInv /\ AllNumbered /\ TypeInv /\ TypeOK
      /\ \A c \in Client : Owned(c) /\ OpenOnce(c) /\ Counted(c) /\ Stream(c) /\ Ordered(c)
  BY DEF InOrderInv, RoomInv, TypeInv
<1>1. RoomInv' /\ AckInv' /\ MeetInv'
  BY <1>0, RoomInvStep, AckInvStep, MeetInvStep
<1>2. TypeOK'
  BY <1>0, StepType
<1>3. CASE \E c \in Client : Step(c) /\ UNCHANGED cancelled
  <2>1. PICK c \in Client : Step(c)
    BY <1>3
  <2>2. AllNumbered'
    BY <1>0, <2>1, NumberedStep
  <2>3. Stream(c)'
    BY <1>0, <1>2, <2>1, StreamStep
  <2>4. ASSUME NEW d \in Client PROVE (Owned(d) /\ OpenOnce(d) /\ Counted(d) /\ Stream(d) /\ Ordered(d))'
    <3>1. Owned(d)'
      BY <1>0, <2>1, OwnedStep
    <3>2. OpenOnce(d)'
      BY <1>0, <2>1, OpenOnceStep
    <3>3. Counted(d)'
      BY <1>0, <2>1, CountedStep
    <3>4. Stream(d)'
      BY <1>0, <1>2, <2>1, StreamStep
    <3>5. Ordered(d)'
      BY <1>0, <2>1, <2>3, OrderedStep
    <3> QED BY <3>1, <3>2, <3>3, <3>4, <3>5
  <2> QED BY <1>1, <2>2, <2>4 DEF InOrderInv
<1>4. CASE (\E c \in Client : Cancel(c)) \/ UNCHANGED vars
  <2>1. /\ UNCHANGED <<appVars, cmdVars, recvVars, netVars, serverVars>>
    BY <1>4, StillSame
  <2>2. AllNumbered'
    BY <1>0, <2>1 DEF AllNumbered, Numbered, serverVars
  <2>3. ASSUME NEW d \in Client PROVE (Owned(d) /\ OpenOnce(d) /\ Counted(d) /\ Stream(d) /\ Ordered(d))'
    <3>0. /\ UNCHANGED <<phase, added, got, mailbox, op, pending, events, recv, offset, ws, toServer, toClient, boxes, opened>>
      BY <2>1 DEF appVars, cmdVars, recvVars, netVars, serverVars
    <3>1. Owned(d)'
      BY <1>0, <3>0 DEF Owned, AppAsks, AppAcks
    <3>2. OpenOnce(d)'
      BY <1>0, <3>0 DEF OpenOnce, Once
    <3>3. Counted(d)'
      <4>1. StoredBy(d)' = StoredBy(d)
        BY <3>0 DEF StoredBy, Stored
      <4>2. FewerAdds(toServer[d], toServer[d])
        BY DEF FewerAdds
      <4>3. PICK q : q = toServer[d]
        OBVIOUS
      <4> QED BY <1>0, <3>0, <4>1, <4>2, <4>3, CountedKept
    <3>4. Stream(d)'
      <4>1. StreamOf(events'[d], toClient'[d], ws'[d], opened'[d], mailbox'[d], boxes'[mailbox'[d]].msgs)
        BY <1>0, <3>0 DEF Stream
      <4> QED BY <4>1 DEF Stream
    <3>5. Ordered(d)'
      <4>1. OrderedOf(d, events'[d], got'[d], offset'[d], recv'[d])
        BY <1>0, <3>0 DEF Ordered
      <4> QED BY <4>1 DEF Ordered
    <3> QED BY <3>1, <3>2, <3>3, <3>4, <3>5
  <2> QED BY <1>1, <2>2, <2>3 DEF InOrderInv
<1> QED BY <1>3, <1>4, NextStep

\* It holds at first.
LEMMA InOrderInvInit ==
  ASSUME Init
  PROVE  InOrderInv
<1>1. RoomInv /\ AckInv /\ MeetInv
  BY RoomInvInit, AckInvInit, MeetInvInit
<1>2. \A b \in 1..Len(boxes) : boxes[b].msgs = <<>>
  <2>1. CASE boxes = <<>>
    BY <2>1
  <2>2. CASE \E n \in Others \ {0} : boxes = <<[claims |-> n, msgs |-> <<>>]>>
    <3>1. PICK n \in Others \ {0} : boxes = <<[claims |-> n, msgs |-> <<>>]>>
      BY <2>2
    <3> DEFINE x == [claims |-> n, msgs |-> <<>>]
    <3>2. x.msgs = <<>> /\ boxes = <<x>>
      BY <3>1
    <3> HIDE DEF x
    <3>3. \A b \in 1..Len(boxes) : boxes[b] = x
      BY <3>2
    <3> QED BY <3>2, <3>3
  <2> QED BY <2>1, <2>2 DEF Init
<1>3. AllNumbered
  BY <1>2 DEF AllNumbered, Numbered
<1>4. ASSUME NEW c \in Client PROVE Owned(c) /\ OpenOnce(c) /\ Counted(c) /\ Stream(c) /\ Ordered(c)
  <2>1. /\ opened[c] = 0 /\ toServer[c] = <<>> /\ toClient[c] = <<>> /\ pending[c] = <<>> /\ ws[c] = "nil"
        /\ events[c] = <<>> /\ recv[c] = "off" /\ got[c] = <<>> /\ mailbox[c] = 0 /\ added[c] = 0
        /\ phase[c] = "off" /\ offset[c] = 0
    BY DEF Init
  <2>2. Owned(c) /\ OpenOnce(c)
    BY <2>1 DEF Owned, AppAsks, AppAcks, OpenOnce, Once
  <2>3. StoredBy(c) = {}
    BY <1>2 DEF StoredBy, Stored
  <2>4. Counted(c)
    BY <2>1, <2>3 DEF Counted, Done, Adding
  <2>5. Stream(c)
    BY <2>1 DEF Stream, StreamOf
  <2>6. Ordered(c)
    BY <2>1 DEF Ordered, OrderedOf
  <2> QED BY <2>2, <2>4, <2>5, <2>6
<1> QED BY <1>1, <1>3, <1>4 DEF InOrderInv

\* What it says of the application of a client.
LEMMA InOrderIs ==
  ASSUME InOrderInv
  PROVE  InOrderOnce
<1> SUFFICES ASSUME NEW c \in Client, got[c] # <<>>
             PROVE  \E d \in Client \ {c} : /\ mailbox[d] = mailbox[c] /\ Len(got[c]) <= added[d]
                                            /\ \A k \in DOMAIN got[c] : got[c][k] = [side |-> d, n |-> k]
  BY DEF InOrderOnce
<1>0. /\ RoomInv /\ MeetInv /\ TypeInv /\ TypeOK /\ Heard(c) /\ Stream(c) /\ Ordered(c)
      /\ \A d \in Client : Counted(d)
  BY DEF InOrderInv, MeetInv, TypeInv
<1>1. PICK es, g : es = events[c] /\ g = got[c]
  OBVIOUS
<1>2. es \in Seq(Event) /\ g \in Seq(Event) /\ g # <<>> /\ Noted(c, es) /\ OneSide(c, es)
  <2>1. es \in Seq(Event) /\ g \in Seq(Event)
    BY <1>0, <1>1 DEF TypeOK
  <2> QED BY <1>0, <1>1, <2>1, NotedOne DEF Heard
<1>3. Len(g) \in Nat /\ Len(g) >= 1 /\ DOMAIN g = 1..Len(g) /\ Len(g) \in 1..Len(g) /\ 1 \in 1..Len(g)
  BY <1>2
<1>4. \A k \in 1..Len(g) : g[k].side # c /\ g[k].n = k /\ \E i \in 1..Len(es) : es[i] = g[k]
  BY <1>0, <1>1 DEF Ordered, OrderedOf
<1>5. \A k \in 1..Len(g) : g[k] \in Event
  BY <1>2
<1> DEFINE d == g[1].side
<1>6. d \in Client \ {c} /\ mailbox[c] # 0 /\ mailbox[d] = mailbox[c]
  BY <1>2, <1>3, <1>4, <1>5 DEF Noted, FromBox, Event
<1>7. ASSUME NEW k \in 1..Len(g) PROVE g[k] = [side |-> d, n |-> k]
  <2>1. g[k].side = d
    BY <1>2, <1>3, <1>4 DEF OneSide
  <2>2. g[k] = [side |-> g[k].side, n |-> g[k].n]
    BY <1>5 DEF Event
  <2> QED BY <1>4, <2>1, <2>2
<1> HIDE DEF d
<1>8. Len(g) \in StoredBy(d)
  <2>1. PICK i \in 1..Len(es) : es[i] = [side |-> d, n |-> Len(g)]
    BY <1>3, <1>4, <1>7
  <2>2. mailbox[c] \in 1..Len(boxes) /\ boxes[mailbox[c]].msgs \in Seq(Event)
    BY <1>0, <1>6, StreamTypes
  <2>3. Prefix(es, boxes[mailbox[c]].msgs)
    BY <1>0, <1>1, <1>6 DEF Stream, StreamOf
  <2>4. i \in 1..Len(boxes[mailbox[c]].msgs) /\ boxes[mailbox[c]].msgs[i] = es[i]
    <3>1. Len(es) \in Nat /\ Len(boxes[mailbox[c]].msgs) \in Nat
      BY <1>2, <2>2
    <3> QED BY <2>3, <3>1 DEF Prefix
  <2>5. Stored(d, Len(g))
    BY <2>1, <2>2, <2>4 DEF Stored
  <2>6. Len(g) \in 1..Adds
    <3>1. g[Len(g)].n \in 1..Adds
      BY <1>3, <1>5 DEF Event
    <3> QED BY <1>3, <1>4, <3>1
  <2> QED BY <2>5, <2>6 DEF StoredBy
<1>9. Len(g) <= added[d]
  <2>1. added[d] \in Nat
    BY <1>0, <1>6, BoundAssumption DEF TypeOK
  <2>2. StoredBy(d) = 1..added[d] \/ StoredBy(d) = 1..(added[d] - 1)
    BY <1>0, <1>6 DEF Counted, Done, Due
  <2> QED BY <1>3, <1>8, <2>1, <2>2
<1> QED BY <1>1, <1>3, <1>6, <1>7, <1>9

\* The application gets what the one other side of its mailbox added, from the first
\* message on, in order and each once: at most two claim a mailbox, the server keeps each
\* side's messages in the order of their numbers, and what a client has noted is the
\* beginning of its mailbox, the rest being on its way, whether it was there when the
\* mailbox was opened or came after; recvMailboxMsgs offers what it has noted of the other
\* side, and passes over none.
THEOREM ReceivedInOrderOnce == Spec => []InOrderOnce
<1>1. Init => InOrderInv
  BY InOrderInvInit
<1>2. InOrderInv /\ [Next]_vars => InOrderInv'
  BY InOrderInvStep
<1>3. InOrderInv => InOrderOnce
  BY InOrderIs
<1> QED BY <1>1, <1>2, <1>3, PTL DEF Spec
=============================================================================
