------------------------------- MODULE Rendezvous -------------------------------
(***************************************************************************)
(* rendezvous/client.go against the server of rendezvousservertest: the    *)
(* clients meet in the mailbox of one nameplate.  A client has three       *)
(* goroutines: its application (Connect, CreateMailbox or AttachMailbox,   *)
(* AddMessage, Close), recvMailboxMsgs behind MsgChan, which also releases *)
(* the nameplate, and readMessages, the dispatcher of the connection.      *)
(*                                                                         *)
(* The application and recvMailboxMsgs are Threads that send commands: one *)
(* at a time goes through sendAndWait under sendCmdMu, and every reply is  *)
(* searched by type in pendingMsgs, woken through a one-slot channel.      *)
(***************************************************************************)
EXTENDS Naturals, Sequences, FiniteSets, SequencesExt

CONSTANTS
    Creators,     \* clients that CreateMailbox: none or one
    Joiners,      \* clients that AttachMailbox
    Adds,         \* bound: messages the clients add, all together
    CloseAfter,   \* how many messages the application has received when it may Close
    Others,       \* how many other clients may have claimed the nameplate before
    Breaks,       \* clients whose connection to the server may break
    Cancels       \* clients whose context, the same for all of their calls, may end

Client == Creators \cup Joiners

ASSUME ClientsAssumption == /\ IsFiniteSet(Creators) /\ Cardinality(Creators) <= 1
                            /\ IsFiniteSet(Joiners)
                            /\ Creators \cap Joiners = {}
ASSUME BoundAssumption == /\ Adds \in Nat
                          /\ CloseAfter \subseteq Nat
                          /\ Breaks \subseteq Client
                          /\ Cancels \subseteq Client

\* CreateMailbox is given a nameplate nobody uses.
ASSUME OthersAssumption == /\ Others \subseteq 0..2
                           /\ Creators # {} => Others = {0}

Thread == Client \X {"app", "recv"}
App(c) == <<c, "app">>
Recv(c) == <<c, "recv">>

\* "connect" stands for the wait for the server's welcome.
Command == {"connect", "bind", "allocate", "claim", "open", "add", "release", "close"}

\* What sendAndWait's caller reads after the ack.
Awaits == [connect |-> "welcome", allocate |-> "allocated", claim |-> "claimed",
           release |-> "released", close |-> "closed"]

\* A message of a mailbox: the n-th that its side added.
Event == [side: Client, n: 1..Adds]

\* What the server sends.  An ack names the command it is for; its ID is two
\* random bytes in the code, taken here to be different for each command.
Reply == [type: {"welcome", "allocated", "released", "closed", "error"}]
           \cup [type: {"claimed"}, box: Nat]
           \cup [type: {"ack"}, thread: Thread, cmd: Command]
Message == [type: {"message"}, event: Event]

\* What a client sends; arg is the mailbox to open, or the number of the message.
Request == [thread: Thread, cmd: Command, arg: Nat]

Ack(r) == [type |-> "ack", thread |-> r.thread, cmd |-> r.cmd]
Plain(type) == [type |-> type]
MessageOf(e) == [type |-> "message", event |-> e]

VARIABLES
    phase,      \* [Client -> ..] where the application is
    op,         \* [Thread -> ..] the command in hand: before the lock, before the
                \* ack, before the reply
    waiter,     \* [Thread -> ..] its entry in pendingMsgWaiters: "none", or the slot
    locked,     \* [Client -> BOOLEAN] sendCmdMu
    ws,         \* [Client -> ..] wsClient: "up", "lost", or "nil": before Connect, after Close
    pending,    \* [Client -> Seq(Reply)] pendingMsgs
    events,     \* [Client -> Seq(Event)] mailboxMsgs
    recv,       \* [Client -> ..] recvMailboxMsgs
    offset,     \* [Client -> Nat] its nextOffset
    bell,       \* [Client -> ..] its entry in pendingMailboxWaiters
    claimed,    \* [Client -> BOOLEAN] nameplate # ""
    mailbox,    \* [Client -> Nat] mailboxID, 0 before the nameplate is claimed
    added,      \* [Client -> Nat] AddMessage calls begun
    got,        \* [Client -> Seq(Event)] what the application took from MsgChan
    cancelled,  \* set of Client whose context has ended
    crashed,    \* set of Client that wrote through a nil wsClient
    toServer,   \* [Client -> Seq(Request)] the connection, client to server
    toClient,   \* [Client -> Seq(Reply \cup Message)] and back
    boxes,      \* Seq([claims, msgs]) the server's mailboxes
    plate,      \* Nat the mailbox of the nameplate, 0 if it has none
    opened      \* [Client -> Nat] the mailbox its connection has open, 0 if none

appVars == <<phase, added, got, claimed, mailbox>>
cmdVars == <<op, waiter, locked, pending>>
recvVars == <<events, recv, offset, bell>>
netVars == <<ws, toServer, toClient>>
serverVars == <<boxes, plate, opened>>
vars == <<appVars, cmdVars, recvVars, netVars, serverVars, cancelled, crashed>>

Phase == {"off", "connect", "bound", "meet", "talk", "closing", "closed", "failed"}
Idle == [at |-> "idle"]
OpState == {Idle} \cup [at: {"lock", "ack", "reply"}, cmd: Command]

TypeOK ==
    /\ phase \in [Client -> Phase]
    /\ op \in [Thread -> OpState]
    /\ waiter \in [Thread -> {"none", "empty", "full"}]
    /\ locked \in [Client -> BOOLEAN]
    /\ ws \in [Client -> {"up", "lost", "nil"}]
    /\ pending \in [Client -> Seq(Reply)]
    /\ events \in [Client -> Seq(Event)]
    /\ recv \in [Client -> {"off", "start", "scan", "offer", "release", "wait"}]
    /\ offset \in [Client -> Nat]
    /\ bell \in [Client -> {"none", "empty", "full"}]
    /\ claimed \in [Client -> BOOLEAN]
    /\ mailbox \in [Client -> 0..Len(boxes)]
    /\ added \in [Client -> 0..Adds]
    /\ got \in [Client -> Seq(Event)]
    /\ cancelled \subseteq Cancels
    /\ crashed \subseteq Client
    /\ toServer \in [Client -> Seq(Request)]
    /\ toClient \in [Client -> Seq(Reply \cup Message)]
    /\ boxes \in Seq([claims: Nat, msgs: Seq(Event)])
    /\ plate \in 0..Len(boxes)
    /\ opened \in [Client -> 0..Len(boxes)]

Init ==
    /\ phase = [c \in Client |-> "off"]
    /\ op = [t \in Thread |-> Idle]
    /\ waiter = [t \in Thread |-> "none"]
    /\ locked = [c \in Client |-> FALSE]
    /\ ws = [c \in Client |-> "nil"]
    /\ pending = [c \in Client |-> <<>>]
    /\ events = [c \in Client |-> <<>>]
    /\ recv = [c \in Client |-> "off"]
    /\ offset = [c \in Client |-> 0]
    /\ bell = [c \in Client |-> "none"]
    /\ claimed = [c \in Client |-> FALSE]
    /\ mailbox = [c \in Client |-> 0]
    /\ added = [c \in Client |-> 0]
    /\ got = [c \in Client |-> <<>>]
    /\ cancelled = {}
    /\ crashed = {}
    /\ toServer = [c \in Client |-> <<>>]
    /\ toClient = [c \in Client |-> <<>>]
    /\ \/ 0 \in Others /\ boxes = <<>> /\ plate = 0
       \/ \E n \in Others \ {0} : boxes = <<[claims |-> n, msgs |-> <<>>]>> /\ plate = 1
    /\ opened = [c \in Client |-> 0]

-----------------------------------------------------------------------------
(* Commands: sendAndWait, readMsg, and what their callers do next.         *)

Begin(t, cmd) == op' = [op EXCEPT ![t] = [at |-> "lock", cmd |-> cmd]]
End(t) == op' = [op EXCEPT ![t] = Idle]
Goes(c, p) == phase' = [phase EXCEPT ![c] = p]

\* Variant: neither CreateMailbox nor AttachMailbox keeps the nameplate.
SucceedForgetful(t, reply) ==
    LET c == t[1]  cmd == op[t].cmd IN
    /\ claimed' = claimed
    /\ mailbox' = IF cmd = "claim" THEN [mailbox EXCEPT ![c] = reply.box] ELSE mailbox
    /\ \/ cmd = "connect" /\ Begin(t, "bind") /\ UNCHANGED <<phase, recv, ws>>
       \/ cmd = "bind" /\ End(t) /\ Goes(c, "bound") /\ UNCHANGED <<recv, ws>>
       \/ cmd = "allocate" /\ Begin(t, "claim") /\ UNCHANGED <<phase, recv, ws>>
       \/ cmd = "claim" /\ Begin(t, "open") /\ UNCHANGED <<phase, recv, ws>>
       \/ /\ cmd = "open" /\ End(t) /\ Goes(c, "talk")
          /\ recv' = [recv EXCEPT ![c] = "start"] /\ UNCHANGED ws
       \/ cmd = "add" /\ End(t) /\ UNCHANGED <<phase, recv, ws>>
       \/ /\ cmd = "close" /\ End(t) /\ Goes(c, "closed")
          /\ ws' = [ws EXCEPT ![c] = "nil"] /\ UNCHANGED recv
    /\ UNCHANGED <<added, got>>

\* The command of thread t has succeeded.
Succeed(t, reply) ==
    LET c == t[1]  cmd == op[t].cmd IN
    \/ /\ cmd = "connect"
       /\ Begin(t, "bind")
       /\ UNCHANGED <<appVars, recv, ws>>
    \/ /\ cmd = "bind"
       /\ End(t)
       /\ Goes(c, "bound")
       /\ UNCHANGED <<added, got, claimed, mailbox, recv, ws>>
    \/ /\ cmd = "allocate"
       /\ Begin(t, "claim")
       /\ UNCHANGED <<appVars, recv, ws>>
    \/ /\ cmd = "claim"
       /\ Begin(t, "open")
       /\ claimed' = [claimed EXCEPT ![c] = TRUE]
       /\ mailbox' = [mailbox EXCEPT ![c] = reply.box]
       /\ UNCHANGED <<phase, added, got, recv, ws>>
    \/ /\ cmd = "open"
       /\ End(t)
       /\ Goes(c, "talk")
       /\ recv' = [recv EXCEPT ![c] = "start"]
       /\ UNCHANGED <<added, got, claimed, mailbox, ws>>
    \/ /\ cmd = "add"
       /\ End(t)
       /\ UNCHANGED <<appVars, recv, ws>>
    \/ /\ cmd = "release"
       /\ End(t)
       /\ claimed' = [claimed EXCEPT ![c] = FALSE]
       /\ recv' = [recv EXCEPT ![c] = "scan"]
       /\ UNCHANGED <<phase, added, got, mailbox, ws>>
    \/ /\ cmd = "close"
       /\ End(t)
       /\ Goes(c, "closed")
       /\ ws' = [ws EXCEPT ![c] = "nil"]
       /\ UNCHANGED <<added, got, claimed, mailbox, recv>>

\* It has failed.  Nobody looks at the error of a release, and Close tears the
\* connection down all the same.
Fail(t) ==
    LET c == t[1]  cmd == op[t].cmd IN
    /\ End(t)
    /\ \/ /\ cmd = "release"
          /\ claimed' = [claimed EXCEPT ![c] = FALSE]
          /\ recv' = [recv EXCEPT ![c] = "scan"]
          /\ UNCHANGED <<phase, ws>>
       \/ /\ cmd = "close"
          /\ Goes(c, "closed")
          /\ ws' = [ws EXCEPT ![c] = "nil"]
          /\ UNCHANGED <<claimed, recv>>
       \/ /\ cmd \notin {"release", "close"}
          /\ Goes(c, "failed")
          /\ UNCHANGED <<claimed, recv, ws>>
    /\ UNCHANGED <<added, got, mailbox>>

Arg(t) ==
    CASE op[t].cmd = "open" -> mailbox[t[1]]
      [] op[t].cmd = "add"  -> added[t[1]]
      [] OTHER              -> 0

\* Variant: sendAndWait does not take sendCmdMu.
SendUnlocked(t) ==
    LET c == t[1] IN
    /\ op[t].at = "lock"
    /\ ws[c] = "up"
    /\ toServer' = [toServer EXCEPT ![c] =
                       Append(@, [thread |-> t, cmd |-> op[t].cmd, arg |-> Arg(t)])]
    /\ op' = [op EXCEPT ![t].at = "ack"]
    /\ UNCHANGED <<appVars, recv, ws, crashed, locked, waiter, pending, events, offset, bell,
                   toClient, serverVars>>

\* Lock, and wsjson.Write.
Send(t) ==
    LET c == t[1] IN
    /\ op[t].at = "lock"
    /\ ~locked[c]
    /\ \/ /\ ws[c] = "up"
          /\ toServer' = [toServer EXCEPT ![c] =
                             Append(@, [thread |-> t, cmd |-> op[t].cmd, arg |-> Arg(t)])]
          /\ locked' = [locked EXCEPT ![c] = TRUE]
          /\ op' = [op EXCEPT ![t].at = "ack"]
          /\ UNCHANGED <<appVars, recv, ws, crashed>>
       \/ /\ ws[c] = "lost" \/ (ws[c] = "up" /\ c \in cancelled)
          /\ Fail(t)
          /\ UNCHANGED <<toServer, locked, crashed>>
       \/ /\ ws[c] = "nil"
          /\ crashed' = crashed \cup {c}
          /\ UNCHANGED <<appVars, recv, ws, op, toServer, locked>>
    /\ UNCHANGED <<waiter, pending, events, offset, bell, toClient, serverVars>>

\* Variant: a new waiter is signalled by the next message only.
RegisterSilently(t) ==
    /\ op[t].at \in {"ack", "reply"}
    /\ waiter[t] = "none"
    /\ waiter' = [waiter EXCEPT ![t] = "empty"]
    /\ UNCHANGED <<appVars, op, locked, pending, recvVars, netVars, serverVars, crashed>>

\* readMsg: registerWaiter signals at once when there is something to search.
Register(t) ==
    /\ op[t].at \in {"ack", "reply"}
    /\ waiter[t] = "none"
    /\ waiter' = [waiter EXCEPT ![t] = IF pending[t[1]] = <<>> THEN "empty" ELSE "full"]
    /\ UNCHANGED <<appVars, op, locked, pending, recvVars, netVars, serverVars, crashed>>

Wanted(t) == IF op[t].at = "ack" THEN "ack" ELSE Awaits[op[t].cmd]
Found(t) == {k \in DOMAIN pending[t[1]] : pending[t[1]][k].type = Wanted(t)}

\* The wake-up and searchPendingMsgs.
NotFound(t) ==
    /\ waiter[t] = "full"
    /\ Found(t) = {}
    /\ waiter' = [waiter EXCEPT ![t] = "empty"]
    /\ UNCHANGED <<appVars, op, locked, pending, recvVars, netVars, serverVars, crashed>>

\* The first of the type; after the ack, sendAndWait unlocks and compares the IDs.
Read(t) ==
    LET c == t[1]
        k == Min(Found(t))
        m == pending[c][k]
    IN
    /\ waiter[t] = "full"
    /\ Found(t) # {}
    /\ pending' = [pending EXCEPT ![c] = RemoveAt(@, k)]
    /\ waiter' = [waiter EXCEPT ![t] = "none"]
    /\ \/ /\ op[t].at = "reply"
          /\ Succeed(t, m)
          /\ UNCHANGED locked
       \/ /\ op[t].at = "ack"
          /\ locked' = [locked EXCEPT ![c] = FALSE]
          /\ \/ /\ m.thread # t \/ m.cmd # op[t].cmd
                /\ Fail(t)
             \/ /\ m.thread = t /\ m.cmd = op[t].cmd
                /\ op[t].cmd \in DOMAIN Awaits
                /\ op' = [op EXCEPT ![t].at = "reply"]
                /\ UNCHANGED <<appVars, recv, ws>>
             \/ /\ m.thread = t /\ m.cmd = op[t].cmd
                /\ op[t].cmd \notin DOMAIN Awaits
                /\ Succeed(t, m)
    /\ UNCHANGED <<events, offset, bell, toServer, toClient, serverVars, crashed>>

\* Variant: sendCmdMu stays locked.
CutOffLocked(t) ==
    /\ waiter[t] # "none"
    /\ t[1] \in cancelled
    /\ waiter' = [waiter EXCEPT ![t] = "none"]
    /\ Fail(t)
    /\ UNCHANGED <<locked, pending, events, offset, bell, toServer, toClient, serverVars, crashed>>

\* readMsg returns with the error of its context; what it waited for may still come,
\* and stays in pendingMsgs.
CutOff(t) ==
    /\ waiter[t] # "none"
    /\ t[1] \in cancelled
    /\ waiter' = [waiter EXCEPT ![t] = "none"]
    /\ locked' = IF op[t].at = "ack" THEN [locked EXCEPT ![t[1]] = FALSE] ELSE locked
    /\ Fail(t)
    /\ UNCHANGED <<pending, events, offset, bell, toServer, toClient, serverVars, crashed>>

Run(t) == Send(t) \/ Register(t) \/ NotFound(t) \/ Read(t) \/ CutOff(t)

-----------------------------------------------------------------------------
(* readMessages.                                                           *)

Dispatch(c) ==
    LET m == Head(toClient[c]) IN
    /\ ws[c] = "up"
    /\ toClient[c] # <<>>
    /\ toClient' = [toClient EXCEPT ![c] = Tail(@)]
    /\ \/ /\ m.type = "message"
          /\ events' = [events EXCEPT ![c] = Append(@, m.event)]
          /\ bell' = [bell EXCEPT ![c] = IF @ = "none" THEN @ ELSE "full"]
          /\ UNCHANGED <<pending, waiter>>
       \/ /\ m.type # "message"
          /\ pending' = [pending EXCEPT ![c] = Append(@, m)]
          /\ waiter' = [t \in Thread |-> IF t[1] = c /\ waiter[t] # "none" THEN "full"
                                         ELSE waiter[t]]
          /\ UNCHANGED <<events, bell>>
    /\ UNCHANGED <<appVars, op, locked, recv, offset, ws, toServer, serverVars, crashed>>

\* The end of the context ends its read, and with it the connection.
ReadEnds(c) ==
    /\ ws[c] = "up"
    /\ c \in cancelled
    /\ ws' = [ws EXCEPT ![c] = "lost"]
    /\ UNCHANGED <<appVars, cmdVars, recvVars, toServer, toClient, serverVars, crashed>>

LoseConnection(c) ==
    /\ c \in Breaks
    /\ ws[c] = "up"
    /\ ws' = [ws EXCEPT ![c] = "lost"]
    /\ UNCHANGED <<appVars, cmdVars, recvVars, toServer, toClient, serverVars, crashed>>

-----------------------------------------------------------------------------
(* recvMailboxMsgs.                                                        *)

\* Variant: the first thing is to wait.
StartWaiting(c) ==
    /\ recv[c] = "start"
    /\ bell' = [bell EXCEPT ![c] = "empty"]
    /\ recv' = [recv EXCEPT ![c] = "wait"]
    /\ UNCHANGED <<appVars, cmdVars, events, offset, netVars, serverVars, crashed>>

StartRecv(c) ==
    /\ recv[c] = "start"
    /\ bell' = [bell EXCEPT ![c] = "empty"]
    /\ recv' = [recv EXCEPT ![c] = "scan"]
    /\ UNCHANGED <<appVars, cmdVars, events, offset, netVars, serverVars, crashed>>

\* Variant: the last message, whose offset the notification carries.
ScanLast(c) ==
    LET Theirs == {k \in DOMAIN events[c] : k > offset[c] /\ events[c][k].side # c} IN
    /\ recv[c] = "scan"
    /\ \/ /\ Theirs # {}
          /\ offset' = [offset EXCEPT ![c] = Max(Theirs)]
          /\ recv' = [recv EXCEPT ![c] = "offer"]
       \/ /\ Theirs = {}
          /\ recv' = [recv EXCEPT ![c] = "wait"]
          /\ UNCHANGED offset
    /\ UNCHANGED <<appVars, cmdVars, events, bell, netVars, serverVars, crashed>>

\* Variant: our own messages are not skipped.
ScanAll(c) ==
    /\ recv[c] = "scan"
    /\ \/ /\ offset[c] < Len(events[c])
          /\ offset' = [offset EXCEPT ![c] = @ + 1]
          /\ recv' = [recv EXCEPT ![c] = "offer"]
       \/ /\ offset[c] = Len(events[c])
          /\ recv' = [recv EXCEPT ![c] = "wait"]
          /\ UNCHANGED offset
    /\ UNCHANGED <<appVars, cmdVars, events, bell, netVars, serverVars, crashed>>

\* The next of mailboxMsgs that is not our own, if there is one.
Scan(c) ==
    LET Theirs == {k \in DOMAIN events[c] : k > offset[c] /\ events[c][k].side # c} IN
    /\ recv[c] = "scan"
    /\ \/ /\ Theirs # {}
          /\ offset' = [offset EXCEPT ![c] = Min(Theirs)]
          /\ recv' = [recv EXCEPT ![c] = "offer"]
       \/ /\ Theirs = {}
          /\ offset' = [offset EXCEPT ![c] = Len(events[c])]
          /\ recv' = [recv EXCEPT ![c] = "wait"]
    /\ UNCHANGED <<appVars, cmdVars, events, bell, netVars, serverVars, crashed>>

Notified(c) ==
    /\ recv[c] = "wait"
    /\ bell[c] = "full"
    /\ bell' = [bell EXCEPT ![c] = "empty"]
    /\ recv' = [recv EXCEPT ![c] = "scan"]
    /\ UNCHANGED <<appVars, cmdVars, events, offset, netVars, serverVars, crashed>>

\* outCh has no buffer: the application takes the message.  The first time, the
\* nameplate is released.
Deliver(c) ==
    /\ recv[c] = "offer"
    /\ phase[c] = "talk"
    /\ got' = [got EXCEPT ![c] = Append(@, events[c][offset[c]])]
    /\ \/ /\ claimed[c]
          /\ recv' = [recv EXCEPT ![c] = "release"]
          /\ Begin(Recv(c), "release")
       \/ /\ ~claimed[c]
          /\ recv' = [recv EXCEPT ![c] = "scan"]
          /\ UNCHANGED op
    /\ UNCHANGED <<phase, added, claimed, mailbox, waiter, locked, pending, events, offset,
                   bell, netVars, serverVars, crashed>>

Receive(c) == StartRecv(c) \/ Scan(c) \/ Notified(c) \/ Deliver(c)

-----------------------------------------------------------------------------
(* The application.                                                        *)

\* The websocket is dialed and the server says welcome; a joiner needs the code
\* that CreateMailbox has returned to the creator.
Connect(c) ==
    /\ phase[c] = "off"
    /\ c \in Joiners => \A d \in Creators : mailbox[d] # 0 /\ op[App(d)] = Idle
    /\ Goes(c, "connect")
    /\ op' = [op EXCEPT ![App(c)] = [at |-> "reply", cmd |-> "connect"]]
    /\ ws' = [ws EXCEPT ![c] = "up"]
    /\ toClient' = [toClient EXCEPT ![c] = <<Plain("welcome")>>]
    /\ UNCHANGED <<added, got, claimed, mailbox, waiter, locked, pending, recvVars, toServer,
                   serverVars, crashed>>

\* CreateMailbox, or AttachMailbox.
Meet(c) ==
    /\ phase[c] = "bound"
    /\ Goes(c, "meet")
    /\ Begin(App(c), IF c \in Creators THEN "allocate" ELSE "claim")
    /\ UNCHANGED <<added, got, claimed, mailbox, waiter, locked, pending, recvVars, netVars,
                   serverVars, crashed>>

AddMessage(c) ==
    /\ phase[c] = "talk"
    /\ op[App(c)] = Idle
    /\ Cardinality({e \in Event : e.n <= added[e.side]}) < Adds
    /\ added' = [added EXCEPT ![c] = @ + 1]
    /\ Begin(App(c), "add")
    /\ UNCHANGED <<phase, got, claimed, mailbox, waiter, locked, pending, recvVars, netVars,
                   serverVars, crashed>>

\* Variant: the connection is torn down before the server is told.
TearDownFirst(c) ==
    /\ \/ phase[c] = "talk" /\ Len(got[c]) \in CloseAfter
       \/ phase[c] = "failed"
    /\ op[App(c)] = Idle
    /\ Goes(c, "closing")
    /\ Begin(App(c), "close")
    /\ ws' = [ws EXCEPT ![c] = "nil"]
    /\ UNCHANGED <<added, got, claimed, mailbox, waiter, locked, pending, recvVars, toServer,
                   toClient, serverVars, crashed>>

Close(c) ==
    /\ \/ phase[c] = "talk" /\ Len(got[c]) \in CloseAfter
       \/ phase[c] = "failed"
    /\ op[App(c)] = Idle
    /\ Goes(c, "closing")
    /\ Begin(App(c), "close")
    /\ UNCHANGED <<added, got, claimed, mailbox, waiter, locked, pending, recvVars, netVars,
                   serverVars, crashed>>

-----------------------------------------------------------------------------
(* The server's handler of the connection of client c.                     *)

\* A reply reaches the client if its connection still stands.
Answer(c, ms) == toClient' = [toClient EXCEPT ![c] = IF ws[c] = "up" THEN @ \o ms ELSE @]

NewBox(b) == Append(boxes, b)

ServeBind(c, r) ==
    /\ r.cmd = "bind"
    /\ Answer(c, <<Ack(r)>>)
    /\ UNCHANGED serverVars

\* Variant: the nameplate is taken before it has a mailbox.
AllocateEmpty(c, r) ==
    /\ r.cmd = "allocate"
    /\ plate' = Len(boxes) + 1
    /\ Answer(c, <<Ack(r), Plain("allocated")>>)
    /\ UNCHANGED <<boxes, opened>>

ServeAllocate(c, r) ==
    /\ r.cmd = "allocate"
    /\ plate = 0
    /\ boxes' = NewBox([claims |-> 0, msgs |-> <<>>])
    /\ plate' = Len(boxes')
    /\ Answer(c, <<Ack(r), Plain("allocated")>>)
    /\ UNCHANGED opened

\* A nameplate without a mailbox gets one; the third claim of a mailbox is
\* turned down.
ServeClaim(c, r) ==
    /\ r.cmd = "claim"
    /\ \/ /\ plate = 0
          /\ boxes' = NewBox([claims |-> 1, msgs |-> <<>>])
          /\ plate' = Len(boxes')
          /\ Answer(c, <<Ack(r), [type |-> "claimed", box |-> plate']>>)
       \/ /\ plate # 0 /\ boxes[plate].claims <= 1
          /\ boxes' = [boxes EXCEPT ![plate].claims = @ + 1]
          /\ Answer(c, <<Ack(r), [type |-> "claimed", box |-> plate]>>)
          /\ UNCHANGED plate
       \/ /\ plate # 0 /\ boxes[plate].claims > 1
          /\ Answer(c, <<Ack(r), Plain("error")>>)
          /\ UNCHANGED <<boxes, plate>>
    /\ UNCHANGED opened

ServeOpen(c, r) ==
    /\ r.cmd = "open"
    /\ opened' = [opened EXCEPT ![c] = r.arg]
    /\ Answer(c, <<Ack(r)>> \o [k \in DOMAIN boxes[r.arg].msgs |-> MessageOf(boxes[r.arg].msgs[k])])
    /\ UNCHANGED <<boxes, plate>>

\* The message goes to every client that has the mailbox open, the sender too.
ServeAdd(c, r) ==
    LET e == [side |-> c, n |-> r.arg]
        To(d) == (IF d = c THEN <<Ack(r)>> ELSE <<>>)
                   \o (IF opened[d] = opened[c] THEN <<MessageOf(e)>> ELSE <<>>)
    IN
    /\ r.cmd = "add"
    /\ boxes' = [boxes EXCEPT ![opened[c]].msgs = Append(@, e)]
    /\ toClient' = [d \in Client |-> IF ws[d] = "up" THEN toClient[d] \o To(d) ELSE toClient[d]]
    /\ UNCHANGED <<plate, opened>>

\* Whoever claimed the nameplate in the meantime.
ServeRelease(c, r) ==
    /\ r.cmd = "release"
    /\ plate' = 0
    /\ Answer(c, <<Ack(r), Plain("released")>>)
    /\ UNCHANGED <<boxes, opened>>

ServeClose(c, r) ==
    /\ r.cmd = "close"
    /\ Answer(c, <<Ack(r), Plain("closed")>>)
    /\ UNCHANGED serverVars

Serve(c) ==
    /\ toServer[c] # <<>>
    /\ toServer' = [toServer EXCEPT ![c] = Tail(@)]
    /\ LET r == Head(toServer[c]) IN
          \/ ServeBind(c, r)
          \/ ServeAllocate(c, r)
          \/ ServeClaim(c, r)
          \/ ServeOpen(c, r)
          \/ ServeAdd(c, r)
          \/ ServeRelease(c, r)
          \/ ServeClose(c, r)
    /\ UNCHANGED <<appVars, cmdVars, recvVars, ws, crashed>>

\* The handler returns: at once when the connection broke, else when it has read
\* what came before the close.
HangUp(c) ==
    /\ \/ ws[c] = "lost" /\ (opened[c] # 0 \/ toServer[c] # <<>>)
       \/ ws[c] = "nil" /\ opened[c] # 0 /\ toServer[c] = <<>>
    /\ opened' = [opened EXCEPT ![c] = 0]
    /\ toServer' = [toServer EXCEPT ![c] = <<>>]
    /\ UNCHANGED <<appVars, cmdVars, recvVars, ws, toClient, boxes, plate, crashed>>

Server(c) == (Serve(c) \/ HangUp(c)) /\ UNCHANGED cancelled

-----------------------------------------------------------------------------
Cancel(c) ==
    /\ c \in Cancels \ cancelled
    /\ phase[c] \notin {"off", "closed"}
    /\ cancelled' = cancelled \cup {c}
    /\ UNCHANGED <<appVars, cmdVars, recvVars, netVars, serverVars, crashed>>

\* What runs by itself, and the optional calls of the application.
Work(c) ==
    /\ c \notin crashed
    /\ \/ Run(App(c)) \/ Run(Recv(c))
       \/ Dispatch(c) \/ ReadEnds(c)
       \/ Receive(c)
       \/ Meet(c)
    /\ UNCHANGED cancelled

Optional(c) ==
    /\ \/ c \notin crashed /\ (Connect(c) \/ AddMessage(c) \/ Close(c))
       \/ LoseConnection(c)
    /\ UNCHANGED cancelled

Next == \E c \in Client : Work(c) \/ Server(c) \/ Optional(c) \/ Cancel(c)

Spec == Init /\ [][Next]_vars

\* The goroutines and the server are scheduled: each of their steps uses up something
\* of a bounded supply, so that one fairness for all lets none starve.  The application
\* takes what MsgChan offers; when it adds messages and whether it closes is up to it.
Fairness == WF_vars(\E c \in Client : Work(c) \/ Server(c))

FairSpec == Spec /\ Fairness

-----------------------------------------------------------------------------
(* Properties.                                                             *)

\* Every ack on its way answers the command whose thread waits for it, until the
\* client's context ends: two threads never take each other's.
AcksAwaited ==
    \A c \in Client \ cancelled : ws[c] = "up" =>
       \A m \in Range(pending[c]) \cup Range(toClient[c]) :
          m.type = "ack" => op[m.thread] = [at |-> "ack", cmd |-> m.cmd]

FromPeers(c) == SelectSeq(boxes[mailbox[c]].msgs, LAMBDA e : e.side # c)

\* The application gets what one other side of its mailbox added, from the first
\* message on, in order, each message once, whether it was added before the mailbox
\* was opened or after.
InOrderOnce ==
    \A c \in Client : got[c] # <<>> =>
       \E d \in Client \ {c} :
          /\ mailbox[d] = mailbox[c]
          /\ Len(got[c]) <= added[d]
          /\ \A k \in DOMAIN got[c] : got[c][k] = [side |-> d, n |-> k]

\* A client gives up the nameplate only when another has found the mailbox through
\* it, a client that attached to the mailbox no less than the one that created it: what
\* the comment on AttachMailbox says of it, that it releases the nameplate, neither it
\* nor this property does.
ReleaseAfterMeeting ==
    \A c \in Client : op[Recv(c)] # Idle \/ (mailbox[c] # 0 /\ ~claimed[c])
       => \E d \in Client \ {c} : mailbox[d] = mailbox[c]

Refused(c) == \E m \in Range(pending[c]) : m.type = "error"

\* Every command gets its answer while the connection stands, unless the server
\* answers with an error.
CommandsReturn ==
    []<>\A c \in Client : \A t \in {App(c), Recv(c)} :
           op[t] = Idle \/ Refused(c) \/ ws[c] # "up"

\* What one side adds reaches the other, unless it stops listening.
MessagesArrive ==
    []<>\A c \in Client : phase[c] = "talk" /\ ws[c] = "up" => Len(got[c]) = Len(FromPeers(c))

\* Once its context has ended, every call of a client returns, unless its process has
\* ended (OnlyReleaseMeetsClosed), whatever the call waits for:
\* a lock, an ack, or an answer that never comes, as for a nameplate that two others
\* have claimed.
CancelReturns ==
    []<>\A c \in cancelled \ crashed : op[App(c)] = Idle /\ op[Recv(c)] = Idle

\* recvMailboxMsgs, behind the channel of MsgChan, learns that the connection is
\* lost, so that the application does.
LossReported == \A c \in Client : recv[c] = "wait" /\ ws[c] = "lost" ~> recv[c] # "wait"

\* The nameplate is free again once a client has had a message from the other side.
ReleasedOnResponse == []<>\A c \in Client : got[c] # <<>> => plate # mailbox[c]

\* The one command that may find wsClient torn down by Close is the release that
\* recvMailboxMsgs begins when the application has taken its first message, and then
\* only until the nameplate is released: an application that closes before the first
\* message, or has taken the second, is safe, whatever breaks and whoever gives up.
OnlyReleaseMeetsClosed ==
    \A c \in crashed : /\ op[Recv(c)] = [at |-> "lock", cmd |-> "release"]
                       /\ claimed[c] /\ Len(got[c]) = 1
=============================================================================
