-------------------------------- MODULE Transfer --------------------------------
(***************************************************************************)
(* A text or a file from one client to another: SendText and SendFile of   *)
(* wormhole/send.go, Receive, Read and Reject of recv.go, and the protocol *)
(* and msgCollector of wormhole.go under both.  Below them are the mailbox *)
(* of module Rendezvous, which gives each side the other's messages in     *)
(* order, and the connection of module Transit.                            *)
(*                                                                         *)
(* A message is its kind, and a record of the connection the number of its *)
(* chunk, which is also its nonce.                                         *)
(***************************************************************************)
EXTENDS Naturals, Sequences

CONSTANTS
    Sizes,      \* sizes of a file in chunks: as offered, and as it is when it is sent
    Refusers,   \* sides whose VerifierOk may say no
    Cancels,    \* sides whose context may end
    Breaks      \* TRUE if connections may break, and reading the file may fail

Side == {"s", "r"}
Other(c) == IF c = "s" THEN "r" ELSE "s"

\* What is sent, in how many chunks, and whether both sides have the same code.
Setup == {x \in [kind: {"text", "file"}, offered: Sizes, actual: Sizes, sameCode: BOOLEAN] :
             x.kind = "text" \/ ~x.sameCode => x.offered = 0 /\ x.actual = 0}

ASSUME SizesAssumption == Sizes \subseteq Nat /\ 0 \in Sizes
ASSUME SidesAssumption == /\ Refusers \subseteq Side
                          /\ Cancels \subseteq Side
                          /\ Breaks \in BOOLEAN

\* What collect distinguishes, and the other messages.
CollectType == {"offer", "transit", "answer"}
Message == CollectType \cup {"pake", "version", "error"}

VARIABLES
    setup,      \* the Setup of this behaviour
    pc,         \* [Side -> ..] what its goroutine does next
    ctx,        \* [Side -> ..] its context
    mail,       \* [Side -> ..] its connection to the rendezvous server
    inbox,      \* [Side -> Seq(Message)] what MsgChan has still to give it
    posted,     \* [Side -> SUBSET Message] what it has added to the mailbox (history)
    collector,  \* [Side -> ..] msgCollector.collect: its loop, pendingMsgs, waiters, done
    reply,      \* [Side -> ..] sub.result of its waitFor, "none" before it has subscribed
    result,     \* the SendResult
    received,   \* what Receive has returned
    reader,     \* what the application of the receiver has got from the message
    link,       \* the connection of the transfer
    toRecv,     \* Seq(Nat) its records
    toSend,     \* Seq(Nat) the receiver's ack: the chunks that its hash covers
    open,       \* SUBSET Side the ends of the connection that are open
    sent,       \* chunks written
    got         \* readCount

protoVars == <<pc, inbox, posted, collector, reply>>
endVars == <<result, received, reader>>
linkVars == <<link, toRecv, toSend, open, sent, got>>
vars == <<setup, ctx, mail, protoVars, endVars, linkVars>>

Step == {"pake", "getPake", "version", "getVersion", "verify", "transit", "offer",
         "collect", "waitOffer", "waitTransit", "waitAnswer", "messageAck", "answered", "hints",
         "unacked", "unclosed", "hung", "decide", "connect", "accept", "sending", "reading", "record", "done"}

NoCollector == [at |-> "off", pending |-> {}, waiting |-> {}, done |-> "open"]

TypeOK ==
    /\ setup \in Setup
    /\ pc \in [Side -> Step]
    /\ ctx \in [Side -> {"live", "done"}]
    /\ mail \in [Side -> {"up", "lost"}]
    /\ inbox \in [Side -> Seq(Message)]
    /\ posted \in [Side -> SUBSET Message]
    /\ collector \in [Side -> [at: {"off", "on", "stopped"}, pending: SUBSET CollectType,
                               waiting: SUBSET CollectType, done: {"open", "error", "closed"}]]
    /\ \A c \in Side : collector[c].waiting # {} <=> reply[c] = "awaited"
    /\ reply \in [Side -> {"none", "awaited", "message", "error"}]
    /\ result \in {"none", "ok", "error"}
    /\ received \in {"none", "text", "file", "error"}
    /\ reader \in {"none", "rejected", "eof", "error"}
    /\ link \in {"none", "up", "broken", "stranded"}
    /\ toRecv \in Seq(Nat) /\ toSend \in Seq(Nat)
    /\ open \subseteq Side
    /\ sent \in 0..setup.actual
    /\ got \in 0..sent

\* Both have the mailbox.
Init ==
    /\ setup \in Setup
    /\ pc = [c \in Side |-> "pake"]
    /\ ctx = [c \in Side |-> "live"]
    /\ mail = [c \in Side |-> "up"]
    /\ inbox = [c \in Side |-> <<>>]
    /\ posted = [c \in Side |-> {}]
    /\ collector = [c \in Side |-> NoCollector]
    /\ reply = [c \in Side |-> "none"]
    /\ result = "none"
    /\ received = "none"
    /\ reader = "none"
    /\ link = "none"
    /\ toRecv = <<>>
    /\ toSend = <<>>
    /\ open = {}
    /\ sent = 0
    /\ got = 0

-----------------------------------------------------------------------------
(* How a side goes on, and how it ends.                                    *)

Goes(c, step) == pc' = [pc EXCEPT ![c] = step]

\* The deferred collector.close(), and the end of the side's use of the mailbox.
Leave(c) ==
    /\ Goes(c, "done")
    /\ collector' = [collector EXCEPT ![c].done = IF @ = "open" THEN "closed" ELSE @]

\* sendErr, or the error that Receive returns.
Fail(c) ==
    /\ Leave(c)
    /\ result' = IF c = "s" THEN "error" ELSE result
    /\ received' = IF c = "r" THEN "error" ELSE received
    /\ UNCHANGED reader

\* AddMessage; the other side has it unless it has lost its connection.
Post(c, m) ==
    /\ posted' = [posted EXCEPT ![c] = @ \cup {m}]
    /\ inbox' = IF mail[Other(c)] = "up" THEN [inbox EXCEPT ![Other(c)] = Append(@, m)]
                ELSE inbox

\* It succeeds with a context that has not ended, on a live connection.
Posts(c, m) ==
    /\ ctx[c] = "live"
    /\ mail[c] = "up"
    /\ Post(c, m)

\* When it does not, the message may have been added all the same, its ack lost.
MayPost(c, m) == Post(c, m) \/ UNCHANGED <<inbox, posted>>

PostFails(c, m) ==
    /\ ctx[c] = "done" \/ mail[c] = "lost"
    /\ MayPost(c, m)

\* On a connection lost after the write, it waits for the ack until its context ends.
PostWaits(c, m) ==
    /\ mail[c] = "lost"
    /\ MayPost(c, m)
    /\ Goes(c, "unacked")
    /\ UNCHANGED <<collector, endVars>>

Unacked(c) ==
    /\ pc[c] = "unacked"
    /\ ctx[c] = "done"
    /\ Fail(c)
    /\ UNCHANGED <<setup, ctx, mail, inbox, posted, reply, linkVars>>

-----------------------------------------------------------------------------
(* clientProtocol: PAKE, version, verifier.                                *)

WriteStep(c, step, m, next) ==
    /\ pc[c] = step
    /\ \/ /\ Posts(c, m)
          /\ Goes(c, next)
          /\ UNCHANGED <<collector, endVars>>
       \/ PostFails(c, m) /\ Fail(c)
       \/ PostWaits(c, m)
    /\ UNCHANGED <<setup, ctx, mail, reply, linkVars>>

WritePake(c) == WriteStep(c, "pake", "pake", "getPake")
WriteVersion(c) == WriteStep(c, "version", "version", "getVersion")

\* Variant for a mutant: a message that does not decrypt is let through.
OpensUnread(c) == Head(inbox[c]) = "version"

\* The message can be decrypted with the common key: it needs the same code.
Opens(c) == Head(inbox[c]) = "version" /\ setup.sameCode

\* readPlaintext: the next message, or the end of the context.
ReadPake(c) ==
    /\ pc[c] = "getPake"
    /\ \/ /\ inbox[c] # <<>>
          /\ inbox' = [inbox EXCEPT ![c] = Tail(@)]
          /\ \/ /\ Head(inbox[c]) = "pake"
                /\ Goes(c, "version")
                /\ UNCHANGED <<collector, endVars>>
             \/ Head(inbox[c]) # "pake" /\ Fail(c)
       \/ /\ ctx[c] = "done"
          /\ Fail(c)
          /\ UNCHANGED inbox
    /\ UNCHANGED <<setup, ctx, mail, posted, reply, linkVars>>

\* The first message that needs the common key.
ReadVersion(c) ==
    /\ pc[c] = "getVersion"
    /\ inbox[c] # <<>>
    /\ inbox' = [inbox EXCEPT ![c] = Tail(@)]
    /\ \/ /\ Opens(c)
          /\ Goes(c, "verify")
          /\ UNCHANGED <<collector, endVars>>
       \/ ~Opens(c) /\ Fail(c)
    /\ UNCHANGED <<setup, ctx, mail, posted, reply, linkVars>>

\* VerifierOk.  The receiver collects at once, the sender after its offer.
Verify(c) ==
    /\ pc[c] = "verify"
    /\ Goes(c, IF c = "r" THEN "collect" ELSE IF setup.kind = "text" THEN "offer" ELSE "transit")
    /\ UNCHANGED <<setup, ctx, mail, inbox, posted, collector, reply, endVars, linkVars>>

Refuse(c) ==
    /\ pc[c] = "verify"
    /\ c \in Refusers
    /\ \/ /\ Posts(c, "error") \/ PostFails(c, "error")
          /\ Fail(c)
       \/ PostWaits(c, "error")
    /\ UNCHANGED <<setup, ctx, mail, reply, linkVars>>

-----------------------------------------------------------------------------
(* msgCollector.                                                           *)

\* What waitFor is called for.
Wanted == [waitOffer |-> "offer", waitTransit |-> "transit", waitAnswer |-> "answer"]

Collect(c) ==
    /\ pc[c] = "collect"
    /\ collector' = [collector EXCEPT ![c].at = "on"]
    /\ Goes(c, IF c = "r" THEN "waitOffer" ELSE "waitAnswer")
    /\ UNCHANGED <<setup, ctx, mail, inbox, posted, reply, endVars, linkVars>>

\* Variant for a mutant: what came before the subscription is forgotten.
IsPendingNever(c, t) == collector[c].at = "off" /\ t = "offer"

IsPending(c, t) == t \in collector[c].pending

\* waitFor: the subscription, which meets the loop of collect, or the end of it.
Subscribe(c) ==
    LET t == Wanted[pc[c]]  col == collector[c] IN
    /\ pc[c] \in DOMAIN Wanted
    /\ reply[c] = "none"
    /\ \/ /\ col.at = "on" /\ IsPending(c, t)
          /\ collector' = [collector EXCEPT ![c].pending = @ \ {t}]
          /\ reply' = [reply EXCEPT ![c] = "message"]
       \/ /\ col.at = "on" /\ ~IsPending(c, t)
          /\ collector' = [collector EXCEPT ![c].waiting = @ \cup {t}]
          /\ reply' = [reply EXCEPT ![c] = IF t \in col.waiting THEN "error" ELSE "awaited"]
       \/ /\ col.done # "open"
          /\ collector' = [collector EXCEPT ![c].done = "closed"]
          /\ reply' = [reply EXCEPT ![c] = "error"]
    /\ UNCHANGED <<setup, ctx, mail, pc, inbox, posted, endVars, linkVars>>

\* Variants for mutants: the waiter is not told of the error; the one that has its
\* message stays in waiters.
ErrorResultQuiet(c) ==
    /\ collector' = [collector EXCEPT ![c].at = "stopped",
                                      ![c].done = IF @ = "open" THEN "error" ELSE @]
    /\ UNCHANGED reply

DeliverKeeps(c, t) ==
    /\ reply' = [reply EXCEPT ![c] = "message"]
    /\ collector[c].waiting # {}
    /\ UNCHANGED collector

\* errorResult: done, every waiter, and the end of the loop.
ErrorResult(c) ==
    /\ collector' = [collector EXCEPT ![c].at = "stopped", ![c].waiting = {},
                                      ![c].done = IF @ = "open" THEN "error" ELSE @]
    /\ reply' = [reply EXCEPT ![c] = IF @ = "awaited" THEN "error" ELSE @]

Deliver(c, t) ==
    /\ t \in collector[c].waiting
    /\ collector' = [collector EXCEPT ![c].waiting = @ \ {t}]
    /\ reply' = [reply EXCEPT ![c] = "message"]

\* The loop of collect takes the next message, or sees that it is done.
CollectNext(c) ==
    LET m == Head(inbox[c])  col == collector[c] IN
    /\ col.at = "on"
    /\ \/ /\ col.done # "open"
          /\ collector' = [collector EXCEPT ![c].at = "stopped"]
          /\ UNCHANGED <<inbox, reply>>
       \/ /\ inbox[c] # <<>>
          /\ inbox' = [inbox EXCEPT ![c] = Tail(@)]
          /\ \/ /\ m \notin CollectType \/ m \in col.pending \ col.waiting
                /\ ErrorResult(c)
             \/ Deliver(c, m)
             \/ /\ m \in CollectType \ (col.waiting \cup col.pending)
                /\ collector' = [collector EXCEPT ![c].pending = @ \cup {m}]
                /\ UNCHANGED reply
    /\ UNCHANGED <<setup, ctx, mail, pc, posted, endVars, linkVars>>

\* What the receiver and the sender do with the message they waited for.
Continue(c) ==
    CASE pc[c] = "waitOffer" /\ setup.kind = "text" -> "messageAck"
      [] pc[c] = "waitOffer" /\ setup.kind = "file" -> "waitTransit"
      [] pc[c] = "waitTransit"                      -> "hints"
      [] pc[c] = "waitAnswer"                       -> "accept"

WaitReturns(c) ==
    /\ pc[c] \in DOMAIN Wanted
    /\ reply[c] \in {"message", "error"}
    /\ reply' = [reply EXCEPT ![c] = "none"]
    /\ \/ reply[c] = "error" /\ Fail(c)
       \/ /\ reply[c] = "message" /\ pc[c] = "waitAnswer" /\ setup.kind = "text"
          /\ Leave(c)
          /\ result' = "ok"
          /\ UNCHANGED <<received, reader>>
       \/ /\ reply[c] = "message" /\ ~(pc[c] = "waitAnswer" /\ setup.kind = "text")
          /\ Goes(c, Continue(c))
          /\ UNCHANGED <<collector, endVars>>
    /\ UNCHANGED <<setup, ctx, mail, inbox, posted, linkVars>>

-----------------------------------------------------------------------------
(* The offer and its answer.                                               *)

WriteTransit == WriteStep("s", "transit", "transit", "offer")

\* listen, listenRelay or makeTransitMsg fails, and nothing is written.
ListenFails ==
    /\ pc["s"] = "transit"
    /\ Breaks
    /\ Fail("s")
    /\ UNCHANGED <<setup, ctx, mail, inbox, posted, reply, linkVars>>

WriteOffer == WriteStep("s", "offer", "offer", "collect")

\* A text is answered inside Receive.
MessageAck ==
    /\ pc["r"] = "messageAck"
    /\ \/ /\ Posts("r", "answer")
          /\ Goes("r", "answered")
          /\ UNCHANGED <<collector, endVars>>
       \/ PostFails("r", "answer") /\ Fail("r")
       \/ PostWaits("r", "answer")
    /\ UNCHANGED <<setup, ctx, mail, reply, linkVars>>

ReturnText ==
    /\ Leave("r")
    /\ received' = "text"
    /\ UNCHANGED <<result, reader>>

\* The ack of the answer, rc.Close, whose errors nobody sees, and the text.  A connection
\* lost meanwhile holds up the one or the other until the context ends.
TextReturns ==
    /\ pc["r"] = "answered"
    /\ \/ ReturnText
       \/ ctx["r"] = "done" /\ Fail("r")
       \/ /\ mail["r"] = "lost"
          /\ Goes("r", "unacked") \/ Goes("r", "unclosed")
          /\ UNCHANGED <<collector, endVars>>
    /\ UNCHANGED <<setup, ctx, mail, inbox, posted, reply, linkVars>>

Unclosed ==
    /\ pc["r"] = "unclosed"
    /\ ctx["r"] = "done"
    /\ ReturnText
    /\ UNCHANGED <<setup, ctx, mail, inbox, posted, reply, linkVars>>

\* Receive sends its own hints and returns a file; its collector ends.
ReceiveReturns ==
    /\ pc["r"] = "hints"
    /\ \/ /\ Posts("r", "transit")
          /\ Goes("r", "decide")
          /\ collector' = [collector EXCEPT !["r"].done = IF @ = "open" THEN "closed" ELSE @]
          /\ received' = "file"
          /\ UNCHANGED <<result, reader>>
       \/ PostFails("r", "transit") /\ Fail("r")
       \/ PostWaits("r", "transit")
    /\ UNCHANGED <<setup, ctx, mail, reply, linkVars>>

Reads(outcome) == reader' = outcome /\ UNCHANGED <<result, received>>

\* Both the answer and the rejection are written with context.Background(): what
\* loses them is a lost connection, and then the call fails or never returns.
AnswerLost(m) ==
    /\ mail["r"] = "lost"
    /\ MayPost("r", m)
    /\ UNCHANGED collector
    /\ \/ Goes("r", "done") /\ Reads("error")
       \/ Goes("r", "hung") /\ UNCHANGED endVars

\* Reject looks at no error, but its caller waits for it as well.
Reject ==
    /\ pc["r"] = "decide"
    /\ \/ /\ mail["r"] = "up"
          /\ Post("r", "error")
          /\ Goes("r", "done")
          /\ Reads("rejected")
          /\ UNCHANGED collector
       \/ AnswerLost("error")
    /\ UNCHANGED <<setup, ctx, mail, reply, linkVars>>

\* The first Read: acceptAndInitialize.
FirstRead ==
    /\ pc["r"] = "decide"
    /\ \/ /\ ctx["r"] = "done"
          /\ Goes("r", "done")
          /\ Reads("error")
          /\ UNCHANGED <<inbox, posted, collector>>
       \/ /\ ctx["r"] = "live" /\ mail["r"] = "up"
          /\ Post("r", "answer")
          /\ Goes("r", "connect")
          /\ UNCHANGED <<collector, endVars>>
       \/ ctx["r"] = "live" /\ AnswerLost("answer")
    /\ UNCHANGED <<setup, ctx, mail, reply, linkVars>>

-----------------------------------------------------------------------------
(* The connection.                                                         *)

\* connectDirect or connectViaRelay on one side, acceptConnection on the other.
Connect ==
    /\ pc["s"] = "accept" /\ pc["r"] = "connect"
    /\ link' = "up"
    /\ open' = Side
    /\ pc' = [s |-> "sending", r |-> "reading"]
    /\ UNCHANGED <<setup, ctx, mail, inbox, posted, collector, reply, endVars,
                   toRecv, toSend, sent, got>>

\* The receiver finds no connection, although the sender may: one that breaks
\* after its "go", or a relayed one whose receiver has not waited.
ConnectFails ==
    /\ pc["r"] = "connect"
    /\ Reads("error")
    /\ \/ /\ Breaks
          /\ pc["s"] = "accept"
          /\ link' \in {"broken", "stranded"}
          /\ open' = Side
          /\ pc' = [s |-> "sending", r |-> "done"]
       \/ /\ Breaks \/ pc["s"] # "accept"
          /\ Goes("r", "done")
          /\ UNCHANGED <<link, open>>
    /\ UNCHANGED <<setup, ctx, mail, inbox, posted, collector, reply, toRecv, toSend, sent, got>>

\* acceptConnection fails: the end of the context, a failed Accept or a lost "go".
AcceptFails ==
    /\ pc["s"] = "accept"
    /\ ctx["s"] = "done" \/ Breaks
    /\ Fail("s")
    /\ UNCHANGED <<setup, ctx, mail, inbox, posted, reply, linkVars>>

\* The connection is closed with the goroutine of the sender, and with its context.
CloseEnd(c) == open' = open \ {c}

SendFails ==
    /\ Fail("s")
    /\ CloseEnd("s")
    /\ UNCHANGED <<link, toRecv, toSend, sent, got>>

\* One turn of the loop over r.Read and writeRecord.
WriteRecord ==
    /\ pc["s"] = "sending"
    /\ sent < setup.actual
    /\ \/ /\ "s" \in open /\ link # "broken"
          /\ sent' = sent + 1
          /\ toRecv' = Append(toRecv, sent')
          /\ UNCHANGED <<pc, collector, endVars, link, toSend, open, got>>
       \/ /\ Breaks \/ open # Side \/ link = "broken"
          /\ SendFails
    /\ UNCHANGED <<setup, ctx, mail, inbox, posted, reply>>

\* Without an ack to read; one that is on its way is lost with a connection that the
\* receiver has closed over records it had not read.
AckLost ==
    \/ "s" \notin open \/ link = "broken"
    \/ /\ "r" \notin open
       /\ toSend = <<>> \/ toRecv # <<>>

\* Variant for a mutant: any ack will do.
AckUnchecked == toSend # <<>>

\* The hash in the ack is that of what was sent.
AckMatches == Head(toSend) = sent

\* r.Read has come to its end: the ack, and its hash against the sender's.
ReadAck ==
    /\ pc["s"] = "sending"
    /\ sent = setup.actual
    /\ \/ /\ "s" \in open /\ link # "broken" /\ toSend # <<>>
          /\ toSend' = Tail(toSend)
          /\ \/ /\ AckMatches
                /\ Leave("s")
                /\ result' = "ok"
                /\ UNCHANGED <<received, reader>>
             \/ ~AckMatches /\ Fail("s")
          /\ CloseEnd("s")
          /\ UNCHANGED <<link, toRecv, sent, got>>
       \/ AckLost /\ SendFails
    /\ UNCHANGED <<setup, ctx, mail, inbox, posted, reply>>

\* Variant for a mutant: nobody waits for the end of the context.
CloseNever == pc["s"] = "pake" /\ UNCHANGED vars

\* The goroutine that waits for the end of the sender's context.
CloseOnCancel ==
    /\ pc["s"] = "sending"
    /\ ctx["s"] = "done"
    /\ "s" \in open
    /\ CloseEnd("s")
    /\ UNCHANGED <<setup, ctx, mail, protoVars, endVars, link, toRecv, toSend, sent, got>>

Finish(outcome) ==
    /\ Goes("r", "done")
    /\ Reads(outcome)

\* readCrypt reaches the size of the offer: EOF for the application, and the ack,
\* whose errors nobody sees.
Complete ==
    /\ toSend' = IF link = "up" THEN Append(toSend, got') ELSE toSend
    /\ CloseEnd("r")
    /\ Finish("eof")


EmptyFile == setup.offered = 0

\* What an io.EOF within the file is: io.ErrUnexpectedEOF.
Truncated == "error"

\* A Read with a live context waits for a record; an empty file has none.
Read ==
    /\ pc["r"] = "reading"
    /\ ctx["r"] = "live"
    /\ \/ /\ ~EmptyFile
          /\ Goes("r", "record")
          /\ UNCHANGED <<endVars, toSend, open, got>>
       \/ /\ EmptyFile
          /\ got' = got
          /\ Complete
    /\ UNCHANGED <<setup, ctx, mail, inbox, posted, collector, reply, link, toRecv, sent>>

\* It takes the whole of it, or sees the end of the connection.
ReadRecord ==
    /\ pc["r"] = "record"
    /\ \/ /\ link = "up" /\ toRecv # <<>>
          /\ Head(toRecv) = got + 1
          /\ toRecv' = Tail(toRecv)
          /\ got' = got + 1
          /\ \/ got' >= setup.offered /\ Complete
             \/ /\ got' < setup.offered
                /\ Goes("r", "reading")
                /\ UNCHANGED <<endVars, toSend, open>>
       \/ /\ link = "broken" \/ (toRecv = <<>> /\ "s" \notin open)
          /\ Finish(Truncated)
          /\ UNCHANGED <<toRecv, toSend, got, open>>
    /\ UNCHANGED <<setup, ctx, mail, inbox, posted, collector, reply, link, sent>>

ReadCancelled ==
    /\ pc["r"] = "reading"
    /\ ctx["r"] = "done"
    /\ CloseEnd("r")
    /\ Finish("error")
    /\ UNCHANGED <<setup, ctx, mail, inbox, posted, collector, reply,
                   link, toRecv, toSend, sent, got>>

-----------------------------------------------------------------------------
(* What happens to a side.                                                 *)

Cancel(c) ==
    /\ c \in Cancels
    /\ ctx[c] = "live"
    /\ ctx' = [ctx EXCEPT ![c] = "done"]
    /\ UNCHANGED <<setup, mail, protoVars, endVars, linkVars>>

\* The end of the context ends readMessages, and with it the connection.
LoseMailbox(c) ==
    /\ mail[c] = "up"
    /\ Breaks \/ ctx[c] = "done"
    /\ mail' = [mail EXCEPT ![c] = "lost"]
    /\ UNCHANGED <<setup, ctx, protoVars, endVars, linkVars>>

BreakLink ==
    /\ Breaks
    /\ link = "up"
    /\ link' = "broken"
    /\ UNCHANGED <<setup, ctx, mail, protoVars, endVars, toRecv, toSend, open, sent, got>>

-----------------------------------------------------------------------------
Proto(c) ==
    \/ WritePake(c) \/ ReadPake(c) \/ WriteVersion(c) \/ ReadVersion(c) \/ Verify(c)
    \/ Collect(c) \/ Subscribe(c) \/ WaitReturns(c) \/ Unacked(c)

SenderWork == WriteTransit \/ WriteOffer \/ ListenFails \/ AcceptFails \/ WriteRecord \/ ReadAck

ReceiverWork ==
    \/ MessageAck \/ TextReturns \/ Unclosed
    \/ ReceiveReturns \/ Read \/ ReadRecord \/ ReadCancelled

Goroutines ==
    \/ \E c \in Side : Proto(c) \/ CollectNext(c)
    \/ SenderWork \/ ReceiverWork
    \/ CloseOnCancel \/ Connect \/ ConnectFails

\* The applications, the contexts and the network.
Outside ==
    \/ \E c \in Side : Refuse(c) \/ Cancel(c) \/ LoseMailbox(c)
    \/ BreakLink
    \/ Reject \/ FirstRead

Next == Goroutines \/ Outside

Spec == Init /\ [][Next]_vars

\* Every goroutine is scheduled, a connection that can be made is made, and an application
\* that reads goes on reading: each step uses up something of a bounded supply, so that one
\* fairness for all lets none starve.  The application need not accept, reject or refuse,
\* and nothing need break or end.
Fairness == WF_vars(Goroutines)

FairSpec == Spec /\ Fairness

-----------------------------------------------------------------------------
(* Properties.                                                             *)

\* The sender of a file is told OK only when the application of the receiver has every chunk
\* there was, the sender of a text only when Receive has returned it or has still to, after
\* its answer, unless its context ends or its connection is lost before it does.  The end
\* of the file is reported to the application only after as much as was offered.
OkMeansDelivered ==
    /\ result = "ok" =>
          IF setup.kind = "text" THEN \/ received = "text" \/ pc["r"] = "answered"
                                      \/ ctx["r"] = "done" \/ mail["r"] = "lost"
          ELSE reader = "eof" /\ got = setup.actual
    /\ reader = "eof" => got >= setup.offered

\* With different codes nothing of the transfer is ever written.
WrongCodeStops ==
    ~setup.sameCode => \A c \in Side : posted[c] \subseteq {"pake", "version"}

Ended(c) == IF c = "s" THEN result = "error" ELSE received = "error"

\* The other side learns of a rejected file or a refused verifier: its result is an
\* error.
RejectionReported ==
    []<>\A c \in Side : "error" \in posted[c] => Ended(Other(c)) \/ mail[Other(c)] = "lost"

\* A waitFor has the message it wants, whether that came before or after.
WaitsReturn ==
    []<>\A c \in Side : \A step \in DOMAIN Wanted :
           pc[c] = step /\ Wanted[step] \in posted[Other(c)] => mail[c] = "lost"


\* The comment of SendFile: the result is written after the receiver attempts to read,
\* "either successfully or not".  Here the sender has the receiver's answer, sent by its
\* first Read, which looks for a connection.
ResultFollowsRead ==
    pc["s"] = "accept" /\ pc["r"] = "connect" ~> result # "none"

\* The end of its context ends a sender that waits for the other's PAKE message, for
\* a connection, or in the middle of a file.
CancelEnds ==
    ctx["s"] = "done" /\ pc["s"] \in {"getPake", "accept", "sending"} ~> result # "none"
=============================================================================
