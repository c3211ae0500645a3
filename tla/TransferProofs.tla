---------------------------- MODULE TransferProofs ----------------------------
(***************************************************************************)
(* What a sender that is told OK may rely on, and what a wrong code can    *)
(* never do: for files of any size, whoever refuses or is cancelled, and   *)
(* whatever breaks.                                                        *)
(***************************************************************************)
EXTENDS Transfer, SequenceTheorems, TLAPS

\* Where each side of a text and of a file can be.
Common == {"pake", "getPake", "version", "getVersion", "verify", "collect", "unacked", "done"}
SenderAt == Common \cup {"offer", "waitAnswer"}
              \cup (IF setup.kind = "file" THEN {"transit", "accept", "sending"} ELSE {})
ReceiverAt == Common \cup {"waitOffer"}
                \cup (IF setup.kind = "text" THEN {"messageAck", "answered", "unclosed"}
                      ELSE {"waitTransit", "hints", "decide", "connect", "reading", "record", "hung"})
InRole == pc["s"] \in SenderAt /\ pc["r"] \in ReceiverAt

\* A side has one waitFor at a time, and its goroutine is in it.
Waits ==
    \A c \in Side :
       /\ reply[c] # "none" => pc[c] \in DOMAIN Wanted
       /\ reply[c] = "awaited" => collector[c].waiting = {Wanted[pc[c]]}

\* What a side has from the mailbox was added by the other.
Came ==
    \A c \in Side :
       /\ \A k \in 1..Len(inbox[c]) : inbox[c][k] \in posted[Other(c)]
       /\ collector[c].pending \subseteq posted[Other(c)]
       /\ reply[c] = "message" => Wanted[pc[c]] \in posted[Other(c)]

CutOff == ctx["r"] = "done" \/ mail["r"] = "lost"

\* The answer to a text is added by a Receive that returns the text, has still to return
\* it, or is cut off.
Answered ==
    /\ received = "text" => pc["r"] = "done"
    /\ setup.kind = "text" /\ "answer" \in posted["r"] =>
          received = "text" \/ pc["r"] = "answered" \/ CutOff

\* With different codes neither side comes past the other's version message.
Stopped ==
    ~setup.sameCode =>
       \A c \in Side : /\ pc[c] \in {"pake", "getPake", "version", "getVersion", "unacked", "done"}
                       /\ posted[c] \subseteq {"pake", "version"}

\* The records on the connection are those written and not read, in order.
Flight ==
    /\ Len(toRecv) = sent - got
    /\ \A k \in 1..Len(toRecv) : toRecv[k] = got + k

\* The ack is for all that was read, and nothing is read after it.
Acked ==
    /\ \A k \in 1..Len(toSend) : toSend[k] = got /\ reader = "eof"
    /\ reader = "eof" => pc["r"] = "done" /\ got >= setup.offered

\* What a sender that is told OK has seen.
Seen ==
    result = "ok" =>
       IF setup.kind = "text" THEN "answer" \in posted["r"]
       ELSE reader = "eof" /\ got = setup.actual

Inv ==
    /\ TypeOK /\ InRole
    /\ Waits /\ Came /\ Answered /\ Stopped
    /\ Flight /\ Acked /\ Seen

-----------------------------------------------------------------------------
(* Initial states, and what the helpers of the actions do.                 *)

(* The two sides, and the other of each (the model's Side and Other). *)
LEMMA Sides ==
  /\ "s" \in Side /\ "r" \in Side /\ "s" # "r"
  /\ \A c \in Side : Other(c) \in Side /\ Other(c) # c /\ (c = "s" \/ c = "r")
BY DEF Side, Other

(* What a setup of the transfer holds, from the assumption on the sizes. *)
LEMMA SetupType ==
  ASSUME setup \in Setup
  PROVE  /\ setup.kind \in {"text", "file"} /\ setup.sameCode \in BOOLEAN
         /\ setup.offered \in Nat /\ setup.actual \in Nat
BY SizesAssumption DEF Setup

(* The first state, before either side has asked the server for anything. *)
LEMMA InitInv == Init => Inv
<1> SUFFICES ASSUME Init PROVE Inv
  OBVIOUS
<1>1. TypeOK
  <2>1. setup.actual \in Nat
    BY SetupType DEF Init
  <2> QED BY <2>1, SizesAssumption DEF Init, TypeOK, NoCollector, Step, Message, CollectType, Side
<1>2. InRole
  BY Sides DEF Init, InRole, SenderAt, ReceiverAt, Common
<1>3. Waits /\ Came
  BY Sides DEF Init, Waits, Came, NoCollector
<1>4. Answered /\ Stopped /\ Flight /\ Acked /\ Seen
  BY Sides DEF Init, Answered, Stopped, Flight, Acked, Seen
<1> QED BY <1>1, <1>2, <1>3, <1>4 DEF Inv

\* A message that may be added: the mailbox only grows, and who has it has it in order.
LEMMA PostFrame ==
  ASSUME TypeOK, Came, NEW c \in Side, NEW m \in Message, MayPost(c, m)
  PROVE  /\ inbox' \in [Side -> Seq(Message)] /\ posted' \in [Side -> SUBSET Message]
         /\ \A d \in Side : posted[d] \subseteq posted'[d]
         /\ \A d \in Side : posted'[d] \subseteq IF d = c THEN posted[d] \cup {m} ELSE posted[d]
         /\ \A d \in Side : \A k \in 1..Len(inbox'[d]) : inbox'[d][k] \in posted'[Other(d)]
<1>0. inbox \in [Side -> Seq(Message)] /\ posted \in [Side -> SUBSET Message]
  BY DEF TypeOK
<1>1. CASE UNCHANGED <<inbox, posted>>
  BY <1>1, <1>0 DEF Came
<1>2. CASE Post(c, m)
  <2> DEFINE q == Append(inbox[Other(c)], m)
  <2>1. /\ q \in Seq(Message) /\ Len(q) = Len(inbox[Other(c)]) + 1
        /\ \A k \in 1..Len(q) : q[k] = IF k = Len(q) THEN m ELSE inbox[Other(c)][k]
    BY <1>0, Sides, AppendProperties
  <2>2. /\ posted' = [posted EXCEPT ![c] = posted[c] \cup {m}]
        /\ inbox' = inbox \/ inbox' = [inbox EXCEPT ![Other(c)] = q]
    BY <1>2 DEF Post
  <2> HIDE DEF q
  <2>3. inbox' \in [Side -> Seq(Message)] /\ posted' \in [Side -> SUBSET Message]
    BY <1>0, <2>1, <2>2, Sides
  <2>4. /\ \A d \in Side : posted[d] \subseteq posted'[d]
        /\ \A d \in Side : posted'[d] \subseteq IF d = c THEN posted[d] \cup {m} ELSE posted[d]
        /\ m \in posted'[c]
    BY <1>0, <2>2
  <2>5. ASSUME NEW d \in Side, NEW k \in 1..Len(inbox'[d]) PROVE inbox'[d][k] \in posted'[Other(d)]
    <3>1. CASE inbox'[d] = inbox[d]
      BY <3>1, <2>4, <2>5, Sides DEF Came
    <3>2. CASE d = Other(c) /\ inbox'[d] = q
      <4>1. Other(d) = c
        BY <3>2 DEF Side, Other
      <4>2. CASE k = Len(q)
        BY <3>2, <4>1, <4>2, <2>1, <2>4, <2>5
      <4>3. CASE k # Len(q)
        <5>1. k \in 1..Len(inbox[d]) /\ q[k] = inbox[d][k]
          BY <3>2, <4>3, <2>1, <2>5, <1>0, LenProperties
        <5> QED BY <5>1, <3>2, <2>4, Sides DEF Came
      <4> QED BY <4>2, <4>3
    <3> QED BY <3>1, <3>2, <2>2, <1>0
  <2> QED BY <2>3, <2>4, <2>5
<1> QED BY <1>1, <1>2 DEF MayPost

\* A message that is taken.
LEMMA TakeFrame ==
  ASSUME TypeOK, Came, NEW c \in Side, inbox[c] # <<>>,
         inbox' = [inbox EXCEPT ![c] = Tail(inbox[c])]
  PROVE  /\ Head(inbox[c]) \in Message /\ Head(inbox[c]) \in posted[Other(c)]
         /\ inbox' \in [Side -> Seq(Message)]
         /\ \A d \in Side : \A k \in 1..Len(inbox'[d]) : inbox'[d][k] \in posted[Other(d)]
<1>0. inbox \in [Side -> Seq(Message)]
  BY DEF TypeOK
<1>1. /\ Tail(inbox[c]) \in Seq(Message) /\ Len(Tail(inbox[c])) = Len(inbox[c]) - 1
      /\ \A k \in 1..Len(Tail(inbox[c])) : Tail(inbox[c])[k] = inbox[c][k + 1]
      /\ Head(inbox[c]) = inbox[c][1] /\ Head(inbox[c]) \in Message
      /\ Len(inbox[c]) \in Nat /\ Len(inbox[c]) > 0
  BY <1>0, HeadTailProperties, EmptySeq, LenProperties
<1>2. ASSUME NEW d \in Side, NEW k \in 1..Len(inbox'[d]) PROVE inbox'[d][k] \in posted[Other(d)]
  <2>1. CASE d = c
    BY <2>1, <1>0, <1>1, <1>2 DEF Came
  <2>2. CASE d # c
    BY <2>2, <1>0, <1>2 DEF Came
  <2> QED BY <2>1, <2>2
<1>3. Head(inbox[c]) \in posted[Other(c)]
  BY <1>1 DEF Came
<1> QED BY <1>0, <1>1, <1>2, <1>3

\* The end of a side: only "done" of its collector changes.
LEMMA LeaveFrame ==
  ASSUME TypeOK, NEW c \in Side, Leave(c)
  PROVE  /\ pc' = [pc EXCEPT ![c] = "done"] /\ pc' \in [Side -> Step]
         /\ collector' \in [Side -> [at: {"off", "on", "stopped"}, pending: SUBSET CollectType,
                               waiting: SUBSET CollectType, done: {"open", "error", "closed"}]]
         /\ \A d \in Side : /\ collector'[d].pending = collector[d].pending
                            /\ collector'[d].waiting = collector[d].waiting
<1>1. pc' = [pc EXCEPT ![c] = "done"] /\ pc' \in [Side -> Step]
  BY DEF Leave, Goes, TypeOK, Step
<1>2. collector' = [collector EXCEPT ![c] =
                      [collector[c] EXCEPT !.done = IF collector[c].done = "open" THEN "closed"
                                                    ELSE collector[c].done]]
  BY DEF Leave
<1>3. collector \in [Side -> [at: {"off", "on", "stopped"}, pending: SUBSET CollectType,
                         waiting: SUBSET CollectType, done: {"open", "error", "closed"}]]
  BY DEF TypeOK
<1> QED BY <1>1, <1>2, <1>3

-----------------------------------------------------------------------------
(* The two kinds of step: the goroutine of a side goes on, or its collector *)
(* does something while it stays where it is.                              *)

ReplyType == {"none", "awaited", "message", "error"}
CollectorType == [at: {"off", "on", "stopped"}, pending: SUBSET CollectType,
                  waiting: SUBSET CollectType, done: {"open", "error", "closed"}]
RoleAt(c) == IF c = "s" THEN SenderAt ELSE ReceiverAt
Early == {"pake", "getPake", "version", "getVersion", "unacked", "done"}

\* What a step of side c does to the mailbox: m may be added, a message may be taken.
Mailed(c, m) ==
    /\ inbox' \in [Side -> Seq(Message)] /\ posted' \in [Side -> SUBSET Message]
    /\ \A d \in Side : posted[d] \subseteq posted'[d]
    /\ \A d \in Side : posted'[d] \subseteq IF d = c THEN posted[d] \cup {m} ELSE posted[d]
    /\ \A d \in Side : \A k \in 1..Len(inbox'[d]) : inbox'[d][k] \in posted'[Other(d)]

\* Neither what is pending nor who waits changes.
Undisturbed ==
    /\ collector' \in [Side -> CollectorType]
    /\ \A d \in Side : /\ collector'[d].pending = collector[d].pending
                       /\ collector'[d].waiting = collector[d].waiting

\* Side c goes to p, if it had a reply with that.
GoesTo(c, p) ==
    /\ pc[c] # "done" /\ reply[c] # "awaited"
    /\ pc' = [pc EXCEPT ![c] = p]
    /\ reply' = [reply EXCEPT ![c] = "none"]
    /\ Undisturbed
    /\ p \in RoleAt(c)
    /\ ~setup.sameCode => p \in Early /\ posted'[c] \subseteq {"pake", "version"}
    /\ UNCHANGED <<setup, ctx, mail, linkVars>>

TalkParts ==
    /\ pc' \in [Side -> Step]
    /\ reply' \in [Side -> ReplyType]
    /\ \A d \in Side : collector'[d].waiting # {} <=> reply'[d] = "awaited"
    /\ InRole' /\ Waits' /\ Came' /\ Stopped' /\ Flight' /\ Acked'

(* A goroutine that goes on after it read or wrote one message keeps what is said of its own talk. *)
LEMMA GoesToParts ==
  ASSUME Inv, NEW c \in Side, NEW m \in Message, NEW p, Mailed(c, m), GoesTo(c, p),
         reader' = reader \/ (c = "r" /\ reader' # "eof")
  PROVE  TalkParts
<1>0. /\ pc \in [Side -> Step] /\ reply \in [Side -> ReplyType]
      /\ collector \in [Side -> CollectorType]
      /\ \A d \in Side : collector[d].waiting # {} <=> reply[d] = "awaited"
  BY DEF Inv, TypeOK, ReplyType, CollectorType
<1>1. pc' \in [Side -> Step]
  BY <1>0 DEF GoesTo, RoleAt, SenderAt, ReceiverAt, Common, Step
<1>2. reply' \in [Side -> ReplyType]
  BY <1>0 DEF GoesTo, ReplyType
<1>3. \A d \in Side : collector'[d].waiting # {} <=> reply'[d] = "awaited"
  BY <1>0 DEF GoesTo, Undisturbed
<1>4. InRole'
  BY <1>0, Sides DEF GoesTo, Inv, InRole, RoleAt, SenderAt, ReceiverAt
<1>5. Waits'
  BY <1>0 DEF GoesTo, Undisturbed, Inv, Waits
<1>6. Came'
  <2>1. ASSUME NEW d \in Side
        PROVE  /\ collector'[d].pending \subseteq posted'[Other(d)]
               /\ reply'[d] = "message" => Wanted[pc'[d]] \in posted'[Other(d)]
    <3>1. posted[Other(d)] \subseteq posted'[Other(d)]
      BY Sides DEF Mailed
    <3>2. reply'[d] = "message" => reply[d] = "message" /\ pc'[d] = pc[d]
      BY <1>0 DEF GoesTo
    <3> QED BY <3>1, <3>2 DEF GoesTo, Undisturbed, Inv, Came
  <2> QED BY <2>1 DEF Came, Mailed
<1>7. Stopped'
  <2> SUFFICES ASSUME ~setup'.sameCode, NEW d \in Side
               PROVE  pc'[d] \in Early /\ posted'[d] \subseteq {"pake", "version"}
    BY DEF Stopped, Early
  <2>1. ~setup.sameCode
    BY DEF GoesTo
  <2>2. CASE d = c
    BY <2>1, <2>2, <1>0 DEF GoesTo
  <2>3. CASE d # c
    BY <2>1, <2>3, <1>0 DEF GoesTo, Inv, Stopped, Early, Mailed
  <2> QED BY <2>2, <2>3
<1>8. Flight'
  BY DEF GoesTo, linkVars, Inv, Flight
<1>9. Acked'
  <2>1. reader = "eof" => c # "r" /\ pc'["r"] = "done"
    BY <1>0, Sides DEF GoesTo, Inv, Acked
  <2>2. reader = "eof" <=> reader' = "eof"
    BY <2>1
  <2> QED BY <2>1, <2>2 DEF GoesTo, linkVars, Inv, Acked
<1> QED BY <1>1, <1>2, <1>3, <1>4, <1>5, <1>6, <1>7, <1>8, <1>9 DEF TalkParts

\* With what the parts leave open.
LEMMA TalkInv ==
  ASSUME Inv, TalkParts, NEW c \in Side, NEW m \in Message, Mailed(c, m), Undisturbed,
         UNCHANGED <<setup, ctx, mail, linkVars>>,
         result' \in {"none", "ok", "error"}, received' \in {"none", "text", "file", "error"},
         reader' \in {"none", "rejected", "eof", "error"},
         Answered', Seen'
  PROVE  Inv'
<1>1. TypeOK'
  BY DEF Inv, TypeOK, TalkParts, Mailed, Undisturbed, ReplyType, CollectorType, linkVars
<1> QED BY <1>1 DEF Inv, TalkParts

\* The side goes on.  A Receive that answers is then in "answered", and leaves it only
\* with the text, or cut off.
LEMMA GoesOn ==
  ASSUME Inv, NEW c \in Side, NEW m \in Message, NEW p, Mailed(c, m), GoesTo(c, p),
         UNCHANGED endVars,
         c = "r" /\ (m = "answer" \/ pc[c] = "answered") /\ setup.kind = "text" =>
            p = "answered" \/ CutOff
  PROVE  Inv'
<1>1. TalkParts
  BY GoesToParts DEF endVars
<1>2. Answered'
  <2>1. received = "text" => c # "r" /\ pc'["r"] = "done"
    BY Sides DEF GoesTo, Inv, TypeOK, Answered
  <2>2. "answer" \in posted'["r"] => "answer" \in posted["r"] \/ (c = "r" /\ m = "answer")
    BY Sides DEF Mailed
  <2>3. pc'["r"] = IF c = "r" THEN p ELSE pc["r"]
    BY Sides DEF GoesTo, Inv, TypeOK
  <2>4. CutOff' <=> CutOff
    BY DEF GoesTo, CutOff
  <2> QED BY <2>1, <2>2, <2>3, <2>4, Sides DEF GoesTo, endVars, Inv, Answered
<1>3. Seen'
  BY Sides DEF GoesTo, endVars, linkVars, Mailed, Inv, Seen
<1> QED BY <1>1, <1>2, <1>3, TalkInv DEF GoesTo, endVars, Inv, TypeOK

\* The side fails.
LEMMA Fails ==
  ASSUME Inv, NEW c \in Side, NEW m \in Message, Mailed(c, m), GoesTo(c, "done"), Fail(c),
         c = "r" /\ (m = "answer" \/ pc[c] = "answered") /\ setup.kind = "text" => CutOff
  PROVE  Inv'
<1>0. UNCHANGED reader
  BY DEF Fail
<1>1. TalkParts
  BY <1>0, GoesToParts
<1>2. /\ c = "s" => result' = "error" /\ received' = received
      /\ c = "r" => result' = result /\ received' = "error"
  BY Sides DEF Fail
<1>3. Answered'
  <2>1. received = "text" => c # "r" /\ pc'["r"] = "done"
    BY Sides DEF GoesTo, Inv, TypeOK, Answered
  <2>2. "answer" \in posted'["r"] => "answer" \in posted["r"] \/ (c = "r" /\ m = "answer")
    BY Sides DEF Mailed
  <2>3. CutOff' <=> CutOff
    BY DEF GoesTo, CutOff
  <2>4. c = "s" => pc'["r"] = pc["r"]
    BY Sides DEF GoesTo
  <2> QED BY <1>2, <2>1, <2>2, <2>3, <2>4, Sides DEF GoesTo, Inv, Answered
<1>4. Seen'
  BY <1>0, <1>2, Sides DEF GoesTo, linkVars, Mailed, Inv, Seen
<1>5. result' \in {"none", "ok", "error"} /\ received' \in {"none", "text", "file", "error"}
  BY <1>2, Sides DEF Inv, TypeOK
<1> QED BY <1>0, <1>1, <1>3, <1>4, <1>5, TalkInv DEF GoesTo, Inv, TypeOK

\* The numbers of a state.
LEMMA Amounts ==
  ASSUME Inv
  PROVE  /\ setup.offered \in Nat /\ setup.actual \in Nat
         /\ sent \in Nat /\ sent <= setup.actual /\ got \in 0..sent
<1>1. setup \in Setup /\ sent \in 0..setup.actual /\ got \in 0..sent
  BY DEF Inv, TypeOK
<1> QED BY <1>1, SetupType

\* A side that is in no waitFor.
LEMMA NotWaiting ==
  ASSUME Inv, NEW c \in Side, pc[c] \notin DOMAIN Wanted, UNCHANGED reply
  PROVE  reply[c] = "none" /\ reply' = [reply EXCEPT ![c] = "none"]
<1>1. reply[c] = "none"
  BY DEF Inv, Waits
<1> QED BY <1>1 DEF Inv, TypeOK

\* Nothing happens to the mailbox; a message is taken; one may be added.
LEMMA MailedNot ==
  ASSUME Inv, NEW c \in Side, NEW m \in Message, UNCHANGED <<inbox, posted>>
  PROVE  Mailed(c, m)
BY DEF Inv, TypeOK, Came, Mailed

(* Taking a record from the mailbox reads a message the other side posted. *)
LEMMA MailedTake ==
  ASSUME Inv, NEW c \in Side, NEW m \in Message, inbox[c] # <<>>,
         inbox' = [inbox EXCEPT ![c] = Tail(inbox[c])], UNCHANGED posted
  PROVE  Mailed(c, m) /\ Head(inbox[c]) \in Message /\ Head(inbox[c]) \in posted[Other(c)]
<1>1. TypeOK /\ Came
  BY DEF Inv
<1> QED BY <1>1, TakeFrame DEF Mailed, TypeOK

(* Posting a message puts it in the other side's mailbox and nowhere else. *)
LEMMA MailedPost ==
  ASSUME Inv, NEW c \in Side, NEW m \in Message, MayPost(c, m)
  PROVE  Mailed(c, m)
<1>1. TypeOK /\ Came
  BY DEF Inv
<1> QED BY <1>1, PostFrame DEF Mailed

(* A step that leaves the collectors alone. *)
LEMMA UndisturbedNot ==
  ASSUME Inv, UNCHANGED collector
  PROVE  Undisturbed
BY DEF Inv, TypeOK, Undisturbed, CollectorType

(* A goroutine that returns cancels its collector. *)
LEMMA UndisturbedLeave ==
  ASSUME Inv, NEW c \in Side, Leave(c)
  PROVE  Undisturbed /\ pc' = [pc EXCEPT ![c] = "done"]
<1>1. TypeOK
  BY DEF Inv
<1> QED BY <1>1, LeaveFrame DEF Undisturbed, CollectorType

\* Everybody can fail.
LEMMA FailsFrom ==
  ASSUME Inv, NEW c \in Side, NEW m \in Message, Mailed(c, m), Fail(c),
         pc[c] # "done", reply[c] # "awaited",
         reply' = [reply EXCEPT ![c] = "none"], UNCHANGED <<setup, ctx, mail, linkVars>>,
         ~setup.sameCode => posted'[c] \subseteq {"pake", "version"},
         c = "r" /\ (m = "answer" \/ pc[c] = "answered") /\ setup.kind = "text" => CutOff
  PROVE  Inv'
<1>1. Undisturbed /\ pc' = [pc EXCEPT ![c] = "done"]
  BY UndisturbedLeave DEF Fail
<1>2. "done" \in RoleAt(c) /\ "done" \in Early
  BY DEF RoleAt, SenderAt, ReceiverAt, Common, Early
<1>3. GoesTo(c, "done")
  BY <1>1, <1>2 DEF GoesTo
<1> QED BY <1>3, Fails

-----------------------------------------------------------------------------
(* The actions of the protocol.                                            *)

\* A message that is written: by WriteStep, and after a verifier that is refused.
LEMMA WriteInv ==
  ASSUME Inv, NEW c \in Side, NEW m \in Message, NEW p, pc[c] \notin DOMAIN Wanted \cup {"done", "answered"},
         p \in RoleAt(c), ~setup.sameCode => p \in Early /\ m \in {"pake", "version"},
         UNCHANGED <<setup, ctx, mail, reply, linkVars>>,
         \/ (m = "answer" => p = "answered") /\ Posts(c, m) /\ Goes(c, p) /\ UNCHANGED <<collector, endVars>>
         \/ PostFails(c, m) /\ Fail(c)
         \/ m # "answer" /\ Posts(c, m) /\ Fail(c)
         \/ PostWaits(c, m)
  PROVE  Inv'
<1>1. MayPost(c, m)
  BY DEF MayPost, Posts, PostFails, PostWaits
<1>2. Mailed(c, m)
  BY <1>1, MailedPost
<1>3. reply[c] = "none" /\ reply' = [reply EXCEPT ![c] = "none"]
  BY NotWaiting
<1>4. ~setup.sameCode => posted'[c] \subseteq {"pake", "version"}
  BY <1>2 DEF Mailed, Inv, Stopped
<1>5. CASE (m = "answer" => p = "answered") /\ Posts(c, m) /\ Goes(c, p) /\ UNCHANGED <<collector, endVars>>
  <2>1. GoesTo(c, p)
    BY <1>3, <1>4, <1>5, UndisturbedNot DEF GoesTo, Goes
  <2> QED BY <1>2, <1>5, <2>1, GoesOn
<1>6. CASE PostFails(c, m) /\ Fail(c)
  BY <1>2, <1>3, <1>4, <1>6, FailsFrom DEF PostFails, CutOff
<1>7. CASE m # "answer" /\ Posts(c, m) /\ Fail(c)
  BY <1>2, <1>3, <1>4, <1>7, FailsFrom
<1>8. CASE PostWaits(c, m)
  <2>1. "unacked" \in RoleAt(c) /\ "unacked" \in Early
    BY DEF RoleAt, SenderAt, ReceiverAt, Common, Early
  <2>2. GoesTo(c, "unacked")
    BY <1>3, <1>4, <1>8, <2>1, UndisturbedNot DEF GoesTo, Goes, PostWaits
  <2> QED BY <1>2, <1>8, <2>2, GoesOn DEF PostWaits, CutOff
<1> QED BY <1>5, <1>6, <1>7, <1>8

\* A step that only a side with the other's version message takes.
LEMMA SameCode ==
  ASSUME Inv, NEW c \in Side, pc[c] \notin Early
  PROVE  setup.sameCode
BY DEF Inv, Stopped, Early, TypeOK, Setup

(* sendFile, sendText and Receive writing a message, or refusing what they read. *)
LEMMA WritesInv ==
  ASSUME Inv, NEW c \in Side, WritePake(c) \/ WriteVersion(c) \/ WriteTransit \/ WriteOffer \/ Refuse(c)
  PROVE  Inv'
<1>1. CASE WritePake(c)
  <2>1. "getPake" \in RoleAt(c) /\ "getPake" \in Early
    BY DEF RoleAt, SenderAt, ReceiverAt, Common, Early
  <2> QED BY <1>1, <2>1, WriteInv DEF WritePake, WriteStep, Message, Wanted
<1>2. CASE WriteVersion(c)
  <2>1. "getVersion" \in RoleAt(c) /\ "getVersion" \in Early
    BY DEF RoleAt, SenderAt, ReceiverAt, Common, Early
  <2> QED BY <1>2, <2>1, WriteInv DEF WriteVersion, WriteStep, Message, Wanted
<1>3. CASE WriteTransit
  <2>1. "s" \in Side /\ "offer" \in RoleAt("s") /\ setup.sameCode
    BY <1>3, Sides, SameCode DEF RoleAt, SenderAt, WriteTransit, WriteStep, Early
  <2> QED BY <1>3, <2>1, WriteInv DEF WriteTransit, WriteStep, Message, CollectType, Wanted
<1>4. CASE WriteOffer
  <2>1. "s" \in Side /\ "collect" \in RoleAt("s") /\ setup.sameCode
    BY <1>4, Sides, SameCode DEF RoleAt, SenderAt, Common, WriteOffer, WriteStep, Early
  <2> QED BY <1>4, <2>1, WriteInv DEF WriteOffer, WriteStep, Message, CollectType, Wanted
<1>5. CASE Refuse(c)
  <2>1. setup.sameCode /\ "done" \in RoleAt(c)
    BY <1>5, SameCode DEF RoleAt, SenderAt, ReceiverAt, Common, Refuse, Early
  <2>2. "error" \in Message /\ pc[c] \notin DOMAIN Wanted \cup {"done", "answered"}
    BY <1>5 DEF Refuse, Message, Wanted
  <2> QED BY <1>5, <2>1, <2>2, WriteInv DEF Refuse
<1> QED BY <1>1, <1>2, <1>3, <1>4, <1>5

\* Reading the two messages of the key exchange, and what comes of it.
LEMMA ReadsInv ==
  ASSUME Inv, NEW c \in Side, ReadPake(c) \/ ReadVersion(c) \/ Verify(c) \/ Collect(c) \/ Unacked(c)
  PROVE  Inv'
<1>0. "pake" \in Message /\ pc[c] \notin DOMAIN Wanted \cup {"done", "answered"}
  BY DEF ReadPake, ReadVersion, Verify, Collect, Unacked, Message, Wanted
<1>1. /\ reply[c] = "none" /\ reply' = [reply EXCEPT ![c] = "none"]
      /\ UNCHANGED <<setup, ctx, mail, linkVars, posted>>
  <2>1. UNCHANGED reply
    BY DEF ReadPake, ReadVersion, Verify, Collect, Unacked
  <2> QED BY <1>0, <2>1, NotWaiting DEF ReadPake, ReadVersion, Verify, Collect, Unacked
<1>2. ~setup.sameCode => posted'[c] \subseteq {"pake", "version"}
  BY <1>1 DEF Inv, Stopped
<1>3. Mailed(c, "pake")
  <2>1. CASE inbox[c] # <<>> /\ inbox' = [inbox EXCEPT ![c] = Tail(inbox[c])]
    BY <1>0, <1>1, <2>1, MailedTake
  <2>2. CASE UNCHANGED inbox
    BY <1>0, <1>1, <2>2, MailedNot
  <2> QED BY <2>1, <2>2 DEF ReadPake, ReadVersion, Verify, Collect, Unacked
<1>4. CASE Fail(c)
  BY <1>0, <1>1, <1>2, <1>3, <1>4, FailsFrom
<1>5. ASSUME NEW p, Goes(c, p), p \in RoleAt(c), ~setup.sameCode => p \in Early,
             UNCHANGED endVars, Undisturbed
      PROVE  Inv'
  <2>1. GoesTo(c, p)
    BY <1>0, <1>1, <1>2, <1>5 DEF GoesTo, Goes
  <2> QED BY <1>0, <1>3, <1>5, <2>1, GoesOn
<1>6. CASE ReadPake(c) /\ ~Fail(c)
  <2>1. "version" \in RoleAt(c) /\ "version" \in Early
    BY DEF RoleAt, SenderAt, ReceiverAt, Common, Early
  <2> QED BY <1>5, <1>6, <2>1, UndisturbedNot DEF ReadPake
<1>7. CASE ReadVersion(c) /\ ~Fail(c)
  <2>1. "verify" \in RoleAt(c) /\ setup.sameCode
    BY <1>7 DEF RoleAt, SenderAt, ReceiverAt, Common, ReadVersion, Opens
  <2> QED BY <1>5, <1>7, <2>1, UndisturbedNot DEF ReadVersion
<1>8. CASE Verify(c)
  <2> DEFINE p == IF c = "r" THEN "collect" ELSE IF setup.kind = "text" THEN "offer" ELSE "transit"
  <2>1. setup.sameCode
    BY <1>8, SameCode DEF Verify, Early
  <2>2. p \in RoleAt(c)
    <3>1. setup.kind \in {"text", "file"}
      BY DEF Inv, TypeOK, Setup
    <3> QED BY <3>1, Sides DEF RoleAt, SenderAt, ReceiverAt, Common
  <2> QED BY <1>5, <1>8, <2>1, <2>2, UndisturbedNot DEF Verify
<1>9. CASE Collect(c)
  <2> DEFINE p == IF c = "r" THEN "waitOffer" ELSE "waitAnswer"
  <2>1. setup.sameCode
    BY <1>9, SameCode DEF Collect, Early
  <2>2. p \in RoleAt(c)
    BY Sides DEF RoleAt, SenderAt, ReceiverAt
  <2>3. Undisturbed
    <3>1. collector \in [Side -> CollectorType]
      BY DEF Inv, TypeOK, CollectorType
    <3>2. collector' = [collector EXCEPT ![c] = [collector[c] EXCEPT !.at = "on"]]
      BY <1>9 DEF Collect
    <3> QED BY <3>1, <3>2 DEF Undisturbed, CollectorType
  <2> QED BY <1>5, <1>9, <2>1, <2>2, <2>3 DEF Collect
<1>10. CASE Unacked(c)
  BY <1>4, <1>10 DEF Unacked
<1> QED BY <1>4, <1>6, <1>7, <1>8, <1>9, <1>10

\* waitFor returns: with the message it wanted, or an error.
LEMMA WaitReturnsInv ==
  ASSUME Inv, NEW c \in Side, WaitReturns(c)
  PROVE  Inv'
<1>0. "pake" \in Message /\ pc[c] \notin {"done", "answered"} /\ reply[c] # "awaited" /\ setup.sameCode
  BY SameCode DEF WaitReturns, Message, Wanted, Early
<1>1. reply' = [reply EXCEPT ![c] = "none"] /\ UNCHANGED <<setup, ctx, mail, inbox, posted, linkVars>>
  BY DEF WaitReturns
<1>2. Mailed(c, "pake")
  BY <1>0, <1>1, MailedNot
<1>3. CASE Fail(c)
  BY <1>0, <1>1, <1>2, <1>3, FailsFrom
<1>4. CASE Goes(c, Continue(c)) /\ UNCHANGED <<collector, endVars>> /\ ~(pc[c] = "waitAnswer" /\ setup.kind = "text")
  <2>1. Continue(c) \in RoleAt(c)
    <3>1. setup.kind \in {"text", "file"} /\ pc[c] \in RoleAt(c) /\ pc[c] \in DOMAIN Wanted
      BY Sides DEF Inv, TypeOK, Setup, InRole, RoleAt, WaitReturns
    <3> QED BY <1>4, <3>1, Sides DEF Continue, RoleAt, SenderAt, ReceiverAt, Common, Wanted
  <2>2. GoesTo(c, Continue(c))
    BY <1>0, <1>1, <1>4, <2>1, UndisturbedNot DEF GoesTo, Goes
  <2> QED BY <1>0, <1>2, <1>4, <2>2, GoesOn
<1>5. CASE reply[c] = "message" /\ pc[c] = "waitAnswer" /\ setup.kind = "text" /\ Leave(c)
           /\ result' = "ok" /\ UNCHANGED <<received, reader>>
  <2>1. Undisturbed /\ pc' = [pc EXCEPT ![c] = "done"]
    BY <1>5, UndisturbedLeave
  <2>2. GoesTo(c, "done")
    BY <1>0, <1>1, <2>1 DEF GoesTo, RoleAt, SenderAt, ReceiverAt, Common
  <2>3. TalkParts
    BY <1>0, <1>2, <1>5, <2>2, GoesToParts
  <2>4. c = "s"
    BY <1>5, Sides DEF Inv, InRole, ReceiverAt, Common
  <2>5. "answer" \in posted["r"]
    BY <1>5, <2>4 DEF Inv, Came, Wanted, Other
  <2>6. Seen'
    BY <1>1, <1>5, <2>5 DEF Seen
  <2>7. Answered'
    <3>1. pc'["r"] = pc["r"] /\ UNCHANGED <<setup, ctx, mail, posted, received>>
      BY <1>1, <1>5, <2>1, <2>4, Sides DEF Inv, TypeOK
    <3> QED BY <3>1 DEF Inv, Answered, CutOff
  <2> QED BY <1>0, <1>1, <1>2, <1>5, <2>1, <2>3, <2>6, <2>7, TalkInv DEF Inv, TypeOK
<1> QED BY <1>3, <1>4, <1>5 DEF WaitReturns

\* Receive: a text is answered, a file returned.
LEMMA MessageAckInv ==
  ASSUME Inv, MessageAck
  PROVE  Inv'
<1>0. "r" \in Side /\ "answer" \in Message /\ pc["r"] \notin DOMAIN Wanted \cup {"done", "answered"}
  BY Sides DEF MessageAck, Message, CollectType, Wanted
<1>1. setup.sameCode /\ setup.kind = "text"
  BY <1>0, SameCode DEF MessageAck, Early, Inv, TypeOK, Setup, InRole, ReceiverAt, Common
<1>2. "answered" \in RoleAt("r")
  BY <1>1, Sides DEF RoleAt, ReceiverAt
<1> QED BY <1>0, <1>1, <1>2, WriteInv DEF MessageAck

(* Receive returns the text it has answered, or the end of its context. *)
LEMMA TextReturnsInv ==
  ASSUME Inv, TextReturns \/ Unclosed
  PROVE  Inv'
<1>0. "r" \in Side /\ "pake" \in Message /\ pc["r"] \notin DOMAIN Wanted \cup {"done"}
  BY Sides DEF TextReturns, Unclosed, Message, CollectType, Wanted
<1>1. setup.sameCode /\ setup.kind = "text"
  BY <1>0, SameCode DEF TextReturns, Unclosed, Early, Inv, TypeOK, Setup, InRole, ReceiverAt, Common
<1>2. UNCHANGED <<setup, ctx, mail, inbox, posted, reply, linkVars>>
  BY DEF TextReturns, Unclosed
<1>3. Mailed("r", "pake")
  BY <1>0, <1>2, MailedNot
<1>4. reply["r"] = "none" /\ reply' = [reply EXCEPT !["r"] = "none"]
  BY <1>0, <1>2, NotWaiting
<1>5. CASE ReturnText
  <2>1. Undisturbed /\ pc' = [pc EXCEPT !["r"] = "done"]
    BY <1>0, <1>5, UndisturbedLeave DEF ReturnText
  <2>2. GoesTo("r", "done")
    BY <1>0, <1>1, <1>2, <1>4, <2>1 DEF GoesTo, RoleAt, ReceiverAt, Common
  <2>3. TalkParts
    BY <1>0, <1>3, <1>5, <2>2, GoesToParts DEF ReturnText
  <2>4. Answered'
    BY <1>0, <1>5, <2>1 DEF Inv, TypeOK, Answered, ReturnText
  <2>5. Seen'
    BY <1>2, <1>5 DEF Inv, Seen, linkVars, ReturnText
  <2> QED BY <1>0, <1>2, <1>3, <1>5, <2>1, <2>3, <2>4, <2>5, TalkInv DEF Inv, TypeOK, ReturnText
<1>6. CASE ctx["r"] = "done" /\ Fail("r")
  BY <1>0, <1>1, <1>2, <1>3, <1>4, <1>6, FailsFrom DEF CutOff
<1>7. ASSUME NEW p \in {"unacked", "unclosed"}, mail["r"] = "lost", Goes("r", p),
             UNCHANGED <<collector, endVars>>
      PROVE  Inv'
  <2>1. GoesTo("r", p)
    BY <1>0, <1>1, <1>2, <1>4, <1>7, UndisturbedNot
       DEF GoesTo, Goes, RoleAt, ReceiverAt, Common
  <2> QED BY <1>0, <1>3, <1>7, <2>1, GoesOn DEF CutOff
<1> QED BY <1>5, <1>6, <1>7 DEF TextReturns, Unclosed

(* Receive returns its IncomingMessage, after the answer to a text or the transit hints. *)
LEMMA ReceiveReturnsInv ==
  ASSUME Inv, ReceiveReturns
  PROVE  Inv'
<1>0. "r" \in Side /\ "transit" \in Message /\ pc["r"] \notin DOMAIN Wanted \cup {"done", "answered"}
  BY Sides DEF ReceiveReturns, Message, CollectType, Wanted
<1>1. setup.sameCode /\ setup.kind # "text"
  BY <1>0, SameCode DEF ReceiveReturns, Early, Inv, InRole, ReceiverAt, Common
<1>2. CASE (PostFails("r", "transit") /\ Fail("r")) \/ PostWaits("r", "transit")
  <2>1. "done" \in RoleAt("r")
    BY DEF RoleAt, ReceiverAt, Common
  <2> QED BY <1>0, <1>1, <1>2, <2>1, WriteInv DEF ReceiveReturns
<1>3. CASE /\ Posts("r", "transit") /\ Goes("r", "decide")
           /\ collector' = [collector EXCEPT !["r"].done = IF @ = "open" THEN "closed" ELSE @]
           /\ received' = "file" /\ UNCHANGED <<result, reader>>
  <2>1. Mailed("r", "transit")
    BY <1>0, <1>3, MailedPost DEF Posts, MayPost
  <2>2. Undisturbed
    <3>1. collector \in [Side -> CollectorType]
      BY DEF Inv, TypeOK, CollectorType
    <3>2. collector' = [collector EXCEPT !["r"] =
                          [collector["r"] EXCEPT !.done = IF collector["r"].done = "open"
                                                          THEN "closed" ELSE collector["r"].done]]
      BY <1>3
    <3> QED BY <1>0, <3>1, <3>2 DEF Undisturbed, CollectorType
  <2>3. reply["r"] = "none" /\ reply' = [reply EXCEPT !["r"] = "none"]
    BY <1>0, NotWaiting DEF ReceiveReturns
  <2>4. GoesTo("r", "decide") /\ UNCHANGED <<setup, ctx, mail, linkVars>>
    BY <1>0, <1>1, <1>3, <2>2, <2>3 DEF GoesTo, Goes, RoleAt, ReceiverAt, Common, ReceiveReturns
  <2>5. TalkParts
    BY <1>0, <1>3, <2>1, <2>4, GoesToParts
  <2>6. Answered'
    BY <1>1, <1>3, <2>4 DEF Answered
  <2>7. Seen'
    BY <1>1, <1>3, <2>4 DEF Inv, Seen, linkVars
  <2> QED BY <1>0, <1>3, <2>1, <2>2, <2>4, <2>5, <2>6, <2>7, TalkInv DEF Inv, TypeOK
<1> QED BY <1>2, <1>3 DEF ReceiveReturns

\* What the application does with the file it was offered.
LEMMA DecideInv ==
  ASSUME Inv, Reject \/ FirstRead
  PROVE  Inv'
<1>0. "r" \in Side /\ pc["r"] = "decide" /\ pc["r"] \notin DOMAIN Wanted \cup {"done"}
  BY Sides DEF Reject, FirstRead, Wanted
<1>1. setup.sameCode /\ setup.kind # "text" /\ reader # "eof"
  BY <1>0, SameCode DEF Early, Inv, InRole, ReceiverAt, Common, Acked
<1>2. /\ UNCHANGED <<setup, ctx, mail, reply, linkVars, collector, result, received>>
      /\ \E m \in Message : MayPost("r", m)
      /\ \E p \in {"done", "hung", "connect"} : Goes("r", p)
      /\ reader' \in {reader, "error", "rejected"}
  <2>1. "error" \in Message /\ "answer" \in Message
    BY DEF Message, CollectType
  <2>2. ASSUME NEW m \in Message, AnswerLost(m)
        PROVE  /\ UNCHANGED <<collector, result, received>> /\ MayPost("r", m)
               /\ \E p \in {"done", "hung", "connect"} : Goes("r", p)
               /\ reader' \in {reader, "error", "rejected"}
    BY <2>2 DEF AnswerLost, Reads, endVars
  <2>3. CASE Reject
    <3>1. CASE AnswerLost("error")
      BY <2>1, <2>2, <2>3, <3>1 DEF Reject
    <3>2. CASE ~AnswerLost("error")
      BY <2>1, <2>3, <3>2 DEF Reject, MayPost, Reads
    <3> QED BY <3>1, <3>2
  <2>4. CASE FirstRead
    <3>1. CASE AnswerLost("answer")
      BY <2>1, <2>2, <2>4, <3>1 DEF FirstRead
    <3>2. CASE ~AnswerLost("answer")
      BY <2>1, <2>4, <3>2 DEF FirstRead, MayPost, Reads, endVars
    <3> QED BY <3>1, <3>2
  <2> QED BY <2>3, <2>4
<1>3. PICK m \in Message : MayPost("r", m)
  BY <1>2
<1>4. PICK p \in {"done", "hung", "connect"} : Goes("r", p)
  BY <1>2
<1>5. Mailed("r", m)
  BY <1>0, <1>3, MailedPost
<1>6. Undisturbed
  BY <1>2, UndisturbedNot
<1>7. reply["r"] = "none" /\ reply' = [reply EXCEPT !["r"] = "none"]
  BY <1>0, <1>2, NotWaiting
<1>8. GoesTo("r", p)
  BY <1>0, <1>1, <1>2, <1>4, <1>6, <1>7 DEF GoesTo, Goes, RoleAt, ReceiverAt, Common
<1>9. TalkParts
  BY <1>0, <1>1, <1>2, <1>5, <1>8, GoesToParts
<1>10. Answered'
  BY <1>0, <1>1, <1>2 DEF Inv, Answered
<1>11. Seen'
  BY <1>1, <1>2 DEF Inv, Seen, linkVars
<1> QED BY <1>0, <1>1, <1>2, <1>5, <1>6, <1>9, <1>10, <1>11, TalkInv DEF Inv, TypeOK

(* The sender gives up before it has offered, or before the receiver has come. *)
LEMMA GiveUpInv ==
  ASSUME Inv, ListenFails \/ AcceptFails
  PROVE  Inv'
<1>0. "s" \in Side /\ "pake" \in Message /\ pc["s"] \notin DOMAIN Wanted \cup {"done"}
  BY Sides DEF ListenFails, AcceptFails, Message, Wanted
<1>1. setup.sameCode
  BY <1>0, SameCode DEF ListenFails, AcceptFails, Early
<1>2. Fail("s") /\ UNCHANGED <<setup, ctx, mail, inbox, posted, reply, linkVars>>
  BY DEF ListenFails, AcceptFails
<1>3. Mailed("s", "pake")
  BY <1>0, <1>2, MailedNot
<1>4. reply["s"] = "none" /\ reply' = [reply EXCEPT !["s"] = "none"]
  BY <1>0, <1>2, NotWaiting
<1> QED BY <1>0, <1>1, <1>2, <1>3, <1>4, Sides, FailsFrom

-----------------------------------------------------------------------------
(* The collector.                                                          *)

\* The collector of side c becomes k, and its waitFor is told a.
LEMMA CollectorStep ==
  ASSUME Inv, NEW c \in Side, NEW m \in Message, Mailed(c, m),
         NEW k \in CollectorType, NEW a \in ReplyType,
         collector' = [collector EXCEPT ![c] = k], reply' = [reply EXCEPT ![c] = a],
         k.waiting # {} <=> a = "awaited",
         k.pending \subseteq posted[Other(c)],
         a # "none" => pc[c] \in DOMAIN Wanted,
         a = "awaited" => k.waiting = {Wanted[pc[c]]},
         a = "message" => Wanted[pc[c]] \in posted[Other(c)],
         UNCHANGED <<setup, ctx, mail, pc, posted, endVars, linkVars>>
  PROVE  Inv'
<1>0. collector \in [Side -> CollectorType] /\ reply \in [Side -> ReplyType]
  BY DEF Inv, TypeOK, CollectorType, ReplyType
<1>1. collector' \in [Side -> CollectorType] /\ reply' \in [Side -> ReplyType]
  BY <1>0
<1>2. \A d \in Side : IF d = c THEN collector'[d] = k /\ reply'[d] = a
                      ELSE collector'[d] = collector[d] /\ reply'[d] = reply[d]
  BY <1>0
<1>3. \A d \in Side : collector'[d].waiting # {} <=> reply'[d] = "awaited"
  BY <1>2 DEF Inv, TypeOK
<1>4. TypeOK'
  BY <1>1, <1>3 DEF Inv, TypeOK, Mailed, CollectorType, ReplyType, endVars, linkVars
<1>5. Waits'
  BY <1>2 DEF Inv, Waits
<1>6. Came'
  BY <1>2 DEF Inv, Came, Mailed
<1>7. InRole' /\ Answered' /\ Stopped' /\ Flight' /\ Acked' /\ Seen'
  BY DEF Inv, InRole, SenderAt, ReceiverAt, Answered, CutOff, Stopped, Flight, Acked, Seen,
         endVars, linkVars
<1> QED BY <1>4, <1>5, <1>6, <1>7 DEF Inv

(* collectType asks the collector for a message, which may be waiting already. *)
LEMMA SubscribeInv ==
  ASSUME Inv, NEW c \in Side, Subscribe(c)
  PROVE  Inv'
<1> DEFINE t == Wanted[pc[c]]
           col == collector[c]
<1>0. collector \in [Side -> CollectorType] /\ col \in CollectorType
  BY DEF Inv, TypeOK, CollectorType
<1>1. pc[c] \in DOMAIN Wanted /\ t \in CollectType /\ "pake" \in Message
  BY DEF Subscribe, Wanted, CollectType, Message
<1>2. Mailed(c, "pake") /\ UNCHANGED <<setup, ctx, mail, pc, posted, endVars, linkVars>>
  BY <1>1, MailedNot DEF Subscribe
<1>3. col.waiting = {} /\ col.pending \subseteq posted[Other(c)]
  BY DEF Subscribe, Inv, TypeOK, Came
<1>4. CASE /\ IsPending(c, t)
           /\ collector' = [collector EXCEPT ![c].pending = @ \ {t}]
           /\ reply' = [reply EXCEPT ![c] = "message"]
  <2> DEFINE k == [col EXCEPT !.pending = col.pending \ {t}]
  <2>1. /\ collector' = [collector EXCEPT ![c] = k]
        /\ reply' = [reply EXCEPT ![c] = "message"]
    BY <1>4
  <2>2. k \in CollectorType /\ k.waiting = {} /\ k.pending \subseteq col.pending
    BY <1>0, <1>3 DEF CollectorType
  <2>3. t \in posted[Other(c)]
    BY <1>3, <1>4 DEF IsPending
  <2> HIDE DEF k
  <2> QED BY <1>1, <1>2, <1>3, <2>1, <2>2, <2>3, CollectorStep DEF ReplyType
<1>5. CASE /\ collector' = [collector EXCEPT ![c].waiting = @ \cup {t}]
           /\ reply' = [reply EXCEPT ![c] = IF t \in col.waiting THEN "error" ELSE "awaited"]
  <2> DEFINE k == [col EXCEPT !.waiting = col.waiting \cup {t}]
  <2>1. /\ collector' = [collector EXCEPT ![c] = k]
        /\ reply' = [reply EXCEPT ![c] = "awaited"]
    BY <1>3, <1>5
  <2>2. k \in CollectorType /\ k.waiting = {t} /\ k.pending = col.pending
    BY <1>0, <1>1, <1>3 DEF CollectorType
  <2> HIDE DEF k
  <2> QED BY <1>1, <1>2, <1>3, <2>1, <2>2, CollectorStep DEF ReplyType
<1>6. CASE /\ collector' = [collector EXCEPT ![c].done = "closed"]
           /\ reply' = [reply EXCEPT ![c] = "error"]
  <2> DEFINE k == [col EXCEPT !.done = "closed"]
  <2>1. /\ collector' = [collector EXCEPT ![c] = k]
        /\ reply' = [reply EXCEPT ![c] = "error"]
    BY <1>6
  <2>2. k \in CollectorType /\ k.waiting = {} /\ k.pending = col.pending
    BY <1>0, <1>3 DEF CollectorType
  <2> HIDE DEF k
  <2> QED BY <1>1, <1>2, <1>3, <2>1, <2>2, CollectorStep DEF ReplyType
<1> QED BY <1>4, <1>5, <1>6 DEF Subscribe

(* The collector goroutine takes one event of the mailbox and hands it to who waits. *)
LEMMA CollectNextInv ==
  ASSUME Inv, NEW c \in Side, CollectNext(c)
  PROVE  Inv'
<1> DEFINE m == Head(inbox[c])
           col == collector[c]
<1>0. collector \in [Side -> CollectorType] /\ col \in CollectorType /\ reply \in [Side -> ReplyType]
  BY DEF Inv, TypeOK, CollectorType, ReplyType
<1>1. UNCHANGED <<setup, ctx, mail, pc, posted, endVars, linkVars>> /\ "pake" \in Message
  BY DEF CollectNext, Message
<1>2. /\ col.pending \subseteq posted[Other(c)]
      /\ col.waiting # {} <=> reply[c] = "awaited"
      /\ reply[c] # "none" => pc[c] \in DOMAIN Wanted
      /\ reply[c] = "awaited" => col.waiting = {Wanted[pc[c]]}
      /\ reply[c] = "message" => Wanted[pc[c]] \in posted[Other(c)]
  BY DEF Inv, TypeOK, Came, Waits
<1>3. CASE UNCHANGED <<inbox, reply>> /\ collector' = [collector EXCEPT ![c].at = "stopped"]
  <2> DEFINE k == [col EXCEPT !.at = "stopped"]
  <2>1. collector' = [collector EXCEPT ![c] = k] /\ reply' = [reply EXCEPT ![c] = reply[c]]
    BY <1>0, <1>3
  <2>2. k \in CollectorType /\ k.waiting = col.waiting /\ k.pending = col.pending
    BY <1>0 DEF CollectorType
  <2>3. Mailed(c, "pake")
    BY <1>1, <1>3, MailedNot
  <2> HIDE DEF k
  <2> QED BY <1>0, <1>1, <1>2, <2>1, <2>2, <2>3, CollectorStep
<1>4. ASSUME inbox[c] # <<>>, inbox' = [inbox EXCEPT ![c] = Tail(inbox[c])]
      PROVE  Mailed(c, "pake") /\ m \in Message /\ m \in posted[Other(c)]
  BY <1>1, <1>4, MailedTake
<1>5. CASE inbox[c] # <<>> /\ inbox' = [inbox EXCEPT ![c] = Tail(inbox[c])] /\ ErrorResult(c)
  <2> DEFINE k == [col EXCEPT !.at = "stopped", !.waiting = {},
                              !.done = IF col.done = "open" THEN "error" ELSE col.done]
             a == IF reply[c] = "awaited" THEN "error" ELSE reply[c]
  <2>1. collector' = [collector EXCEPT ![c] = k] /\ reply' = [reply EXCEPT ![c] = a]
    BY <1>5 DEF ErrorResult
  <2>2. k \in CollectorType /\ k.waiting = {} /\ k.pending = col.pending
    BY <1>0 DEF CollectorType
  <2>3. a \in ReplyType /\ a # "awaited" /\ (a # "none" => reply[c] # "none")
        /\ (a = "message" => reply[c] = "message")
    BY <1>0 DEF ReplyType
  <2> HIDE DEF k, a
  <2> QED BY <1>1, <1>2, <1>4, <1>5, <2>1, <2>2, <2>3, CollectorStep
<1>6. CASE inbox[c] # <<>> /\ inbox' = [inbox EXCEPT ![c] = Tail(inbox[c])] /\ Deliver(c, m)
  <2> DEFINE k == [col EXCEPT !.waiting = col.waiting \ {m}]
  <2>1. collector' = [collector EXCEPT ![c] = k] /\ reply' = [reply EXCEPT ![c] = "message"]
    BY <1>6 DEF Deliver
  <2>2. m \in col.waiting
    BY <1>6 DEF Deliver
  <2>3. m = Wanted[pc[c]] /\ pc[c] \in DOMAIN Wanted /\ col.waiting = {m}
    BY <1>2, <2>2
  <2>4. k \in CollectorType /\ k.waiting = {} /\ k.pending = col.pending
    BY <1>0, <2>3 DEF CollectorType
  <2> HIDE DEF k
  <2> QED BY <1>1, <1>2, <1>4, <1>6, <2>1, <2>3, <2>4, CollectorStep DEF ReplyType
<1>7. CASE /\ inbox[c] # <<>> /\ inbox' = [inbox EXCEPT ![c] = Tail(inbox[c])]
           /\ m \in CollectType
           /\ collector' = [collector EXCEPT ![c].pending = @ \cup {m}] /\ UNCHANGED reply
  <2> DEFINE k == [col EXCEPT !.pending = col.pending \cup {m}]
  <2>1. collector' = [collector EXCEPT ![c] = k] /\ reply' = [reply EXCEPT ![c] = reply[c]]
    BY <1>0, <1>7
  <2>2. k \in CollectorType /\ k.waiting = col.waiting /\ k.pending = col.pending \cup {m}
    BY <1>0, <1>7 DEF CollectorType
  <2> HIDE DEF k
  <2>3. k.pending \subseteq posted[Other(c)] /\ Mailed(c, "pake")
    BY <1>2, <1>4, <1>7, <2>2
  <2> QED BY <1>0, <1>1, <1>2, <2>1, <2>2, <2>3, CollectorStep
<1> QED BY <1>3, <1>5, <1>6, <1>7 DEF CollectNext

-----------------------------------------------------------------------------
(* The connection.                                                         *)

\* A step of the connection leaves the mailbox and the collectors alone; whoever it moves
\* is past the protocol.
LinkStep ==
    /\ UNCHANGED <<setup, ctx, mail, inbox, posted, reply, received>>
    /\ Undisturbed
    /\ pc' \in [Side -> Step]
    /\ \A d \in Side : pc'[d] # pc[d] => pc[d] \in {"accept", "sending", "connect", "reading", "record"}
    /\ pc'["s"] \in SenderAt /\ pc'["r"] \in ReceiverAt

(* A step of the file link that leaves the talk alone. *)
LEMMA LinkStepInv ==
  ASSUME Inv, LinkStep,
         result' \in {"none", "ok", "error"}, reader' \in {"none", "rejected", "eof", "error"},
         link' \in {"none", "up", "broken", "stranded"},
         toRecv' \in Seq(Nat), toSend' \in Seq(Nat), open' \subseteq Side,
         sent' \in 0..setup.actual, got' \in 0..sent',
         Flight', Acked', Seen'
  PROVE  Inv'
<1>1. TypeOK'
  BY DEF Inv, TypeOK, LinkStep, Undisturbed, CollectorType
<1>2. InRole'
  BY DEF InRole, LinkStep, SenderAt, ReceiverAt
<1>0. \A d \in Side : reply[d] # "none" => pc'[d] = pc[d]
  BY DEF Inv, Waits, LinkStep, Wanted
<1>3. Waits'
  BY <1>0 DEF Inv, Waits, LinkStep, Undisturbed
<1>4. Came'
  BY <1>0 DEF Inv, Came, LinkStep, Undisturbed
<1>5. Answered'
  <2>1. pc["r"] \in {"done", "answered"} => pc'["r"] = pc["r"]
    BY Sides DEF LinkStep
  <2> QED BY <2>1 DEF Inv, Answered, CutOff, LinkStep
<1>6. Stopped'
  BY DEF Inv, Stopped, LinkStep
<1> QED BY <1>1, <1>2, <1>3, <1>4, <1>5, <1>6 DEF Inv

\* Both sides of a connection transfer a file.
LEMMA FileOnly ==
  ASSUME Inv, pc["s"] \in {"accept", "sending"} \/ pc["r"] \in {"connect", "reading", "record"}
  PROVE  setup.kind = "file"
BY DEF Inv, TypeOK, Setup, InRole, SenderAt, ReceiverAt, Common

(* The two sides connect their transit link, or one of them fails to. *)
LEMMA ConnectInv ==
  ASSUME Inv, Connect \/ ConnectFails
  PROVE  Inv'
<1>1. setup.kind = "file" /\ reader # "eof"
  BY FileOnly DEF Connect, ConnectFails, Inv, Acked
<1>2. /\ UNCHANGED <<setup, ctx, mail, inbox, posted, reply, received, collector>>
      /\ UNCHANGED <<toRecv, toSend, sent, got, result>>
      /\ reader' \in {reader, "error"} /\ link' \in {link, "up", "broken", "stranded"}
      /\ open' \in {open, Side}
  BY DEF Connect, ConnectFails, Reads, endVars
<1>3. LinkStep
  <2>1. CASE Connect
    BY <1>1, <1>2, <2>1, Sides, UndisturbedNot
       DEF LinkStep, Connect, Side, Step, SenderAt, ReceiverAt
  <2>2. CASE ConnectFails /\ pc' = [s |-> "sending", r |-> "done"] /\ pc["s"] = "accept"
    BY <1>1, <1>2, <2>2, Sides, UndisturbedNot
       DEF LinkStep, ConnectFails, Side, Step, SenderAt, ReceiverAt, Common
  <2>3. CASE ConnectFails /\ Goes("r", "done")
    <3>1. pc' = [pc EXCEPT !["r"] = "done"] /\ pc["r"] = "connect" /\ pc \in [Side -> Step]
      BY <2>3 DEF ConnectFails, Goes, Inv, TypeOK
    <3> QED BY <1>2, <3>1, Sides, UndisturbedNot
            DEF LinkStep, Step, Inv, InRole, ReceiverAt, Common
  <2> QED BY <2>1, <2>2, <2>3 DEF ConnectFails
<1>4. Flight' /\ Acked' /\ Seen'
  BY <1>1, <1>2 DEF Inv, Flight, Acked, Seen
<1> QED BY <1>2, <1>3, <1>4, LinkStepInv DEF Inv, TypeOK

\* The sender fails.
LEMMA SendFailsInv ==
  ASSUME Inv, pc["s"] = "sending", SendFails,
         UNCHANGED <<setup, ctx, mail, inbox, posted, reply>>
  PROVE  Inv'
<1>1. setup.kind = "file" /\ "s" \in Side /\ Leave("s")
  BY FileOnly, Sides DEF SendFails, Fail
<1>2. Undisturbed /\ pc' = [pc EXCEPT !["s"] = "done"]
  BY <1>1, UndisturbedLeave
<1>3. result' = "error" /\ UNCHANGED <<received, reader>>
  BY DEF SendFails, Fail
<1>4. LinkStep
  BY <1>1, <1>2, <1>3, Sides DEF LinkStep, Inv, TypeOK, Step, InRole, SenderAt, Common
<1>5. Flight' /\ Acked' /\ Seen'
  BY <1>2, <1>3, Sides DEF SendFails, Inv, TypeOK, Flight, Acked, Seen
<1> QED BY <1>3, <1>4, <1>5, LinkStepInv DEF SendFails, CloseEnd, Inv, TypeOK

(* The sender writes one more record of the file, or finds the link broken. *)
LEMMA WriteRecordInv ==
  ASSUME Inv, WriteRecord
  PROVE  Inv'
<1>1. CASE SendFails
  BY <1>1, SendFailsInv DEF WriteRecord
<1>2. CASE /\ sent' = sent + 1 /\ toRecv' = Append(toRecv, sent')
           /\ UNCHANGED <<pc, collector, endVars, link, toSend, open, got>>
  <2>1. /\ sent' = sent + 1 /\ sent < setup.actual /\ toRecv' = Append(toRecv, sent + 1)
        /\ UNCHANGED <<pc, collector, endVars, link, toSend, open, got>>
        /\ UNCHANGED <<setup, ctx, mail, inbox, posted, reply>>
    BY <1>2 DEF WriteRecord
  <2>2. sent \in Nat /\ got \in 0..sent /\ setup.actual \in Nat /\ toRecv \in Seq(Nat)
    BY Amounts DEF Inv, TypeOK
  <2>3. /\ toRecv' \in Seq(Nat) /\ Len(toRecv') = Len(toRecv) + 1
        /\ \A k \in 1..Len(toRecv') : toRecv'[k] = IF k = Len(toRecv') THEN sent + 1 ELSE toRecv[k]
    BY <2>1, <2>2, AppendProperties
  <2>4. sent' \in 0..setup.actual /\ got' \in 0..sent'
    BY <2>1, <2>2
  <2>5. Flight'
    <3>1. Len(toRecv) = sent - got /\ \A k \in 1..Len(toRecv) : toRecv[k] = got + k
      BY DEF Inv, Flight
    <3>2. ASSUME NEW k \in 1..Len(toRecv') PROVE toRecv'[k] = got + k
      BY <2>2, <2>3, <3>1, <3>2
    <3> QED BY <2>1, <2>2, <2>3, <3>1, <3>2 DEF Flight
  <2>6. LinkStep
    BY <2>1, UndisturbedNot DEF LinkStep, endVars, Inv, TypeOK, InRole
  <2>7. Acked' /\ Seen'
    BY <2>1 DEF endVars, Inv, Acked, Seen
  <2> QED BY <2>1, <2>3, <2>4, <2>5, <2>6, <2>7, LinkStepInv DEF endVars, Inv, TypeOK
<1> QED BY <1>1, <1>2 DEF WriteRecord

(* The sender reads the acknowledgement, or finds the link broken. *)
LEMMA ReadAckInv ==
  ASSUME Inv, ReadAck
  PROVE  Inv'
<1>1. CASE SendFails
  BY <1>1, SendFailsInv DEF ReadAck
<1>2. CASE toSend # <<>> /\ toSend' = Tail(toSend) /\ CloseEnd("s")
           /\ UNCHANGED <<link, toRecv, sent, got>>
           /\ \/ AckMatches /\ Leave("s") /\ result' = "ok" /\ UNCHANGED <<received, reader>>
              \/ ~AckMatches /\ Fail("s")
  <2>1. /\ setup.kind = "file" /\ "s" \in Side /\ pc["s"] = "sending" /\ sent = setup.actual
        /\ UNCHANGED <<setup, ctx, mail, inbox, posted, reply>>
    BY <1>2, FileOnly, Sides DEF ReadAck
  <2>2. Undisturbed /\ pc' = [pc EXCEPT !["s"] = "done"]
    BY <1>2, <2>1, UndisturbedLeave DEF Fail
  <2>3. UNCHANGED <<received, reader>> /\ result' \in {"ok", "error"} /\ (result' = "ok" => AckMatches)
    BY <1>2 DEF Fail
  <2>4. LinkStep
    BY <2>1, <2>2, <2>3, Sides DEF LinkStep, Inv, TypeOK, Step, InRole, SenderAt, Common
  <2>5. /\ toSend' \in Seq(Nat) /\ Head(toSend) = toSend[1] /\ 1 \in 1..Len(toSend)
        /\ Len(toSend') = Len(toSend) - 1
        /\ \A k \in 1..Len(toSend') : toSend'[k] = toSend[k + 1] /\ k + 1 \in 1..Len(toSend)
    <3>1. toSend \in Seq(Nat) /\ Len(toSend) \in Nat /\ Len(toSend) > 0
      BY <1>2, LenProperties, EmptySeq DEF Inv, TypeOK
    <3> QED BY <1>2, <3>1, HeadTailProperties
  <2>6. Seen'
    <3>1. toSend[1] = got /\ reader = "eof"
      BY <2>5 DEF Inv, Acked
    <3> QED BY <1>2, <2>1, <2>3, <2>5, <3>1 DEF Seen, AckMatches
  <2>7. Acked'
    BY <1>2, <2>1, <2>2, <2>3, <2>5, Sides DEF Inv, TypeOK, Acked
  <2>8. Flight'
    BY <1>2 DEF Inv, Flight
  <2> QED BY <1>2, <2>1, <2>3, <2>4, <2>5, <2>6, <2>7, <2>8, LinkStepInv DEF CloseEnd, Inv, TypeOK
<1> QED BY <1>1, <1>2 DEF ReadAck

\* The receiver reads, or stops.
LEMMA ReaderParts ==
  ASSUME Inv, NEW p \in {"record", "reading", "done"}, Goes("r", p), pc["r"] \in {"reading", "record"},
         UNCHANGED <<setup, ctx, mail, inbox, posted, collector, reply, received>>
  PROVE  LinkStep /\ setup.kind = "file" /\ reader # "eof" /\ toSend = <<>> /\ pc'["r"] = p
<1>1. setup.kind = "file" /\ reader # "eof"
  BY FileOnly DEF Inv, Acked
<1>2. pc' = [pc EXCEPT !["r"] = p] /\ pc \in [Side -> Step] /\ pc'["r"] = p
  BY Sides DEF Goes, Inv, TypeOK
<1>3. LinkStep
  BY <1>1, <1>2, Sides, UndisturbedNot DEF LinkStep, Step, Inv, InRole, ReceiverAt, Common
<1>4. toSend = <<>>
  <2>1. toSend \in Seq(Nat) /\ \A k \in 1..Len(toSend) : reader = "eof"
    BY DEF Inv, TypeOK, Acked
  <2> QED BY <1>1, <2>1, LenProperties, EmptySeq
<1> QED BY <1>1, <1>2, <1>3, <1>4

\* The end of the file, and its ack.
LEMMA CompleteInv ==
  ASSUME Inv, Complete, pc["r"] \in {"reading", "record"},
         got' \in 0..sent, got' >= setup.offered, toRecv' \in Seq(Nat),
         UNCHANGED <<setup, ctx, mail, inbox, posted, collector, reply, link, sent>>, Flight'
  PROVE  Inv'
<1>1. Goes("r", "done") /\ reader' = "eof" /\ UNCHANGED <<result, received>>
  BY DEF Complete, Finish, Reads
<1>2. LinkStep /\ setup.kind = "file" /\ reader # "eof" /\ toSend = <<>> /\ pc'["r"] = "done"
  BY <1>1, ReaderParts
<1>3. toSend' = <<>> \/ toSend' = <<got'>>
  BY <1>2 DEF Complete
<1>4. toSend' \in Seq(Nat) /\ \A k \in 1..Len(toSend') : toSend'[k] = got'
  <2>1. got' \in Nat
    BY Amounts
  <2>2. CASE toSend' = <<>>
    BY <2>2
  <2>3. CASE toSend' = <<got'>>
    <3>1. Len(toSend') = 1 /\ toSend'[1] = got'
      BY <2>3
    <3>2. toSend' \in Seq(Nat)
      BY <2>1, <2>3
    <3> QED BY <3>1, <3>2
  <2> QED BY <1>3, <2>2, <2>3
<1>5. Acked' /\ Seen'
  BY <1>1, <1>2, <1>4 DEF Inv, Acked, Seen
<1> QED BY <1>1, <1>2, <1>4, <1>5, LinkStepInv DEF Complete, CloseEnd, Inv, TypeOK

(* The receiver's Read: it accepts, takes records, and acknowledges after the last. *)
LEMMA ReadingInv ==
  ASSUME Inv, Read \/ ReadRecord \/ ReadCancelled
  PROVE  Inv'
<1>0. /\ pc["r"] \in {"reading", "record"} /\ got \in 0..sent /\ sent \in Nat /\ setup.offered \in Nat
      /\ UNCHANGED <<setup, ctx, mail, inbox, posted, collector, reply, link, sent>>
  BY Amounts DEF Read, ReadRecord, ReadCancelled
<1>1. ASSUME NEW p \in {"record", "reading", "done"}, Goes("r", p),
             UNCHANGED <<received, result, toRecv, toSend, got>>,
             reader' \in {reader, "error"}, open' \subseteq open
      PROVE  Inv'
  <2>1. LinkStep /\ setup.kind = "file" /\ reader # "eof"
    BY <1>0, <1>1, ReaderParts
  <2>2. Flight' /\ Acked' /\ Seen'
    BY <1>0, <1>1, <2>1 DEF Inv, Flight, Acked, Seen
  <2> QED BY <1>0, <1>1, <2>1, <2>2, LinkStepInv DEF Inv, TypeOK
<1>2. CASE Read
  <2>1. CASE ~EmptyFile
    BY <1>1, <1>2, <2>1 DEF Read, endVars
  <2>2. CASE EmptyFile
    <3>1. Complete /\ got' = got /\ toRecv' = toRecv
      BY <1>2, <2>2 DEF Read
    <3>2. got' >= setup.offered
      BY <1>0, <2>2, <3>1 DEF EmptyFile
    <3> QED BY <1>0, <3>1, <3>2, CompleteInv DEF Inv, TypeOK, Flight
  <2> QED BY <2>1, <2>2
<1>3. CASE ReadRecord
  <2>1. CASE Finish(Truncated) /\ UNCHANGED <<toRecv, toSend, got, open>>
    BY <1>1, <2>1 DEF Finish, Reads, Truncated
  <2>2. CASE /\ toRecv # <<>> /\ toRecv' = Tail(toRecv) /\ got' = got + 1
             /\ \/ got' >= setup.offered /\ Complete
                \/ got' < setup.offered /\ Goes("r", "reading") /\ UNCHANGED <<endVars, toSend, open>>
    <3>1. /\ toRecv' \in Seq(Nat) /\ Len(toRecv') = Len(toRecv) - 1
          /\ \A k \in 1..Len(toRecv') : toRecv'[k] = toRecv[k + 1] /\ k + 1 \in 1..Len(toRecv)
          /\ Len(toRecv) \in Nat /\ Len(toRecv) > 0
      <4>1. toRecv \in Seq(Nat) /\ Len(toRecv) \in Nat /\ Len(toRecv) > 0
        BY <2>2, LenProperties, EmptySeq DEF Inv, TypeOK
      <4> QED BY <2>2, <4>1, HeadTailProperties
    <3>2. Len(toRecv) = sent - got /\ \A k \in 1..Len(toRecv) : toRecv[k] = got + k
      BY DEF Inv, Flight
    <3>3. got' \in 0..sent
      BY <1>0, <2>2, <3>1, <3>2
    <3>4. Flight'
      <4>1. ASSUME NEW k \in 1..Len(toRecv') PROVE toRecv'[k] = got' + k
        BY <1>0, <2>2, <3>1, <3>2, <4>1
      <4> QED BY <1>0, <2>2, <3>1, <3>2, <4>1 DEF Flight
    <3>5. CASE got' >= setup.offered /\ Complete
      BY <1>0, <3>1, <3>3, <3>4, <3>5, CompleteInv
    <3>6. CASE Goes("r", "reading") /\ UNCHANGED <<endVars, toSend, open>>
      <4>1. LinkStep /\ setup.kind = "file" /\ reader # "eof" /\ toSend = <<>>
        BY <1>0, <3>6, ReaderParts DEF endVars
      <4>2. Acked' /\ Seen'
        BY <1>0, <3>6, <4>1 DEF Inv, Acked, Seen, endVars
      <4> QED BY <1>0, <3>1, <3>3, <3>4, <3>6, <4>1, <4>2, LinkStepInv DEF Inv, TypeOK, endVars
    <3> QED BY <2>2, <3>5, <3>6
  <2> QED BY <1>3, <2>1, <2>2 DEF ReadRecord
<1>4. CASE ReadCancelled
  BY <1>1, <1>4 DEF ReadCancelled, CloseEnd, Finish, Reads
<1> QED BY <1>2, <1>3, <1>4

-----------------------------------------------------------------------------
(* What happens to a side, and to the connection.                          *)

(* What the callers, the mailbox server and the network do. *)
LEMMA OutsideInv ==
  ASSUME Inv, \/ \E c \in Side : Cancel(c) \/ LoseMailbox(c)
              \/ BreakLink \/ CloseOnCancel \/ UNCHANGED vars
  PROVE  Inv'
<1> DEFINE Frame ==
         /\ UNCHANGED <<setup, pc, inbox, posted, collector, reply, result, received, reader>>
         /\ UNCHANGED <<toRecv, toSend, sent, got>>
         /\ ctx' \in [Side -> {"live", "done"}] /\ mail' \in [Side -> {"up", "lost"}]
         /\ \A c \in Side : /\ ctx[c] = "done" => ctx'[c] = "done"
                            /\ mail[c] = "lost" => mail'[c] = "lost"
         /\ link' \in {"none", "up", "broken", "stranded"} /\ open' \subseteq Side
<1>0. /\ ctx \in [Side -> {"live", "done"}] /\ mail \in [Side -> {"up", "lost"}]
      /\ link \in {"none", "up", "broken", "stranded"} /\ open \subseteq Side
  BY DEF Inv, TypeOK
<1>1. Frame
  <2>1. ASSUME NEW c \in Side, Cancel(c) \/ LoseMailbox(c) PROVE Frame
    BY <1>0, <2>1 DEF Cancel, LoseMailbox, protoVars, endVars, linkVars
  <2>2. CASE BreakLink \/ CloseOnCancel
    BY <1>0, <2>2 DEF BreakLink, CloseOnCancel, CloseEnd, protoVars, endVars
  <2>3. CASE UNCHANGED vars
    BY <1>0, <2>3 DEF vars, protoVars, endVars, linkVars
  <2> QED BY <2>1, <2>2, <2>3
<1>2. TypeOK'
  BY <1>1 DEF Inv, TypeOK
<1>3. InRole' /\ Waits' /\ Came' /\ Stopped'
  BY <1>1 DEF Inv, InRole, SenderAt, ReceiverAt, Waits, Came, Stopped
<1>4. Answered' /\ Flight' /\ Acked' /\ Seen'
  BY <1>1, Sides DEF Inv, Answered, CutOff, Flight, Acked, Seen
<1> QED BY <1>2, <1>3, <1>4 DEF Inv

-----------------------------------------------------------------------------
(* The theorems.                                                           *)

(* Every step of the two programs preserves the invariant. *)
LEMMA NextInv == Inv /\ [Next]_vars => Inv'
<1> SUFFICES ASSUME Inv, [Next]_vars PROVE Inv'
  OBVIOUS
<1>1. ASSUME NEW c \in Side, Proto(c) \/ CollectNext(c) PROVE Inv'
  BY <1>1, WritesInv, ReadsInv, SubscribeInv, WaitReturnsInv, CollectNextInv DEF Proto
<1>2. CASE SenderWork \/ ReceiverWork
  BY <1>2, Sides, WritesInv, GiveUpInv, WriteRecordInv, ReadAckInv, MessageAckInv,
     TextReturnsInv, ReceiveReturnsInv, ReadingInv DEF SenderWork, ReceiverWork
<1>3. CASE Connect \/ ConnectFails
  BY <1>3, ConnectInv
<1>4. CASE CloseOnCancel \/ BreakLink \/ UNCHANGED vars
  BY <1>4, OutsideInv
<1>5. ASSUME NEW c \in Side, Refuse(c) \/ Cancel(c) \/ LoseMailbox(c) PROVE Inv'
  BY <1>5, WritesInv, OutsideInv
<1>6. CASE Reject \/ FirstRead
  BY <1>6, DecideInv
<1> QED BY <1>1, <1>2, <1>3, <1>4, <1>5, <1>6 DEF Next, Goroutines, Outside

\* Every variable keeps its type: among them, no more chunks of the file are read than
\* were written, and no more are written than the file has.
THEOREM TypeCorrect == Spec => []TypeOK
<1>1. Inv => TypeOK
  BY DEF Inv
<1> QED BY <1>1, InitInv, NextInv, PTL DEF Spec

\* SendText and SendFile return OK only when the receiver has all that was sent: the ack
\* covers every chunk and comes after the end of the file, the answer to a text is written
\* by the Receive that returns it, or would but for the end of its context or connection.
THEOREM OkIsDelivered == Spec => []OkMeansDelivered
<1>1. Inv => OkMeansDelivered
  BY DEF Inv, Seen, Answered, CutOff, Acked, OkMeansDelivered
<1> QED BY <1>1, InitInv, NextInv, PTL DEF Spec

\* Without the same code a side never comes to write its offer, its hints or its answer.
THEOREM WrongCodeNeverWrites == Spec => []WrongCodeStops
<1>1. Inv => WrongCodeStops
  BY DEF Inv, Stopped, WrongCodeStops
<1> QED BY <1>1, InitInv, NextInv, PTL DEF Spec
=============================================================================
