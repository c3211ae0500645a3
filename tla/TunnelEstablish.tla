---------------------------- MODULE TunnelEstablish ----------------------------
(***************************************************************************)
(* wormhole/tunnel_integration.go: how two programs that share a code get  *)
(* a tunnel.  A creator calls PrepareTunnel and then the function that it  *)
(* returns, a joiner calls JoinTunnel; both claim a nameplate, exchange    *)
(* PAKE and version messages, then their roles, and the creator listens    *)
(* where the joiner connects.  Nothing keeps two creators or two joiners   *)
(* from meeting.                                                           *)
(*                                                                         *)
(* A command to the server is one step, and messages come in order, each   *)
(* once: what module Rendezvous shows.  The transit connection is made or  *)
(* not, with the outcomes of module Transit.                               *)
(***************************************************************************)
EXTENDS Naturals, Sequences

CONSTANTS
    Creators, Joiners,   \* the programs
    Kinds,        \* "phrase": every program is given the same secret; "number":
                  \* First gives none, and the others the code it then shows
    First,        \* that creator
    Candidates,   \* deterministicNameplates: the same for everyone (five)
    Nameplates,   \* bound: the nameplates are 1..Nameplates
    Taken,        \* nameplates of which others may have claimed one
    MaxRetries,   \* maxRoleConflictRetries (three)
    MaxLosses,    \* bound: connections to the server that are lost
    Verifying,    \* programs with a VerifierOk
    Impatient,    \* programs whose context may end
    OwnRelay      \* the custom relay of each program that has one

Program == Creators \cup Joiners
Nameplate == 1..Nameplates
DefaultRelay == "default"
Relay == {DefaultRelay} \cup {OwnRelay[p] : p \in DOMAIN OwnRelay}

ASSUME ProgramsAssumption ==
    /\ Creators \cap Joiners = {}
    /\ First \in Creators
    /\ Verifying \subseteq Program /\ Impatient \subseteq Program
    /\ DOMAIN OwnRelay \subseteq Program
    /\ DefaultRelay \notin {OwnRelay[p] : p \in DOMAIN OwnRelay}
ASSUME CodesAssumption ==
    /\ Kinds \subseteq {"phrase", "number"}
    /\ Nameplates \in Nat
    /\ Candidates \in Seq(Nameplate)
    /\ Taken \subseteq Nameplate
ASSUME BoundsAssumption ==
    /\ MaxRetries \in Nat
    /\ MaxLosses \in Nat

\* TransitRelayAddress, or the default when it is empty.
RelayOf(p) == IF p \in DOMAIN OwnRelay THEN OwnRelay[p] ELSE DefaultRelay
Role(p) == IF p \in Creators THEN "creator" ELSE "joiner"

\* sideID, a random string that is new in every claim.
Side == [program: Program, attempt: 0..MaxRetries]
None == [program |-> "none"]

\* The messages of a mailbox.  That of the role names the relay if it is custom.
Message == [type: {"pake", "version", "transit", "error"}, side: Side]
             \cup [type: {"role"}, side: Side, role: {"creator", "joiner"}, relay: Relay]

VARIABLES
    kind,     \* one of Kinds
    code,     \* the nameplate in the code that First shows, 0 before
    plates,   \* [Nameplate -> Nat] the mailbox of each nameplate, 0 if none
    boxes,    \* the mailboxes; for the two that met there, link is the transit
              \* connection the creator is to accept and larger the side with the
              \* larger sideID, None before the two are compared
    losses,   \* connections to the server that were lost
    me        \* [Program -> ..] the program: its pc, and what it has there

vars == <<kind, code, plates, boxes, losses, me>>

\* What a program puts into the mailbox at each step, and where it takes one out.
Puts == [putPake |-> "pake", putVersion |-> "version", putRole |-> "role",
         putTransit |-> "transit"]
Gets == {"getPake", "getVersion", "getRole", "getTransit"}

PC == {"start", "claim", "prepared", "verify", "connect", "accept", "tunnel",
       "failed", "blocked", "unacked", "unclosed"} \cup DOMAIN Puts \cup Gets

Local == [pc: PC,
          attempt: 0..MaxRetries,       \* of connect
          trying: 1..Len(Candidates) + 1,
          plate: Nameplate \cup {0},    \* rc.nameplate
          box: Nat,                     \* the mailbox that rc has open
          past: SUBSET Nat,             \* those of earlier attempts
          seen: Nat,                    \* nextOffset of recvMailboxMsgs
          releasing: BOOLEAN,           \* recvMailboxMsgs is in releaseNameplate
          net: {"up", "broken", "ended"},  \* rc's connection, "ended" with its context
          heard: Nat,                   \* the messages it had brought when it was lost
          relay: Relay,                 \* effectiveRelay
          rival: {"none", "yields", "retries"}]  \* what a conflict came to

\* claims: how many have claimed it; link and larger: see boxes.
Mailbox == [claims: 0..2, msgs: Seq(Message), link: {"none", "broken", "made"},
            larger: Side \cup {None}]

TypeOK ==
    /\ kind \in Kinds
    /\ code \in Nameplate \cup {0}
    /\ plates \in [Nameplate -> 0..Len(boxes)]
    /\ boxes \in Seq(Mailbox)
    /\ losses \in 0..MaxLosses
    /\ me \in [Program -> Local]
    /\ \A p \in Program : me[p].box <= Len(boxes)

NewBox(n) == [claims |-> n, msgs |-> <<>>, link |-> "none", larger |-> None]

\* Two others may have claimed a nameplate, which they do not give up: a candidate, as
\* a number is that of a free one, whichever it is.
Init ==
    /\ kind \in Kinds
    /\ code = 0
    /\ \E taken \in {0} \cup IF kind = "phrase" THEN Taken ELSE {} :
          /\ plates = [n \in Nameplate |-> IF n = taken THEN 1 ELSE 0]
          /\ boxes = IF taken = 0 THEN <<>> ELSE <<NewBox(2)>>
    /\ losses = 0
    /\ me = [p \in Program |->
               [pc |-> "start", attempt |-> 0, trying |-> 1, plate |-> 0, box |-> 0,
                past |-> {}, seen |-> 0, releasing |-> FALSE, net |-> "up", heard |-> 0,
                relay |-> DefaultRelay, rival |-> "none"]]

Becomes(p, r) == me' = [me EXCEPT ![p] = r]
Goes(p, pc) == Becomes(p, [me[p] EXCEPT !.pc = pc])

-----------------------------------------------------------------------------
(* claimOrAllocateNameplate.                                               *)

\* The nameplate to attach to, 0 when one is to be allocated.
Target(p) ==
    CASE kind = "phrase" /\ me[p].trying <= Len(Candidates) -> Candidates[me[p].trying]
      [] kind = "number" /\ p # First                       -> code
      [] OTHER                                              -> 0

\* After the last candidate a joiner is told that all are busy.
Exhausted(p) == kind = "phrase" /\ me[p].trying > Len(Candidates)

\* The mailbox b of nameplate n is claimed and open.  PrepareTunnel returns, with
\* the code; a retry and JoinTunnel go on.
Holds(p, n, b) ==
    /\ Becomes(p, [me[p] EXCEPT
                     !.pc = IF p \in Creators /\ me[p].attempt = 0 THEN "prepared" ELSE "putPake",
                     !.plate = n, !.box = b, !.seen = 0, !.net = "up", !.heard = 0])
    /\ code' = IF kind = "number" /\ p = First /\ code = 0 THEN n ELSE code

\* A nameplate without a mailbox gets one.
Claimed(n, claims) ==
    IF plates[n] = 0
    THEN /\ boxes' = Append(boxes, NewBox(claims))
         /\ plates' = [plates EXCEPT ![n] = Len(boxes) + 1]
    ELSE /\ boxes' = [boxes EXCEPT ![plates[n]].claims = @ + 1]
         /\ UNCHANGED plates

\* Variant: a third client may claim a mailbox.
CrowdedLater(n) == plates[n] # 0 /\ boxes[plates[n]].claims > 2

Crowded(n) == plates[n] # 0 /\ boxes[plates[n]].claims > 1

Attach(p) ==
    LET n == Target(p) IN
    /\ me[p].pc = "claim" /\ me[p].net # "ended"
    /\ n # 0
    /\ ~Crowded(n)
    /\ Claimed(n, 1)
    /\ Holds(p, n, plates'[n])
    /\ UNCHANGED <<kind, losses>>

\* The server turns the claim down, and claimNameplate does not see the answer.
AttachBlocks(p) ==
    /\ me[p].pc = "claim" /\ me[p].net # "ended"
    /\ Target(p) # 0 /\ Crowded(Target(p))
    /\ Goes(p, "blocked")
    /\ UNCHANGED <<kind, code, plates, boxes, losses>>

Loss == /\ losses < MaxLosses
        /\ losses' = losses + 1

\* A connection breaks in Connect or AttachMailbox, before the claim or after it: an error,
\* or a wait for an ack that does not come.  An outage may last for several candidates.
AttachFails(p) ==
    LET n == Target(p) IN
    /\ me[p].pc = "claim"
    /\ n # 0
    /\ Loss
    /\ \/ UNCHANGED <<plates, boxes>>
       \/ ~Crowded(n) /\ Claimed(n, 1)
    /\ \/ /\ kind = "phrase"
          /\ \E next \in me[p].trying + 1..Len(Candidates) + 1 :
                Becomes(p, [me[p] EXCEPT !.trying = next])
       \/ kind # "phrase" /\ Goes(p, "failed")
       \/ Goes(p, "unacked")
    /\ UNCHANGED <<kind, code>>

AllBusy(p) ==
    /\ me[p].pc = "claim"
    /\ Exhausted(p)
    /\ p \in Joiners
    /\ Goes(p, "failed")
    /\ UNCHANGED <<kind, code, plates, boxes, losses>>

LowestFree(n) == /\ plates[n] = 0
                 /\ \A k \in 1..n - 1 : plates[k] # 0

\* CreateMailbox.
Allocate(p) ==
    /\ me[p].pc = "claim" /\ me[p].net # "ended"
    /\ Target(p) = 0
    /\ p \in Creators
    /\ \E n \in Nameplate : /\ LowestFree(n)
                           /\ Claimed(n, 1)
                           /\ Holds(p, n, plates'[n])
    /\ UNCHANGED <<kind, losses>>

AllocateFails(p) ==
    /\ me[p].pc = "claim"
    /\ Target(p) = 0
    /\ p \in Creators
    /\ Loss
    /\ \/ UNCHANGED <<plates, boxes>>
       \/ \E n \in Nameplate, claims \in 0..1 : LowestFree(n) /\ Claimed(n, claims)
    /\ Goes(p, "failed") \/ Goes(p, "unacked")
    /\ UNCHANGED <<kind, code>>

Claim(p) == Attach(p) \/ AttachBlocks(p) \/ AllBusy(p) \/ Allocate(p)

-----------------------------------------------------------------------------
(* establishTunnel: messages.                                              *)

MySide(p) == [program |-> p, attempt |-> me[p].attempt]

Mine(p, type) ==
    IF type = "role"
    THEN [type |-> "role", side |-> MySide(p), role |-> Role(p), relay |-> RelayOf(p)]
    ELSE [type |-> type, side |-> MySide(p)]

\* boxes with message m added to the mailbox of p.
With(p, m) == [boxes EXCEPT ![me[p].box].msgs = Append(@, m)]

AfterPut(p) ==
    CASE me[p].pc = "putPake"    -> "getPake"
      [] me[p].pc = "putVersion" -> "getVersion"
      [] me[p].pc = "putRole"    -> "getRole"
      [] me[p].pc = "putTransit" -> IF p \in Creators THEN "getTransit" ELSE "connect"

Put(p) ==
    /\ me[p].pc \in DOMAIN Puts
    /\ me[p].net = "up"
    /\ boxes' = With(p, Mine(p, Puts[me[p].pc]))
    /\ Goes(p, AfterPut(p))
    /\ UNCHANGED <<kind, code, plates, losses>>

\* Where a command whose ack does not come leaves the program, for as long as its context
\* lives.
Stuck(p, pc) == IF me[p].net = "broken" THEN {pc} ELSE {}

\* An error, which closes rc too.
Errs(p) == \E pc \in {"failed"} \cup Stuck(p, "unacked") : Goes(p, pc)

\* On a connection that is lost before the message is written or after it.
PutFails(p) ==
    /\ me[p].pc \in DOMAIN Puts
    /\ me[p].net # "up"
    /\ boxes' \in {boxes, With(p, Mine(p, Puts[me[p].pc]))}
    /\ Errs(p)
    /\ UNCHANGED <<kind, code, plates, losses>>

\* listen, listenRelay or makeTransitMsg fails.
ListenFails(p) ==
    /\ me[p].pc = "putTransit"
    /\ Errs(p)
    /\ UNCHANGED <<kind, code, plates, boxes, losses>>

Msgs(p) == boxes[me[p].box].msgs

\* Where the next message of the other side is, if it has come; at most one place.
Coming(p) == {i \in me[p].seen + 1..Len(Msgs(p)) :
                 /\ me[p].net = "up" \/ i <= me[p].heard
                 /\ Msgs(p)[i].side # MySide(p)
                 /\ \A j \in me[p].seen + 1..i - 1 : Msgs(p)[j].side = MySide(p)}

\* Variant: the nameplate is released in the background.
OfferedEarly(p, pc) ==
    /\ me[p].pc = pc
    /\ Coming(p) # {}

\* MsgChan has the next message of the other side: recvMailboxMsgs offers it
\* when it has released the nameplate.
Offered(p, pc) ==
    /\ me[p].pc = pc
    /\ ~me[p].releasing
    /\ Coming(p) # {}

GetPake(p) ==
    /\ Offered(p, "getPake")
    /\ \E i \in Coming(p) :
          Becomes(p, [me[p] EXCEPT !.pc = "putVersion", !.seen = i, !.releasing = TRUE])
    /\ UNCHANGED <<kind, code, plates, boxes, losses>>

\* The server deletes the nameplate, whoever has claimed it in the meantime.
Release(p) ==
    /\ me[p].releasing
    /\ me[p].net = "up"
    /\ plates' = [plates EXCEPT ![me[p].plate] = 0]
    /\ Becomes(p, [me[p] EXCEPT !.releasing = FALSE])
    /\ UNCHANGED <<kind, code, boxes, losses>>

\* On a lost connection it may or may not, and recvMailboxMsgs, which looks at no error,
\* goes on or waits for the ack, with sendCmdMu.
ReleaseFails(p) ==
    /\ me[p].releasing
    /\ me[p].net # "up"
    /\ plates' \in {plates, [plates EXCEPT ![me[p].plate] = 0]}
    /\ Becomes(p, [me[p] EXCEPT !.releasing = FALSE])
    /\ UNCHANGED <<kind, code, boxes, losses>>

GetVersion(p) ==
    /\ Offered(p, "getVersion")
    /\ \E i \in Coming(p) :
          Becomes(p, [me[p] EXCEPT !.pc = IF p \in Verifying THEN "verify" ELSE "putRole",
                                   !.seen = i])
    /\ UNCHANGED <<kind, code, plates, boxes, losses>>

\* VerifierOk.
Verify(p) ==
    /\ me[p].pc = "verify"
    /\ Goes(p, "putRole") \/ Errs(p)
    /\ UNCHANGED <<kind, code, plates, boxes, losses>>

-----------------------------------------------------------------------------
(* establishTunnel: roles, relay, transit.                                 *)

\* Variant: either side prefers its own.
NegotiateOurs(ours, theirs, role) == IF ours = DefaultRelay THEN theirs ELSE ours

\* negotiateRelay: a custom relay is preferred, the creator's if both are.
Negotiate(ours, theirs, role) ==
    CASE ours = DefaultRelay   -> theirs
      [] theirs = DefaultRelay -> ours
      [] OTHER                 -> IF role = "creator" THEN ours ELSE theirs

\* Variant: the creator waits for the joiner's hints before it posts its own.
GetRoleAndWait(p) ==
    /\ Offered(p, "getRole")
    /\ \E i \in Coming(p) :
          /\ Msgs(p)[i].type = "role"
          /\ p \in Joiners \/ Msgs(p)[i].role = "joiner"
          /\ Becomes(p, [me[p] EXCEPT !.pc = "getTransit", !.seen = i,
                            !.relay = Negotiate(RelayOf(p), Msgs(p)[i].relay, Role(p))])
    /\ UNCHANGED <<kind, code, plates, boxes, losses>>

\* readRoleMsg, when the other side is not a creator like us.  It skips what is not a role.
GetRole(p) ==
    /\ Offered(p, "getRole")
    /\ \E i \in Coming(p) :
          /\ Msgs(p)[i].type = "role"
          /\ p \in Joiners \/ Msgs(p)[i].role = "joiner"
          /\ Becomes(p, [me[p] EXCEPT !.pc = IF p \in Creators THEN "putTransit" ELSE "getTransit",
                            !.seen = i,
                            !.relay = Negotiate(RelayOf(p), Msgs(p)[i].relay, Role(p))])
    /\ UNCHANGED <<kind, code, plates, boxes, losses>>

\* Variant: whoever finds a second creator yields.
ConflictYields(p) ==
    /\ Offered(p, "getRole")
    /\ p \in Creators
    /\ \E i \in Coming(p) :
          /\ Msgs(p)[i].role = "creator"
          /\ Becomes(p, [me[p] EXCEPT !.pc = "failed", !.seen = i, !.rival = "yields"])
    /\ boxes' = With(p, Mine(p, "error"))
    /\ UNCHANGED <<kind, code, plates, losses>>

Yields(p, met, larger) ==
    LET b == me[p].box IN
    /\ larger = MySide(p)
    /\ \/ boxes' = [boxes EXCEPT ![b] = [boxes[b] EXCEPT !.larger = larger,
                                                        !.msgs = Append(@, Mine(p, "error"))]]
       \/ me[p].net # "up" /\ boxes' = [boxes EXCEPT ![b].larger = larger]
    /\ \E pc \in {"failed"} \cup Stuck(p, "unacked") :
          Becomes(p, [met EXCEPT !.pc = pc, !.rival = "yields"])

Retries(p, met, larger) ==
    LET MayRetry == me[p].attempt < MaxRetries IN
    /\ larger # MySide(p)
    /\ boxes' = [boxes EXCEPT ![me[p].box].larger = larger]
    /\ \E pc \in {IF MayRetry THEN "claim" ELSE "failed"} \cup Stuck(p, "unacked") :
          Becomes(p, [met EXCEPT !.pc = pc,
                                 !.attempt = IF MayRetry THEN @ + 1 ELSE @,
                                 !.trying = 1,
                                 !.past = @ \cup {me[p].box},
                                 !.rival = "retries"])

\* And when it is: the larger side posts an error and yields, the other retries
\* while it may.
Conflict(p) ==
    /\ Offered(p, "getRole")
    /\ p \in Creators
    /\ \E i \in Coming(p) :
          LET m == Msgs(p)[i]
              b == boxes[me[p].box]
              met == [me[p] EXCEPT !.seen = i]
          IN
          /\ m.type = "role" /\ m.role = "creator"
          /\ \E larger \in IF b.larger = None THEN {MySide(p), m.side} ELSE {b.larger} :
                Yields(p, met, larger) \/ Retries(p, met, larger)
    /\ UNCHANGED <<kind, code, plates, losses>>

\* waitForTransitMsg.
GetTransit(p) ==
    /\ Offered(p, "getTransit")
    /\ \E i \in Coming(p) :
          Becomes(p, [me[p] EXCEPT !.pc = IF p \in Creators THEN "accept" ELSE "putTransit",
                                   !.seen = i])
    /\ UNCHANGED <<kind, code, plates, boxes, losses>>

Together(p, q) == p # q /\ me[p].box = me[q].box /\ me[p].box # 0

\* Both ends return the tunnel when rc.Close has, whose errors nobody sees.
Returns(p) == \E pc \in {"tunnel"} \cup Stuck(p, "unclosed") : Goes(p, pc)

\* connectDirect, then connectViaRelay.  A creator in acceptConnection has the same
\* connection, none, or one that the joiner has dropped.
Connect(p) ==
    /\ me[p].pc = "connect"
    /\ \E link \in {"none", "broken", "made"} :
          /\ link # "none" => \E q \in Creators : Together(p, q) /\ me[q].pc = "accept"
          /\ boxes' = [boxes EXCEPT ![me[p].box].link = link]
          /\ IF link = "made" THEN Returns(p) ELSE Errs(p)
    /\ UNCHANGED <<kind, code, plates, losses>>

\* acceptConnection.
Accept(p) ==
    /\ me[p].pc = "accept"
    /\ boxes[me[p].box].link # "none"
    /\ Returns(p)
    /\ UNCHANGED <<kind, code, plates, boxes, losses>>

\* A failed Accept, or a "go" that does not reach the joiner.
AcceptFails(p) ==
    /\ me[p].pc = "accept"
    /\ boxes[me[p].box].link # "made"
    /\ Errs(p)
    /\ UNCHANGED <<kind, code, plates, boxes, losses>>

-----------------------------------------------------------------------------
\* PrepareTunnel, or JoinTunnel: the code must be known.
Start(p) ==
    /\ me[p].pc = "start"
    /\ kind = "number" /\ p # First => code # 0
    /\ Goes(p, "claim")
    /\ UNCHANGED <<kind, code, plates, boxes, losses>>

\* The application calls the function that PrepareTunnel returned.
Begin(p) ==
    /\ me[p].pc = "prepared"
    /\ Goes(p, "putPake")
    /\ UNCHANGED <<kind, code, plates, boxes, losses>>

\* Where the program, or its recvMailboxMsgs, needs the connection: what was lost before is
\* noticed there, and what was on the way might as well come into the mailbox later.
Depends(p) ==
    \/ me[p].pc \in DOMAIN Puts \cup {"connect", "accept"}
    \/ me[p].pc = "getRole" /\ p \in Creators
    \/ me[p].pc \in Gets /\ (me[p].releasing \/ Coming(p) = {})

\* Its connection is lost.  What that had brought is still offered.
Loses(p, net) ==
    /\ me[p].net = "up"
    /\ Depends(p)
    /\ Loss
    /\ Becomes(p, [me[p] EXCEPT !.net = net, !.heard = Len(Msgs(p))])

Break(p) ==
    /\ Loses(p, "broken")
    /\ UNCHANGED <<kind, code, plates, boxes>>

\* The context ends, and with it readMessages and the connection.
End(p) ==
    /\ p \in Impatient
    /\ \/ Loses(p, "ended")
       \/ /\ me[p].pc \in {"claim", "blocked", "unacked", "unclosed"}
          /\ me[p].net # "ended"
          /\ Becomes(p, [me[p] EXCEPT !.net = "ended"])
          /\ UNCHANGED losses
    /\ UNCHANGED <<kind, code, plates, boxes>>

\* That ends the commands, ReadPake and acceptConnection.  The other reads do not see it.
GiveUp(p) ==
    /\ me[p].net = "ended"
    /\ \/ /\ me[p].pc \in {"claim", "blocked", "unacked", "getPake"}
          /\ Goes(p, "failed")
       \/ /\ me[p].pc = "accept"
          /\ boxes[me[p].box].link # "made"
          /\ Goes(p, "failed")
       \/ /\ me[p].pc = "unclosed"
          /\ Goes(p, "tunnel")
    /\ UNCHANGED <<kind, code, plates, boxes, losses>>

Work(p) ==
    \/ Claim(p)
    \/ Put(p)
    \/ GetPake(p) \/ Release(p) \/ GetVersion(p) \/ Verify(p)
    \/ GetRole(p) \/ Conflict(p) \/ GetTransit(p)
    \/ Connect(p) \/ Accept(p)

\* What a lost connection or an ended context holds up is not bound to happen.
Fails(p) ==
    \/ AttachFails(p) \/ AllocateFails(p) \/ PutFails(p) \/ ReleaseFails(p)
    \/ ListenFails(p) \/ AcceptFails(p)
    \/ Break(p) \/ End(p) \/ GiveUp(p)

Next == \E p \in Program : Work(p) \/ Start(p) \/ Begin(p) \/ Fails(p)

Spec == Init /\ [][Next]_vars

\* A program that has been started goes on, and its recvMailboxMsgs releases: the steps of
\* each come to an end, so that one fairness for all lets none starve.
Fairness == WF_vars(\E p \in Program : Work(p))

FairSpec == Spec /\ Fairness

-----------------------------------------------------------------------------
(* Properties.                                                             *)

\* A joiner that has a tunnel shares it with exactly one other program, a creator that
\* has or will have it, and both have computed the same relay on their own.
PairedOnOneRelay ==
    \A p \in Joiners : me[p].pc = "tunnel" =>
       \E q \in Program : /\ \A r \in Program : Together(p, r) <=> r = q
                          /\ q \in Creators
                          /\ me[q].pc \in {"accept", "tunnel", "unclosed"}
                          /\ me[q].relay = me[p].relay

\* Of two creators that meet, one yields and one retries: never both of them the same.
OneYields ==
    \A p, q \in Creators :
       /\ me[p].rival = "yields" /\ me[q].rival = "yields" => ~Together(p, q)
       /\ \A b \in me[p].past : p # q => b \notin me[q].past

\* A creator that retries finds its nameplate free: both sides of the conflict have
\* released it, so that no claim leads back to the mailbox of the first exchange,
\* which is crowded and holds its messages.
RetryFindsItFree ==
    \A p \in Creators : me[p].pc = "claim" => \A n \in Nameplate : plates[n] \notin me[p].past

Exchanging(p) == me[p].pc \in (DOMAIN Puts \cup Gets \cup {"verify", "connect", "accept", "tunnel"})

\* A creator and a joiner in one mailbox both get the tunnel, unless one of them fails
\* or loses its connection to the server.  One that waits for the role or the hints of
\* the other when either happens waits on.
MeetingMakesTunnel ==
    []<>\A p \in Creators, q \in Joiners :
           /\ Together(p, q)
           /\ Exchanging(p) /\ Exchanging(q)
           /\ me[p].net = "up" /\ me[q].net = "up"
           => me[p].pc = "tunnel" /\ me[q].pc = "tunnel"

\* While the creator waits for its peer, the code it has shown leads to its mailbox.
CodeLeadsToCreator ==
    kind = "number" /\ me[First].pc = "getPake" /\ boxes[me[First].box].claims = 1
       => plates[code] = me[First].box
=============================================================================
