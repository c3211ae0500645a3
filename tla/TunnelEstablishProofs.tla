------------------------- MODULE TunnelEstablishProofs -------------------------
(***************************************************************************)
(* What TunnelEstablish keeps for any number of programs, nameplates and   *)
(* retries: of two creators that meet one yields and one retries, no retry *)
(* leads back to a mailbox of an earlier attempt, and a joiner that has a  *)
(* tunnel has it with one creator, over the relay that both have computed. *)
(***************************************************************************)
EXTENDS TunnelEstablish, SequenceTheorems, TLAPS

-----------------------------------------------------------------------------
(* Types.                                                                  *)

\* The messages of a program.
LEMMA MineType ==
  ASSUME TypeOK, NEW p \in Program, NEW type \in {"pake", "version", "role", "transit", "error"}
  PROVE  MySide(p) \in Side /\ Mine(p, type) \in Message /\ Mine(p, type).side = MySide(p)
<1>1. MySide(p) \in Side
  BY DEF MySide, Side, TypeOK, Local
<1>2. Role(p) \in {"creator", "joiner"}
  BY DEF Role
<1>3. RelayOf(p) \in Relay
  BY DEF RelayOf, Relay
<1> QED BY <1>1, <1>2, <1>3 DEF Mine, Message

\* A program that is where r says.
LEMMA BecomesType ==
  ASSUME TypeOK, NEW p \in Program, NEW r \in Local, Becomes(p, r), r.box <= Len(boxes'),
         boxes' \in Seq(Mailbox), Len(boxes) <= Len(boxes')
  PROVE  me' \in [Program -> Local] /\ \A q \in Program : me'[q].box <= Len(boxes')
<1>1. me' \in [Program -> Local]
  BY DEF Becomes, TypeOK
<1>2. ASSUME NEW q \in Program PROVE me'[q].box <= Len(boxes')
  <2>1. CASE q = p
    BY <2>1 DEF Becomes, TypeOK
  <2>2. CASE q # p
    <3>1. me'[q].box = me[q].box /\ me[q].box \in Nat /\ me[q].box <= Len(boxes)
      BY <2>2 DEF Becomes, TypeOK, Local
    <3> QED BY <3>1, LenProperties DEF TypeOK
  <2> QED BY <2>1, <2>2
<1> QED BY <1>1, <1>2

\* An element of a sequence that has grown by one.
LEMMA AppendCases ==
  \A q \in Seq(Message), e \in Message : \A i \in 1..Len(Append(q, e)) :
     (i \in 1..Len(q) /\ Append(q, e)[i] = q[i]) \/ Append(q, e)[i] = e
<1> SUFFICES ASSUME NEW q \in Seq(Message), NEW e \in Message, NEW i \in 1..Len(Append(q, e))
             PROVE  (i \in 1..Len(q) /\ Append(q, e)[i] = q[i]) \/ Append(q, e)[i] = e
  OBVIOUS
<1>1. Len(q) \in Nat /\ Len(Append(q, e)) = Len(q) + 1
  BY LenProperties, AppendProperties
<1>2. i \in 1..Len(q) \/ i = Len(q) + 1
  BY <1>1
<1>3. (\A k \in 1..Len(q) : Append(q, e)[k] = q[k]) /\ Append(q, e)[Len(q) + 1] = e
  BY AppendProperties
<1> QED BY <1>2, <1>3

\* A mailbox that changes.
LEMMA ChangeType ==
  ASSUME boxes \in Seq(Mailbox), NEW b \in 1..Len(boxes), NEW x \in Mailbox,
         boxes' = [boxes EXCEPT ![b] = x]
  PROVE  /\ boxes' \in Seq(Mailbox) /\ Len(boxes') = Len(boxes)
         /\ \A c \in 1..Len(boxes) : boxes'[c] = IF c = b THEN x ELSE boxes[c]
BY ExceptSeq

\* A nameplate that is claimed.
LEMMA ClaimedType ==
  ASSUME TypeOK, NEW n \in Nameplate, NEW claims \in 0..1, Claimed(n, claims), ~Crowded(n)
  PROVE  /\ plates' \in [Nameplate -> 0..Len(boxes')]
         /\ boxes' \in Seq(Mailbox)
         /\ Len(boxes) <= Len(boxes')
         /\ plates'[n] \in 1..Len(boxes')
         /\ plates[n] = 0 => Len(boxes') = Len(boxes) + 1
         /\ plates[n] # 0 => Len(boxes') = Len(boxes)
<1>1. CASE plates[n] = 0
  <2>1. NewBox(claims) \in Mailbox
    BY DEF NewBox, Mailbox
  <2>2. /\ Append(boxes, NewBox(claims)) \in Seq(Mailbox)
        /\ Len(Append(boxes, NewBox(claims))) = Len(boxes) + 1
    BY <2>1 DEF TypeOK
  <2>3. plates' = [plates EXCEPT ![n] = Len(boxes) + 1] /\ boxes' = Append(boxes, NewBox(claims))
    BY <1>1 DEF Claimed
  <2>4. Len(boxes) \in Nat
    BY LenProperties DEF TypeOK
  <2> QED BY <1>1, <2>2, <2>3, <2>4 DEF TypeOK
<1>2. CASE plates[n] # 0
  <2>1. plates[n] \in 1..Len(boxes) /\ Len(boxes) \in Nat
    BY <1>2, LenProperties DEF TypeOK
  <2>2. boxes[plates[n]] \in Mailbox
    BY <2>1, ElementOfSeq DEF TypeOK
  <2>3. boxes[plates[n]].claims + 1 \in 0..2
    BY <1>2, <2>2 DEF Crowded, Mailbox
  <2>4. [boxes[plates[n]] EXCEPT !.claims = @ + 1] \in Mailbox
    BY <2>2, <2>3 DEF Mailbox
  <2>5. /\ boxes' = [boxes EXCEPT ![plates[n]] = [boxes[plates[n]] EXCEPT !.claims = @ + 1]]
        /\ plates' = plates
    BY <1>2 DEF Claimed
  <2> QED BY <1>2, <2>1, <2>4, <2>5, ChangeType DEF TypeOK
<1> QED BY <1>1, <1>2

\* A program that holds a mailbox.
Active == {"putPake", "putVersion", "putRole", "putTransit", "getPake", "getVersion", "getRole",
           "getTransit", "prepared", "verify", "connect", "accept", "unclosed", "tunnel"}

\* Where an error leaves it.
Over == {"failed", "unacked"}

\* From the first message to its role.
Bound == {"putVersion", "getVersion", "verify", "putRole", "getRole"}

\* It has seen the release of its nameplate end, or fail.
Late == {"verify", "putRole", "getRole"}

\* p has the role of the other side.
Agreeing == {"putTransit", "getTransit", "connect", "accept", "unclosed", "tunnel"}

\* It has the connection, and the creator has it or may have it.
Linking == {"unclosed", "tunnel"}
Accepting == {"accept", "unclosed", "tunnel"}

InBox == \A p \in Program : me[p].pc \in Active => me[p].box # 0

TypeInv == TypeOK /\ InBox

\* Any step of a program.
LEMMA StepType ==
  ASSUME TypeInv, NEW p \in Program, NEW r \in Local, Becomes(p, r),
         r.box <= Len(boxes'), r.pc \in Active => r.box # 0,
         boxes' \in Seq(Mailbox), Len(boxes) <= Len(boxes'),
         plates' \in [Nameplate -> 0..Len(boxes')],
         kind' = kind, code' \in Nameplate \cup {0}, losses' \in 0..MaxLosses
  PROVE  TypeInv'
<1>1. me' \in [Program -> Local] /\ \A q \in Program : me'[q].box <= Len(boxes')
  BY BecomesType DEF TypeInv
<1>2. InBox'
  BY <1>1 DEF TypeInv, InBox, Becomes, TypeOK
<1> QED BY <1>1, <1>2 DEF TypeInv, TypeOK

\* The mailbox of a program, and what comes there.
LEMMA InBoxType ==
  ASSUME TypeInv, NEW p \in Program, me[p].pc \in Active
  PROVE  /\ me[p].box \in 1..Len(boxes)
         /\ boxes[me[p].box] \in Mailbox
         /\ \A i \in Coming(p) : i \in Nat /\ Msgs(p)[i] \in Message /\ i \in 1..Len(Msgs(p))
                                 /\ Msgs(p)[i].side # MySide(p)
<1>1. me[p].box \in 1..Len(boxes)
  BY LenProperties DEF TypeInv, TypeOK, InBox, Local
<1>2. boxes[me[p].box] \in Mailbox
  BY <1>1, ElementOfSeq DEF TypeInv, TypeOK
<1>3. Msgs(p) \in Seq(Message)
  BY <1>2 DEF Msgs, Mailbox
<1>4. me[p].seen \in Nat
  BY DEF TypeInv, TypeOK, Local
<1>5. ASSUME NEW i \in Coming(p)
      PROVE  i \in Nat /\ i \in 1..Len(Msgs(p)) /\ Msgs(p)[i].side # MySide(p)
  BY <1>3, <1>4, LenProperties DEF Coming
<1> QED BY <1>1, <1>2, <1>3, <1>5, ElementOfSeq

\* Steps that change nothing but the program's own state.
LEMMA OwnType ==
  ASSUME TypeInv, NEW p \in Program, NEW r \in Local, Becomes(p, r), r.box = me[p].box,
         r.pc \in Active => me[p].pc \in Active,
         UNCHANGED <<kind, code, plates, boxes, losses>>
  PROVE  TypeInv'
<1>1. boxes' \in Seq(Mailbox) /\ Len(boxes') = Len(boxes) /\ Len(boxes) \in Nat
  BY LenProperties DEF TypeInv, TypeOK
<1>2. r.box <= Len(boxes') /\ (r.pc \in Active => r.box # 0)
  BY <1>1 DEF TypeInv, TypeOK, InBox
<1> QED BY <1>1, <1>2, StepType DEF TypeInv, TypeOK

LEMMA GoesType ==
  ASSUME TypeInv, NEW p \in Program, NEW pc \in PC, Goes(p, pc), pc \in Active => me[p].pc \in Active,
         UNCHANGED <<kind, code, plates, boxes, losses>>
  PROVE  TypeInv'
<1>1. [me[p] EXCEPT !.pc = pc] \in Local /\ [me[p] EXCEPT !.pc = pc].box = me[p].box
      /\ [me[p] EXCEPT !.pc = pc].pc = pc
  BY DEF TypeInv, TypeOK, Local
<1> QED BY <1>1, OwnType DEF Goes

\* The constants of PC.
LEMMA PCs ==
  /\ DOMAIN Puts = {"putPake", "putVersion", "putRole", "putTransit"}
  /\ \A x \in DOMAIN Puts : Puts[x] \in {"pake", "version", "role", "transit"}
  /\ Active \subseteq PC
  /\ {"start", "claim", "blocked"} \cup Over \subseteq PC
  /\ DOMAIN Puts \cup Gets \subseteq Active
  /\ Over \cap Active = {} /\ Late \subseteq Bound /\ Bound \subseteq Active
  /\ Agreeing \subseteq Active
BY DEF Puts, PC, Active, Gets, Over, Bound, Late, Agreeing

\* An error, and a tunnel, with the time that rc.Close takes.
LEMMA ErrsAre ==
  ASSUME NEW p \in Program
  PROVE  /\ Errs(p) => \E pc \in Over : Goes(p, pc)
         /\ Returns(p) => \E pc \in Linking : Goes(p, pc)
BY DEF Errs, Returns, Stuck, Over, Linking

\* What a step to pc may do that leaves the server alone.
Onward(p, pc) ==
    /\ me[p].pc \in Over => pc \in Over
    /\ pc \in {"start", "claim"} => me[p].pc \in {"start", "claim"}
    /\ pc \in Active => me[p].pc \in Active
    /\ pc \in Bound => me[p].pc \in Bound
    /\ pc \in Late => me[p].pc \in Late
    /\ pc = "getRole" => me[p].pc = "getRole"
    /\ pc \in Agreeing => me[p].pc \in Agreeing
    /\ pc \in {"connect", "accept"} => me[p].pc = pc
    /\ pc \in Linking => me[p].pc \in Linking \cup {"accept"}
    /\ me[p].pc \in Accepting /\ boxes[me[p].box].link = "made" => pc \in Accepting

LEMMA OverOnward ==
  ASSUME NEW p \in Program, NEW pc \in {"blocked"} \cup Over,
         me[p].pc \in Over => pc \in Over,
         me[p].pc \in Accepting => boxes[me[p].box].link # "made"
  PROVE  pc \in PC /\ Onward(p, pc)
BY PCs DEF Onward, Over, Active, Bound, Late, Agreeing, Linking, Accepting

\* Steps that move a program on and leave the server alone.
Moves(p) == \/ AttachBlocks(p) \/ AllBusy(p) \/ Verify(p) \/ Accept(p) \/ Start(p) \/ Begin(p)
            \/ ListenFails(p) \/ AcceptFails(p) \/ GiveUp(p)

LEMMA MovesAre ==
  ASSUME NEW p \in Program, Moves(p)
  PROVE  /\ UNCHANGED <<kind, code, plates, boxes, losses>>
         /\ \E pc \in PC : Goes(p, pc) /\ Onward(p, pc)
<1>1. UNCHANGED <<kind, code, plates, boxes, losses>>
  BY DEF Moves, AttachBlocks, AllBusy, Verify, Accept, Start, Begin, ListenFails, AcceptFails, GiveUp
<1> SUFFICES \E pc \in PC : Goes(p, pc) /\ Onward(p, pc)
  BY <1>1
<1>2. ASSUME Errs(p), me[p].pc \in Accepting => boxes[me[p].box].link # "made"
      PROVE  \E pc \in PC : Goes(p, pc) /\ Onward(p, pc)
  <2>1. PICK pc \in Over : Goes(p, pc)
    BY <1>2, ErrsAre
  <2> QED BY <1>2, <2>1, OverOnward
<1>3. CASE AttachBlocks(p) \/ AllBusy(p)
  <2>1. me[p].pc = "claim" /\ (Goes(p, "blocked") \/ Goes(p, "failed"))
    BY <1>3 DEF AttachBlocks, AllBusy
  <2> QED BY <2>1, OverOnward DEF Over, Accepting
<1>4. CASE Verify(p)
  <2>1. me[p].pc = "verify" /\ (Goes(p, "putRole") \/ Errs(p))
    BY <1>4 DEF Verify
  <2>2. Onward(p, "putRole")
    BY <2>1 DEF Onward, Over, Active, Bound, Late, Agreeing, Linking, Accepting
  <2> QED BY <1>2, <2>1, <2>2, PCs DEF Accepting, Active
<1>5. CASE Accept(p)
  <2>1. me[p].pc = "accept" /\ Returns(p)
    BY <1>5 DEF Accept
  <2>2. PICK pc \in Linking : Goes(p, pc)
    BY <2>1, ErrsAre
  <2>3. Onward(p, pc) /\ pc \in Active
    BY <2>1 DEF Onward, Over, Active, Bound, Late, Agreeing, Linking, Accepting
  <2> QED BY <2>2, <2>3, PCs
<1>6. CASE Start(p)
  <2>1. me[p].pc = "start" /\ Goes(p, "claim")
    BY <1>6 DEF Start
  <2>2. Onward(p, "claim")
    BY <2>1 DEF Onward, Over, Active, Bound, Late, Agreeing, Linking, Accepting
  <2> QED BY <2>1, <2>2, PCs
<1>7. CASE Begin(p)
  <2>1. me[p].pc = "prepared" /\ Goes(p, "putPake")
    BY <1>7 DEF Begin
  <2>2. Onward(p, "putPake")
    BY <2>1 DEF Onward, Over, Active, Bound, Late, Agreeing, Linking, Accepting
  <2> QED BY <2>1, <2>2, PCs DEF Active
<1>8. CASE ListenFails(p)
  BY <1>2, <1>8 DEF ListenFails, Accepting
<1>9. CASE AcceptFails(p)
  BY <1>2, <1>9 DEF AcceptFails, Accepting
<1>10. CASE GiveUp(p)
  <2>1. CASE me[p].pc = "unclosed" /\ Goes(p, "tunnel")
    <3>1. Onward(p, "tunnel")
      BY <2>1 DEF Onward, Over, Active, Bound, Late, Agreeing, Linking, Accepting
    <3> QED BY <2>1, <3>1, PCs DEF Active
  <2>2. CASE Goes(p, "failed") /\ (me[p].pc \in Accepting => boxes[me[p].box].link # "made")
    BY <2>2, OverOnward DEF Over
  <2> QED BY <1>10, <2>1, <2>2 DEF GiveUp, Accepting
<1> QED BY <1>3, <1>4, <1>5, <1>6, <1>7, <1>8, <1>9, <1>10 DEF Moves

LEMMA MovesType ==
  ASSUME TypeInv, NEW p \in Program, Moves(p)
  PROVE  TypeInv'
BY MovesAre, GoesType DEF Onward

\* The connection to the server is lost.
LEMMA LossIs ==
  ASSUME TypeInv, NEW p \in Program, Break(p) \/ End(p)
  PROVE  /\ UNCHANGED <<kind, code, plates, boxes>> /\ losses' \in 0..MaxLosses
         /\ \E net \in {"broken", "ended"}, heard \in Nat :
               Becomes(p, [me[p] EXCEPT !.net = net, !.heard = heard])
<1>1. me[p] \in Local /\ UNCHANGED <<kind, code, plates, boxes>>
  BY DEF TypeInv, TypeOK, Break, End
<1>2. CASE Loses(p, "broken") \/ Loses(p, "ended")
  <2>1. me[p].pc \in Active
    BY <1>2, PCs DEF Loses, Depends, Active
  <2>2. Len(Msgs(p)) \in Nat
    BY <2>1, InBoxType, LenProperties DEF Msgs, Mailbox
  <2>3. losses' \in 0..MaxLosses
    BY <1>2, BoundsAssumption DEF Loses, Loss, TypeInv, TypeOK
  <2> QED BY <1>1, <1>2, <2>2, <2>3 DEF Loses
<1>3. CASE Becomes(p, [me[p] EXCEPT !.net = "ended"]) /\ UNCHANGED losses
  <2>1. [me[p] EXCEPT !.net = "ended"] = [me[p] EXCEPT !.net = "ended", !.heard = me[p].heard]
        /\ me[p].heard \in Nat
    BY <1>1 DEF Local
  <2> QED BY <1>1, <1>3, <2>1 DEF TypeInv, TypeOK
<1> QED BY <1>2, <1>3 DEF Break, End

LEMMA LossType ==
  ASSUME TypeInv, NEW p \in Program, Break(p) \/ End(p)
  PROVE  TypeInv'
<1>1. PICK net \in {"broken", "ended"}, heard \in Nat :
        Becomes(p, [me[p] EXCEPT !.net = net, !.heard = heard])
  BY LossIs
<1> DEFINE r == [me[p] EXCEPT !.net = net, !.heard = heard]
<1>2. me[p] \in Local
  BY DEF TypeInv, TypeOK
<1>3. r \in Local /\ r.box = me[p].box /\ r.pc = me[p].pc
  BY <1>2 DEF Local
<1>4. boxes' \in Seq(Mailbox) /\ Len(boxes') = Len(boxes) /\ Len(boxes) \in Nat
  BY LossIs, LenProperties DEF TypeInv, TypeOK
<1>5. r.box <= Len(boxes') /\ (r.pc \in Active => r.box # 0)
  BY <1>3, <1>4 DEF TypeInv, TypeOK, InBox
<1>6. Becomes(p, r)
  BY <1>1
<1>7. kind' = kind /\ code' \in Nameplate \cup {0} /\ losses' \in 0..MaxLosses
  BY LossIs DEF TypeInv, TypeOK
<1>8. plates' \in [Nameplate -> 0..Len(boxes')] /\ Len(boxes) <= Len(boxes')
  <2>1. plates' = plates /\ plates \in [Nameplate -> 0..Len(boxes)]
    BY LossIs DEF TypeInv, TypeOK
  <2> QED BY <1>4, <2>1
<1> HIDE DEF r
<1> QED BY <1>3, <1>4, <1>5, <1>6, <1>7, <1>8, StepType

LEMMA GetsType ==
  ASSUME TypeInv, NEW p \in Program, GetPake(p) \/ GetVersion(p) \/ GetTransit(p)
  PROVE  TypeInv'
<1>1. me[p].pc \in Active /\ UNCHANGED <<kind, code, plates, boxes, losses>>
  BY PCs DEF GetPake, GetVersion, GetTransit, Offered, Active
<1>2. me[p] \in Local
  BY DEF TypeInv, TypeOK
<1>3. CASE GetPake(p)
  <2>1. PICK i \in Coming(p) :
          Becomes(p, [me[p] EXCEPT !.pc = "putVersion", !.seen = i, !.releasing = TRUE])
    BY <1>3 DEF GetPake
  <2>2. i \in Nat /\ "putVersion" \in PC
    BY <1>1, InBoxType DEF PC, Puts
  <2> DEFINE r == [me[p] EXCEPT !.pc = "putVersion", !.seen = i, !.releasing = TRUE]
  <2>3. r \in Local /\ r.box = me[p].box
    BY <1>2, <2>2 DEF Local
  <2> QED BY <1>1, <2>1, <2>3, OwnType
<1>4. CASE GetVersion(p) \/ GetTransit(p)
  <2>1. \E x \in {"verify", "putRole", "accept", "putTransit"} : \E i \in Coming(p) :
          Becomes(p, [me[p] EXCEPT !.pc = x, !.seen = i])
    BY <1>4 DEF GetVersion, GetTransit
  <2>2. PICK x \in {"verify", "putRole", "accept", "putTransit"} : \E i \in Coming(p) :
          Becomes(p, [me[p] EXCEPT !.pc = x, !.seen = i])
    BY <2>1
  <2>3. PICK i \in Coming(p) : Becomes(p, [me[p] EXCEPT !.pc = x, !.seen = i])
    BY <2>2
  <2>4. i \in Nat /\ x \in PC
    BY <1>1, InBoxType, PCs DEF Active
  <2> DEFINE r == [me[p] EXCEPT !.pc = x, !.seen = i]
  <2>5. r \in Local /\ r.box = me[p].box
    BY <1>2, <2>4 DEF Local
  <2> QED BY <1>1, <2>3, <2>5, OwnType
<1> QED BY <1>3, <1>4

\* Whatever it is called with, negotiateRelay returns one of the two relays.
LEMMA NegotiateType ==
  ASSUME NEW ours \in Relay, NEW theirs \in Relay, NEW role
  PROVE  Negotiate(ours, theirs, role) \in {ours, theirs}
<1>1. CASE ours = DefaultRelay
  BY <1>1 DEF Negotiate
<1>2. CASE ours # DefaultRelay /\ theirs = DefaultRelay
  BY <1>2 DEF Negotiate
<1>3. CASE ours # DefaultRelay /\ theirs # DefaultRelay
  BY <1>3 DEF Negotiate
<1> QED BY <1>1, <1>2, <1>3

LEMMA RoleType ==
  ASSUME TypeInv, NEW p \in Program, GetRole(p)
  PROVE  TypeInv'
<1>1. me[p].pc \in Active /\ UNCHANGED <<kind, code, plates, boxes, losses>>
  BY PCs DEF GetRole, Offered, Active
<1>2. PICK i \in Coming(p) :
        /\ Msgs(p)[i].type = "role"
        /\ \E x \in {"putTransit", "getTransit"} :
             Becomes(p, [me[p] EXCEPT !.pc = x, !.seen = i,
                            !.relay = Negotiate(RelayOf(p), Msgs(p)[i].relay, Role(p))])
  BY DEF GetRole
<1>3. i \in Nat /\ Msgs(p)[i].relay \in Relay
  BY <1>1, <1>2, InBoxType DEF Message
<1>4. RelayOf(p) \in Relay
  BY DEF RelayOf, Relay
<1> DEFINE relay == Negotiate(RelayOf(p), Msgs(p)[i].relay, Role(p))
<1>5. relay \in Relay
  BY <1>3, <1>4, NegotiateType
<1> HIDE DEF relay
<1>6. PICK x \in {"putTransit", "getTransit"} :
        Becomes(p, [me[p] EXCEPT !.pc = x, !.seen = i, !.relay = relay])
  BY <1>2 DEF relay
<1> DEFINE r == [me[p] EXCEPT !.pc = x, !.seen = i, !.relay = relay]
<1>7. x \in PC /\ me[p] \in Local
  BY PCs DEF TypeInv, TypeOK, Active
<1>8. r \in Local /\ r.box = me[p].box
  BY <1>3, <1>5, <1>7 DEF Local
<1> QED BY <1>1, <1>6, <1>8, OwnType

\* The nameplate of the program is released, or it is not.
LEMMA ReleaseIs ==
  ASSUME TypeInv, NEW p \in Program, Release(p) \/ ReleaseFails(p)
  PROVE  /\ UNCHANGED <<kind, code, boxes, losses>> /\ me[p].releasing
         /\ Becomes(p, [me[p] EXCEPT !.releasing = FALSE])
         /\ \A n \in Nameplate : plates'[n] \in {plates[n], 0}
         /\ me[p].net = "up" /\ me[p].plate \in Nameplate => plates'[me[p].plate] = 0
         /\ plates' \in [Nameplate -> 0..Len(boxes)]
<1>1. plates \in [Nameplate -> 0..Len(boxes)] /\ 0 \in 0..Len(boxes)
  BY LenProperties DEF TypeInv, TypeOK
<1>2. plates' = plates \/ plates' = [plates EXCEPT ![me[p].plate] = 0]
  BY DEF Release, ReleaseFails
<1>3. \A n \in Nameplate : plates'[n] \in {plates[n], 0}
  BY <1>1, <1>2
<1>4. plates' \in [Nameplate -> 0..Len(boxes)]
  BY <1>1, <1>2
<1>5. me[p].net = "up" /\ me[p].plate \in Nameplate => plates'[me[p].plate] = 0
  BY <1>1 DEF Release, ReleaseFails
<1> QED BY <1>3, <1>4, <1>5 DEF Release, ReleaseFails

LEMMA ReleaseType ==
  ASSUME TypeInv, NEW p \in Program, Release(p) \/ ReleaseFails(p)
  PROVE  TypeInv'
<1>1. boxes' \in Seq(Mailbox) /\ Len(boxes') = Len(boxes) /\ Len(boxes) \in Nat
  BY ReleaseIs, LenProperties DEF TypeInv, TypeOK
<1>2. plates' \in [Nameplate -> 0..Len(boxes')]
  BY <1>1, ReleaseIs
<1> DEFINE r == [me[p] EXCEPT !.releasing = FALSE]
<1>3. r \in Local /\ r.box = me[p].box /\ r.pc = me[p].pc
  BY DEF TypeInv, TypeOK, Local
<1>4. Becomes(p, r)
  BY ReleaseIs
<1>5. r.box <= Len(boxes') /\ (r.pc \in Active => r.box # 0)
  BY <1>1, <1>3 DEF TypeInv, TypeOK, InBox
<1>6. kind' = kind /\ code' \in Nameplate \cup {0} /\ losses' \in 0..MaxLosses
  BY ReleaseIs DEF TypeInv, TypeOK
<1> HIDE DEF r
<1>7. Len(boxes) <= Len(boxes')
  BY <1>1
<1> QED BY <1>1, <1>2, <1>3, <1>4, <1>5, <1>6, <1>7, StepType

\* A step in which the mailbox of the program changes.
LEMMA BoxStepType ==
  ASSUME TypeInv, NEW p \in Program, me[p].pc \in Active,
         NEW r \in Local, Becomes(p, r), r.box = me[p].box,
         NEW x \in Mailbox, boxes' = [boxes EXCEPT ![me[p].box] = x],
         UNCHANGED <<kind, code, plates>>, losses' \in 0..MaxLosses
  PROVE  TypeInv'
<1>1. boxes' \in Seq(Mailbox) /\ Len(boxes') = Len(boxes) /\ Len(boxes) \in Nat
  BY InBoxType, ChangeType, LenProperties DEF TypeInv, TypeOK
<1>2. r.box <= Len(boxes') /\ r.box # 0
  BY <1>1 DEF TypeInv, TypeOK, InBox
<1> QED BY <1>1, <1>2, StepType DEF TypeInv, TypeOK

\* A message put into it.
LEMMA WithType ==
  ASSUME TypeInv, NEW p \in Program, me[p].pc \in Active, NEW m \in Message
  PROVE  [boxes[me[p].box] EXCEPT !.msgs = Append(@, m)] \in Mailbox
<1>1. boxes[me[p].box] \in Mailbox
  BY InBoxType
<1>2. Append(boxes[me[p].box].msgs, m) \in Seq(Message)
  BY <1>1 DEF Mailbox
<1> QED BY <1>1, <1>2 DEF Mailbox

LEMMA PutsType ==
  ASSUME TypeInv, NEW p \in Program, Put(p) \/ PutFails(p)
  PROVE  TypeInv'
<1>1. me[p].pc \in DOMAIN Puts /\ me[p].pc \in Active /\ UNCHANGED <<kind, code, plates>>
  BY PCs DEF Put, PutFails
<1> DEFINE m == Mine(p, Puts[me[p].pc])
           x == [boxes[me[p].box] EXCEPT !.msgs = Append(@, m)]
<1>2. m \in Message
  BY <1>1, PCs, MineType DEF TypeInv
<1>3. x \in Mailbox
  BY <1>1, <1>2, WithType
<1>4. With(p, m) = [boxes EXCEPT ![me[p].box] = x]
  BY DEF With
<1>5. PICK pc \in PC : Goes(p, pc)
  <2>1. AfterPut(p) \in PC
    BY <1>1, PCs DEF AfterPut, Active
  <2> QED BY <2>1, ErrsAre, PCs DEF Put, PutFails
<1>6. losses' \in 0..MaxLosses
  BY DEF Put, PutFails, TypeInv, TypeOK
<1> DEFINE r == [me[p] EXCEPT !.pc = pc]
<1>7. r \in Local /\ r.box = me[p].box /\ Becomes(p, r)
  BY <1>5, ZenonT(40) DEF Goes, TypeInv, TypeOK, Local
<1>8. CASE boxes' = With(p, m)
  <2> HIDE DEF x, r
  <2> QED BY <1>1, <1>3, <1>4, <1>6, <1>7, <1>8, BoxStepType
<1>9. CASE boxes' = boxes
  <2>1. boxes' = [boxes EXCEPT ![me[p].box] = boxes[me[p].box]] /\ boxes[me[p].box] \in Mailbox
    BY <1>1, <1>9, InBoxType DEF TypeInv, TypeOK
  <2> HIDE DEF r
  <2> QED BY <1>1, <1>6, <1>7, <2>1, BoxStepType
<1> QED BY <1>8, <1>9 DEF Put, PutFails

LEMMA ConnectType ==
  ASSUME TypeInv, NEW p \in Program, Connect(p)
  PROVE  TypeInv'
<1>1. me[p].pc \in Active /\ UNCHANGED <<kind, code, plates, losses>>
  BY DEF Connect, Active
<1>2. PICK link \in {"none", "broken", "made"}, x \in Linking \cup Over :
        /\ boxes' = [boxes EXCEPT ![me[p].box] = [boxes[me[p].box] EXCEPT !.link = link]]
        /\ Goes(p, x)
  BY ErrsAre DEF Connect
<1>3. [boxes[me[p].box] EXCEPT !.link = link] \in Mailbox
  BY <1>1, InBoxType DEF Mailbox
<1>4. Becomes(p, [me[p] EXCEPT !.pc = x])
  BY <1>2 DEF Goes
<1> DEFINE r == [me[p] EXCEPT !.pc = x]
<1>5. me[p] \in Local /\ x \in PC
  BY PCs DEF TypeInv, TypeOK, Active, Linking
<1>6. r \in Local /\ r.box = me[p].box
  BY <1>5 DEF Local
<1> QED BY <1>1, <1>2, <1>3, <1>4, <1>6, BoxStepType DEF TypeInv, TypeOK

\* A nameplate that is claimed, and its mailbox opened by the program.
LEMMA HoldsType ==
  ASSUME TypeInv, NEW p \in Program, NEW n \in Nameplate, NEW claims \in 0..1,
         ~Crowded(n), Claimed(n, claims), Holds(p, n, plates'[n]), UNCHANGED <<kind, losses>>
  PROVE  TypeInv'
<1>1. /\ plates' \in [Nameplate -> 0..Len(boxes')]
      /\ boxes' \in Seq(Mailbox)
      /\ Len(boxes) <= Len(boxes')
      /\ plates'[n] \in 1..Len(boxes')
  BY ClaimedType DEF TypeInv
<1>2. PICK x \in {"prepared", "putPake"} :
        Becomes(p, [me[p] EXCEPT !.pc = x, !.plate = n, !.box = plates'[n], !.seen = 0,
                                 !.net = "up", !.heard = 0])
  BY DEF Holds
<1> DEFINE r == [me[p] EXCEPT !.pc = x, !.plate = n, !.box = plates'[n], !.seen = 0,
                              !.net = "up", !.heard = 0]
<1>3. me[p] \in Local /\ x \in PC /\ plates'[n] \in Nat
  BY <1>1, PCs DEF TypeInv, TypeOK, Active
<1>4. r \in Local /\ r.box = plates'[n]
  BY <1>3 DEF Local
<1>5. code' \in Nameplate \cup {0}
  BY DEF Holds, TypeInv, TypeOK
<1>6. losses' \in 0..MaxLosses
  BY DEF TypeInv, TypeOK
<1>7. r.box <= Len(boxes') /\ r.box # 0
  BY <1>1, <1>4
<1> QED BY <1>1, <1>2, <1>4, <1>5, <1>6, <1>7, StepType

\* The nameplate that a program attaches to.
LEMMA TargetType ==
  ASSUME TypeOK, NEW p \in Program, Target(p) # 0
  PROVE  Target(p) \in Nameplate
<1>1. me[p].trying \in 1..Len(Candidates) + 1 /\ Len(Candidates) \in Nat
  BY CodesAssumption, LenProperties DEF TypeOK, Local
<1>2. CASE kind = "phrase" /\ me[p].trying <= Len(Candidates)
  <2>1. me[p].trying \in 1..Len(Candidates)
    BY <1>1, <1>2
  <2> QED BY <1>2, <2>1, CodesAssumption, ElementOfSeq DEF Target
<1>3. CASE ~(kind = "phrase" /\ me[p].trying <= Len(Candidates)) /\ kind = "number" /\ p # First
  <2>1. Target(p) = code
    BY <1>3 DEF Target
  <2> QED BY <2>1 DEF TypeOK
<1>4. CASE ~(kind = "phrase" /\ me[p].trying <= Len(Candidates)) /\ ~(kind = "number" /\ p # First)
  BY <1>4 DEF Target
<1> QED BY <1>2, <1>3, <1>4

\* A free nameplate is not crowded.
LEMMA ClaimsType ==
  ASSUME TypeInv, NEW p \in Program, Attach(p) \/ Allocate(p)
  PROVE  TypeInv'
<1>1. CASE Attach(p)
  <2>1. Target(p) \in Nameplate
    BY <1>1, TargetType DEF Attach, TypeInv
  <2> QED BY <1>1, <2>1, HoldsType DEF Attach
<1>2. CASE Allocate(p)
  <2>1. PICK n \in Nameplate : LowestFree(n) /\ Claimed(n, 1) /\ Holds(p, n, plates'[n])
    BY <1>2 DEF Allocate
  <2>2. ~Crowded(n)
    BY <2>1 DEF LowestFree, Crowded
  <2> QED BY <1>2, <2>1, <2>2, HoldsType DEF Allocate
<1> QED BY <1>1, <1>2

\* What becomes of a program whose claim fails.
LEMMA FailIs ==
  ASSUME TypeOK, NEW p \in Program, AttachFails(p) \/ AllocateFails(p)
  PROVE  \E r \in Local :
           /\ Becomes(p, r) /\ r.pc \in {"claim"} \cup Over
           /\ r.box = me[p].box /\ r.past = me[p].past /\ r.attempt = me[p].attempt
           /\ r.rival = me[p].rival /\ r.plate = me[p].plate
<1>1. me[p] \in Local /\ me[p].pc = "claim"
  BY DEF TypeOK, AttachFails, AllocateFails
<1>2. ASSUME NEW pc \in Over, Goes(p, pc)
      PROVE  \E r \in Local :
               /\ Becomes(p, r) /\ r.pc \in {"claim"} \cup Over
               /\ r.box = me[p].box /\ r.past = me[p].past /\ r.attempt = me[p].attempt
               /\ r.rival = me[p].rival /\ r.plate = me[p].plate
  <2> DEFINE r == [me[p] EXCEPT !.pc = pc]
  <2>1. /\ r \in Local /\ r.pc = pc /\ r.box = me[p].box /\ r.past = me[p].past
        /\ r.attempt = me[p].attempt /\ r.rival = me[p].rival /\ r.plate = me[p].plate
    BY <1>1, PCs DEF Local
  <2>2. Becomes(p, r)
    BY <1>2 DEF Goes
  <2> HIDE DEF r
  <2> QED BY <2>1, <2>2
<1>3. ASSUME NEW next \in me[p].trying + 1..Len(Candidates) + 1,
             Becomes(p, [me[p] EXCEPT !.trying = next])
      PROVE  \E r \in Local :
               /\ Becomes(p, r) /\ r.pc \in {"claim"} \cup Over
               /\ r.box = me[p].box /\ r.past = me[p].past /\ r.attempt = me[p].attempt
               /\ r.rival = me[p].rival /\ r.plate = me[p].plate
  <2> DEFINE r == [me[p] EXCEPT !.trying = next]
  <2>1. next \in 1..Len(Candidates) + 1
    <3>1. me[p].trying \in 1..Len(Candidates) + 1 /\ Len(Candidates) \in Nat
      BY <1>1, CodesAssumption, LenProperties DEF Local
    <3> QED BY <3>1
  <2>2. /\ r \in Local /\ r.pc = "claim" /\ r.box = me[p].box /\ r.past = me[p].past
        /\ r.attempt = me[p].attempt /\ r.rival = me[p].rival /\ r.plate = me[p].plate
    BY <1>1, <2>1 DEF Local
  <2>3. Becomes(p, r)
    BY <1>3
  <2> HIDE DEF r
  <2> QED BY <2>2, <2>3
<1>4. "failed" \in Over /\ "unacked" \in Over
  BY DEF Over
<1>5. CASE AttachFails(p)
  BY <1>2, <1>3, <1>4, <1>5 DEF AttachFails
<1>6. CASE AllocateFails(p)
  BY <1>2, <1>4, <1>6 DEF AllocateFails
<1> QED BY <1>5, <1>6

LEMMA ClaimFailsType ==
  ASSUME TypeInv, NEW p \in Program, AttachFails(p) \/ AllocateFails(p)
  PROVE  TypeInv'
<1>1. /\ plates' \in [Nameplate -> 0..Len(boxes')]
      /\ boxes' \in Seq(Mailbox)
      /\ Len(boxes) <= Len(boxes')
  <2>1. CASE UNCHANGED <<plates, boxes>>
    BY <2>1, LenProperties DEF TypeInv, TypeOK
  <2>2. CASE \E n \in Nameplate, claims \in 0..1 : ~Crowded(n) /\ Claimed(n, claims)
    BY <2>2, ClaimedType DEF TypeInv
  <2>3. CASE AttachFails(p)
    <3>1. Target(p) \in Nameplate
      BY <2>3, TargetType DEF AttachFails, TypeInv
    <3> QED BY <2>1, <2>2, <2>3, <3>1 DEF AttachFails
  <2>4. CASE AllocateFails(p)
    <3>1. \A n \in Nameplate : LowestFree(n) => ~Crowded(n)
      BY DEF LowestFree, Crowded
    <3> QED BY <2>1, <2>2, <2>4, <3>1 DEF AllocateFails
  <2> QED BY <2>3, <2>4
<1>2. me[p].pc = "claim" /\ UNCHANGED <<kind, code>> /\ losses' \in 0..MaxLosses
  BY BoundsAssumption DEF AttachFails, AllocateFails, Loss, TypeInv, TypeOK
<1>3. PICK r \in Local : Becomes(p, r) /\ r.box = me[p].box /\ r.pc \in {"claim"} \cup Over
  BY FailIs DEF TypeInv
<1>4. r.box <= Len(boxes') /\ (r.pc \in Active => r.box # 0)
  <2>1. me[p].box \in Nat /\ me[p].box <= Len(boxes) /\ Len(boxes) \in Nat /\ Len(boxes') \in Nat
    BY <1>1, LenProperties DEF TypeInv, TypeOK, Local
  <2> QED BY <1>1, <1>3, <2>1 DEF Active, Over
<1>5. code' \in Nameplate \cup {0}
  BY <1>2 DEF TypeInv, TypeOK
<1> QED BY <1>1, <1>2, <1>3, <1>4, <1>5, StepType

\* The two outcomes of a conflict: what p becomes, and its mailbox, with its error or without.
LEMMA YieldsIs ==
  ASSUME TypeInv, NEW p \in Program, me[p].pc \in Active, NEW i \in Coming(p), NEW larger \in Side,
         Yields(p, [me[p] EXCEPT !.seen = i], larger)
  PROVE  /\ larger = MySide(p)
         /\ \E r \in Local :
               /\ Becomes(p, r) /\ r.pc \in Over /\ r.rival = "yields" /\ r.box = me[p].box
               /\ r.plate = me[p].plate /\ r.past = me[p].past /\ r.attempt = me[p].attempt
         /\ \E x \in Mailbox :
               /\ boxes' = [boxes EXCEPT ![me[p].box] = x]
               /\ x.claims = boxes[me[p].box].claims /\ x.larger = larger
               /\ x.link = boxes[me[p].box].link
               /\ x.msgs \in {Msgs(p), Append(Msgs(p), Mine(p, "error"))}
<1>1. i \in Nat /\ boxes[me[p].box] \in Mailbox /\ me[p] \in Local
  BY InBoxType DEF TypeInv, TypeOK
<1>2. \E r \in Local :
         /\ Becomes(p, r) /\ r.pc \in Over /\ r.rival = "yields" /\ r.box = me[p].box
         /\ r.plate = me[p].plate /\ r.past = me[p].past /\ r.attempt = me[p].attempt
  <2>1. PICK pc \in Over : Becomes(p, [[me[p] EXCEPT !.seen = i] EXCEPT !.pc = pc, !.rival = "yields"])
    BY DEF Yields, Stuck, Over
  <2> DEFINE r == [[me[p] EXCEPT !.seen = i] EXCEPT !.pc = pc, !.rival = "yields"]
  <2>2. /\ r \in Local /\ r.pc = pc /\ r.rival = "yields" /\ r.box = me[p].box
        /\ r.plate = me[p].plate /\ r.past = me[p].past /\ r.attempt = me[p].attempt
    BY <1>1, PCs DEF Local
  <2>3. Becomes(p, r)
    BY <2>1
  <2> HIDE DEF r
  <2> QED BY <2>2, <2>3
<1> DEFINE m == Mine(p, "error")
           x == [boxes[me[p].box] EXCEPT !.larger = larger, !.msgs = Append(@, m)]
           y == [boxes[me[p].box] EXCEPT !.larger = larger]
<1>3. m \in Message
  BY MineType DEF TypeInv
<1>4. larger = MySide(p) /\ (boxes' = [boxes EXCEPT ![me[p].box] = x] \/ boxes' = [boxes EXCEPT ![me[p].box] = y])
  BY Zenon DEF Yields
<1> HIDE DEF m
<1>5. Append(boxes[me[p].box].msgs, m) \in Seq(Message)
  BY <1>1, <1>3 DEF Mailbox
<1>6. /\ x \in Mailbox /\ x.claims = boxes[me[p].box].claims /\ x.larger = larger
      /\ x.link = boxes[me[p].box].link /\ x.msgs = Append(Msgs(p), m)
  BY <1>1, <1>5 DEF Mailbox, Msgs
<1>7. /\ y \in Mailbox /\ y.claims = boxes[me[p].box].claims /\ y.larger = larger
      /\ y.link = boxes[me[p].box].link /\ y.msgs = Msgs(p)
  BY <1>1 DEF Mailbox, Msgs
<1> HIDE DEF x, y
<1> QED BY <1>2, <1>4, <1>6, <1>7 DEF m

LEMMA RetriesIs ==
  ASSUME TypeInv, NEW p \in Program, me[p].pc \in Active, NEW i \in Coming(p), NEW larger \in Side,
         Retries(p, [me[p] EXCEPT !.seen = i], larger)
  PROVE  /\ larger # MySide(p)
         /\ \E r \in Local :
               /\ Becomes(p, r) /\ r.pc \in {"claim"} \cup Over /\ r.rival = "retries"
               /\ r.box = me[p].box /\ r.plate = me[p].plate /\ r.past = me[p].past \cup {me[p].box}
         /\ \E x \in Mailbox :
               /\ boxes' = [boxes EXCEPT ![me[p].box] = x]
               /\ x.claims = boxes[me[p].box].claims /\ x.larger = larger
               /\ x.link = boxes[me[p].box].link /\ x.msgs = Msgs(p)
<1>1. i \in Nat /\ boxes[me[p].box] \in Mailbox /\ me[p] \in Local /\ me[p].box \in Nat
  BY InBoxType DEF TypeInv, TypeOK
<1>2. \E r \in Local :
         /\ Becomes(p, r) /\ r.pc \in {"claim"} \cup Over /\ r.rival = "retries"
         /\ r.box = me[p].box /\ r.plate = me[p].plate /\ r.past = me[p].past \cup {me[p].box}
  <2> DEFINE MayRetry == me[p].attempt < MaxRetries
             attempt == IF MayRetry THEN me[p].attempt + 1 ELSE me[p].attempt
  <2>1. PICK pc \in {"claim"} \cup Over :
          Becomes(p, [[me[p] EXCEPT !.seen = i]
                        EXCEPT !.pc = pc, !.attempt = IF MayRetry THEN @ + 1 ELSE @,
                               !.trying = 1, !.past = @ \cup {me[p].box}, !.rival = "retries"])
    BY DEF Retries, Stuck, Over
  <2> DEFINE r == [[me[p] EXCEPT !.seen = i]
                     EXCEPT !.pc = pc, !.attempt = IF MayRetry THEN @ + 1 ELSE @,
                            !.trying = 1, !.past = @ \cup {me[p].box}, !.rival = "retries"]
  <2>2. 1 \in 1..Len(Candidates) + 1
    BY CodesAssumption, LenProperties
  <2>3. me[p].past \cup {me[p].box} \in SUBSET Nat
    BY <1>1 DEF Local
  <2>4. attempt \in 0..MaxRetries
    BY <1>1, BoundsAssumption DEF Local
  <2>5. pc \in PC
    BY PCs
  <2>6. /\ r \in Local /\ r.pc = pc /\ r.rival = "retries"
        /\ r.box = me[p].box /\ r.plate = me[p].plate /\ r.past = me[p].past \cup {me[p].box}
    BY <1>1, <2>2, <2>3, <2>4, <2>5 DEF Local
  <2>7. Becomes(p, r)
    BY <2>1
  <2> HIDE DEF r
  <2> QED BY <2>6, <2>7
<1> DEFINE x == [boxes[me[p].box] EXCEPT !.larger = larger]
<1>3. larger # MySide(p) /\ boxes' = [boxes EXCEPT ![me[p].box] = x]
  BY DEF Retries
<1>4. /\ x \in Mailbox /\ x.claims = boxes[me[p].box].claims /\ x.larger = larger
      /\ x.link = boxes[me[p].box].link /\ x.msgs = Msgs(p)
  BY <1>1 DEF Mailbox, Msgs
<1> HIDE DEF x
<1> QED BY <1>2, <1>3, <1>4

\* What Conflict does, in one statement.
LEMMA ConflictIs ==
  ASSUME TypeInv, NEW p \in Program, Conflict(p)
  PROVE  /\ p \in Creators /\ me[p].pc = "getRole" /\ ~me[p].releasing
         /\ UNCHANGED <<kind, code, plates, losses>>
         /\ \E i \in Coming(p) : \E larger \in Side :
              /\ Msgs(p)[i].type = "role" /\ Msgs(p)[i].role = "creator"
              /\ larger \in IF boxes[me[p].box].larger = None THEN {MySide(p), Msgs(p)[i].side}
                             ELSE {boxes[me[p].box].larger}
              /\ \/ Yields(p, [me[p] EXCEPT !.seen = i], larger)
                 \/ Retries(p, [me[p] EXCEPT !.seen = i], larger)
<1>1. me[p].pc = "getRole"
  BY DEF Conflict, Offered
<1>2. PICK i \in Coming(p) :
        /\ Msgs(p)[i].type = "role" /\ Msgs(p)[i].role = "creator"
        /\ \E larger \in IF boxes[me[p].box].larger = None THEN {MySide(p), Msgs(p)[i].side}
                          ELSE {boxes[me[p].box].larger} :
              \/ Yields(p, [me[p] EXCEPT !.seen = i], larger)
              \/ Retries(p, [me[p] EXCEPT !.seen = i], larger)
  BY DEF Conflict
<1>3. me[p].pc \in Active
  BY <1>1 DEF Active
<1>4. boxes[me[p].box].larger \in Side \cup {None} /\ MySide(p) \in Side
  BY <1>3, InBoxType, MineType DEF Mailbox, TypeInv
<1>5. Msgs(p)[i].side \in Side
  BY <1>3, InBoxType DEF Message
<1> QED BY <1>1, <1>2, <1>4, <1>5 DEF Conflict, Offered

LEMMA ConflictType ==
  ASSUME TypeInv, NEW p \in Program, Conflict(p)
  PROVE  TypeInv'
<1>1. me[p].pc \in Active /\ UNCHANGED <<kind, code, plates>> /\ losses' \in 0..MaxLosses
  BY ConflictIs DEF Active, TypeInv, TypeOK
<1>2. PICK r \in Local, x \in Mailbox :
        Becomes(p, r) /\ r.box = me[p].box /\ boxes' = [boxes EXCEPT ![me[p].box] = x]
  <2>1. PICK i \in Coming(p), larger \in Side :
          \/ Yields(p, [me[p] EXCEPT !.seen = i], larger)
          \/ Retries(p, [me[p] EXCEPT !.seen = i], larger)
    BY ConflictIs
  <2>2. CASE Yields(p, [me[p] EXCEPT !.seen = i], larger)
    BY <1>1, <2>2, YieldsIs
  <2>3. CASE Retries(p, [me[p] EXCEPT !.seen = i], larger)
    BY <1>1, <2>3, RetriesIs
  <2> QED BY <2>1, <2>2, <2>3
<1>3. UNCHANGED <<kind, code, plates>>
  BY <1>1
<1>4. losses' \in 0..MaxLosses
  BY <1>1
<1> QED BY <1>1, <1>2, <1>3, <1>4, BoxStepType

LEMMA TypeStep ==
  ASSUME TypeInv, [Next]_vars
  PROVE  TypeInv'
<1>1. ASSUME NEW p \in Program,
             Work(p) \/ Start(p) \/ Begin(p) \/ Fails(p)
      PROVE  TypeInv'
  <2>1. CASE Claim(p)
    BY <2>1, ClaimsType, MovesType DEF Claim, Moves
  <2>2. CASE Moves(p)
    BY <2>2, MovesType
  <2>3. CASE GetPake(p) \/ GetVersion(p) \/ GetTransit(p)
    BY <2>3, GetsType
  <2>4. CASE GetRole(p)
    BY <2>4, RoleType
  <2>5. CASE Release(p) \/ ReleaseFails(p)
    BY <2>5, ReleaseType
  <2>6. CASE Conflict(p)
    BY <2>6, ConflictType
  <2>7. CASE Put(p) \/ PutFails(p)
    BY <2>7, PutsType
  <2>8. CASE Connect(p)
    BY <2>8, ConnectType
  <2>9. CASE AttachFails(p) \/ AllocateFails(p)
    BY <2>9, ClaimFailsType
  <2>10. CASE Break(p) \/ End(p)
    BY <2>10, LossType
  <2> QED BY <1>1, <2>1, <2>2, <2>3, <2>4, <2>5, <2>6, <2>7, <2>8, <2>9, <2>10 DEF Work, Fails, Moves
<1>2. CASE UNCHANGED vars
  BY <1>2 DEF vars, TypeInv, TypeOK, InBox
<1> QED BY <1>1, <1>2 DEF Next

LEMMA TypeInit ==
  ASSUME Init
  PROVE  TypeInv
<1>1. PICK taken \in {0} \cup Taken :
        /\ plates = [n \in Nameplate |-> IF n = taken THEN 1 ELSE 0]
        /\ boxes = IF taken = 0 THEN <<>> ELSE <<NewBox(2)>>
  BY DEF Init
<1>2. NewBox(2) \in Mailbox /\ <<>> \in Seq(Mailbox)
  BY DEF NewBox, Mailbox
<1>3. boxes \in Seq(Mailbox) /\ plates \in [Nameplate -> 0..Len(boxes)]
  <2>1. CASE taken = 0
    BY <1>1, <1>2, <2>1, EmptySeq DEF Nameplate
  <2>2. CASE taken # 0
    <3>1. boxes = <<NewBox(2)>> /\ boxes \in Seq(Mailbox) /\ Len(boxes) = 1
      BY <1>1, <1>2, <2>2
    <3> QED BY <1>1, <3>1
  <2> QED BY <2>1, <2>2
<1>4. me \in [Program -> Local]
  <2>1. 1 \in 1..Len(Candidates) + 1
    BY CodesAssumption, LenProperties
  <2>2. 0 \in 0..MaxRetries /\ DefaultRelay \in Relay
    BY BoundsAssumption DEF Relay
  <2> QED BY <2>1, <2>2, PCs DEF Init, Local
<1>5. \A p \in Program : me[p].box = 0 /\ me[p].pc = "start"
  BY DEF Init
<1>6. Len(boxes) \in Nat
  BY <1>3, LenProperties
<1>7. kind \in Kinds /\ code \in Nameplate \cup {0} /\ losses \in 0..MaxLosses
  BY BoundsAssumption DEF Init
<1> QED BY <1>3, <1>4, <1>5, <1>6, <1>7 DEF TypeInv, TypeOK, InBox, Active

\* The state stays within its types, and a program that exchanges messages has a mailbox.
\* In particular no mailbox is ever claimed by a third program (PrepareTunnel, JoinTunnel).
THEOREM TypeCorrect == Spec => []TypeOK
<1>1. Init => TypeInv
  BY TypeInit
<1>2. TypeInv /\ [Next]_vars => TypeInv'
  BY TypeStep
<1>3. TypeInv => TypeOK
  BY DEF TypeInv
<1> QED BY <1>1, <1>2, <1>3, PTL DEF Spec

-----------------------------------------------------------------------------
(* Mailboxes: who is there, and what is left of a conflict.                *)

\* The program has mailbox b open, or met another creator there.
Occupies(p, b) == me[p].box = b \/ b \in me[p].past

\* The sideID is that of a program in the mailbox: for one that has not left it, of its
\* current attempt.
SignedBy(s, b) ==
    /\ s \in Side
    /\ Occupies(s.program, b)
    /\ b \notin me[s.program].past => s = MySide(s.program)

\* A program that is about to claim has left the mailbox that it had.
Placed == \A p \in Program :
    /\ me[p].past \subseteq 1..Len(boxes)
    /\ me[p].pc \in {"start", "claim"} => me[p].box = 0 \/ me[p].box \in me[p].past
    /\ me[p].pc \in Active => me[p].box \notin me[p].past

\* The claims of a mailbox bound the programs that are or were there: two at most.
Room == \A b \in 1..Len(boxes) :
    /\ boxes[b].claims = 0 => \A p \in Program : ~Occupies(p, b)
    /\ boxes[b].claims = 1 =>
          \A p, q \in Program : Occupies(p, b) /\ Occupies(q, b) => p = q
    /\ \A p, q, r \in Program :
          Occupies(p, b) /\ Occupies(q, b) /\ Occupies(r, b) => p = q \/ q = r \/ p = r

Signed == \A b \in 1..Len(boxes) :
    /\ \A i \in 1..Len(boxes[b].msgs) : SignedBy(boxes[b].msgs[i].side, b)
    /\ boxes[b].larger # None => SignedBy(boxes[b].larger, b)

\* Who yielded was the larger side of its mailbox, and who retries was not.
Outcome == \A p \in Program :
    /\ me[p].rival = "yields" => /\ me[p].pc \in Over /\ me[p].box # 0
                                 /\ boxes[me[p].box].larger = MySide(p)
    /\ \A b \in me[p].past : boxes[b].larger # None /\ boxes[b].larger.program # p

\* A mailbox has one nameplate, which its programs know.
Mapped ==
    /\ \A m, n \in Nameplate : plates[m] = plates[n] /\ plates[m] # 0 => m = n
    /\ \A p \in Program : me[p].pc \in Active =>
          \A n \in Nameplate : plates[n] = me[p].box => n = me[p].plate

\* From the first message on a program is releasing or has released its nameplate, unless
\* it has lost its connection: then it does not get its role into the mailbox.
Freed(b) == \A n \in Nameplate : plates[n] # b
Released == \A p \in Program :
    /\ me[p].pc \in Bound /\ me[p].net = "up" => me[p].releasing \/ Freed(me[p].box)
    /\ me[p].pc \in Late => ~me[p].releasing
    /\ me[p].pc = "getRole" => Freed(me[p].box)
    /\ \A b \in me[p].past : Freed(b)

Inv == TypeInv /\ Placed /\ Room /\ Signed /\ Outcome /\ Mapped /\ Released

LEMMA NoneIsNoSide == \A s \in Side : s # None
<1>1. ASSUME NEW s \in Side, s = None PROVE FALSE
  <2>1. DOMAIN s = {"program", "attempt"}
    BY DEF Side
  <2>2. DOMAIN None = {"program"}
    BY DEF None
  <2>3. "attempt" \in {"program", "attempt"} /\ "attempt" \notin {"program"}
    OBVIOUS
  <2> QED BY <1>1, <2>1, <2>2, <2>3
<1> QED BY <1>1

\* A step of p that claims nothing and settles no conflict: it moves on, puts a message
\* of its own into its mailbox, or releases its nameplate.
Quiet(p) ==
  /\ \A q \in Program : q # p => me'[q] = me[q]
  /\ me'[p].box = me[p].box /\ me'[p].past = me[p].past /\ me'[p].attempt = me[p].attempt
  /\ me'[p].rival = me[p].rival /\ me'[p].plate = me[p].plate
  /\ me'[p].pc \in {"start", "claim"} => me[p].pc \in {"start", "claim"}
  /\ me'[p].pc \in Active => me[p].pc \in Active
  /\ me[p].pc \in Over => me'[p].pc \in Over
  /\ me'[p].pc \in Bound /\ me'[p].net = "up" /\ ~me'[p].releasing =>
        /\ me[p].pc \in Bound /\ me[p].net = "up"
        /\ me[p].releasing /\ me[p].plate \in Nameplate => plates'[me[p].plate] = 0
  /\ me'[p].pc \in Late /\ me'[p].releasing => me[p].pc \in Late /\ me[p].releasing
  /\ me'[p].pc = "getRole" =>
        me[p].pc = "getRole" \/ (me[p].pc = "putRole" /\ me[p].net = "up")
  /\ \A n \in Nameplate : plates'[n] \in {plates[n], 0}
  /\ Len(boxes') = Len(boxes)
  /\ \A b \in 1..Len(boxes) :
        /\ boxes'[b].claims = boxes[b].claims /\ boxes'[b].larger = boxes[b].larger
        /\ \A i \in 1..Len(boxes'[b].msgs) :
              \/ i \in 1..Len(boxes[b].msgs) /\ boxes'[b].msgs[i].side = boxes[b].msgs[i].side
              \/ b = me[p].box /\ me[p].pc \in Active /\ boxes'[b].msgs[i].side = MySide(p)

\* Such a step preserves the invariant.
LEMMA QuietKeeps ==
  ASSUME Inv, TypeInv', NEW p \in Program, Quiet(p)
  PROVE  Inv'
<1>1. me \in [Program -> Local] /\ me' \in [Program -> Local] /\ Len(boxes) \in Nat
  BY LenProperties DEF Inv, TypeInv, TypeOK
<1>2. \A q \in Program : /\ me'[q].box = me[q].box /\ me'[q].past = me[q].past
                         /\ me'[q].attempt = me[q].attempt /\ me'[q].rival = me[q].rival
                         /\ me'[q].plate = me[q].plate
  BY DEF Quiet
<1>3. \A b : \A q \in Program : Occupies(q, b)' <=> Occupies(q, b)
  BY <1>2 DEF Occupies
<1>4. \A q \in Program : MySide(q)' = MySide(q)
  BY <1>2 DEF MySide
<1>5. \A s, b : SignedBy(s, b) => SignedBy(s, b)'
  BY <1>2, <1>3, <1>4 DEF SignedBy, Side
<1>6. Placed'
  BY <1>2 DEF Inv, Placed, Quiet
<1>7. Room'
  BY <1>3 DEF Inv, Room, Quiet
<1>8. Signed'
  <2>1. ASSUME NEW b \in 1..Len(boxes), boxes'[b].larger # None
        PROVE  SignedBy(boxes[b].larger, b)'
    <3>1. boxes'[b].larger = boxes[b].larger /\ SignedBy(boxes[b].larger, b)
      BY <2>1 DEF Inv, Signed, Quiet
    <3> QED BY <1>5, <3>1 DEF SignedBy, Occupies, MySide
  <2>2. ASSUME NEW b \in 1..Len(boxes), NEW i \in 1..Len(boxes'[b].msgs)
        PROVE  SignedBy(boxes[b].msgs[i].side, b)'
    <3>1. CASE i \in 1..Len(boxes[b].msgs) /\ boxes'[b].msgs[i].side = boxes[b].msgs[i].side
      <4>1. SignedBy(boxes[b].msgs[i].side, b)
        BY <3>1 DEF Inv, Signed
      <4> QED BY <1>5, <3>1, <4>1 DEF SignedBy, Occupies, MySide
    <3>2. CASE b = me[p].box /\ boxes'[b].msgs[i].side = MySide(p)
      <4>1. MySide(p) \in Side /\ MySide(p).program = p
        BY <1>1 DEF MySide, Side, Local
      <4>2. SignedBy(MySide(p), b)
        BY <3>2, <4>1 DEF SignedBy, Occupies
      <4> QED BY <1>2, <3>2, <4>2 DEF SignedBy, Occupies, MySide
    <3> QED BY <3>1, <3>2 DEF Quiet
  <2> QED BY <2>1, <2>2 DEF Signed, Quiet
<1>9. Outcome'
  <2>1. ASSUME NEW q \in Program
        PROVE  /\ me[q].box # 0 => me[q].box \in 1..Len(boxes)
               /\ \A b \in me[q].past : b \in 1..Len(boxes)
    <3>1. me[q].box \in Nat
      BY <1>1 DEF Local
    <3> QED BY <1>1, <3>1 DEF Inv, Placed, TypeInv, TypeOK
  <2>2. ASSUME NEW q \in Program, me'[q].rival = "yields"
        PROVE  /\ me'[q].pc \in Over /\ me'[q].box # 0
               /\ boxes'[me'[q].box].larger = MySide(q)'
    <3>1. me[q].pc \in Over /\ me[q].box # 0 /\ boxes[me[q].box].larger = MySide(q)
      BY <1>2, <2>2 DEF Inv, Outcome
    <3>2. me'[q].pc \in Over
      BY <3>1 DEF Quiet
    <3>3. boxes'[me[q].box].larger = boxes[me[q].box].larger
      BY <2>1, <3>1 DEF Quiet
    <3> QED BY <1>2, <1>4, <3>1, <3>2, <3>3
  <2>3. ASSUME NEW q \in Program, NEW b \in me'[q].past
        PROVE  boxes'[b].larger # None /\ boxes'[b].larger.program # q
    <3>1. b \in me[q].past /\ b \in 1..Len(boxes)
      BY <1>2, <2>1
    <3> QED BY <3>1 DEF Inv, Outcome, Quiet
  <2> QED BY <2>2, <2>3 DEF Outcome
<1>10. Mapped'
  <2>1. \A m, n \in Nameplate : plates'[m] = plates'[n] /\ plates'[m] # 0 => m = n
    BY DEF Inv, Mapped, Quiet
  <2>2. ASSUME NEW q \in Program, me'[q].pc \in Active, NEW n \in Nameplate, plates'[n] = me'[q].box
        PROVE  n = me'[q].plate
    <3>1. me[q].pc \in Active /\ me[q].box # 0
      BY <2>2 DEF Quiet, Inv, TypeInv, InBox
    <3>2. plates[n] = me[q].box
      BY <1>2, <2>2, <3>1 DEF Quiet
    <3> QED BY <1>2, <3>1, <3>2 DEF Inv, Mapped
  <2> QED BY <2>1, <2>2 DEF Mapped
<1>11. Released'
  <2>1. ASSUME NEW b, b # 0, Freed(b)
        PROVE  Freed(b)'
    BY <2>1 DEF Freed, Quiet
  <2>2. ASSUME NEW q \in Program, NEW b \in me'[q].past
        PROVE  Freed(b)'
    <3>1. Freed(b) /\ b # 0
      BY <1>2, <1>1, <2>2 DEF Inv, Released, Placed
    <3> QED BY <2>1, <3>1
  <2>3. ASSUME NEW q \in Program, me'[q].pc \in Late
        PROVE  ~me'[q].releasing
    BY <2>3 DEF Inv, Released, Quiet
  <2>4. ASSUME NEW q \in Program, me[q].pc \in Bound, me[q].net = "up", ~me[q].releasing
        PROVE  Freed(me[q].box)'
    <3>1. me[q].box # 0 /\ Freed(me[q].box)
      BY <2>4, PCs DEF Inv, TypeInv, InBox, Released
    <3> QED BY <1>2, <2>1, <3>1 DEF Freed
  <2>5. ASSUME NEW q \in Program, me'[q].pc = "getRole"
        PROVE  Freed(me[q].box)'
    <3>1. CASE me[q].pc = "getRole"
      <4>1. me[q].box # 0 /\ Freed(me[q].box)
        BY <3>1 DEF Inv, TypeInv, InBox, Released, Active
      <4> QED BY <1>2, <2>1, <4>1 DEF Freed
    <3>2. CASE me[q].pc = "putRole" /\ me[q].net = "up"
      <4>1. me[q].pc \in Bound /\ ~me[q].releasing
        BY <3>2 DEF Inv, Released, Late, Bound
      <4> QED BY <2>4, <3>2, <4>1
    <3> QED BY <2>5, <3>1, <3>2 DEF Quiet
  <2>6. ASSUME NEW q \in Program, me'[q].pc \in Bound, me'[q].net = "up", ~me'[q].releasing
        PROVE  Freed(me[q].box)'
    <3>1. me[q].pc \in Bound /\ me[q].net = "up"
      BY <2>6 DEF Quiet
    <3>2. CASE ~me[q].releasing
      BY <2>4, <3>1, <3>2
    <3>3. CASE me[q].releasing
      <4>1. q = p /\ me[q].box # 0 /\ me[q].pc \in Active
        BY <2>6, <3>1, <3>3, PCs DEF Quiet, Inv, TypeInv, InBox
      <4>2. ASSUME NEW n \in Nameplate
            PROVE  plates'[n] # me[q].box
        <5>1. CASE plates[n] = me[q].box
          <6>1. n = me[q].plate
            BY <4>1, <5>1 DEF Inv, Mapped
          <6> QED BY <2>6, <3>3, <4>1, <6>1 DEF Quiet
        <5>2. CASE plates[n] # me[q].box
          BY <4>1, <5>2 DEF Quiet
        <5> QED BY <5>1, <5>2
      <4> QED BY <1>2, <4>2 DEF Freed
    <3> QED BY <3>2, <3>3
  <2> QED BY <2>2, <2>3, <2>5, <2>6 DEF Released
<1> QED BY <1>6, <1>7, <1>8, <1>9, <1>10, <1>11 DEF Inv

\* A claim of nameplate n, after which b is its mailbox: by a program that opens the
\* mailbox, or by one for which the claim has failed.
Claims(p, n, b) ==
  /\ me[p].pc = "claim"
  /\ \A q \in Program : q # p => me'[q] = me[q]
  /\ me'[p].past = me[p].past /\ me'[p].attempt = me[p].attempt /\ me'[p].rival = me[p].rival
  /\ me'[p].pc \notin {"start"} \cup Bound
  /\ \/ me'[p].box = me[p].box /\ me'[p].plate = me[p].plate /\ me'[p].pc \in {"claim"} \cup Over
     \/ /\ me'[p].pc \in {"prepared", "putPake"} /\ me'[p].box = b /\ me'[p].plate = n
        /\ boxes'[b].claims = IF b \in 1..Len(boxes) THEN boxes[b].claims + 1 ELSE 1
  /\ n \in Nameplate /\ plates'[n] = b /\ \A m \in Nameplate : m # n => plates'[m] = plates[m]
  /\ b \in 1..Len(boxes')
  /\ b \in 1..Len(boxes) => plates[n] = b
  /\ \A c \in 1..Len(boxes') :
        IF c \in 1..Len(boxes)
        THEN /\ boxes'[c].larger = boxes[c].larger /\ boxes'[c].msgs = boxes[c].msgs
             /\ boxes'[c].link = boxes[c].link
             /\ \/ boxes'[c].claims = boxes[c].claims
                \/ c = b /\ boxes'[c].claims = boxes[c].claims + 1
        ELSE c = b /\ boxes'[c].larger = None /\ boxes'[c].msgs = <<>>
  /\ Len(boxes) <= Len(boxes')

\* Such a step preserves the invariant: the mailbox is not one of earlier attempts of the
\* program, since no nameplate leads to these.
LEMMA ClaimKeeps ==
  ASSUME Inv, TypeInv', NEW p \in Program, NEW n, NEW b, Claims(p, n, b)
  PROVE  Inv'
<1>1. /\ me \in [Program -> Local] /\ me' \in [Program -> Local]
      /\ Len(boxes) \in Nat /\ Len(boxes') \in Nat
  BY LenProperties DEF Inv, TypeInv, TypeOK
<1>2. \A q \in Program : /\ me'[q].past = me[q].past /\ me'[q].attempt = me[q].attempt
                         /\ me'[q].rival = me[q].rival /\ me[q].past \subseteq 1..Len(boxes)
                         /\ me[q].box \in Nat /\ me[q].box <= Len(boxes)
  BY <1>1 DEF Claims, Inv, Placed, TypeInv, TypeOK, Local
<1>3. b \notin me[p].past
  BY <1>2 DEF Claims, Inv, Released, Freed
<1>4. me[p].box = 0 \/ me[p].box \in me[p].past
  BY DEF Claims, Inv, Placed
<1>5. \A q \in Program, c \in 1..Len(boxes) : Occupies(q, c) => Occupies(q, c)'
  BY <1>1, <1>2, <1>4 DEF Occupies, Claims
<1>6. \A q \in Program, c \in 1..Len(boxes') : Occupies(q, c)' /\ ~Occupies(q, c) =>
         q = p /\ c = b /\ boxes'[b].claims = IF b \in 1..Len(boxes) THEN boxes[b].claims + 1 ELSE 1
  BY <1>1, <1>2 DEF Occupies, Claims
<1>7. Placed'
  <2>1. ASSUME NEW q \in Program
        PROVE  me'[q].past \subseteq 1..Len(boxes')
    BY <1>1, <1>2 DEF Claims
  <2>2. ASSUME NEW q \in Program
        PROVE  /\ me'[q].pc \in {"start", "claim"} => me'[q].box = 0 \/ me'[q].box \in me'[q].past
               /\ me'[q].pc \in Active => me'[q].box \notin me'[q].past
    BY <1>2, <1>3, <1>4 DEF Claims, Inv, Placed, Active, Over
  <2> QED BY <2>1, <2>2 DEF Placed
<1>8. Room'
  <2> SUFFICES ASSUME NEW c \in 1..Len(boxes')
               PROVE  /\ boxes'[c].claims = 0 => \A q \in Program : ~Occupies(q, c)'
                      /\ boxes'[c].claims = 1 =>
                            \A q, r \in Program : Occupies(q, c)' /\ Occupies(r, c)' => q = r
                      /\ \A q, r, s \in Program :
                            Occupies(q, c)' /\ Occupies(r, c)' /\ Occupies(s, c)'
                               => q = r \/ r = s \/ q = s
    BY DEF Room
  <2>1. CASE c \in 1..Len(boxes)
    <3>1. boxes[c].claims \in 0..2 /\ boxes'[c].claims \in 0..2
      <4>1. boxes \in Seq(Mailbox) /\ boxes' \in Seq(Mailbox)
        BY DEF Inv, TypeInv, TypeOK
      <4>2. boxes[c] \in Mailbox /\ boxes'[c] \in Mailbox
        BY <2>1, <4>1, ElementOfSeq
      <4> QED BY <4>2 DEF Mailbox
    <3>2. /\ boxes[c].claims = 0 => \A q \in Program : ~Occupies(q, c)
          /\ boxes[c].claims = 1 =>
                \A q, r \in Program : Occupies(q, c) /\ Occupies(r, c) => q = r
          /\ \A q, r, s \in Program :
                Occupies(q, c) /\ Occupies(r, c) /\ Occupies(s, c) => q = r \/ r = s \/ q = s
      BY <2>1 DEF Inv, Room
    <3>3. CASE \A q \in Program : Occupies(q, c)' => Occupies(q, c)
      <4>1. boxes'[c].claims = boxes[c].claims \/ boxes'[c].claims = boxes[c].claims + 1
        BY <2>1 DEF Claims
      <4> QED BY <3>1, <3>2, <3>3, <4>1
    <3>4. CASE ~\A q \in Program : Occupies(q, c)' => Occupies(q, c)
      <4>1. boxes'[c].claims = boxes[c].claims + 1
            /\ \A q \in Program : Occupies(q, c)' => q = p \/ Occupies(q, c)
        BY <1>6, <2>1, <3>4
      <4>2. boxes[c].claims \in 0..1
        BY <3>1, <4>1
      <4> QED BY <3>1, <3>2, <4>1, <4>2
    <3> QED BY <3>3, <3>4
  <2>2. CASE c \notin 1..Len(boxes)
    <3>1. \A q \in Program : ~Occupies(q, c)
      BY <1>1, <1>2, <2>2 DEF Occupies
    <3>2. \A q \in Program : Occupies(q, c)' => q = p /\ c = b /\ boxes'[c].claims = 1
      BY <1>6, <2>2, <3>1
    <3> QED BY <3>2
  <2> QED BY <2>1, <2>2
<1>9. ASSUME NEW s, NEW c \in 1..Len(boxes), SignedBy(s, c)
      PROVE  s \in Side /\ Occupies(s.program, c)' /\ (c \notin me'[s.program].past => s = MySide(s.program)')
  <2>1. s \in Side /\ s.program \in Program
    BY <1>9 DEF SignedBy, Side
  <2> QED BY <1>2, <1>5, <1>9, <2>1 DEF SignedBy, MySide
<1>10. Signed'
  <2>1. ASSUME NEW c \in 1..Len(boxes'), boxes'[c].larger # None
        PROVE  SignedBy(boxes[c].larger, c)'
    <3>1. c \in 1..Len(boxes) /\ boxes'[c].larger = boxes[c].larger /\ SignedBy(boxes[c].larger, c)
      BY <2>1 DEF Inv, Signed, Claims
    <3> QED BY <1>9, <3>1 DEF SignedBy
  <2>2. ASSUME NEW c \in 1..Len(boxes'), NEW i \in 1..Len(boxes'[c].msgs)
        PROVE  SignedBy(boxes[c].msgs[i].side, c)'
    <3>1. c \in 1..Len(boxes)
      BY <2>2 DEF Claims
    <3>2. boxes'[c].msgs = boxes[c].msgs
      BY <3>1 DEF Claims
    <3>3. SignedBy(boxes[c].msgs[i].side, c)
      BY <3>1, <3>2 DEF Inv, Signed
    <3> QED BY <1>9, <3>1, <3>2, <3>3 DEF SignedBy
  <2> QED BY <2>1, <2>2 DEF Signed
<1>11. Outcome'
  <2>1. ASSUME NEW q \in Program, me'[q].rival = "yields"
        PROVE  /\ me'[q].pc \in Over /\ me'[q].box # 0
               /\ boxes'[me'[q].box].larger = MySide(q)'
    <3>1. me[q].pc \in Over /\ me[q].box # 0 /\ boxes[me[q].box].larger = MySide(q)
      BY <1>2, <2>1 DEF Inv, Outcome
    <3>2. me'[q] = me[q] /\ me[q].box \in 1..Len(boxes)
      BY <1>1, <1>2, <3>1 DEF Claims, Over
    <3>3. boxes'[me[q].box].larger = boxes[me[q].box].larger
      BY <1>1, <3>2 DEF Claims
    <3> QED BY <3>1, <3>2, <3>3 DEF MySide
  <2>2. ASSUME NEW q \in Program, NEW c \in me'[q].past
        PROVE  boxes'[c].larger # None /\ boxes'[c].larger.program # q
    <3>1. c \in me[q].past /\ c \in 1..Len(boxes) /\ c \in 1..Len(boxes')
      BY <1>1, <1>2 DEF Claims
    <3> QED BY <3>1 DEF Inv, Outcome, Claims
  <2> QED BY <2>1, <2>2 DEF Outcome
<1>12. Mapped'
  <2>1. plates \in [Nameplate -> 0..Len(boxes)]
    BY DEF Inv, TypeInv, TypeOK
  <2>2. \A m \in Nameplate : m # n => plates'[m] # b
    BY <1>1, <2>1 DEF Inv, Mapped, Claims
  <2>3. \A m, k \in Nameplate : plates'[m] = plates'[k] /\ plates'[m] # 0 => m = k
    BY <2>2 DEF Inv, Mapped, Claims
  <2>4. ASSUME NEW q \in Program, me'[q].pc \in Active, NEW m \in Nameplate, plates'[m] = me'[q].box
        PROVE  m = me'[q].plate
    <3>1. CASE q = p
      BY <2>2, <2>4, <3>1 DEF Claims, Active, Over
    <3>2. CASE q # p
      <4>1. me'[q] = me[q] /\ me[q].box \in 1..Len(boxes)
        BY <1>1, <1>2, <2>4, <3>2 DEF Claims, Inv, TypeInv, InBox
      <4>2. plates[m] = me[q].box
        BY <2>4, <4>1 DEF Claims
      <4> QED BY <2>4, <4>1, <4>2 DEF Inv, Mapped
    <3> QED BY <3>1, <3>2
  <2> QED BY <2>3, <2>4 DEF Mapped
<1>13. Released'
  <2>1. ASSUME NEW c \in 1..Len(boxes), Freed(c)
        PROVE  Freed(c)'
    <3>1. ASSUME NEW m \in Nameplate PROVE plates'[m] # c
      <4>1. plates[m] # c
        BY <2>1 DEF Freed
      <4>2. CASE m = n
        <5>1. b \in 1..Len(boxes) => plates[m] = b
          BY <4>2 DEF Claims
        <5> QED BY <2>1, <4>1, <4>2, <5>1 DEF Claims
      <4>3. CASE m # n
        BY <4>1, <4>3 DEF Claims
      <4> QED BY <4>2, <4>3
    <3> QED BY <3>1 DEF Freed
  <2>2. ASSUME NEW q \in Program, NEW c \in me'[q].past
        PROVE  Freed(c)'
    <3>1. c \in 1..Len(boxes) /\ Freed(c)
      BY <1>2, <2>2 DEF Inv, Released
    <3> QED BY <2>1, <3>1
  <2>3. ASSUME NEW q \in Program, me'[q].pc \in Bound
        PROVE  /\ me'[q] = me[q]
               /\ Freed(me[q].box) => Freed(me[q].box)'
    <3>1. q # p /\ me'[q] = me[q] /\ me[q].pc \in Active
      BY <2>3, PCs DEF Claims
    <3>2. me[q].box \in 1..Len(boxes)
      BY <1>1, <1>2, <3>1 DEF Inv, TypeInv, InBox
    <3> QED BY <2>1, <3>1, <3>2 DEF Freed
  <2>4. Late \subseteq Bound /\ "getRole" \in Bound
    BY DEF Late, Bound
  <2> QED BY <2>2, <2>3, <2>4 DEF Released, Inv
<1> QED BY <1>7, <1>8, <1>10, <1>11, <1>12, <1>13 DEF Inv

\* A conflict that p finds in its mailbox b: the sideIDs are compared, and p yields or leaves.
Settles(p, b, larger) ==
  /\ me[p].pc = "getRole" /\ ~me[p].releasing /\ me[p].box = b
  /\ \A q \in Program : q # p => me'[q] = me[q]
  /\ me'[p].box = b /\ me'[p].plate = me[p].plate
  /\ me'[p].pc \in {"claim"} \cup Over
  /\ larger \in Side /\ SignedBy(larger, b)
  /\ boxes[b].larger # None => larger = boxes[b].larger
  /\ \/ /\ larger = MySide(p) /\ me'[p].pc \in Over /\ me'[p].rival = "yields"
        /\ me'[p].past = me[p].past /\ me'[p].attempt = me[p].attempt
     \/ /\ larger # MySide(p) /\ me'[p].rival = "retries" /\ me'[p].past = me[p].past \cup {b}
  /\ plates' = plates /\ Len(boxes') = Len(boxes)
  /\ \A c \in 1..Len(boxes) :
        /\ boxes'[c].claims = boxes[c].claims
        /\ boxes'[c].larger = IF c = b THEN larger ELSE boxes[c].larger
        /\ \A i \in 1..Len(boxes'[c].msgs) :
              \/ i \in 1..Len(boxes[c].msgs) /\ boxes'[c].msgs[i].side = boxes[c].msgs[i].side
              \/ c = b /\ boxes'[c].msgs[i].side = MySide(p)

\* Such a step preserves the invariant: of the programs in the mailbox one has the larger
\* sideID, for both of them, and it is not one that retries.
LEMMA SettlesKeeps ==
  ASSUME Inv, TypeInv', NEW p \in Program, NEW b, NEW larger, Settles(p, b, larger)
  PROVE  Inv'
<1>1. /\ me \in [Program -> Local] /\ me' \in [Program -> Local] /\ Len(boxes) \in Nat
      /\ b \in 1..Len(boxes) /\ me[p].pc \in Active
  <2>1. me[p].pc \in Active
    BY DEF Settles, Active
  <2> QED BY <2>1, LenProperties, InBoxType DEF Inv, TypeInv, TypeOK, Settles
<1>2. \A q \in Program : /\ me'[q].box = me[q].box
                         /\ me'[q].past = me[q].past \/ (q = p /\ me'[q].past = me[q].past \cup {b})
                         /\ me[q].past \subseteq 1..Len(boxes)
                         /\ me[q].box \in Nat /\ me[q].box <= Len(boxes)
  <2>1. \A q \in Program : me'[q].box = me[q].box
    BY DEF Settles
  <2>2. \A q \in Program : me'[q].past = me[q].past \/ (q = p /\ me'[q].past = me[q].past \cup {b})
    BY DEF Settles
  <2>3. \A q \in Program : me[q].past \subseteq 1..Len(boxes) /\ me[q].box <= Len(boxes)
    BY DEF Inv, Placed, TypeInv, TypeOK
  <2>4. \A q \in Program : me[q].box \in Nat
    BY <1>1 DEF Local
  <2> QED BY <2>1, <2>2, <2>3, <2>4
<1>3. \A c : \A q \in Program : Occupies(q, c)' <=> Occupies(q, c)
  BY <1>2 DEF Occupies, Settles
<1>4. b \notin me[p].past
  BY <1>1 DEF Inv, Placed, Settles
<1>5. ASSUME NEW s, NEW c, SignedBy(s, c)
      PROVE  s \in Side /\ Occupies(s.program, c)' /\ (c \notin me'[s.program].past => s = MySide(s.program)')
  <2>1. s \in Side /\ s.program \in Program /\ Occupies(s.program, c)
    BY <1>5 DEF SignedBy, Side
  <2>2. ASSUME c \notin me'[s.program].past
        PROVE  s = MySide(s.program)'
    <3>1. c \notin me[s.program].past
      BY <1>2, <2>1, <2>2
    <3>2. s = MySide(s.program)
      BY <1>5, <3>1 DEF SignedBy
    <3>3. CASE s.program = p
      <4>1. c = b
        BY <2>1, <3>1, <3>3 DEF Occupies, Settles
      <4>2. me'[p].attempt = me[p].attempt
        BY <2>2, <3>3, <4>1 DEF Settles
      <4> QED BY <3>2, <3>3, <4>2 DEF MySide
    <3>4. CASE s.program # p
      BY <2>1, <3>2, <3>4 DEF MySide, Settles
    <3> QED BY <3>3, <3>4
  <2> QED BY <1>3, <2>1, <2>2
<1>6. Placed'
  <2>1. ASSUME NEW q \in Program
        PROVE  me'[q].past \subseteq 1..Len(boxes')
    BY <1>1, <1>2 DEF Settles
  <2>2. ASSUME NEW q \in Program
        PROVE  /\ me'[q].pc \in {"start", "claim"} => me'[q].box = 0 \/ me'[q].box \in me'[q].past
               /\ me'[q].pc \in Active => me'[q].box \notin me'[q].past
    BY DEF Settles, Inv, Placed, Active, Over
  <2> QED BY <2>1, <2>2 DEF Placed
<1>7. Room'
  BY <1>3 DEF Inv, Room, Settles
<1>8. Signed'
  <2>1. ASSUME NEW c \in 1..Len(boxes), boxes'[c].larger # None
        PROVE  SignedBy(boxes[c].larger, c)'
    <3>1. CASE c = b
      <4>1. boxes'[c].larger = larger /\ SignedBy(larger, c)
        BY <2>1, <3>1 DEF Settles
      <4> QED BY <1>5, <4>1 DEF SignedBy
    <3>2. CASE c # b
      <4>1. boxes'[c].larger = boxes[c].larger /\ SignedBy(boxes[c].larger, c)
        BY <2>1, <3>2 DEF Inv, Signed, Settles
      <4> QED BY <1>5, <4>1 DEF SignedBy
    <3> QED BY <3>1, <3>2
  <2>2. ASSUME NEW c \in 1..Len(boxes), NEW i \in 1..Len(boxes'[c].msgs)
        PROVE  SignedBy(boxes[c].msgs[i].side, c)'
    <3>1. CASE i \in 1..Len(boxes[c].msgs) /\ boxes'[c].msgs[i].side = boxes[c].msgs[i].side
      <4>1. SignedBy(boxes[c].msgs[i].side, c)
        BY <3>1 DEF Inv, Signed
      <4> QED BY <1>5, <3>1, <4>1 DEF SignedBy
    <3>2. CASE c = b /\ boxes'[c].msgs[i].side = MySide(p)
      <4>1. MySide(p) \in Side /\ MySide(p).program = p
        BY <1>1 DEF MySide, Side, Local
      <4>2. SignedBy(MySide(p), b)
        BY <4>1 DEF SignedBy, Occupies, Settles
      <4> QED BY <1>5, <3>2, <4>2 DEF SignedBy
    <3> QED BY <3>1, <3>2 DEF Settles
  <2> QED BY <2>1, <2>2 DEF Signed, Settles
<1>9. Outcome'
  <2>1. larger # None
    BY NoneIsNoSide DEF Settles
  <2>2. ASSUME NEW q \in Program, me'[q].rival = "yields"
        PROVE  /\ me'[q].pc \in Over /\ me'[q].box # 0
               /\ boxes'[me'[q].box].larger = MySide(q)'
    <3>1. CASE q = p
      <4>1. larger = MySide(p) /\ me'[p].pc \in Over /\ me'[p].attempt = me[p].attempt
        BY <2>2, <3>1 DEF Settles
      <4>2. MySide(p)' = MySide(p)
        BY <4>1 DEF MySide
      <4> QED BY <1>1, <3>1, <4>1, <4>2 DEF Settles
    <3>2. CASE q # p
      <4>1. me'[q] = me[q]
        BY <3>2 DEF Settles
      <4>2. me[q].pc \in Over /\ me[q].box # 0 /\ boxes[me[q].box].larger = MySide(q)
        BY <2>2, <4>1 DEF Inv, Outcome
      <4>3. MySide(q) \in Side /\ MySide(q)' = MySide(q)
        BY <1>1, <4>1 DEF MySide, Side, Local
      <4>4. me[q].box \in 1..Len(boxes)
        BY <1>1, <1>2, <4>2
      <4>5. boxes'[me[q].box].larger = boxes[me[q].box].larger
        BY <4>2, <4>3, <4>4, NoneIsNoSide DEF Settles
      <4> QED BY <4>1, <4>2, <4>3, <4>5
    <3> QED BY <3>1, <3>2
  <2>3. ASSUME NEW q \in Program, NEW c \in me'[q].past
        PROVE  boxes'[c].larger # None /\ boxes'[c].larger.program # q
    <3>1. CASE c \in me[q].past
      <4>1. c \in 1..Len(boxes) /\ boxes[c].larger # None /\ boxes[c].larger.program # q
        BY <1>2, <3>1 DEF Inv, Outcome
      <4>2. boxes'[c].larger = boxes[c].larger
        BY <4>1 DEF Settles
      <4> QED BY <4>1, <4>2
    <3>2. CASE c \notin me[q].past
      <4>1. q = p /\ c = b /\ larger # MySide(p)
        BY <1>2, <1>4, <2>3, <3>2 DEF Settles
      <4>2. boxes'[c].larger = larger
        BY <1>1, <4>1 DEF Settles
      <4>3. larger.program # p
        BY <1>4, <4>1 DEF Settles, SignedBy
      <4> QED BY <2>1, <4>1, <4>2, <4>3
    <3> QED BY <3>1, <3>2
  <2> QED BY <2>2, <2>3 DEF Outcome
<1>10. Mapped'
  BY DEF Settles, Inv, Mapped, Active, Over
<1>11. Released'
  <2>1. Freed(b) /\ \A c : Freed(c)' <=> Freed(c)
    BY DEF Inv, Released, Settles, Freed
  <2>2. me'[p].pc \notin Bound \cup Late \cup {"getRole"}
    BY DEF Settles, Bound, Late, Over
  <2>3. \A q \in Program : q # p => me'[q] = me[q]
    BY DEF Settles
  <2>4. \A q \in Program : \A c \in me'[q].past : Freed(c)
    BY <1>2, <2>1 DEF Inv, Released
  <2>5. ASSUME NEW q \in Program
        PROVE  Freed(me[q].box)' <=> Freed(me[q].box)
    <3>1. me'[q].box = me[q].box
      BY <2>3 DEF Settles
    <3> QED BY <3>1 DEF Settles, Freed
  <2>6. \A q \in Program : \A c \in me'[q].past : Freed(c)'
    BY <2>1, <2>4
  <2> QED BY <2>2, <2>3, <2>5, <2>6 DEF Inv, Released
<1> QED BY <1>6, <1>7, <1>8, <1>9, <1>10, <1>11 DEF Inv

-----------------------------------------------------------------------------
(* The steps.                                                              *)

\* A step that leaves the server alone is quiet, when it moves the program as one may.
LEMMA OwnQuiet ==
  ASSUME TypeInv, NEW p \in Program, NEW r \in Local, Becomes(p, r),
         r.box = me[p].box, r.past = me[p].past, r.attempt = me[p].attempt,
         r.rival = me[p].rival, r.plate = me[p].plate,
         r.pc \in {"start", "claim"} => me[p].pc \in {"start", "claim"},
         r.pc \in Active => me[p].pc \in Active,
         me[p].pc \in Over => r.pc \in Over,
         r.pc \in Bound /\ r.net = "up" /\ ~r.releasing =>
            me[p].pc \in Bound /\ me[p].net = "up" /\ ~me[p].releasing,
         r.pc \in Late /\ r.releasing => me[p].pc \in Late /\ me[p].releasing,
         r.pc = "getRole" => me[p].pc = "getRole",
         UNCHANGED <<plates, boxes>>
  PROVE  Quiet(p)
<1>1. \A q \in Program : me'[q] = IF q = p THEN r ELSE me[q]
  BY DEF Becomes, TypeInv, TypeOK
<1> QED BY <1>1 DEF Quiet

LEMMA MovesQuiet ==
  ASSUME TypeInv, NEW p \in Program, Moves(p)
  PROVE  Quiet(p)
<1>1. PICK pc \in PC : Goes(p, pc) /\ Onward(p, pc)
  BY MovesAre
<1> DEFINE r == [me[p] EXCEPT !.pc = pc]
<1>2. /\ r \in Local /\ Becomes(p, r) /\ r.pc = pc
      /\ r.box = me[p].box /\ r.past = me[p].past /\ r.attempt = me[p].attempt
      /\ r.rival = me[p].rival /\ r.plate = me[p].plate /\ r.releasing = me[p].releasing
      /\ r.net = me[p].net
  BY <1>1 DEF Goes, TypeInv, TypeOK, Local
<1>3. UNCHANGED <<plates, boxes>>
  BY MovesAre
<1> HIDE DEF r
<1> QED BY <1>1, <1>2, <1>3, OwnQuiet DEF Onward

LEMMA LossQuiet ==
  ASSUME TypeInv, NEW p \in Program, Break(p) \/ End(p)
  PROVE  Quiet(p)
<1>1. PICK net \in {"broken", "ended"}, heard \in Nat :
        Becomes(p, [me[p] EXCEPT !.net = net, !.heard = heard])
  BY LossIs
<1> DEFINE r == [me[p] EXCEPT !.net = net, !.heard = heard]
<1>2. /\ r \in Local /\ Becomes(p, r) /\ r.pc = me[p].pc
      /\ r.box = me[p].box /\ r.past = me[p].past /\ r.attempt = me[p].attempt
      /\ r.rival = me[p].rival /\ r.plate = me[p].plate /\ r.releasing = me[p].releasing
      /\ r.net # "up"
  BY <1>1 DEF TypeInv, TypeOK, Local
<1>3. UNCHANGED <<plates, boxes>>
  BY LossIs
<1> HIDE DEF r
<1> QED BY <1>2, <1>3, OwnQuiet

LEMMA GetsQuiet ==
  ASSUME TypeInv, NEW p \in Program, GetPake(p) \/ GetVersion(p) \/ GetTransit(p) \/ GetRole(p)
  PROVE  Quiet(p)
<1>1. me[p] \in Local /\ UNCHANGED <<plates, boxes>> /\ ~me[p].releasing /\ me[p].pc \in Active
  BY DEF GetPake, GetVersion, GetTransit, GetRole, Offered, TypeInv, TypeOK, Active
<1>2. CASE GetPake(p)
  <2>1. PICK i \in Coming(p) :
          Becomes(p, [me[p] EXCEPT !.pc = "putVersion", !.seen = i, !.releasing = TRUE])
    BY <1>2 DEF GetPake
  <2>2. i \in Nat /\ "putVersion" \in PC /\ me[p].pc = "getPake"
    BY <1>1, <1>2, InBoxType, PCs DEF Active, GetPake, Offered
  <2> DEFINE r == [me[p] EXCEPT !.pc = "putVersion", !.seen = i, !.releasing = TRUE]
  <2>3. r \in Local
    BY <1>1, <2>2 DEF Local
  <2>4. /\ r.pc = "putVersion" /\ r.releasing /\ r.box = me[p].box /\ r.past = me[p].past
        /\ r.attempt = me[p].attempt /\ r.rival = me[p].rival /\ r.plate = me[p].plate
    BY <1>1 DEF Local
  <2> HIDE DEF r
  <2>5. Becomes(p, r)
    BY <2>1 DEF r
  <2> QED BY <1>1, <2>2, <2>3, <2>4, <2>5, OwnQuiet DEF Active, Bound, Late, Over
<1>3. CASE GetVersion(p) \/ GetTransit(p) \/ GetRole(p)
  <2>1. \E x \in {"verify", "putRole", "accept", "putTransit", "getTransit"}, i \in Coming(p), relay \in Relay :
          /\ x \in Bound => me[p].pc \in Bound
          /\ Becomes(p, [me[p] EXCEPT !.pc = x, !.seen = i, !.relay = relay])
    <3>1. CASE GetVersion(p) \/ GetTransit(p)
      <4>1. \E x \in {"verify", "putRole", "accept", "putTransit"}, i \in Coming(p) :
              /\ x \in Bound => me[p].pc \in Bound
              /\ Becomes(p, [me[p] EXCEPT !.pc = x, !.seen = i])
        BY <3>1 DEF GetVersion, GetTransit, Offered, Bound
      <4>2. PICK x \in {"verify", "putRole", "accept", "putTransit"}, i \in Coming(p) :
              /\ x \in Bound => me[p].pc \in Bound
              /\ Becomes(p, [me[p] EXCEPT !.pc = x, !.seen = i])
        BY <4>1
      <4>3. [me[p] EXCEPT !.pc = x, !.seen = i]
              = [me[p] EXCEPT !.pc = x, !.seen = i, !.relay = me[p].relay]
        BY <1>1 DEF Local
      <4>4. me[p].relay \in Relay
        BY <1>1 DEF Local
      <4>5. Becomes(p, [me[p] EXCEPT !.pc = x, !.seen = i, !.relay = me[p].relay])
        BY <4>2, <4>3
      <4> QED BY <4>2, <4>4, <4>5, ZenonT(30)
    <3>2. CASE GetRole(p)
      <4>1. PICK i \in Coming(p) :
              /\ Msgs(p)[i].type = "role"
              /\ Becomes(p, [me[p] EXCEPT !.pc = IF p \in Creators THEN "putTransit" ELSE "getTransit",
                               !.seen = i,
                               !.relay = Negotiate(RelayOf(p), Msgs(p)[i].relay, Role(p))])
        BY <3>2 DEF GetRole
      <4>2. Msgs(p)[i].relay \in Relay /\ RelayOf(p) \in Relay
        BY <1>1, <4>1, InBoxType DEF Message, RelayOf, Relay
      <4>3. Negotiate(RelayOf(p), Msgs(p)[i].relay, Role(p)) \in Relay
        BY <4>2, NegotiateType
      <4> QED BY <4>1, <4>3 DEF Bound
    <3> QED BY <1>3, <3>1, <3>2
  <2>2. PICK x \in {"verify", "putRole", "accept", "putTransit", "getTransit"}, i \in Coming(p), relay \in Relay :
          /\ x \in Bound => me[p].pc \in Bound
          /\ Becomes(p, [me[p] EXCEPT !.pc = x, !.seen = i, !.relay = relay])
    BY <2>1
  <2>3. i \in Nat /\ x \in PC
    BY <1>1, InBoxType, PCs DEF Active
  <2> DEFINE r == [me[p] EXCEPT !.pc = x, !.seen = i, !.relay = relay]
  <2>4. r \in Local
    BY <1>1, <2>3 DEF Local
  <2>5. /\ r.pc = x /\ r.releasing = me[p].releasing /\ r.box = me[p].box /\ r.past = me[p].past
        /\ r.attempt = me[p].attempt /\ r.rival = me[p].rival /\ r.plate = me[p].plate
        /\ r.net = me[p].net
    BY <1>1 DEF Local
  <2>6. Becomes(p, r)
    BY <2>2
  <2>7. me[p].pc \notin Over /\ x \notin {"start", "claim", "getRole"}
    BY <1>1 DEF Active, Over
  <2> HIDE DEF r
  <2> QED BY <1>1, <2>2, <2>4, <2>5, <2>6, <2>7, OwnQuiet
<1> QED BY <1>2, <1>3

LEMMA ReleaseQuiet ==
  ASSUME TypeInv, NEW p \in Program, Release(p) \/ ReleaseFails(p)
  PROVE  Quiet(p)
<1>1. me \in [Program -> Local] /\ boxes' = boxes
  BY ReleaseIs DEF TypeInv, TypeOK
<1>2. \A q \in Program : me'[q] = IF q = p THEN [me[p] EXCEPT !.releasing = FALSE] ELSE me[q]
  BY <1>1, ReleaseIs DEF Becomes
<1>3. /\ me'[p].box = me[p].box /\ me'[p].past = me[p].past /\ me'[p].attempt = me[p].attempt
      /\ me'[p].rival = me[p].rival /\ me'[p].plate = me[p].plate /\ me'[p].pc = me[p].pc
      /\ me'[p].net = me[p].net /\ ~me'[p].releasing
  BY <1>1, <1>2 DEF Local
<1>4. /\ \A n \in Nameplate : plates'[n] \in {plates[n], 0}
      /\ me[p].net = "up" /\ me[p].plate \in Nameplate => plates'[me[p].plate] = 0
  BY ReleaseIs
<1> QED BY <1>1, <1>2, <1>3, <1>4 DEF Quiet

\* A step in which the mailbox x replaces that of the program.
LEMMA BoxQuiet ==
  ASSUME TypeInv, NEW p \in Program, me[p].pc \in Active, NEW pc \in PC, Goes(p, pc),
         pc \notin {"start", "claim"}, pc \in Bound => me[p].pc \in Bound,
         pc \in Late => me[p].pc \in Late,
         pc = "getRole" => me[p].pc = "putRole" /\ me[p].net = "up",
         NEW x \in Mailbox, boxes' = [boxes EXCEPT ![me[p].box] = x], plates' = plates,
         x.claims = boxes[me[p].box].claims, x.larger = boxes[me[p].box].larger,
         \/ x.msgs = boxes[me[p].box].msgs
         \/ \E m \in Message : m.side = MySide(p) /\ x.msgs = Append(boxes[me[p].box].msgs, m)
  PROVE  Quiet(p)
<1>1. me \in [Program -> Local] /\ boxes \in Seq(Mailbox) /\ me[p].box \in 1..Len(boxes)
      /\ boxes[me[p].box].msgs \in Seq(Message) /\ plates \in [Nameplate -> 0..Len(boxes)]
  <2>1. boxes[me[p].box] \in Mailbox
    BY InBoxType
  <2> QED BY <2>1, InBoxType DEF TypeInv, TypeOK, Mailbox
<1>2. \A q \in Program : me'[q] = IF q = p THEN [me[p] EXCEPT !.pc = pc] ELSE me[q]
  BY <1>1 DEF Goes, Becomes
<1>3. /\ me'[p].box = me[p].box /\ me'[p].past = me[p].past /\ me'[p].attempt = me[p].attempt
      /\ me'[p].rival = me[p].rival /\ me'[p].plate = me[p].plate /\ me'[p].pc = pc
      /\ me'[p].releasing = me[p].releasing /\ me'[p].net = me[p].net
  <2>1. me'[p] = [me[p] EXCEPT !.pc = pc] /\ me[p] \in Local
    BY <1>1, <1>2
  <2> QED BY <2>1 DEF Local
<1>4. me[p].pc \notin Over
  BY DEF Active, Over
<1>5. Len(boxes') = Len(boxes)
      /\ \A b \in 1..Len(boxes) : boxes'[b] = IF b = me[p].box THEN x ELSE boxes[b]
  BY <1>1, ChangeType
<1>6. ASSUME NEW i \in 1..Len(x.msgs)
      PROVE  \/ i \in 1..Len(boxes[me[p].box].msgs) /\ x.msgs[i].side = boxes[me[p].box].msgs[i].side
             \/ x.msgs[i].side = MySide(p)
  <2>1. CASE x.msgs = boxes[me[p].box].msgs
    BY <2>1
  <2>2. CASE \E m \in Message : m.side = MySide(p) /\ x.msgs = Append(boxes[me[p].box].msgs, m)
    <3>1. PICK m \in Message : m.side = MySide(p) /\ x.msgs = Append(boxes[me[p].box].msgs, m)
      BY <2>2
    <3> DEFINE old == boxes[me[p].box].msgs
    <3>2. old \in Seq(Message) /\ x.msgs = Append(old, m)
      BY <1>1, <3>1
    <3> HIDE DEF old
    <3>3. (i \in 1..Len(old) /\ Append(old, m)[i] = old[i]) \/ Append(old, m)[i] = m
      BY <3>2, AppendCases
    <3>4. (i \in 1..Len(old) /\ x.msgs[i].side = old[i].side) \/ x.msgs[i].side = MySide(p)
      BY <3>1, <3>2, <3>3
    <3> QED BY <3>4 DEF old
  <2> QED BY <2>1, <2>2
<1>7. ASSUME NEW b \in 1..Len(boxes)
      PROVE  /\ boxes'[b].claims = boxes[b].claims /\ boxes'[b].larger = boxes[b].larger
             /\ \A i \in 1..Len(boxes'[b].msgs) :
                   \/ i \in 1..Len(boxes[b].msgs) /\ boxes'[b].msgs[i].side = boxes[b].msgs[i].side
                   \/ b = me[p].box /\ me[p].pc \in Active /\ boxes'[b].msgs[i].side = MySide(p)
  BY <1>5, <1>6, ZenonT(40)
<1>8. \A q \in Program : q # p => me'[q] = me[q]
  BY <1>2
<1>9. ~me'[p].releasing => ~me[p].releasing
  BY <1>3
<1> QED BY <1>3, <1>4, <1>5, <1>7, <1>8, <1>9 DEF Quiet

LEMMA PutsQuiet ==
  ASSUME TypeInv, NEW p \in Program, Put(p) \/ PutFails(p)
  PROVE  Quiet(p)
<1>1. me[p].pc \in DOMAIN Puts /\ me[p].pc \in Active /\ plates' = plates
  BY PCs DEF Put, PutFails
<1>2. boxes[me[p].box] \in Mailbox
  BY <1>1, InBoxType
<1> DEFINE m == Mine(p, Puts[me[p].pc])
           x == [boxes[me[p].box] EXCEPT !.msgs = Append(@, m)]
<1>3. m \in Message /\ m.side = MySide(p)
  BY <1>1, PCs, MineType DEF TypeInv
<1>4. With(p, m) = [boxes EXCEPT ![me[p].box] = x]
  BY DEF With
<1> HIDE DEF m
<1>5. x \in Mailbox
  BY <1>1, <1>3, WithType
<1>6. /\ x.claims = boxes[me[p].box].claims /\ x.larger = boxes[me[p].box].larger
      /\ x.msgs = Append(boxes[me[p].box].msgs, m)
  BY <1>2 DEF Mailbox
<1>7. PICK pc \in PC :
        /\ Goes(p, pc) /\ pc \notin {"start", "claim"}
        /\ pc \in Bound => me[p].pc \in Bound
        /\ pc \in Late => me[p].pc \in Late
        /\ pc = "getRole" => me[p].pc = "putRole" /\ me[p].net = "up"
  <2>1. CASE PutFails(p)
    <3>1. PICK pc \in Over : Goes(p, pc)
      BY <2>1, ErrsAre DEF PutFails
    <3>2. pc \notin {"start", "claim", "getRole"} \cup Bound \cup Late /\ pc \in PC
      BY PCs DEF Over, Bound, Late
    <3> QED BY <3>1, <3>2
  <2>2. CASE Put(p)
    <3> DEFINE pc == AfterPut(p)
    <3>1. Goes(p, pc) /\ me[p].net = "up"
      BY <2>2 DEF Put
    <3>2. /\ pc \in PC /\ pc \notin {"start", "claim"}
          /\ pc \in Bound => me[p].pc \in Bound
          /\ pc \in Late => me[p].pc \in Late
          /\ pc = "getRole" => me[p].pc = "putRole"
      BY <1>1, PCs DEF AfterPut, Bound, Late, Active
    <3> HIDE DEF pc
    <3> QED BY <3>1, <3>2
  <2> QED BY <2>1, <2>2
<1> HIDE DEF x
<1>8. CASE boxes' = With(p, m)
  BY <1>1, <1>3, <1>4, <1>5, <1>6, <1>7, <1>8, BoxQuiet
<1>9. CASE boxes' = boxes
  <2>1. boxes' = [boxes EXCEPT ![me[p].box] = boxes[me[p].box]]
    BY <1>1, <1>9 DEF TypeInv, TypeOK
  <2> QED BY <1>1, <1>2, <1>7, <2>1, BoxQuiet
<1> QED BY <1>8, <1>9 DEF Put, PutFails, m

LEMMA ConnectQuiet ==
  ASSUME TypeInv, NEW p \in Program, Connect(p)
  PROVE  Quiet(p)
<1>1. me[p].pc \in Active /\ plates' = plates
  BY DEF Connect, Active
<1>2. PICK link \in {"none", "broken", "made"}, pc \in Linking \cup Over :
        /\ boxes' = [boxes EXCEPT ![me[p].box] = [boxes[me[p].box] EXCEPT !.link = link]]
        /\ Goes(p, pc)
  BY ErrsAre DEF Connect
<1> DEFINE x == [boxes[me[p].box] EXCEPT !.link = link]
<1>3. /\ x \in Mailbox /\ x.claims = boxes[me[p].box].claims /\ x.larger = boxes[me[p].box].larger
      /\ x.msgs = boxes[me[p].box].msgs
  <2>1. boxes[me[p].box] \in Mailbox
    BY <1>1, InBoxType
  <2> QED BY <2>1 DEF Mailbox
<1>4. boxes' = [boxes EXCEPT ![me[p].box] = x]
  BY <1>2
<1> HIDE DEF x
<1>5. pc \in PC /\ pc \notin {"start", "claim", "getRole"} \cup Bound \cup Late
  BY PCs DEF Linking, Over, Bound, Late, Active
<1> QED BY <1>1, <1>2, <1>3, <1>4, <1>5, BoxQuiet

\* Claimed, for the claim of a program or for one that has failed.
LEMMA ClaimedClaims ==
  ASSUME Inv, NEW p \in Program, me[p].pc = "claim",
         NEW n \in Nameplate, NEW claims \in 0..1, ~Crowded(n), Claimed(n, claims),
         NEW r \in Local, Becomes(p, r),
         r.past = me[p].past, r.attempt = me[p].attempt, r.rival = me[p].rival,
         \/ r.box = me[p].box /\ r.plate = me[p].plate /\ r.pc \in {"claim"} \cup Over
         \/ claims = 1 /\ r.pc \in {"prepared", "putPake"} /\ r.box = plates'[n] /\ r.plate = n
  PROVE  Claims(p, n, plates'[n])
<1>1. /\ me \in [Program -> Local] /\ plates \in [Nameplate -> 0..Len(boxes)]
      /\ boxes \in Seq(Mailbox) /\ Len(boxes) \in Nat
  BY LenProperties DEF Inv, TypeInv, TypeOK
<1>2. \A q \in Program : me'[q] = IF q = p THEN r ELSE me[q]
  BY <1>1 DEF Becomes
<1>3. r.pc \in {"claim", "failed", "unacked", "prepared", "putPake"}
  BY DEF Over
<1>4. CASE plates[n] = 0
  <2>1. plates' = [plates EXCEPT ![n] = Len(boxes) + 1] /\ boxes' = Append(boxes, NewBox(claims))
    BY <1>4 DEF Claimed
  <2>2. /\ plates'[n] = Len(boxes) + 1
        /\ \A m \in Nameplate : m # n => plates'[m] = plates[m]
    BY <1>1, <2>1
  <2>3. NewBox(claims) \in Mailbox
    BY DEF NewBox, Mailbox
  <2>4. /\ Len(boxes') = Len(boxes) + 1
        /\ \A c \in 1..Len(boxes) : boxes'[c] = boxes[c]
        /\ boxes'[Len(boxes) + 1] = NewBox(claims)
    BY <1>1, <2>1, <2>3, AppendProperties
  <2>5. \A c \in 1..Len(boxes') :
          IF c \in 1..Len(boxes)
          THEN boxes'[c] = boxes[c]
          ELSE c = plates'[n] /\ boxes'[c] = NewBox(claims)
    BY <1>1, <2>2, <2>4
  <2>6. boxes'[plates'[n]] = NewBox(claims) /\ plates'[n] \in 1..Len(boxes') /\ plates'[n] \notin 1..Len(boxes)
    BY <1>1, <2>2, <2>4
  <2>7. /\ NewBox(claims).claims = claims /\ NewBox(claims).msgs = <<>>
        /\ NewBox(claims).larger = None
    BY DEF NewBox
  <2>8. Len(boxes) <= Len(boxes')
    BY <1>1, <2>4
  <2> QED BY <1>2, <1>3, <2>2, <2>5, <2>6, <2>7, <2>8 DEF Claims, Active, Bound
<1>5. CASE plates[n] # 0
  <2>1. /\ boxes' = [boxes EXCEPT ![plates[n]] = [boxes[plates[n]] EXCEPT !.claims = @ + 1]]
        /\ plates' = plates
    BY <1>5 DEF Claimed
  <2>2. plates[n] \in 1..Len(boxes)
    BY <1>1, <1>5
  <2>3. boxes[plates[n]] \in Mailbox
    BY <1>1, <2>2, ElementOfSeq
  <2> DEFINE x == [boxes[plates[n]] EXCEPT !.claims = @ + 1]
  <2>4. /\ x.claims = boxes[plates[n]].claims + 1 /\ x.msgs = boxes[plates[n]].msgs
        /\ x.larger = boxes[plates[n]].larger /\ x.link = boxes[plates[n]].link
    BY <2>3 DEF Mailbox
  <2>5. boxes' = [boxes EXCEPT ![plates[n]] = x]
    BY <2>1
  <2> HIDE DEF x
  <2>6. /\ Len(boxes') = Len(boxes)
        /\ \A c \in 1..Len(boxes) : boxes'[c] = IF c = plates[n] THEN x ELSE boxes[c]
    <3>1. DOMAIN boxes = 1..Len(boxes)
      BY <1>1, LenProperties
    <3>2. DOMAIN boxes' = 1..Len(boxes) /\ \A c \in 1..Len(boxes) : boxes'[c] = IF c = plates[n] THEN x ELSE boxes[c]
      BY <2>2, <2>5, <3>1
    <3>3. boxes' \in Seq(Mailbox)
      BY ClaimedType DEF Inv, TypeInv
    <3> QED BY <1>1, <3>2, <3>3, LenProperties
  <2> QED BY <1>1, <1>2, <1>3, <2>1, <2>2, <2>4, <2>6 DEF Claims, Active, Bound
<1> QED BY <1>4, <1>5

\* The step of a program that claims a nameplate, and opens its mailbox.
LEMMA HoldsClaims ==
  ASSUME Inv, NEW p \in Program, me[p].pc = "claim", NEW n \in Nameplate,
         ~Crowded(n), Claimed(n, 1), Holds(p, n, plates'[n])
  PROVE  Claims(p, n, plates'[n])
<1>1. me[p] \in Local /\ plates'[n] \in Nat
  <2>1. plates'[n] \in 1..Len(boxes') /\ boxes' \in Seq(Mailbox)
    BY ClaimedType DEF Inv, TypeInv
  <2> QED BY <2>1, LenProperties DEF Inv, TypeInv, TypeOK
<1>2. PICK x \in {"prepared", "putPake"} :
        Becomes(p, [me[p] EXCEPT !.pc = x, !.plate = n, !.box = plates'[n], !.seen = 0,
                                 !.net = "up", !.heard = 0])
  BY DEF Holds
<1> DEFINE r == [me[p] EXCEPT !.pc = x, !.plate = n, !.box = plates'[n], !.seen = 0,
                              !.net = "up", !.heard = 0]
<1>3. /\ r \in Local /\ r.past = me[p].past /\ r.attempt = me[p].attempt /\ r.rival = me[p].rival
      /\ r.pc = x /\ r.box = plates'[n] /\ r.plate = n
  <2>1. x \in PC
    BY PCs DEF Active
  <2>2. PICK b : b = plates'[n]
    OBVIOUS
  <2> QED BY <1>1, <2>1, <2>2 DEF Local
<1>4. Becomes(p, r)
  BY <1>2
<1> HIDE DEF r
<1> QED BY <1>3, <1>4, ClaimedClaims

\* A claim that the server grants.
LEMMA ClaimsAre ==
  ASSUME Inv, NEW p \in Program, Attach(p) \/ Allocate(p)
  PROVE  \E n \in Nameplate : Claims(p, n, plates'[n])
<1>1. CASE Attach(p)
  <2>1. Target(p) \in Nameplate
    BY <1>1, TargetType DEF Attach, Inv, TypeInv
  <2> QED BY <1>1, <2>1, HoldsClaims DEF Attach
<1>2. CASE Allocate(p)
  <2>1. PICK n \in Nameplate : LowestFree(n) /\ Claimed(n, 1) /\ Holds(p, n, plates'[n])
    BY <1>2 DEF Allocate
  <2>2. ~Crowded(n)
    BY <2>1 DEF LowestFree, Crowded
  <2> QED BY <1>2, <2>1, <2>2, HoldsClaims DEF Allocate
<1> QED BY <1>1, <1>2

\* A claim that fails before it comes to the server, or after.
LEMMA ClaimFailsAre ==
  ASSUME Inv, NEW p \in Program, AttachFails(p) \/ AllocateFails(p)
  PROVE  \/ Quiet(p) /\ UNCHANGED boxes /\ me'[p].pc \in {"claim"} \cup Over
         \/ \E n \in Nameplate : Claims(p, n, plates'[n])
<1>1. me[p].pc = "claim" /\ me[p] \in Local
  BY DEF AttachFails, AllocateFails, Inv, TypeInv, TypeOK
<1>2. PICK r \in Local :
        /\ Becomes(p, r) /\ r.pc \in {"claim"} \cup Over
        /\ r.box = me[p].box /\ r.past = me[p].past /\ r.attempt = me[p].attempt
        /\ r.rival = me[p].rival /\ r.plate = me[p].plate
  BY FailIs DEF Inv, TypeInv
<1>3. CASE UNCHANGED <<plates, boxes>>
  <2>1. Quiet(p)
    BY <1>1, <1>2, <1>3, OwnQuiet DEF Active, Bound, Late, Over, Inv
  <2>2. me'[p] = r
    BY <1>2 DEF Becomes, Inv, TypeInv, TypeOK
  <2> QED BY <1>2, <1>3, <2>1, <2>2
<1>4. CASE \E n \in Nameplate, claims \in 0..1 : ~Crowded(n) /\ Claimed(n, claims)
  <2>1. PICK n \in Nameplate, claims \in 0..1 : ~Crowded(n) /\ Claimed(n, claims)
    BY <1>4
  <2> QED BY <1>1, <1>2, <2>1, ClaimedClaims
<1>5. CASE AttachFails(p)
  <2>1. Target(p) \in Nameplate
    BY <1>5, TargetType DEF AttachFails, Inv, TypeInv
  <2> QED BY <1>3, <1>4, <1>5, <2>1 DEF AttachFails
<1>6. CASE AllocateFails(p)
  <2>1. \A n \in Nameplate : LowestFree(n) => ~Crowded(n)
    BY DEF LowestFree, Crowded
  <2> QED BY <1>3, <1>4, <1>6, <2>1 DEF AllocateFails
<1> QED BY <1>5, <1>6

\* A conflict is settled by a sideID of a program in the mailbox.
LEMMA ConflictKeeps ==
  ASSUME Inv, TypeInv', NEW p \in Program, Conflict(p)
  PROVE  Inv'
<1> DEFINE b == me[p].box
<1>1. /\ me[p].pc = "getRole" /\ ~me[p].releasing /\ plates' = plates /\ me[p].pc \in Active
      /\ TypeInv
  BY ConflictIs DEF Inv, Active
<1>2. /\ b \in 1..Len(boxes) /\ boxes[b] \in Mailbox /\ me[p] \in Local
      /\ boxes \in Seq(Mailbox) /\ me \in [Program -> Local] /\ boxes[b].msgs \in Seq(Message)
  <2>1. b \in 1..Len(boxes) /\ boxes[b] \in Mailbox
    BY <1>1, InBoxType
  <2> QED BY <1>1, <2>1 DEF TypeInv, TypeOK, Mailbox
<1>3. PICK i \in Coming(p), larger \in Side :
        /\ larger \in IF boxes[b].larger = None THEN {MySide(p), Msgs(p)[i].side}
                      ELSE {boxes[b].larger}
        /\ \/ Yields(p, [me[p] EXCEPT !.seen = i], larger)
           \/ Retries(p, [me[p] EXCEPT !.seen = i], larger)
  BY <1>1, ConflictIs
<1>4. i \in Nat /\ i \in 1..Len(boxes[b].msgs)
  BY <1>1, InBoxType DEF Msgs
<1>5. SignedBy(larger, b)
  <2>1. MySide(p) \in Side /\ MySide(p).program = p
    BY <1>2 DEF MySide, Side, Local
  <2>2. SignedBy(MySide(p), b)
    BY <2>1 DEF SignedBy, Occupies
  <2>3. SignedBy(boxes[b].msgs[i].side, b) /\ (boxes[b].larger # None => SignedBy(boxes[b].larger, b))
    BY <1>2, <1>4 DEF Inv, Signed
  <2> QED BY <1>3, <2>2, <2>3 DEF Msgs
<1>6. boxes[b].larger # None => larger = boxes[b].larger
  BY <1>3
<1>7. ASSUME NEW r \in Local, Becomes(p, r), NEW x \in Mailbox, boxes' = [boxes EXCEPT ![b] = x],
             r.pc \in {"claim"} \cup Over, r.box = b, r.plate = me[p].plate,
             x.claims = boxes[b].claims, x.larger = larger,
             x.msgs \in {boxes[b].msgs, Append(boxes[b].msgs, Mine(p, "error"))},
             \/ /\ larger = MySide(p) /\ r.pc \in Over /\ r.rival = "yields"
                /\ r.past = me[p].past /\ r.attempt = me[p].attempt
             \/ larger # MySide(p) /\ r.rival = "retries" /\ r.past = me[p].past \cup {b}
      PROVE  Settles(p, b, larger)
  <2> DEFINE m == Mine(p, "error")
             old == boxes[b].msgs
  <2>1. m \in Message /\ m.side = MySide(p)
    BY <1>1, MineType DEF TypeInv
  <2>2. \A q \in Program : me'[q] = IF q = p THEN r ELSE me[q]
    BY <1>2, <1>7 DEF Becomes
  <2>3. Len(boxes') = Len(boxes)
        /\ \A c \in 1..Len(boxes) : boxes'[c] = IF c = b THEN x ELSE boxes[c]
    BY <1>2, <1>7, ExceptSeq
  <2>4. old \in Seq(Message) /\ x.msgs \in {old, Append(old, m)}
    BY <1>2, <1>7
  <2> HIDE DEF m, old
  <2>5. ASSUME NEW j \in 1..Len(x.msgs)
        PROVE  (j \in 1..Len(old) /\ x.msgs[j].side = old[j].side) \/ x.msgs[j].side = MySide(p)
    <3>1. CASE x.msgs = old
      BY <3>1
    <3>2. CASE x.msgs = Append(old, m)
      <4>1. (j \in 1..Len(old) /\ Append(old, m)[j] = old[j]) \/ Append(old, m)[j] = m
        BY <2>1, <2>4, <2>5, <3>2, AppendCases
      <4> QED BY <2>1, <3>2, <4>1
    <3> QED BY <2>4, <3>1, <3>2
  <2>6. \A c \in 1..Len(boxes) :
           /\ boxes'[c].claims = boxes[c].claims
           /\ boxes'[c].larger = IF c = b THEN larger ELSE boxes[c].larger
           /\ \A j \in 1..Len(boxes'[c].msgs) :
                 \/ j \in 1..Len(boxes[c].msgs) /\ boxes'[c].msgs[j].side = boxes[c].msgs[j].side
                 \/ c = b /\ boxes'[c].msgs[j].side = MySide(p)
    BY <1>7, <2>3, <2>5 DEF old
  <2> HIDE DEF b
  <2> QED BY <1>1, <1>5, <1>6, <1>7, <2>2, <2>3, <2>6 DEF Settles, b
<1>8. Settles(p, b, larger)
  <2>1. CASE Yields(p, [me[p] EXCEPT !.seen = i], larger)
    BY <1>1, <1>7, <2>1, YieldsIs DEF Msgs
  <2>2. CASE Retries(p, [me[p] EXCEPT !.seen = i], larger)
    BY <1>1, <1>7, <2>2, RetriesIs DEF Msgs
  <2> QED BY <1>3, <2>1, <2>2
<1> QED BY <1>8, SettlesKeeps

\* The invariant is preserved.
LEMMA InvStep ==
  ASSUME Inv, [Next]_vars
  PROVE  Inv'
<1>1. TypeInv /\ TypeInv'
  BY TypeStep DEF Inv
<1>2. ASSUME NEW p \in Program,
             Work(p) \/ Start(p) \/ Begin(p) \/ Fails(p)
      PROVE  Inv'
  <2>1. CASE Quiet(p)
    BY <1>1, <2>1, QuietKeeps
  <2>2. CASE Attach(p) \/ Allocate(p)
    BY <1>1, <2>2, ClaimsAre, ClaimKeeps
  <2>3. CASE Moves(p)
    BY <1>1, <2>1, <2>3, MovesQuiet
  <2>4. CASE GetPake(p) \/ GetVersion(p) \/ GetTransit(p) \/ GetRole(p)
    BY <1>1, <2>1, <2>4, GetsQuiet
  <2>5. CASE Release(p) \/ ReleaseFails(p)
    BY <1>1, <2>1, <2>5, ReleaseQuiet
  <2>6. CASE Conflict(p)
    BY <1>1, <2>6, ConflictKeeps
  <2>7. CASE Put(p) \/ PutFails(p)
    BY <1>1, <2>1, <2>7, PutsQuiet
  <2>8. CASE Connect(p)
    BY <1>1, <2>1, <2>8, ConnectQuiet
  <2>9. CASE AttachFails(p) \/ AllocateFails(p)
    BY <1>1, <2>1, <2>9, ClaimFailsAre, ClaimKeeps
  <2>10. CASE Break(p) \/ End(p)
    BY <1>1, <2>1, <2>10, LossQuiet
  <2> QED BY <1>2, <2>2, <2>3, <2>4, <2>5, <2>6, <2>7, <2>8, <2>9, <2>10
         DEF Work, Claim, Fails, Moves
<1>3. CASE UNCHANGED vars
  <2>1. First \in Program
    BY ProgramsAssumption DEF Program
  <2>2. Quiet(First)
    BY <1>3 DEF vars, Quiet
  <2> QED BY <1>1, <2>1, <2>2, QuietKeeps
<1> QED BY <1>2, <1>3 DEF Next

LEMMA InvInit ==
  ASSUME Init
  PROVE  Inv
<1>1. TypeInv
  BY TypeInit
<1>2. \A p \in Program : /\ me[p].pc = "start" /\ me[p].box = 0 /\ me[p].past = {}
                         /\ me[p].rival = "none"
  BY DEF Init
<1>3. \A b \in 1..Len(boxes) : boxes[b] = NewBox(2)
  <2>1. boxes = <<>> \/ boxes = <<NewBox(2)>>
    BY DEF Init
  <2>2. CASE boxes = <<>>
    BY <2>2
  <2>3. CASE boxes = <<NewBox(2)>>
    <3> DEFINE x == NewBox(2)
    <3> HIDE DEF x
    <3>1. boxes = <<x>>
      BY <2>3 DEF x
    <3>2. \A b \in 1..Len(boxes) : boxes[b] = x
      BY <3>1
    <3> QED BY <3>2 DEF x
  <2> QED BY <2>1, <2>2, <2>3
<1>4. \A m, n \in Nameplate : plates[m] = plates[n] /\ plates[m] # 0 => m = n
  BY DEF Init
<1>5. Room
  BY <1>2 DEF Room, Occupies
<1>6. Signed
  <2>1. NewBox(2).msgs = <<>> /\ NewBox(2).larger = None
    BY DEF NewBox
  <2> QED BY <1>3, <2>1 DEF Signed
<1> QED BY <1>1, <1>2, <1>4, <1>5, <1>6 DEF Inv, Placed, Outcome, Mapped, Released, Active, Bound, Late

-----------------------------------------------------------------------------
(* Theorems.                                                               *)

LEMMA Invariance == Spec => []Inv
<1>1. Init => Inv
  BY InvInit
<1>2. Inv /\ [Next]_vars => Inv'
  BY InvStep
<1> QED BY <1>1, <1>2, PTL DEF Spec

\* The creator and the joiner compute the same relay, each from its own and the other's
\* (negotiateRelay), without another message.
THEOREM NegotiationAgrees ==
  ASSUME NEW ours \in Relay, NEW theirs \in Relay
  PROVE  Negotiate(ours, theirs, "creator") = Negotiate(theirs, ours, "joiner")
<1>1. CASE ours = DefaultRelay /\ theirs = DefaultRelay
  BY <1>1 DEF Negotiate
<1>2. CASE ours = DefaultRelay /\ theirs # DefaultRelay
  BY <1>2 DEF Negotiate
<1>3. CASE ours # DefaultRelay /\ theirs = DefaultRelay
  BY <1>3 DEF Negotiate
<1>4. CASE ours # DefaultRelay /\ theirs # DefaultRelay
  BY <1>4 DEF Negotiate
<1> QED BY <1>1, <1>2, <1>3, <1>4

\* Of two creators that meet (establishTunnel), one yields and one retries: however many
\* creators, joiners and retries there are, two in one mailbox never both yield, since the
\* larger sideID is that of one, and never both retry, since it is that of the other.
THEOREM ConflictsSettled == Spec => []OneYields
<1>1. ASSUME Inv PROVE OneYields
  <2>1. ASSUME NEW p \in Creators, NEW q \in Creators, me[p].rival = "yields", me[q].rival = "yields",
               Together(p, q)
        PROVE  FALSE
    <3>1. p \in Program /\ q \in Program
      BY DEF Program
    <3>2. MySide(p) = MySide(q)
      BY <1>1, <2>1, <3>1 DEF Inv, Outcome, Together
    <3>3. MySide(p).program = p /\ MySide(q).program = q
      BY DEF MySide
    <3> QED BY <2>1, <3>2, <3>3 DEF Together
  <2>2. ASSUME NEW p \in Creators, NEW q \in Creators, NEW b \in me[p].past, p # q, b \in me[q].past
        PROVE  FALSE
    <3>1. p \in Program /\ q \in Program
      BY DEF Program
    <3>2. b \in 1..Len(boxes) /\ boxes[b].larger # None
      BY <1>1, <2>2, <3>1 DEF Inv, Placed, Outcome
    <3> DEFINE r == boxes[b].larger.program
    <3>3. r # p /\ r # q
      BY <1>1, <2>2, <3>1 DEF Inv, Outcome
    <3>4. r \in Program /\ Occupies(r, b)
      BY <1>1, <3>2 DEF Inv, Signed, SignedBy, Side
    <3>5. Occupies(p, b) /\ Occupies(q, b)
      BY <2>2 DEF Occupies
    <3> QED BY <1>1, <2>2, <3>1, <3>2, <3>3, <3>4, <3>5 DEF Inv, Room
  <2> QED BY <2>1, <2>2 DEF OneYields
<1> QED BY <1>1, Invariance, PTL

\* A creator that retries (PrepareTunnel) is led to no mailbox of an earlier attempt: each
\* side of the exchange released the nameplate before it took the second message.
THEOREM RetriesAfresh == Spec => []RetryFindsItFree
<1>1. Inv => RetryFindsItFree
  BY DEF Inv, Released, Freed, RetryFindsItFree, Program
<1> QED BY <1>1, Invariance, PTL

-----------------------------------------------------------------------------
(* One relay: what the two programs of a mailbox have told each other.     *)

\* A role message says what the program is, and which relay it has.
Stated(ms) == \A k \in 1..Len(ms) : ms[k].type = "role" =>
    /\ ms[k].role = Role(ms[k].side.program)
    /\ ms[k].relay = RelayOf(ms[k].side.program)

\* p computes this relay from a role message of the other side.
AgreedIn(p, ms, relay) == \E i \in 1..Len(ms) :
    /\ ms[i].type = "role" /\ ms[i].side.program # p
    /\ relay = Negotiate(RelayOf(p), ms[i].relay, Role(p))

Agreed(p) == me[p].pc \in Agreeing => AgreedIn(p, Msgs(p), me[p].relay)

\* What is the creator's to do and what the joiner's.
Fitting(p) ==
    /\ p \in Creators => me[p].pc # "connect"
    /\ p \in Joiners => me[p].pc # "accept"

\* A joiner has the connection with a creator of its mailbox, which does not give it up.
Linked(p) == p \in Joiners /\ me[p].pc \in Linking =>
    /\ boxes[me[p].box].link = "made"
    /\ \E q \in Creators : me[q].box = me[p].box /\ me[q].pc \in Accepting

Keeping(p) == Agreed(p) /\ Fitting(p) /\ Linked(p)

\* The inductive invariant of the relay.
AgreeInv ==
    /\ Inv
    /\ \A b \in 1..Len(boxes) : Stated(boxes[b].msgs)
    /\ \A p \in Program : Keeping(p)

\* A message that tells the role and the relay of p, if it tells one.
Honest(p, m) ==
    /\ m \in Message /\ m.side.program = p
    /\ m.type = "role" => m.role = Role(p) /\ m.relay = RelayOf(p)

\* A step of p that adds at most a message of M to the mailbox of p, and makes no connection.
Extends(p, M) ==
    /\ \A q \in Program : q # p => me'[q] = me[q]
    /\ 1..Len(boxes) \subseteq 1..Len(boxes')
    /\ \A c \in 1..Len(boxes) :
          /\ boxes'[c].link = boxes[c].link
          /\ \/ boxes'[c].msgs = boxes[c].msgs
             \/ \E m \in M : boxes'[c].msgs = Append(boxes[c].msgs, m)
    /\ \A c \in 1..Len(boxes') : c \notin 1..Len(boxes) => boxes'[c].msgs = <<>>

-----------------------------------------------------------------------------
(* Messages that are added.                                                *)

\* The elements of a sequence that has grown by one.
LEMMA Appended ==
  ASSUME NEW q \in Seq(Message), NEW m \in Message, NEW s, s = Append(q, m)
  PROVE  /\ Len(q) \in Nat /\ Len(s) = Len(q) + 1 /\ s[Len(q) + 1] = m
         /\ \A k \in 1..Len(q) : k \in 1..Len(s) /\ s[k] = q[k]
         /\ \A k \in 1..Len(s) : k \in 1..Len(q) \/ k = Len(q) + 1
<1>1. Len(q) \in Nat /\ Len(s) = Len(q) + 1
  BY LenProperties, AppendProperties
<1>2. (\A k \in 1..Len(q) : s[k] = q[k]) /\ s[Len(q) + 1] = m
  BY AppendProperties
<1> QED BY <1>1, <1>2

\* What is said of a mailbox is true when it has grown.
LEMMA Grown ==
  ASSUME NEW q \in Seq(Message), NEW p, NEW m, Honest(p, m), NEW s, s = Append(q, m)
  PROVE  /\ Stated(q) => Stated(s)
         /\ \A r, relay : AgreedIn(r, q, relay) => AgreedIn(r, s, relay)
<1>1. m \in Message
  BY DEF Honest
<1>2. /\ Len(q) \in Nat /\ Len(s) = Len(q) + 1 /\ s[Len(q) + 1] = m
      /\ \A k \in 1..Len(q) : k \in 1..Len(s) /\ s[k] = q[k]
      /\ \A k \in 1..Len(s) : k \in 1..Len(q) \/ k = Len(q) + 1
  BY <1>1, Appended
<1>3. Stated(q) => Stated(s)
  BY <1>2 DEF Stated, Honest
<1>4. ASSUME NEW r, NEW relay, AgreedIn(r, q, relay)
      PROVE  AgreedIn(r, s, relay)
  <2>1. PICK i \in 1..Len(q) :
          /\ q[i].type = "role" /\ q[i].side.program # r
          /\ relay = Negotiate(RelayOf(r), q[i].relay, Role(r))
    BY <1>4 DEF AgreedIn
  <2>2. i \in 1..Len(s) /\ s[i] = q[i]
    BY <1>2, <2>1
  <2> QED BY <2>1, <2>2 DEF AgreedIn
<1> QED BY <1>3, <1>4

\* The mailboxes have messages.
LEMMA MsgsType ==
  ASSUME TypeInv
  PROVE  /\ me \in [Program -> Local] /\ Len(boxes) \in Nat
         /\ \A b \in 1..Len(boxes) : boxes[b].msgs \in Seq(Message)
         /\ \A p \in Program : me[p].pc \in Active => me[p].box \in 1..Len(boxes)
<1>1. me \in [Program -> Local] /\ Len(boxes) \in Nat /\ boxes \in Seq(Mailbox)
  BY LenProperties DEF TypeInv, TypeOK
<1>2. ASSUME NEW b \in 1..Len(boxes) PROVE boxes[b].msgs \in Seq(Message)
  <2>1. boxes[b] \in Mailbox
    BY <1>1, <1>2, ElementOfSeq
  <2> QED BY <2>1 DEF Mailbox
<1> QED BY <1>1, <1>2, InBoxType

\* What comes to p is of another program.
LEMMA ComingIs ==
  ASSUME Inv, NEW p \in Program, me[p].pc \in Active, NEW i \in Coming(p)
  PROVE  /\ i \in Nat /\ i \in 1..Len(Msgs(p)) /\ Msgs(p)[i] \in Message
         /\ Msgs(p)[i].side.program # p
<1>1. TypeInv /\ me[p].box \in 1..Len(boxes) /\ me[p].box \notin me[p].past
  BY MsgsType DEF Inv, Placed
<1>2. /\ i \in Nat /\ i \in 1..Len(Msgs(p)) /\ Msgs(p)[i] \in Message
      /\ Msgs(p)[i].side # MySide(p)
  BY <1>1, InBoxType
<1>3. SignedBy(Msgs(p)[i].side, me[p].box)
  BY <1>1, <1>2 DEF Inv, Signed, Msgs
<1>4. Msgs(p)[i].side.program # p
  BY <1>1, <1>2, <1>3 DEF SignedBy
<1> QED BY <1>2, <1>4

\* A message of a program in a mailbox is of one that has it or has left it.
LEMMA MsgOf ==
  ASSUME Inv, NEW b \in 1..Len(boxes), NEW k \in 1..Len(boxes[b].msgs)
  PROVE  /\ boxes[b].msgs[k].side.program \in Program
         /\ Occupies(boxes[b].msgs[k].side.program, b)
<1>1. SignedBy(boxes[b].msgs[k].side, b)
  BY DEF Inv, Signed
<1> QED BY <1>1 DEF SignedBy, Side

\* Two others of a mailbox are the same.
LEMMA OneOther ==
  ASSUME Inv, NEW b \in 1..Len(boxes), NEW p \in Program, NEW q \in Program, NEW r \in Program,
         Occupies(p, b), Occupies(q, b), Occupies(r, b), q # p, r # p
  PROVE  q = r
BY DEF Inv, Room

\* A creator is no joiner.
LEMMA Roles ==
  /\ \A p \in Creators : p \notin Joiners /\ p \in Program /\ Role(p) = "creator"
  /\ \A p \in Joiners : p \notin Creators /\ p \in Program /\ Role(p) = "joiner"
BY ProgramsAssumption DEF Program, Role

-----------------------------------------------------------------------------
(* The steps that make no connection.                                      *)

\* Where a program is that has a mailbox.
LEMMA Places ==
  /\ Linking \subseteq Agreeing /\ Accepting \subseteq Agreeing /\ Agreeing \subseteq Active
  /\ {"connect", "accept"} \subseteq Agreeing
  /\ \A pc \in {"claim"} \cup Over : pc \notin Agreeing /\ pc \notin Active
BY DEF Linking, Accepting, Agreeing, Active, Over

\* A step that extends the mailbox of p keeps what is said of the others.  Of p itself it is
\* to be shown that it enters Agreeing with the relay of its mailbox, that it stays a creator
\* or a joiner, that a creator keeps a connection, and that a joiner gets none.
LEMMA StepAgrees ==
  ASSUME AgreeInv, Inv', NEW p \in Program, NEW M, \A m \in M : Honest(p, m), Extends(p, M),
         me'[p].pc \in Agreeing =>
            me'[p].box = me[p].box /\ me[p].pc \in Active /\ AgreedIn(p, Msgs(p), me'[p].relay),
         Fitting(p)',
         p \in Creators /\ me[p].pc \in Accepting /\ boxes[me[p].box].link = "made" =>
            me'[p].pc \in Accepting /\ me'[p].box = me[p].box,
         p \in Joiners /\ me'[p].pc \in Linking => me[p].pc \in Linking
  PROVE  AgreeInv'
<1>1. /\ TypeInv /\ TypeInv' /\ \A q \in Program : Keeping(q)
      /\ \A b \in 1..Len(boxes) : Stated(boxes[b].msgs)
  BY DEF AgreeInv, Inv
<1>2. ASSUME NEW b \in 1..Len(boxes)
      PROVE  /\ b \in 1..Len(boxes') /\ boxes'[b].link = boxes[b].link
             /\ Stated(boxes'[b].msgs)
             /\ \A q, relay : AgreedIn(q, boxes[b].msgs, relay) => AgreedIn(q, boxes'[b].msgs, relay)
  <2>1. CASE boxes'[b].msgs = boxes[b].msgs
    BY <1>1, <2>1 DEF Extends
  <2>2. CASE \E m \in M : boxes'[b].msgs = Append(boxes[b].msgs, m)
    <3>1. PICK m \in M : boxes'[b].msgs = Append(boxes[b].msgs, m)
      BY <2>2
    <3>2. boxes[b].msgs \in Seq(Message) /\ Honest(p, m)
      BY <1>1, <3>1, MsgsType
    <3>3. /\ Stated(boxes'[b].msgs)
          /\ \A q, relay : AgreedIn(q, boxes[b].msgs, relay) => AgreedIn(q, boxes'[b].msgs, relay)
      BY <1>1, <3>1, <3>2, Grown
    <3> QED BY <3>3 DEF Extends
  <2> QED BY <2>1, <2>2 DEF Extends
<1>3. \A q \in Program : me[q].pc \in Active => me[q].box \in 1..Len(boxes)
  BY <1>1, MsgsType
<1>4. ASSUME NEW b \in 1..Len(boxes')
      PROVE  Stated(boxes'[b].msgs)
  <2>1. CASE b \in 1..Len(boxes)
    BY <1>2, <2>1
  <2>2. CASE b \notin 1..Len(boxes)
    <3>1. boxes'[b].msgs = <<>>
      BY <2>2 DEF Extends
    <3> QED BY <3>1 DEF Stated
  <2> QED BY <2>1, <2>2
<1>5. ASSUME NEW q \in Program
      PROVE  Agreed(q)'
  <2> SUFFICES ASSUME me'[q].pc \in Agreeing
               PROVE  AgreedIn(q, boxes'[me'[q].box].msgs, me'[q].relay)
    BY DEF Agreed, Msgs
  <2>1. me'[q].box = me[q].box /\ me[q].box \in 1..Len(boxes) /\ AgreedIn(q, Msgs(q), me'[q].relay)
    <3>1. CASE q = p
      BY <1>3, <3>1
    <3>2. CASE q # p
      <4>1. me'[q] = me[q] /\ Agreed(q)
        BY <1>1, <3>2 DEF Extends, Keeping
      <4> QED BY <1>3, <4>1, Places DEF Agreed
    <3> QED BY <3>1, <3>2
  <2> QED BY <1>2, <2>1 DEF Msgs
<1>6. ASSUME NEW q \in Program
      PROVE  Fitting(q)'
  <2>1. CASE q = p
    BY <2>1
  <2>2. CASE q # p
    <3>1. me'[q] = me[q] /\ Fitting(q)
      BY <1>1, <2>2 DEF Extends, Keeping
    <3> QED BY <3>1 DEF Fitting
  <2> QED BY <2>1, <2>2
<1>7. ASSUME NEW q \in Program
      PROVE  Linked(q)'
  <2> SUFFICES ASSUME q \in Joiners, me'[q].pc \in Linking
               PROVE  /\ boxes'[me'[q].box].link = "made"
                      /\ \E r \in Creators : me'[r].box = me'[q].box /\ me'[r].pc \in Accepting
    BY DEF Linked
  <2>1. me[q].pc \in Linking /\ me'[q].box = me[q].box
    <3>1. CASE q = p
      BY <3>1, Places
    <3>2. CASE q # p
      BY <3>2 DEF Extends
    <3> QED BY <3>1, <3>2
  <2>2. me[q].box \in 1..Len(boxes)
    BY <1>3, <2>1, Places
  <2>3. Linked(q)
    BY <1>1 DEF Keeping
  <2>4. PICK r \in Creators : me[r].box = me[q].box /\ me[r].pc \in Accepting
    BY <2>1, <2>3 DEF Linked
  <2>5. boxes[me[q].box].link = "made"
    BY <2>1, <2>3 DEF Linked
  <2>6. me'[r].box = me[r].box /\ me'[r].pc \in Accepting
    <3>1. CASE r = p
      BY <2>4, <2>5, <3>1
    <3>2. CASE r # p
      BY <2>4, <3>2, Roles DEF Extends
    <3> QED BY <3>1, <3>2
  <2>7. boxes'[me[q].box].link = "made"
    BY <1>2, <2>2, <2>5
  <2> QED BY <2>1, <2>4, <2>6, <2>7
<1>8. \A q \in Program : Keeping(q)'
  BY <1>5, <1>6, <1>7 DEF Keeping
<1> QED BY <1>4, <1>8 DEF AgreeInv

\* A step of a program that has no relay afterwards.
LEMMA IdleAgrees ==
  ASSUME AgreeInv, Inv', NEW p \in Program, NEW M, \A m \in M : Honest(p, m), Extends(p, M),
         me'[p].pc \notin Agreeing, me[p].pc \notin Accepting
  PROVE  AgreeInv'
<1>1. Fitting(p)' /\ me'[p].pc \notin Linking
  BY Places DEF Fitting
<1> QED BY <1>1, StepAgrees

\* A step that leaves the server alone.
LEMMA OwnAgrees ==
  ASSUME AgreeInv, Inv', NEW p \in Program, NEW r \in Local, Becomes(p, r),
         r.box = me[p].box, UNCHANGED boxes,
         r.pc \in Agreeing => me[p].pc \in Active /\ AgreedIn(p, Msgs(p), r.relay),
         p \in Creators => r.pc # "connect",
         p \in Joiners => r.pc # "accept",
         me[p].pc \in Accepting /\ boxes[me[p].box].link = "made" => r.pc \in Accepting,
         p \in Joiners /\ r.pc \in Linking => me[p].pc \in Linking
  PROVE  AgreeInv'
<1>1. me \in [Program -> Local]
  BY MsgsType DEF AgreeInv, Inv
<1>2. \A q \in Program : me'[q] = IF q = p THEN r ELSE me[q]
  BY <1>1 DEF Becomes
<1>3. me'[p] = r /\ \A q \in Program : q # p => me'[q] = me[q]
  BY <1>2
<1>4. PICK M : M = {}
  OBVIOUS
<1>5. Extends(p, M)
  BY <1>3 DEF Extends
<1>6. Fitting(p)'
  BY <1>3 DEF Fitting
<1>7. \A m \in M : Honest(p, m)
  BY <1>4
<1> QED BY <1>3, <1>5, <1>6, <1>7, StepAgrees

\* A step of the program counter alone.
LEMMA MovesAgree ==
  ASSUME AgreeInv, Inv', NEW p \in Program, Moves(p)
  PROVE  AgreeInv'
<1>1. PICK pc \in PC : Goes(p, pc) /\ Onward(p, pc)
  BY MovesAre
<1> DEFINE r == [me[p] EXCEPT !.pc = pc]
<1>2. r \in Local /\ Becomes(p, r) /\ r.pc = pc /\ r.box = me[p].box /\ r.relay = me[p].relay
  BY <1>1, MsgsType DEF Goes, Local, AgreeInv, Inv
<1> HIDE DEF r
<1>3. Agreed(p) /\ Fitting(p) /\ UNCHANGED boxes
  BY MovesAre DEF AgreeInv, Keeping
<1>4. pc \in Agreeing => me[p].pc \in Active /\ AgreedIn(p, Msgs(p), me[p].relay)
  BY <1>1, <1>3, Places DEF Onward, Agreed
<1>5. (p \in Creators => pc # "connect") /\ (p \in Joiners => pc # "accept")
  BY <1>1, <1>3 DEF Onward, Fitting
<1>6. p \in Joiners /\ pc \in Linking => me[p].pc \in Linking
  BY <1>1, <1>3 DEF Onward, Fitting
<1>7. me[p].pc \in Accepting /\ boxes[me[p].box].link = "made" => pc \in Accepting
  BY <1>1 DEF Onward
<1> QED BY <1>2, <1>3, <1>4, <1>5, <1>6, <1>7, OwnAgrees

\* A step after which the program is where it was, with the relay that it had.
LEMMA StaysAgrees ==
  ASSUME AgreeInv, Inv', NEW p \in Program, NEW r \in Local, Becomes(p, r),
         r.pc = me[p].pc, r.box = me[p].box, r.relay = me[p].relay, UNCHANGED boxes
  PROVE  AgreeInv'
<1>1. Agreed(p) /\ Fitting(p)
  BY DEF AgreeInv, Keeping
<1> QED BY <1>1, OwnAgrees, Places DEF Agreed, Fitting

\* The release of the nameplate, and the loss of the connection.
LEMMA StaysAre ==
  ASSUME AgreeInv, Inv', NEW p \in Program,
         Release(p) \/ ReleaseFails(p) \/ Break(p) \/ End(p)
  PROVE  AgreeInv'
<1>1. TypeInv /\ me[p] \in Local
  BY MsgsType DEF AgreeInv, Inv
<1>2. CASE Release(p) \/ ReleaseFails(p)
  <2> DEFINE r == [me[p] EXCEPT !.releasing = FALSE]
  <2>1. r \in Local /\ r.pc = me[p].pc /\ r.box = me[p].box /\ r.relay = me[p].relay
    BY <1>1 DEF Local
  <2>2. Becomes(p, r) /\ UNCHANGED boxes
    BY <1>1, <1>2, ReleaseIs
  <2> HIDE DEF r
  <2> QED BY <2>1, <2>2, StaysAgrees
<1>3. CASE Break(p) \/ End(p)
  <2>1. UNCHANGED boxes /\ \E net \in {"broken", "ended"}, heard \in Nat :
          Becomes(p, [me[p] EXCEPT !.net = net, !.heard = heard])
    BY <1>1, <1>3, LossIs
  <2>2. PICK net \in {"broken", "ended"}, heard \in Nat :
          Becomes(p, [me[p] EXCEPT !.net = net, !.heard = heard])
    BY <2>1
  <2> DEFINE r == [me[p] EXCEPT !.net = net, !.heard = heard]
  <2>3. r \in Local /\ r.pc = me[p].pc /\ r.box = me[p].box /\ r.relay = me[p].relay
    BY <1>1 DEF Local
  <2>4. Becomes(p, r)
    BY <2>2
  <2> HIDE DEF r
  <2> QED BY <2>1, <2>3, <2>4, StaysAgrees
<1> QED BY <1>2, <1>3

\* The messages that are taken.
LEMMA GetsAgree ==
  ASSUME AgreeInv, Inv', NEW p \in Program, GetPake(p) \/ GetVersion(p) \/ GetTransit(p)
  PROVE  AgreeInv'
<1>1. /\ TypeInv /\ Inv /\ me[p] \in Local /\ UNCHANGED boxes /\ me[p].pc \in Gets
      /\ me[p].pc \in Active /\ Agreed(p)
  BY MsgsType, PCs DEF AgreeInv, Inv, Keeping, GetPake, GetVersion, GetTransit, Offered, Gets
<1>2. \E x \in PC, r \in Local :
         /\ Becomes(p, r) /\ r.pc = x /\ r.box = me[p].box /\ r.relay = me[p].relay
         /\ \/ x \in {"putVersion", "verify", "putRole"}
            \/ me[p].pc = "getTransit" /\ x = IF p \in Creators THEN "accept" ELSE "putTransit"
  <2>1. CASE GetPake(p)
    <3>1. PICK i \in Coming(p) :
            Becomes(p, [me[p] EXCEPT !.pc = "putVersion", !.seen = i, !.releasing = TRUE])
      BY <2>1 DEF GetPake
    <3> DEFINE r == [me[p] EXCEPT !.pc = "putVersion", !.seen = i, !.releasing = TRUE]
    <3>2. "putVersion" \in PC /\ i \in Nat
      BY <1>1, ComingIs, PCs DEF Active
    <3>3. r \in Local /\ r.pc = "putVersion" /\ r.box = me[p].box /\ r.relay = me[p].relay
      BY <1>1, <3>2 DEF Local
    <3>4. Becomes(p, r)
      BY <3>1
    <3> HIDE DEF r
    <3> QED BY <3>2, <3>3, <3>4
  <2>2. CASE GetVersion(p) \/ GetTransit(p)
    <3>1. PICK x \in {"verify", "putRole", "accept", "putTransit"}, i \in Coming(p) :
            /\ Becomes(p, [me[p] EXCEPT !.pc = x, !.seen = i])
            /\ \/ x \in {"putVersion", "verify", "putRole"}
               \/ me[p].pc = "getTransit" /\ x = IF p \in Creators THEN "accept" ELSE "putTransit"
      BY <2>2 DEF GetVersion, GetTransit, Offered
    <3> DEFINE r == [me[p] EXCEPT !.pc = x, !.seen = i]
    <3>2. x \in PC /\ i \in Nat
      BY <1>1, ComingIs, PCs DEF Active
    <3>3. r \in Local /\ r.pc = x /\ r.box = me[p].box /\ r.relay = me[p].relay
      BY <1>1, <3>2 DEF Local
    <3>4. Becomes(p, r)
      BY <3>1
    <3> HIDE DEF r
    <3> QED BY <3>1, <3>2, <3>3, <3>4
  <2> QED BY <2>1, <2>2
<1>3. PICK x \in PC, r \in Local :
         /\ Becomes(p, r) /\ r.pc = x /\ r.box = me[p].box /\ r.relay = me[p].relay
         /\ \/ x \in {"putVersion", "verify", "putRole"}
            \/ me[p].pc = "getTransit" /\ x = IF p \in Creators THEN "accept" ELSE "putTransit"
  BY <1>2
<1>4. x \in Agreeing => AgreedIn(p, Msgs(p), me[p].relay)
  BY <1>1, <1>3 DEF Agreed, Agreeing
<1>5. x # "connect" /\ (p \in Joiners => x # "accept") /\ x \notin Linking /\ me[p].pc \notin Accepting
  BY <1>1, <1>3, Roles DEF Linking, Accepting, Gets
<1> QED BY <1>1, <1>3, <1>4, <1>5, OwnAgrees

\* The role that is taken.
LEMMA RoleAgrees ==
  ASSUME AgreeInv, Inv', NEW p \in Program, GetRole(p)
  PROVE  AgreeInv'
<1>1. /\ TypeInv /\ Inv /\ me[p] \in Local /\ UNCHANGED boxes /\ me[p].pc = "getRole"
      /\ me[p].pc \in Active
  BY MsgsType DEF AgreeInv, Inv, GetRole, Offered, Active
<1>2. PICK x \in {"putTransit", "getTransit"}, i \in Coming(p) :
        /\ Msgs(p)[i].type = "role"
        /\ Becomes(p, [me[p] EXCEPT !.pc = x, !.seen = i,
                            !.relay = Negotiate(RelayOf(p), Msgs(p)[i].relay, Role(p))])
  BY DEF GetRole
<1>3. /\ i \in Nat /\ i \in 1..Len(Msgs(p)) /\ Msgs(p)[i] \in Message
      /\ Msgs(p)[i].side.program # p
  BY <1>1, ComingIs
<1> DEFINE relay == Negotiate(RelayOf(p), Msgs(p)[i].relay, Role(p))
           r == [me[p] EXCEPT !.pc = x, !.seen = i, !.relay = relay]
<1>4. relay \in Relay
  <2>1. Msgs(p)[i].relay \in Relay /\ RelayOf(p) \in Relay
    BY <1>2, <1>3 DEF Message, RelayOf, Relay
  <2> QED BY <2>1, NegotiateType
<1>5. AgreedIn(p, Msgs(p), relay)
  BY <1>2, <1>3 DEF AgreedIn
<1>6. Becomes(p, r) /\ x \in PC
  BY <1>2, PCs DEF Active
<1> HIDE DEF relay
<1>7. r \in Local /\ r.pc = x /\ r.box = me[p].box /\ r.relay = relay
  BY <1>1, <1>3, <1>4, <1>6 DEF Local
<1> HIDE DEF r
<1>8. x \notin {"connect", "accept"} \cup Linking /\ me[p].pc \notin Accepting
  BY <1>1 DEF Linking, Accepting
<1> QED BY <1>1, <1>5, <1>6, <1>7, <1>8, OwnAgrees

\* Replacing the mailbox of p by one that has the same connection.
LEMMA BoxExtends ==
  ASSUME TypeInv, NEW p \in Program, me[p].pc \in Active, NEW r \in Local, Becomes(p, r),
         NEW x \in Mailbox, boxes' = [boxes EXCEPT ![me[p].box] = x], NEW m,
         x.link = boxes[me[p].box].link, x.msgs \in {Msgs(p), Append(Msgs(p), m)},
         NEW M, M = {m}
  PROVE  Extends(p, M) /\ me'[p] = r
<1>1. /\ me \in [Program -> Local] /\ Len(boxes) \in Nat /\ boxes \in Seq(Mailbox)
      /\ me[p].box \in 1..Len(boxes)
  BY MsgsType DEF TypeInv, TypeOK
<1>2. \A q \in Program : me'[q] = IF q = p THEN r ELSE me[q]
  BY <1>1 DEF Becomes
<1>3. me'[p] = r /\ \A q \in Program : q # p => me'[q] = me[q]
  BY <1>2
<1>4. /\ Len(boxes') = Len(boxes)
      /\ \A c \in 1..Len(boxes) : boxes'[c] = IF c = me[p].box THEN x ELSE boxes[c]
  BY <1>1, ChangeType
<1>5. \A c \in 1..Len(boxes) :
          /\ boxes'[c].link = boxes[c].link
          /\ \/ boxes'[c].msgs = boxes[c].msgs
             \/ \E k \in M : boxes'[c].msgs = Append(boxes[c].msgs, k)
  BY <1>4 DEF Msgs
<1> QED BY <1>3, <1>4, <1>5 DEF Extends

\* What a program puts is its own, and a role message says which it is.
LEMMA MineHonest ==
  ASSUME TypeInv, NEW p \in Program, NEW type \in {"pake", "version", "role", "transit", "error"}
  PROVE  Honest(p, Mine(p, type))
<1>1. Mine(p, type) \in Message /\ Mine(p, type).side = MySide(p)
  BY MineType DEF TypeInv
<1>2. Mine(p, type).side.program = p
  BY <1>1 DEF MySide
<1>3. Mine(p, type).type = type
  BY DEF Mine
<1>4. type = "role" => Mine(p, type).role = Role(p) /\ Mine(p, type).relay = RelayOf(p)
  BY DEF Mine
<1> QED BY <1>1, <1>2, <1>3, <1>4 DEF Honest

\* A message is put.
LEMMA PutsAgree ==
  ASSUME AgreeInv, Inv', NEW p \in Program, Put(p) \/ PutFails(p)
  PROVE  AgreeInv'
<1>1. /\ TypeInv /\ Inv /\ me[p] \in Local /\ me[p].pc \in DOMAIN Puts /\ me[p].pc \in Active
      /\ Agreed(p) /\ me[p].box \in 1..Len(boxes) /\ boxes[me[p].box] \in Mailbox
      /\ boxes \in Seq(Mailbox)
  BY MsgsType, PCs, InBoxType DEF AgreeInv, Inv, Keeping, Put, PutFails, TypeInv, TypeOK
<1> DEFINE m == Mine(p, Puts[me[p].pc])
           y == [boxes[me[p].box] EXCEPT !.msgs = Append(@, m)]
<1>2. m \in Message /\ Honest(p, m)
  BY <1>1, PCs, MineHonest DEF Honest
<1>3. boxes' \in {boxes, [boxes EXCEPT ![me[p].box] = y]}
  BY DEF Put, PutFails, With
<1> HIDE DEF m
<1>4. y \in Mailbox /\ y.msgs = Append(Msgs(p), m) /\ y.link = boxes[me[p].box].link
  <2>1. y \in Mailbox
    BY <1>1, <1>2, WithType
  <2> QED BY <1>1, <2>1 DEF Mailbox, Msgs
<1>5. boxes = [boxes EXCEPT ![me[p].box] = boxes[me[p].box]]
  BY <1>1
<1> HIDE DEF y
<1>6. PICK x \in Mailbox :
        /\ boxes' = [boxes EXCEPT ![me[p].box] = x] /\ x.link = boxes[me[p].box].link
        /\ x.msgs \in {Msgs(p), Append(Msgs(p), m)}
  BY <1>1, <1>3, <1>4, <1>5 DEF Msgs
<1>7. PICK pc \in PC :
        /\ Goes(p, pc)
        /\ \/ pc \in Over \cup {"getPake", "getVersion", "getRole"}
           \/ me[p].pc = "putTransit" /\ pc = IF p \in Creators THEN "getTransit" ELSE "connect"
  <2>1. CASE PutFails(p)
    BY <2>1, ErrsAre, PCs DEF PutFails
  <2>2. CASE Put(p)
    <3> DEFINE pc == AfterPut(p)
    <3>1. /\ pc \in PC
          /\ \/ pc \in Over \cup {"getPake", "getVersion", "getRole"}
             \/ me[p].pc = "putTransit" /\ pc = IF p \in Creators THEN "getTransit" ELSE "connect"
      BY <1>1, PCs DEF AfterPut, Active
    <3>2. Goes(p, pc)
      BY <2>2 DEF Put
    <3> HIDE DEF pc
    <3> QED BY <3>1, <3>2
  <2> QED BY <2>1, <2>2
<1> DEFINE r == [me[p] EXCEPT !.pc = pc]
<1>8. r \in Local /\ r.pc = pc /\ r.box = me[p].box /\ r.relay = me[p].relay /\ Becomes(p, r)
  BY <1>1, <1>7 DEF Local, Goes
<1> HIDE DEF r
<1>9. PICK M : M = {m}
  OBVIOUS
<1>10. Extends(p, M) /\ me'[p] = r /\ \A k \in M : Honest(p, k)
  BY <1>1, <1>2, <1>6, <1>8, <1>9, BoxExtends
<1>11. pc \in Agreeing => AgreedIn(p, Msgs(p), me[p].relay)
  BY <1>1, <1>7 DEF Agreed, Agreeing, Over
<1>12. Fitting(p)'
  BY <1>7, <1>8, <1>10 DEF Fitting, Over
<1>13. me[p].pc \notin Accepting /\ pc \notin Linking
  BY <1>1, <1>7, PCs DEF Accepting, Linking, Over
<1> QED BY <1>1, <1>8, <1>10, <1>11, <1>12, <1>13, StepAgrees

\* A conflict.
LEMMA ConflictAgrees ==
  ASSUME AgreeInv, Inv', NEW p \in Program, Conflict(p)
  PROVE  AgreeInv'
<1>1. TypeInv /\ me[p].pc = "getRole" /\ me[p].pc \in Active
  BY ConflictIs DEF AgreeInv, Inv, Active
<1> DEFINE m == Mine(p, "error")
<1>2. PICK r \in Local, x \in Mailbox :
        /\ Becomes(p, r) /\ r.pc \in {"claim"} \cup Over
        /\ boxes' = [boxes EXCEPT ![me[p].box] = x] /\ x.link = boxes[me[p].box].link
        /\ x.msgs \in {Msgs(p), Append(Msgs(p), m)}
  <2>1. PICK i \in Coming(p), larger \in Side :
          \/ Yields(p, [me[p] EXCEPT !.seen = i], larger)
          \/ Retries(p, [me[p] EXCEPT !.seen = i], larger)
    BY <1>1, ConflictIs
  <2>2. CASE Yields(p, [me[p] EXCEPT !.seen = i], larger)
    BY <1>1, <2>2, YieldsIs
  <2>3. CASE Retries(p, [me[p] EXCEPT !.seen = i], larger)
    BY <1>1, <2>3, RetriesIs
  <2> QED BY <2>1, <2>2, <2>3
<1>3. Honest(p, m)
  BY <1>1, MineHonest
<1> HIDE DEF m
<1>4. PICK M : M = {m}
  OBVIOUS
<1>5. Extends(p, M) /\ me'[p] = r /\ \A k \in M : Honest(p, k)
  BY <1>1, <1>2, <1>3, <1>4, BoxExtends
<1>6. me'[p].pc \notin Agreeing /\ me[p].pc \notin Accepting
  BY <1>1, <1>2, <1>5, Places DEF Accepting
<1> QED BY <1>5, <1>6, IdleAgrees

\* A claim.
LEMMA ClaimAgrees ==
  ASSUME AgreeInv, Inv', NEW p \in Program, NEW n, NEW b, Claims(p, n, b)
  PROVE  AgreeInv'
<1>1. Len(boxes) \in Nat /\ Len(boxes') \in Nat /\ Len(boxes) <= Len(boxes')
  BY LenProperties DEF Claims, AgreeInv, Inv, TypeInv, TypeOK
<1>2. PICK M : M = {}
  OBVIOUS
<1>3. 1..Len(boxes) \subseteq 1..Len(boxes')
  BY <1>1
<1>4. \A c \in 1..Len(boxes') :
        IF c \in 1..Len(boxes)
        THEN boxes'[c].link = boxes[c].link /\ boxes'[c].msgs = boxes[c].msgs
        ELSE boxes'[c].msgs = <<>>
  BY DEF Claims
<1>5. Extends(p, M)
  BY <1>3, <1>4 DEF Extends, Claims
<1>6. me'[p].pc \notin Agreeing /\ me[p].pc \notin Accepting
  BY DEF Claims, Agreeing, Accepting, Over
<1>7. \A m \in M : Honest(p, m)
  BY <1>2
<1> QED BY <1>5, <1>6, <1>7, IdleAgrees

\* A claim that fails before the server has it.
LEMMA UnclaimedAgrees ==
  ASSUME AgreeInv, Inv', NEW p \in Program, Quiet(p), UNCHANGED boxes, me[p].pc = "claim",
         me'[p].pc \in {"claim"} \cup Over
  PROVE  AgreeInv'
<1>1. PICK M : M = {}
  OBVIOUS
<1>2. Extends(p, M)
  BY DEF Extends, Quiet
<1>3. me'[p].pc \notin Agreeing /\ me[p].pc \notin Accepting
  BY Places DEF Accepting
<1>4. \A m \in M : Honest(p, m)
  BY <1>1
<1> QED BY <1>2, <1>3, <1>4, IdleAgrees

-----------------------------------------------------------------------------
(* The step that makes one.                                                *)

\* The outcome of the connection: only the joiner of a mailbox has a say in it.
LEMMA ConnectAgrees ==
  ASSUME AgreeInv, Inv', NEW p \in Program, Connect(p)
  PROVE  AgreeInv'
<1> DEFINE b == me[p].box
<1>1. /\ TypeInv /\ Inv /\ me \in [Program -> Local] /\ me[p].pc = "connect" /\ me[p].pc \in Active
      /\ b \in 1..Len(boxes) /\ boxes \in Seq(Mailbox) /\ boxes[b] \in Mailbox /\ Keeping(p)
  BY MsgsType, InBoxType DEF AgreeInv, Inv, Connect, Active, TypeInv, TypeOK
<1>2. p \in Joiners /\ p \notin Creators
  BY <1>1, Roles DEF Keeping, Fitting, Program
<1>3. PICK link \in {"none", "broken", "made"}, pc \in Linking \cup Over :
        /\ boxes' = [boxes EXCEPT ![b] = [boxes[b] EXCEPT !.link = link]]
        /\ Goes(p, pc)
        /\ link # "none" => \E q \in Creators : Together(p, q) /\ me[q].pc = "accept"
        /\ pc \in Linking => link = "made"
  <2>1. PICK link \in {"none", "broken", "made"} :
          /\ link # "none" => \E q \in Creators : Together(p, q) /\ me[q].pc = "accept"
          /\ boxes' = [boxes EXCEPT ![b] = [boxes[b] EXCEPT !.link = link]]
          /\ IF link = "made" THEN Returns(p) ELSE Errs(p)
    BY DEF Connect
  <2>2. Linking \cap Over = {}
    BY DEF Linking, Over
  <2> QED BY <2>1, <2>2, ErrsAre
<1> DEFINE x == [boxes[b] EXCEPT !.link = link]
           r == [me[p] EXCEPT !.pc = pc]
<1>4. x \in Mailbox /\ x.msgs = boxes[b].msgs /\ x.link = link /\ boxes' = [boxes EXCEPT ![b] = x]
  BY <1>1, <1>3 DEF Mailbox
<1>5. r.pc = pc /\ r.box = b /\ r.relay = me[p].relay /\ Becomes(p, r)
  BY <1>1, <1>3 DEF Local, Goes
<1> HIDE DEF x, r
<1>6. \A q \in Program : me'[q] = IF q = p THEN r ELSE me[q]
  BY <1>1, <1>5 DEF Becomes
<1>7. me'[p] = r /\ (\A q \in Program : q # p => me'[q] = me[q])
      /\ \A q \in Program : me'[q].box = me[q].box
  BY <1>5, <1>6
<1>8. /\ Len(boxes') = Len(boxes)
      /\ \A c \in 1..Len(boxes) : boxes'[c] = IF c = b THEN x ELSE boxes[c]
  BY <1>1, <1>4, ChangeType
<1>9. \A c \in 1..Len(boxes) : boxes'[c].msgs = boxes[c].msgs
  BY <1>4, <1>8
<1>10. \A c \in 1..Len(boxes') : Stated(boxes'[c].msgs)
  BY <1>8, <1>9 DEF AgreeInv
<1>11. ASSUME NEW q \in Program
       PROVE  Agreed(q)'
  <2> SUFFICES ASSUME me'[q].pc \in Agreeing
               PROVE  AgreedIn(q, boxes'[me'[q].box].msgs, me'[q].relay)
    BY DEF Agreed, Msgs
  <2>1. me[q].pc \in Agreeing /\ me'[q].relay = me[q].relay
    <3>1. CASE q = p
      BY <1>1, <1>5, <1>7, <3>1 DEF Agreeing
    <3>2. CASE q # p
      BY <1>7, <3>2
    <3> QED BY <3>1, <3>2
  <2>2. me[q].box \in 1..Len(boxes)
    BY <1>1, <2>1, MsgsType, Places
  <2>3. AgreedIn(q, boxes[me[q].box].msgs, me[q].relay)
    BY <2>1 DEF AgreeInv, Keeping, Agreed, Msgs
  <2> QED BY <1>7, <1>9, <2>1, <2>2, <2>3
<1>12. ASSUME NEW q \in Program
       PROVE  Fitting(q)'
  <2>1. CASE q = p
    BY <1>2, <1>5, <1>7, <2>1 DEF Fitting, Linking, Over
  <2>2. CASE q # p
    BY <1>7, <2>2 DEF AgreeInv, Keeping, Fitting
  <2> QED BY <2>1, <2>2
<1>13. ASSUME NEW q \in Program
       PROVE  Linked(q)'
  <2> SUFFICES ASSUME q \in Joiners, me'[q].pc \in Linking
               PROVE  /\ boxes'[me'[q].box].link = "made"
                      /\ \E k \in Creators : me'[k].box = me'[q].box /\ me'[k].pc \in Accepting
    BY DEF Linked
  <2>1. CASE q = p
    <3>1. link = "made"
      BY <1>3, <1>5, <1>7, <2>1 DEF Over, Linking
    <3>2. PICK k \in Creators : Together(p, k) /\ me[k].pc = "accept"
      BY <1>3, <3>1
    <3>3. k \in Program /\ k # p /\ me[k].box = b
      BY <3>2, Roles DEF Together
    <3>4. me'[k].box = me'[q].box /\ me'[k].pc \in Accepting
      BY <1>7, <2>1, <3>2, <3>3 DEF Accepting
    <3>5. boxes'[b].link = "made"
      BY <1>1, <1>4, <1>8, <3>1
    <3> QED BY <1>7, <2>1, <3>4, <3>5
  <2>2. CASE q # p
    <3>1. me'[q] = me[q] /\ Linked(q)
      BY <1>7, <2>2 DEF AgreeInv, Keeping
    <3>2. PICK k \in Creators : me[k].box = me[q].box /\ me[k].pc \in Accepting
      BY <3>1 DEF Linked
    <3>3. k \in Program /\ k # p /\ k # q
      BY <1>2, <3>2, Roles
    <3>4. me[q].box # b
      <4> SUFFICES ASSUME me[q].box = b PROVE FALSE
        OBVIOUS
      <4>1. Occupies(p, b) /\ Occupies(q, b) /\ Occupies(k, b)
        BY <3>2 DEF Occupies
      <4> HIDE DEF b
      <4> QED BY <1>1, <2>2, <3>3, <4>1, OneOther
    <3>5. me[q].box \in 1..Len(boxes)
      BY <1>1, <3>1, MsgsType, Places
    <3>6. boxes'[me[q].box] = boxes[me[q].box]
      BY <1>8, <3>4, <3>5
    <3> QED BY <1>7, <3>1, <3>2, <3>3, <3>6 DEF Linked
  <2> QED BY <2>1, <2>2
<1>14. \A q \in Program : Keeping(q)'
  BY <1>11, <1>12, <1>13 DEF Keeping
<1> QED BY <1>10, <1>14 DEF AgreeInv

-----------------------------------------------------------------------------
\* The invariant is preserved.
LEMMA AgreeStep ==
  ASSUME AgreeInv, [Next]_vars
  PROVE  AgreeInv'
<1>1. Inv /\ Inv'
  BY InvStep DEF AgreeInv
<1>2. ASSUME NEW p \in Program,
             Work(p) \/ Start(p) \/ Begin(p) \/ Fails(p)
      PROVE  AgreeInv'
  <2>1. CASE Attach(p) \/ Allocate(p)
    BY <1>1, <2>1, ClaimsAre, ClaimAgrees
  <2>2. CASE Moves(p)
    BY <1>1, <2>2, MovesAgree
  <2>3. CASE GetPake(p) \/ GetVersion(p) \/ GetTransit(p)
    BY <1>1, <2>3, GetsAgree
  <2>4. CASE GetRole(p)
    BY <1>1, <2>4, RoleAgrees
  <2>5. CASE Release(p) \/ ReleaseFails(p) \/ Break(p) \/ End(p)
    BY <1>1, <2>5, StaysAre
  <2>6. CASE Conflict(p)
    BY <1>1, <2>6, ConflictAgrees
  <2>7. CASE Put(p) \/ PutFails(p)
    BY <1>1, <2>7, PutsAgree
  <2>8. CASE Connect(p)
    BY <1>1, <2>8, ConnectAgrees
  <2>9. CASE AttachFails(p) \/ AllocateFails(p)
    <3>1. me[p].pc = "claim"
      BY <2>9 DEF AttachFails, AllocateFails
    <3> QED BY <1>1, <2>9, <3>1, ClaimFailsAre, ClaimAgrees, UnclaimedAgrees
  <2> QED BY <1>2, <2>1, <2>2, <2>3, <2>4, <2>5, <2>6, <2>7, <2>8, <2>9
         DEF Work, Claim, Fails, Moves
<1>3. CASE UNCHANGED vars
  <2>1. \A p \in Program : Keeping(p)'
    BY <1>3 DEF AgreeInv, vars, Keeping, Agreed, Fitting, Linked, Msgs
  <2>2. \A b \in 1..Len(boxes') : Stated(boxes'[b].msgs)
    BY <1>3 DEF AgreeInv, vars
  <2> QED BY <1>1, <2>1, <2>2 DEF AgreeInv
<1> QED BY <1>2, <1>3 DEF Next

\* The mailboxes are empty at first.
LEMMA AgreeInit ==
  ASSUME Init
  PROVE  AgreeInv
<1>1. Inv
  BY InvInit
<1>2. \A p \in Program : me[p].pc = "start"
  BY DEF Init
<1>3. \A b \in 1..Len(boxes) : boxes[b].msgs = <<>>
  <2>1. boxes = <<>> \/ boxes = <<NewBox(2)>>
    BY DEF Init
  <2>2. CASE boxes = <<>>
    BY <2>2
  <2>3. CASE boxes = <<NewBox(2)>>
    <3> DEFINE x == NewBox(2)
    <3>1. x.msgs = <<>>
      BY DEF NewBox
    <3> HIDE DEF x
    <3>2. boxes = <<x>>
      BY <2>3 DEF x
    <3>3. \A b \in 1..Len(boxes) : boxes[b] = x
      BY <3>2
    <3> QED BY <3>1, <3>3
  <2> QED BY <2>1, <2>2, <2>3
<1>4. \A b \in 1..Len(boxes) : Stated(boxes[b].msgs)
  <2>1. Stated(<<>>)
    BY DEF Stated
  <2> QED BY <1>3, <2>1
<1>5. \A p \in Program : Keeping(p)
  BY <1>2 DEF Keeping, Agreed, Fitting, Linked, Linking, Agreeing
<1> QED BY <1>1, <1>4, <1>5 DEF AgreeInv

\* A joiner that has a tunnel (establishTunnel) has it with one creator, which waits for the
\* connection or has it, and both have computed the same relay without telling each other:
\* whoever else tries the code, and however many joiners do, in one mailbox there are two,
\* the joiner dials where this creator listens, and each has the other's role message.
THEOREM PairedAlike == Spec => []PairedOnOneRelay
<1>1. Init => AgreeInv
  BY AgreeInit
<1>2. AgreeInv /\ [Next]_vars => AgreeInv'
  BY AgreeStep
<1>3. ASSUME AgreeInv PROVE PairedOnOneRelay
  <2> SUFFICES ASSUME NEW p \in Joiners, me[p].pc = "tunnel"
               PROVE  \E q \in Program : /\ \A r \in Program : Together(p, r) <=> r = q
                                         /\ q \in Creators
                                         /\ me[q].pc \in {"accept", "tunnel", "unclosed"}
                                         /\ me[q].relay = me[p].relay
    BY DEF PairedOnOneRelay
  <2> DEFINE b == me[p].box
             ms == boxes[b].msgs
  <2>1. /\ p \in Program /\ p \notin Creators /\ Role(p) = "joiner" /\ Inv /\ TypeInv
        /\ me[p].pc \in Active /\ me[p].pc \in Agreeing /\ Keeping(p)
    BY <1>3, Roles DEF AgreeInv, Inv, Active, Agreeing
  <2>2. b \in 1..Len(boxes) /\ Occupies(p, b) /\ b # 0
    BY <2>1, MsgsType DEF Occupies
  <2>3. PICK q \in Creators : me[q].box = b /\ me[q].pc \in Accepting
    BY <2>1 DEF Keeping, Linked, Linking
  <2>4. q \in Program /\ q # p /\ Occupies(q, b) /\ Role(q) = "creator" /\ Keeping(q)
    BY <1>3, <2>1, <2>3, Roles DEF Occupies, AgreeInv
  <2>5. \A r \in Program : Together(p, r) <=> r = q
    <3> SUFFICES ASSUME NEW r \in Program PROVE Together(p, r) <=> r = q
      OBVIOUS
    <3>1. r = q => Together(p, r)
      BY <2>2, <2>3, <2>4 DEF Together
    <3>2. Together(p, r) => r # p /\ Occupies(r, b)
      BY DEF Together, Occupies
    <3> QED BY <2>1, <2>2, <2>4, <3>1, <3>2, OneOther
  <2>6. me[q].relay = me[p].relay
    <3>1. AgreedIn(p, ms, me[p].relay)
      BY <2>1 DEF Keeping, Agreed, Msgs
    <3>2. AgreedIn(q, ms, me[q].relay)
      BY <2>3, <2>4, Places DEF Keeping, Agreed, Msgs
    <3>3. Stated(ms)
      BY <1>3, <2>2 DEF AgreeInv
    <3> HIDE DEF b, ms
    <3>4. PICK i \in 1..Len(ms) :
            /\ ms[i].type = "role" /\ ms[i].side.program # p
            /\ me[p].relay = Negotiate(RelayOf(p), ms[i].relay, "joiner")
      BY <2>1, <3>1 DEF AgreedIn
    <3>5. PICK j \in 1..Len(ms) :
            /\ ms[j].type = "role" /\ ms[j].side.program # q
            /\ me[q].relay = Negotiate(RelayOf(q), ms[j].relay, "creator")
      BY <2>4, <3>2 DEF AgreedIn
    <3>6. /\ ms[i].side.program \in Program /\ Occupies(ms[i].side.program, b)
          /\ ms[j].side.program \in Program /\ Occupies(ms[j].side.program, b)
      BY <2>1, <2>2, <3>4, <3>5, MsgOf DEF ms
    <3>7. ms[i].side.program = q
      BY <2>1, <2>2, <2>4, <3>4, <3>6, OneOther
    <3>8. ms[j].side.program = p
      BY <2>1, <2>2, <2>4, <3>5, <3>6, OneOther
    <3>9. ms[i].relay = RelayOf(q) /\ ms[j].relay = RelayOf(p)
      BY <3>3, <3>4, <3>5, <3>7, <3>8 DEF Stated
    <3>10. RelayOf(p) \in Relay /\ RelayOf(q) \in Relay
      BY DEF RelayOf, Relay
    <3> QED BY <3>4, <3>5, <3>9, <3>10, NegotiationAgrees
  <2> QED BY <2>3, <2>4, <2>5, <2>6 DEF Accepting
<1> QED BY <1>1, <1>2, <1>3, PTL DEF Spec
=============================================================================
