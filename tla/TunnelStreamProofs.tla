--------------------------- MODULE TunnelStreamProofs ---------------------------
(***************************************************************************)
(* The two streams of a connection of TunnelSession when one side dials:   *)
(* what the accepting and the dialing application read is what the other   *)
(* wrote, in order, a CLOSE comes after the chunks whose Write has         *)
(* returned, and the sessions implement ConnStreams.                       *)
(*                                                                         *)
(* The invariant counts.  At each end so many chunks have come in; those   *)
(* on the wire have the numbers after that, in order; the last one written *)
(* may be due.                                                             *)
(***************************************************************************)
EXTENDS TunnelOpenProofs

-----------------------------------------------------------------------------
(* The records for one connection, with ID i, in a sequence of records.    *)

DataAt(w, i, k) == w[k].type = "data" /\ w[k].id = i
CloseAt(w, i, k) == w[k].type = "close" /\ w[k].id = i
Closes(w, i) == \E k \in 1..Len(w) : CloseAt(w, i, k)

\* Chunks after the first in of out, in order.
Numbered(w, i, in, out) ==
    /\ in <= out
    /\ \A k \in 1..Len(w) : DataAt(w, i, k) =>
          w[k].data.origin = Dialer /\ w[k].data.id = i /\ in < w[k].data.n /\ w[k].data.n <= out
    /\ \A j, k \in 1..Len(w) : j < k /\ DataAt(w, i, j) /\ DataAt(w, i, k) => w[j].data.n < w[k].data.n

\* The last of out chunks is still to come.
Behind(w, i, in, out) ==
    /\ in < out
    /\ \A k \in 1..Len(w) : DataAt(w, i, k) => w[k].data.n < out

\* None of the first m chunks is missing.
Complete(w, i, in, m) ==
    \A n \in in + 1..m : \E k \in 1..Len(w) : DataAt(w, i, k) /\ w[k].data.n = n

\* Only the last chunk comes after CLOSE.
Trailing(w, i, out) ==
    \A j, k \in 1..Len(w) : j < k /\ CloseAt(w, i, j) /\ DataAt(w, i, k) => w[k].data.n = out

Records(w) == Len(w) \in Nat /\ \A k \in 1..Len(w) : w[k].type = "data" => w[k].data.n \in Nat

\* v is w with the record m at its end, and w without its head.
Longer(w, v, m) == /\ Len(v) = Len(w) + 1 /\ v[Len(w) + 1] = m
                   /\ \A k \in 1..Len(w) : v[k] = w[k]
Shorter(w, v) == /\ Len(w) >= 1 /\ Len(v) = Len(w) - 1
                 /\ \A k \in 1..Len(v) : v[k] = w[k + 1]

\* A record of another connection, or one that is no chunk, is added.
LEMMA OtherAdded ==
  ASSUME NEW w, NEW v, NEW m, NEW i, NEW in \in Nat, NEW out \in Nat,
         Records(w), Longer(w, v, m), ~(m.type = "data" /\ m.id = i)
  PROVE  /\ Numbered(w, i, in, out) => Numbered(v, i, in, out)
         /\ Behind(w, i, in, out) => Behind(v, i, in, out)
         /\ \A c \in Int : Complete(w, i, in, c) => Complete(v, i, in, c)
         /\ Trailing(w, i, out) => Trailing(v, i, out)
         /\ Closes(v, i) => Closes(w, i) \/ (m.type = "close" /\ m.id = i)
<1>1. /\ Len(w) \in Nat
      /\ \A k \in 1..Len(v) : k \in 1..Len(w) \/ k = Len(w) + 1
      /\ \A k \in 1..Len(w) : k \in 1..Len(v) /\ v[k] = w[k]
      /\ v[Len(w) + 1] = m
  BY DEF Records, Longer
<1>2. /\ \A k \in 1..Len(v) : DataAt(v, i, k) => k \in 1..Len(w) /\ DataAt(w, i, k)
      /\ \A k \in 1..Len(w) : /\ DataAt(v, i, k) <=> DataAt(w, i, k)
                              /\ CloseAt(v, i, k) <=> CloseAt(w, i, k)
  BY <1>1 DEF DataAt, CloseAt
<1>3. Numbered(w, i, in, out) => Numbered(v, i, in, out)
  BY <1>1, <1>2 DEF Numbered
<1>4. Behind(w, i, in, out) => Behind(v, i, in, out)
  BY <1>1, <1>2 DEF Behind
<1>5. \A c \in Int : Complete(w, i, in, c) => Complete(v, i, in, c)
  <2> SUFFICES ASSUME NEW c \in Int, Complete(w, i, in, c), NEW n \in in + 1..c
               PROVE  \E k \in 1..Len(v) : DataAt(v, i, k) /\ v[k].data.n = n
    BY DEF Complete
  <2>1. PICK k \in 1..Len(w) : DataAt(w, i, k) /\ w[k].data.n = n
    BY DEF Complete
  <2> QED BY <1>1, <1>2, <2>1
<1>6. Trailing(w, i, out) => Trailing(v, i, out)
  <2> SUFFICES ASSUME Trailing(w, i, out), NEW j \in 1..Len(v), NEW k \in 1..Len(v),
                      j < k, CloseAt(v, i, j), DataAt(v, i, k)
               PROVE  v[k].data.n = out
    BY DEF Trailing
  <2>1. k \in 1..Len(w) /\ DataAt(w, i, k) /\ j \in 1..Len(w)
    BY <1>1, <1>2
  <2> QED BY <1>1, <1>2, <2>1 DEF Trailing
<1>7. Closes(v, i) => Closes(w, i) \/ (m.type = "close" /\ m.id = i)
  BY <1>1 DEF Closes, CloseAt
<1> QED BY <1>3, <1>4, <1>5, <1>6, <1>7

\* The last chunk is added.
LEMMA ChunkAdded ==
  ASSUME NEW w, NEW v, NEW m, NEW i, NEW in \in Nat, NEW out \in Nat,
         Records(w), Longer(w, v, m), m.type = "data", m.id = i,
         m.data.origin = Dialer, m.data.id = i, m.data.n = out,
         Numbered(w, i, in, out), Behind(w, i, in, out), Trailing(w, i, out)
  PROVE  /\ Numbered(v, i, in, out)
         /\ Complete(w, i, in, out - 1) => Complete(v, i, in, out)
         /\ Trailing(v, i, out)
         /\ Closes(v, i) => Closes(w, i)
<1>1. /\ Len(w) \in Nat
      /\ \A k \in 1..Len(v) : k \in 1..Len(w) \/ k = Len(w) + 1
      /\ \A k \in 1..Len(w) : k \in 1..Len(v) /\ v[k] = w[k]
      /\ v[Len(w) + 1] = m /\ Len(w) + 1 \in 1..Len(v)
  BY DEF Records, Longer
<1>2. /\ \A k \in 1..Len(w) : /\ DataAt(v, i, k) <=> DataAt(w, i, k)
                              /\ CloseAt(v, i, k) <=> CloseAt(w, i, k)
      /\ DataAt(v, i, Len(w) + 1) /\ ~CloseAt(v, i, Len(w) + 1)
  BY <1>1 DEF DataAt, CloseAt
<1>3. Numbered(v, i, in, out)
  <2>1. \A k \in 1..Len(v) : DataAt(v, i, k) =>
           v[k].data.origin = Dialer /\ v[k].data.id = i /\ in < v[k].data.n /\ v[k].data.n <= out
    BY <1>1, <1>2 DEF Numbered, Behind
  <2>2. \A j, k \in 1..Len(v) : j < k /\ DataAt(v, i, j) /\ DataAt(v, i, k) => v[j].data.n < v[k].data.n
    <3> SUFFICES ASSUME NEW j \in 1..Len(v), NEW k \in 1..Len(v), j < k, DataAt(v, i, j), DataAt(v, i, k)
                 PROVE  v[j].data.n < v[k].data.n
      OBVIOUS
    <3>1. j \in 1..Len(w) /\ DataAt(w, i, j) /\ v[j] = w[j]
      BY <1>1, <1>2
    <3>2. CASE k \in 1..Len(w)
      BY <1>1, <1>2, <3>1, <3>2 DEF Numbered
    <3>3. CASE k = Len(w) + 1
      BY <1>1, <3>1, <3>3 DEF Behind
    <3> QED BY <1>1, <3>2, <3>3
  <2> QED BY <2>1, <2>2 DEF Numbered
<1>4. Complete(w, i, in, out - 1) => Complete(v, i, in, out)
  <2> SUFFICES ASSUME Complete(w, i, in, out - 1), NEW n \in in + 1..out
               PROVE  \E k \in 1..Len(v) : DataAt(v, i, k) /\ v[k].data.n = n
    BY DEF Complete
  <2>1. CASE n = out
    BY <1>1, <1>2, <2>1
  <2>2. CASE n # out
    <3>1. n \in in + 1..out - 1
      BY <2>2
    <3>2. PICK k \in 1..Len(w) : DataAt(w, i, k) /\ w[k].data.n = n
      BY <3>1 DEF Complete
    <3> QED BY <1>1, <1>2, <3>2
  <2> QED BY <2>1, <2>2
<1>5. Trailing(v, i, out)
  <2> SUFFICES ASSUME NEW j \in 1..Len(v), NEW k \in 1..Len(v),
                      j < k, CloseAt(v, i, j), DataAt(v, i, k)
               PROVE  v[k].data.n = out
    BY DEF Trailing
  <2>1. j \in 1..Len(w)
    BY <1>1, <1>2
  <2> QED BY <1>1, <1>2, <2>1 DEF Trailing
<1>6. Closes(v, i) => Closes(w, i)
  BY <1>1, <1>2 DEF Closes
<1> QED BY <1>3, <1>4, <1>5, <1>6

\* A record is taken.
LEMMA HeadTaken ==
  ASSUME NEW w, NEW v, NEW i, NEW in \in Nat, NEW out \in Nat, Records(w), Shorter(w, v)
  PROVE  /\ Numbered(w, i, in, out) => Numbered(v, i, in, out)
         /\ Behind(w, i, in, out) => Behind(v, i, in, out)
         /\ \A c \in Int : Complete(w, i, in, c) /\ ~DataAt(w, i, 1) => Complete(v, i, in, c)
         /\ Trailing(w, i, out) => Trailing(v, i, out)
         /\ Closes(v, i) => Closes(w, i)
<1>1. /\ Len(w) \in Nat
      /\ \A k \in 1..Len(v) : k + 1 \in 1..Len(w) /\ v[k] = w[k + 1]
      /\ \A k \in 1..Len(w) : k # 1 => k - 1 \in 1..Len(v) /\ v[k - 1] = w[k]
  BY DEF Records, Shorter
<1>2. \A k \in 1..Len(v) : /\ DataAt(v, i, k) <=> DataAt(w, i, k + 1)
                           /\ CloseAt(v, i, k) <=> CloseAt(w, i, k + 1)
  BY <1>1 DEF DataAt, CloseAt
<1>3. Numbered(w, i, in, out) => Numbered(v, i, in, out)
  <2> SUFFICES ASSUME Numbered(w, i, in, out) PROVE Numbered(v, i, in, out)
    OBVIOUS
  <2>1. \A k \in 1..Len(v) : DataAt(v, i, k) =>
           v[k].data.origin = Dialer /\ v[k].data.id = i /\ in < v[k].data.n /\ v[k].data.n <= out
    BY <1>1, <1>2 DEF Numbered
  <2>2. ASSUME NEW j \in 1..Len(v), NEW k \in 1..Len(v), j < k, DataAt(v, i, j), DataAt(v, i, k)
        PROVE  v[j].data.n < v[k].data.n
    <3>1. j + 1 < k + 1
      BY <2>2
    <3> QED BY <1>1, <1>2, <2>2, <3>1 DEF Numbered
  <2> QED BY <2>1, <2>2 DEF Numbered
<1>4. Behind(w, i, in, out) => Behind(v, i, in, out)
  BY <1>1, <1>2 DEF Behind
<1>5. \A c \in Int : Complete(w, i, in, c) /\ ~DataAt(w, i, 1) => Complete(v, i, in, c)
  <2> SUFFICES ASSUME NEW c \in Int, Complete(w, i, in, c), ~DataAt(w, i, 1), NEW n \in in + 1..c
               PROVE  \E k \in 1..Len(v) : DataAt(v, i, k) /\ v[k].data.n = n
    BY DEF Complete
  <2>1. PICK k \in 1..Len(w) : DataAt(w, i, k) /\ w[k].data.n = n
    BY DEF Complete
  <2>2. k - 1 \in 1..Len(v) /\ v[k - 1] = w[k]
    BY <1>1, <2>1
  <2> QED BY <2>1, <2>2 DEF DataAt
<1>6. Trailing(w, i, out) => Trailing(v, i, out)
  <2> SUFFICES ASSUME Trailing(w, i, out), NEW j \in 1..Len(v), NEW k \in 1..Len(v),
                      j < k, CloseAt(v, i, j), DataAt(v, i, k)
               PROVE  v[k].data.n = out
    BY DEF Trailing
  <2>1. j + 1 < k + 1
    OBVIOUS
  <2> QED BY <1>1, <1>2, <2>1, ZenonT(40) DEF Trailing
<1>7. Closes(v, i) => Closes(w, i)
  BY <1>1, <1>2 DEF Closes
<1> QED BY <1>3, <1>4, <1>5, <1>6, <1>7

\* A chunk is taken while none is missing: it is the next one.
LEMMA ChunkTaken ==
  ASSUME NEW w, NEW v, NEW i, NEW in \in Nat, NEW out \in Nat, NEW c \in Int, Records(w), Shorter(w, v),
         DataAt(w, i, 1), Numbered(w, i, in, out), Complete(w, i, in, c), c >= out - 1
  PROVE  /\ w[1].data.origin = Dialer /\ w[1].data.id = i /\ w[1].data.n = in + 1
         /\ Numbered(v, i, in + 1, out)
         /\ Behind(w, i, in, out) => Behind(v, i, in + 1, out)
         /\ Complete(v, i, in + 1, c)
<1>1. /\ Len(w) \in Nat /\ 1 \in 1..Len(w)
      /\ \A k \in 1..Len(v) : k + 1 \in 1..Len(w) /\ v[k] = w[k + 1]
      /\ \A k \in 1..Len(w) : k # 1 => k - 1 \in 1..Len(v) /\ v[k - 1] = w[k] /\ 1 < k
      /\ \A k \in 1..Len(w) : DataAt(w, i, k) => w[k].data.n \in Nat
  BY DEF Records, Shorter, DataAt
<1>2. /\ w[1].data.origin = Dialer /\ w[1].data.id = i /\ in < w[1].data.n /\ w[1].data.n <= out /\ w[1].data.n \in Nat
      /\ \A k \in 1..Len(w) : k # 1 /\ DataAt(w, i, k) => w[1].data.n < w[k].data.n
  BY <1>1 DEF Numbered
<1>3. w[1].data.n = in + 1
  <2> SUFFICES ASSUME w[1].data.n # in + 1 PROVE FALSE
    OBVIOUS
  <2>1. in + 1 < w[1].data.n /\ in + 1 \in in + 1..c
    BY <1>2
  <2>2. PICK k \in 1..Len(w) : DataAt(w, i, k) /\ w[k].data.n = in + 1
    BY <2>1 DEF Complete
  <2> QED BY <1>1, <1>2, <2>1, <2>2
<1>4. \A k \in 1..Len(v) : DataAt(v, i, k) => k + 1 \in 1..Len(w) /\ DataAt(w, i, k + 1) /\ v[k] = w[k + 1]
  BY <1>1 DEF DataAt
<1>5. Numbered(v, i, in, out)
  BY HeadTaken
<1>6. Numbered(v, i, in + 1, out)
  <2>1. \A k \in 1..Len(v) : DataAt(v, i, k) => in + 1 < v[k].data.n
    <3> SUFFICES ASSUME NEW k \in 1..Len(v), DataAt(v, i, k) PROVE in + 1 < v[k].data.n
      OBVIOUS
    <3>1. k + 1 \in 1..Len(w) /\ DataAt(w, i, k + 1) /\ v[k] = w[k + 1] /\ k + 1 # 1
      BY <1>4
    <3> QED BY <1>2, <1>3, <3>1
  <2> QED BY <1>2, <1>3, <1>5, <2>1 DEF Numbered
<1>7. Behind(w, i, in, out) => Behind(v, i, in + 1, out)
  BY <1>1, <1>3, <1>4 DEF Behind
<1>8. Complete(v, i, in + 1, c)
  <2> SUFFICES ASSUME NEW n \in in + 1 + 1..c
               PROVE  \E k \in 1..Len(v) : DataAt(v, i, k) /\ v[k].data.n = n
    BY DEF Complete
  <2>1. n \in in + 1..c /\ n # in + 1
    OBVIOUS
  <2>2. PICK k \in 1..Len(w) : DataAt(w, i, k) /\ w[k].data.n = n
    BY <2>1 DEF Complete
  <2>3. k # 1 /\ k - 1 \in 1..Len(v) /\ v[k - 1] = w[k]
    BY <1>1, <1>3, <2>1, <2>2
  <2> QED BY <2>2, <2>3 DEF DataAt
<1> QED BY <1>2, <1>3, <1>6, <1>7, <1>8

\* CLOSE is taken while none is missing: all chunks have come in but the last.
LEMMA CloseTaken ==
  ASSUME NEW w, NEW i, NEW in \in Nat, NEW out \in Nat, NEW c \in Int, Records(w), Len(w) >= 1,
         CloseAt(w, i, 1), Trailing(w, i, out), Complete(w, i, in, c), c >= out - 1
  PROVE  in >= out - 1
<1> SUFFICES ASSUME in < out - 1 PROVE FALSE
  OBVIOUS
<1>1. in + 1 \in in + 1..c /\ in + 1 # out
  OBVIOUS
<1>2. PICK k \in 1..Len(w) : DataAt(w, i, k) /\ w[k].data.n = in + 1
  BY <1>1 DEF Complete
<1>3. 1 < k /\ 1 \in 1..Len(w)
  BY <1>2 DEF DataAt, CloseAt, Records
<1> QED BY <1>1, <1>2, <1>3 DEF Trailing

\* Sums of lengths.
LEMMA Sums ==
  \A a, b \in Nat : /\ a + b \in Nat /\ (a + b) + 1 = a + (b + 1) /\ a + (b + 1) = (a + 1) + b
                    /\ (a + 1) + (b - 1) = a + b
OBVIOUS

\* One more chunk is written.
LEMMA ChunkWritten ==
  ASSUME NEW w, NEW i, NEW in \in Nat, NEW out \in Nat, Records(w), Numbered(w, i, in, out)
  PROVE  Numbered(w, i, in, out + 1) /\ Behind(w, i, in, out + 1)
BY DEF Numbered, Behind, Records, DataAt

\* Fewer are asked for.
LEMMA LessIsComplete ==
  ASSUME NEW w, NEW i, NEW in \in Nat, NEW c \in Int, NEW b \in Int, b <= c, Complete(w, i, in, c)
  PROVE  Complete(w, i, in, b)
BY DEF Complete

-----------------------------------------------------------------------------
(* The invariant.                                                          *)

Arrived(x) == Len(got[x]) + Len(readCh[x])
Delivering(x) == reader[x.side].at = "deliver" /\ reader[x.side].end = x
Closing(x) == reader[x.side].at = "remoteClose" /\ reader[x.side].end = x
In(x) == IF Delivering(x) THEN Arrived(x) + 1 ELSE Arrived(x)
NthChunk(x, n) == [origin |-> x.origin, id |-> x.id, n |-> n]

\* What x has been given, and is being given, is numbered without a gap.
Gapless(x) ==
    /\ \A k \in 1..Len(got[x]) : got[x][k] = NthChunk(x, k)
    /\ \A k \in 1..Len(readCh[x]) : readCh[x][k] = NthChunk(x, Len(got[x]) + k)
    /\ Delivering(x) => reader[x.side].data = NthChunk(x, Arrived(x) + 1)

\* The records on their way to x; x is in its table, or its OPEN is on its way.
Way(x) == wire[Peer(x.side)]
Live(x) == Registered(x) \/ (x.side = Acceptor /\ OpenSent(x.id))

\* The record of the last Write on y is still to be written.
Due(y) == LET r == Req("data", y) IN call[r] = "enqueue" \/ Unsent(r)
Finished(y) == Called("close", y) \/ Called("reject", y)

\* The chunks of y whose Write has returned nil.
Settled(y) == IF Called("data", y) THEN sent[y] - 1 ELSE sent[y]

FlowOf(x) ==
    LET y == PeerEnd(x) IN
    /\ Gapless(x)
    /\ Numbered(Way(x), x.id, In(x), sent[y])
    /\ Due(y) => Behind(Way(x), x.id, In(x), sent[y])
    /\ Live(x) => Complete(Way(x), x.id, In(x), Settled(y))
    /\ Trailing(Way(x), x.id, sent[y])
    /\ Closes(Way(x), x.id) => Finished(y)
    /\ Closing(x) => Finished(y) /\ (x \in closed \/ Arrived(x) >= sent[y] - 1)
Flow == \A x \in Ends : FlowOf(x)

\* readLoop is at the connection it refuses until the CLOSE is written or given up.
Refusals == \A e \in Ends : call[Req("reject", e)] \in Pending =>
               reader[e.side].at = "reject" /\ reader[e.side].end = e

FlowInv == OpenInv /\ Refusals /\ Flow

-----------------------------------------------------------------------------
(* What the steps do.                                                      *)

\* The two ends of a connection.
LEMMA TwoEnds ==
  ASSUME OpenInv, NEW x \in Ends, NEW y, y = PeerEnd(x)
  PROVE  /\ x \in End /\ x.side \in Side /\ x.id \in Id /\ x.origin = Dialer
         /\ y \in Ends /\ y \in End /\ y.side \in Side /\ y.id = x.id /\ y.origin = Dialer
         /\ y.side = Peer(x.side) /\ x.side = Peer(y.side) /\ x # y
         /\ x.side = Dialer => x = Dialed(x.id) /\ y = Accepted(x.id)
         /\ x.side = Acceptor => x = Accepted(x.id) /\ y = Dialed(x.id)
         /\ x.side = Dialer \/ x.side = Acceptor
         /\ \A e \in Ends : e.side = y.side /\ e.id = x.id => e = y
         /\ \A op \in {"open", "data", "close", "reject"} :
               Req(op, y) \in Request /\ Req(op, y).op = op /\ Req(op, y).end = y
<1>1. /\ OneDialer /\ x \in End /\ x.side \in Side /\ x.id \in Id /\ x.origin = Dialer
  BY DEF OpenInv, OneSide, Ends, End
<1>2. y = [x EXCEPT !.side = Peer(x.side)]
  BY DEF PeerEnd
<1>3. y \in End /\ y.side = Peer(x.side) /\ y.origin = x.origin /\ y.id = x.id
  BY <1>1, <1>2, PeerType DEF End
<1>4. x.side = Peer(y.side) /\ x.side # y.side /\ y.side \in Side
  BY <1>1, <1>3 DEF Peer, Side
<1>5. y \in Ends
  BY <1>1, <1>3 DEF Ends
<1>6. /\ x.side = Dialer => y.side = Acceptor
      /\ x.side = Acceptor => y.side = Dialer
  BY <1>1, <1>3, TwoSides
<1>7. /\ x.side = Dialer => x = Dialed(x.id) /\ y = Accepted(x.id)
      /\ x.side = Acceptor => x = Accepted(x.id) /\ y = Dialed(x.id)
      /\ x.side = Dialer \/ x.side = Acceptor
  BY <1>1, <1>3, <1>5, <1>6, SideEnds
<1>8. \A e \in Ends : e.side = y.side /\ e.id = x.id => e = y
  <2>1. \A e \in Ends : e \in End /\ e.origin = Dialer
    BY DEF Ends
  <2> QED BY <1>1, <1>3, <2>1, Parts
<1>9. \A op \in {"open", "data", "close", "reject"} :
         Req(op, y) \in Request /\ Req(op, y).op = op /\ Req(op, y).end = y
  BY <1>3, ReqType
<1> QED BY <1>1, <1>3, <1>4, <1>5, <1>7, <1>8, <1>9

\* What is counted.
LEMMA Counts ==
  ASSUME OpenInv, NEW x \in Ends, NEW y, y = PeerEnd(x)
  PROVE  /\ Records(Way(x)) /\ sent[y] \in Nat /\ In(x) \in Nat /\ Arrived(x) \in Nat
         /\ got[x] \in Seq(Payload) /\ readCh[x] \in Seq(Payload)
         /\ Len(got[x]) \in Nat /\ Len(readCh[x]) \in Nat
         /\ Settled(y) \in Int /\ Settled(y) >= sent[y] - 1 /\ Settled(y) <= sent[y]
         /\ y \notin held => sent[y] = 0 /\ ~Called("data", y)
<1>1. x \in End /\ x.side \in Side /\ y \in Ends /\ y \in End /\ Peer(x.side) \in Side /\ TypeOK
  BY TwoEnds, PeerType DEF OpenInv
<1>2. got[x] \in Seq(Payload) /\ readCh[x] \in Seq(Payload) /\ sent[y] \in Nat
  BY <1>1, BoundsAssumption DEF TypeOK
<1>3. Len(got[x]) \in Nat /\ Len(readCh[x]) \in Nat
  BY <1>2, LenProperties
<1>4. Records(Way(x))
  <2>1. Way(x) \in Seq(Message)
    BY <1>1 DEF TypeOK, Way
  <2>2. Len(Way(x)) \in Nat /\ \A k \in 1..Len(Way(x)) : Way(x)[k] \in Message
    BY <2>1, LenProperties
  <2>3. \A m \in Message : m.type = "data" => m.data.n \in Nat
    BY BoundsAssumption DEF Message, Payload
  <2> QED BY <2>2, <2>3 DEF Records
<1>5. y \notin held => ~(sent[y] > 0) /\ ~Called("data", y)
  BY <1>1 DEF OpenInv, Holding
<1>6. In(x) \in Nat /\ Arrived(x) \in Nat
  <2>1. Arrived(x) \in Nat
    BY <1>3, Sums, Zenon DEF Arrived
  <2>2. In(x) = Arrived(x) \/ In(x) = Arrived(x) + 1
    BY Zenon DEF In
  <2> QED BY <2>1, <2>2
<1>7. /\ Settled(y) \in Int /\ Settled(y) >= sent[y] - 1 /\ Settled(y) <= sent[y]
      /\ ~(sent[y] > 0) => sent[y] = 0
  BY <1>2 DEF Settled
<1> QED BY <1>2, <1>3, <1>4, <1>5, <1>6, <1>7

\* readLoop leaves what it is at.
LEMMA ReaderLeaves ==
  ASSUME TypeOK, [Next]_vars, NEW s \in Side, reader'[s] # reader[s]
  PROVE  \/ Receive(s)
         \/ Deliver(s) /\ reader[s].at = "deliver" /\ reader'[s].at = "read"
         \/ /\ reader[s].at \notin {"deliver", "reject"}
            /\ reader'[s].at \notin {"deliver", "remoteClose"}
         \/ \E q \in Request : /\ q.op = "reject" /\ q.end.side = s /\ call[q] \in Pending
                               /\ call'[q] = "done" /\ reader'[s].at = "read"
<1>1. ASSUME NEW t \in Side, NEW at \in {"read", "closing", "done"}, At(t, at)
      PROVE  t = s /\ reader'[s].at = at
  BY <1>1 DEF At, TypeOK
<1>2. ASSUME NEW q \in Request, NEW ok, call[q] \in Pending, Return(q, ok)
      PROVE  /\ q.op = "reject" /\ q.end.side = s /\ call'[q] = "done" /\ reader'[s].at = "read"
  <2>1. q.op = "reject" /\ At(q.end.side, "read")
    BY <1>2 DEF Return
  <2>2. q.end.side = s /\ reader'[s].at = "read"
    BY <1>1, <2>1, RequestType
  <2>3. call'[q] = "done"
    BY <1>2, <2>1 DEF Return, TypeOK
  <2> QED BY <2>1, <2>2, <2>3
<1>3. ASSUME NEW q \in Request, Enqueue(q) \/ GiveUp(q)
      PROVE  /\ q.op = "reject" /\ q.end.side = s /\ call[q] \in Pending
             /\ call'[q] = "done" /\ reader'[s].at = "read"
  BY <1>2, <1>3 DEF Enqueue, GiveUp
<1>4. ASSUME NEW t \in Side, RecordWritten(t) \/ WriteFails(t)
      PROVE  \E q \in Request : /\ q.op = "reject" /\ q.end.side = s /\ call[q] \in Pending
                                /\ call'[q] = "done" /\ reader'[s].at = "read"
  <2>1. PICK ok : /\ writer[t].req \in Request /\ call[writer[t].req] = "wait"
                  /\ Return(writer[t].req, ok)
    BY <1>4, Answered
  <2> QED BY <1>2, <2>1 DEF Pending
<1>5. ASSUME NEW t \in Side, OfferOpen(t) \/ RefuseOpen(t) \/ RemoteClose(t) \/ ReadFails(t) \/ ReadLoopEnds(t)
      PROVE  reader[s].at \notin {"deliver", "reject"} /\ reader'[s].at \notin {"deliver", "remoteClose"}
  <2>1. CASE RefuseOpen(t)
    BY <2>1 DEF RefuseOpen, AtEnd, TypeOK
  <2> QED BY <1>1, <1>5, <2>1 DEF OfferOpen, RemoteClose, ReadFails, ReadLoopEnds
<1>6. ASSUME NEW t \in Side, Deliver(t) PROVE Deliver(s) /\ reader[s].at = "deliver" /\ reader'[s].at = "read"
  BY <1>1, <1>6 DEF Deliver
<1>7. ASSUME NEW t \in Side, Receive(t) PROVE t = s
  BY <1>7, Received
<1>8. ASSUME NEW t \in Side, HandStep(t) PROVE FALSE
  BY <1>8, HandFrame
<1>9. ASSUME QuietStep PROVE \E t \in Side : ReadFails(t) \/ ReadLoopEnds(t)
  BY <1>9 DEF QuietStep, SessionClose, TransportClose, SessionCloseReturns, LinkBreaks, vars
<1>10. ASSUME NEW t \in Side, CloseAll(t) \/ DialCheck(t) \/ DialOpen(t) \/ Accept(t)
       PROVE  FALSE
  BY <1>10 DEF CloseAll, DialCheck, DialOpen, Accept
<1>11. ASSUME NEW e \in End, Write(e) \/ Read(e) \/ Close(e) PROVE FALSE
  BY <1>11 DEF Write, Read, Close
<1> QED BY Steps, <1>3, <1>4, <1>5, <1>6, <1>7, <1>8, <1>9, <1>10, <1>11

\* readLoop stays at the connection it refuses.
LEMMA RefusalsStep ==
  ASSUME OpenInv, Refusals, [Next]_vars
  PROVE  Refusals'
<1> SUFFICES ASSUME NEW e \in Ends, call'[Req("reject", e)] \in Pending
             PROVE  reader'[e.side].at = "reject" /\ reader'[e.side].end = e
  BY DEF Refusals
<1> DEFINE r == Req("reject", e)
<1>0. TypeOK /\ OneSide /\ r \in Request /\ r.op = "reject" /\ r.end = e /\ e.side \in Side
      /\ \A op \in {"open", "data", "close"} : \A f : r # Req(op, f)
  BY ReqType DEF OpenInv, Ends, End, Req
<1>1. ASSUME NEW s \in Side, RefuseOpen(s), r = Req("reject", reader[s].end)
      PROVE  reader'[e.side].at = "reject" /\ reader'[e.side].end = e
  <2>1. e = reader[s].end /\ reader[s].at = "open"
    BY <1>1 DEF RefuseOpen, Req
  <2>2. s = e.side
    BY <1>0, <2>1 DEF OneSide, HasEnd
  <2> QED BY <1>0, <1>1, <2>1, <2>2 DEF RefuseOpen, AtEnd, TypeOK
<1>2. CASE call[r] = "idle"
  BY <1>0, <1>1, <1>2, CallBegins DEF Pending
<1>3. CASE call[r] \in Pending
  <2>1. reader[e.side].at = "reject" /\ reader[e.side].end = e
    BY <1>3 DEF Refusals
  <2>2. CASE reader'[e.side] # reader[e.side]
    <3>1. ASSUME NEW q \in Request, q.op = "reject", q.end.side = e.side, call[q] \in Pending,
                 call'[q] = "done"
          PROVE  FALSE
      <4>1. q = Req("reject", q.end) /\ q.end \in Ends
        BY <1>0, <3>1, Parts DEF OneSide, Pending
      <4>2. q.end = e
        BY <2>1, <3>1, <4>1 DEF Refusals
      <4> QED BY <3>1, <4>1, <4>2 DEF Pending
    <3>2. ~Receive(e.side)
      BY <2>1 DEF Receive
    <3> QED BY <1>0, <2>1, <2>2, <3>1, <3>2, ReaderLeaves
  <2> QED BY <2>1, <2>2
<1>4. CASE call[r] \notin Pending /\ call[r] # "idle"
  <2>1. call'[r] # call[r] /\ call[r] = "done"
    BY <1>0, <1>4 DEF Pending, TypeOK
  <2>2. ~GiveUp(r)
    BY <2>1 DEF GiveUp, Pending
  <2> QED BY <1>0, <1>1, <2>1, <2>2, CallGoesOn DEF Pending
<1> QED BY <1>2, <1>3, <1>4

\* What readLoop has in hand for x stays there, but for Receive and Deliver.
LEMMA HandStays ==
  ASSUME FlowInv, [Next]_vars, NEW x \in Ends, ~Receive(x.side), ~(Deliver(x.side) /\ Delivering(x))
  PROVE  /\ Delivering(x)' <=> Delivering(x)
         /\ Delivering(x) => reader'[x.side].data = reader[x.side].data
         /\ Closing(x)' => Closing(x)
<1>0. TypeOK /\ OneSide /\ x.side \in Side
  BY DEF FlowInv, OpenInv, Ends, End
<1>1. CASE reader'[x.side] = reader[x.side]
  BY <1>1 DEF Delivering, Closing
<1>2. CASE reader'[x.side] # reader[x.side]
  <2>1. ASSUME NEW q \in Request, q.op = "reject", q.end.side = x.side, call[q] \in Pending
        PROVE  reader[x.side].at = "reject"
    <3>1. q = Req("reject", q.end) /\ q.end \in Ends
      BY <1>0, <2>1, Parts DEF OneSide, Pending
    <3> QED BY <2>1, <3>1 DEF FlowInv, Refusals
  <2> QED BY <1>0, <1>2, <2>1, ReaderLeaves DEF Delivering, Closing
<1> QED BY <1>1, <1>2

\* x comes to be live with its Dial and the OPEN of it, before the other end is held.
LEMMA LiveFrom ==
  ASSUME OpenInv, TypeOK', [Next]_vars, NEW x \in Ends, NEW y, y = PeerEnd(x), Live(x)', ~Live(x)
  PROVE  y \notin held
<1>0. TypeOK /\ x \in End /\ x.id \in Id /\ y \in Ends
  BY TwoEnds DEF OpenInv
<1>1. CASE Registered(x)'
  <2>1. ~Registered(x)
    BY DEF Live
  <2>2. ASSUME NEW s \in Side, Receive(s), Head(wire[Peer(s)]).type = "open",
               x = TheEnd(s, Peer(s), Head(wire[Peer(s)]).id)
        PROVE  FALSE
    <3>1. s = Acceptor /\ OpenSent(Head(wire[Dialer]).id) /\ x.side = s /\ Peer(s) = Dialer
      BY <2>2, OpenIsRead, TwoSides DEF OpenInv, OneSide, TheEnd
    <3> QED BY <2>2, <3>1 DEF Live, TheEnd
  <2>3. ASSUME NEW s \in Side, DialOpen(s), x = TheEnd(s, s, nextID[s] + 1)
        PROVE  y \notin held
    <3>1. x.side = Dialer /\ ~Known(Accepted(x.id))
      <4>1. s = Dialer /\ ~Known(Accepted(nextID[Dialer] + 1))
        BY <2>3, DialIsFresh
      <4> QED BY <2>3, <4>1 DEF TheEnd
    <3>2. y = Accepted(x.id) /\ y.side = Acceptor
      BY <1>0, <3>1, TwoEnds, SideEnds DEF OpenInv, OneSide
    <3> QED BY <1>0, <3>1, <3>2 DEF OpenInv, Holding
  <2> QED BY <1>0, <1>1, <2>1, <2>2, <2>3, Registers
<1>2. CASE x.side = Acceptor /\ OpenSent(x.id)'
  <2>1. ~OpenSent(x.id) /\ y = Dialed(x.id)
    BY <1>2, TwoEnds DEF Live
  <2>2. RecordWritten(Dialer) /\ writer[Dialer].req = Req("open", y)
    BY <1>0, <1>2, <2>1, OpenMoves
  <2>3. Unsent(Req("open", y))
    BY <1>0, <2>2, TwoEnds, TwoSides, Written DEF OpenInv, OneSide
  <2>4. ~Known(Accepted(x.id))
    BY <1>0, <2>1, <2>3 DEF OpenInv, Opening, ToOpen
  <2> QED BY <1>0, <2>1, <2>4 DEF OpenInv, Opening
<1> QED BY <1>1, <1>2 DEF Live

\* A Write makes its chunk due, and the record that is written settles it.
LEMMA WritesGoOn ==
  ASSUME OpenInv, TypeOK', [Next]_vars, NEW y \in Ends, ~Write(y)
  PROVE  /\ sent'[y] = sent[y]
         /\ Due(y)' => Due(y)
         /\ Called("data", y)' => Called("data", y)
         /\ Called("data", y) =>
               Called("data", y)' \/ (RecordWritten(y.side) /\ writer[y.side].req = Req("data", y))
<1> DEFINE r == Req("data", y)
<1>0. TypeOK /\ y \in End /\ r \in Request /\ r.op = "data" /\ r.end = y
      /\ \A op \in {"open", "reject", "close"} : \A f : r # Req(op, f)
  BY ReqType DEF OpenInv, Ends, Req
<1>1. sent'[y] = sent[y]
  <2>1. ASSUME NEW f \in End, Write(f) PROVE sent'[y] = sent[y]
    BY <1>0, <2>1 DEF Write, TypeOK
  <2> QED BY <1>0, <2>1, DataMoves
<1>2. call[r] = "idle" => call'[r] = "idle"
  BY <1>0, CallBegins
<1>3. ASSUME call[r] # "idle", call'[r] # call[r]
      PROVE  \/ call'[r] \in {"wait", "done"}
             \/ RecordWritten(y.side) /\ writer[y.side].req = r /\ call'[r] # "enqueue"
  <2>1. CASE Enqueue(r)
    BY <1>0, <2>1 DEF Enqueue, TypeOK
  <2>2. CASE GiveUp(r)
    BY <1>0, <2>2 DEF GiveUp, Return, TypeOK
  <2>3. ASSUME NEW s \in Side, RecordWritten(s), r = writer[s].req
        PROVE  RecordWritten(y.side) /\ writer[y.side].req = r /\ call'[r] # "enqueue"
    BY <1>0, <2>3, Written
  <2>4. ASSUME NEW s \in Side, WriteFails(s), r = writer[s].req, ~RecordWritten(s)
        PROVE  call'[r] = "done"
    <3>1. Return(r, FALSE)
      BY <1>0, <1>3, <2>4, Answered
    <3> QED BY <1>0, <3>1 DEF Return, TypeOK
  <2> QED BY <1>0, <1>3, <2>1, <2>2, <2>3, <2>4, CallGoesOn
<1>4. Due(y)' => Due(y)
  <2>1. Enqueue(r) => call[r] = "enqueue"
    BY DEF Enqueue
  <2>2. Unsent(r)' => Due(y)
    BY <1>0, <2>1, UnsentMoves DEF Due
  <2>3. call'[r] = "enqueue" => call[r] = "enqueue"
    BY <1>2, <1>3
  <2> QED BY <2>2, <2>3 DEF Due
<1> QED BY <1>1, <1>2, <1>3, <1>4 DEF Called

\* Who has closed or refused a connection is done with it, and writes no more.
LEMMA FinishedStays ==
  ASSUME OpenInv, [Next]_vars, NEW y \in Ends, Finished(y)
  PROVE  Finished(y)' /\ ~Write(y)
<1>1. Finished(y)'
  BY CalledStays DEF Finished
<1>2. y \in closed \/ y \notin held
  BY DEF OpenInv, Holding, Finished
<1> QED BY <1>1, <1>2 DEF Write

\* What x needs to have on its way, it had on its way before.
LEMMA LiveComplete ==
  ASSUME FlowInv, TypeOK', [Next]_vars, NEW x \in Ends, NEW y, y = PeerEnd(x), Live(x)'
  PROVE  Complete(Way(x), x.id, In(x), Settled(y))
<1>1. OpenInv
  BY DEF FlowInv
<1>2. CASE Live(x)
  BY <1>2 DEF FlowInv, Flow, FlowOf
<1>3. CASE ~Live(x)
  <2>1. y \notin held
    BY <1>1, <1>3, LiveFrom
  <2>2. sent[y] = 0 /\ In(x) \in Nat /\ Settled(y) \in Int /\ Settled(y) <= sent[y]
    BY <1>1, <2>1, Counts
  <2>3. In(x) + 1..Settled(y) = {}
    BY <2>2
  <2> QED BY <2>3 DEF Complete
<1> QED BY <1>2, <1>3

\* The other end writes.
LEMMA WriteFlow ==
  ASSUME FlowInv, TypeOK', [Next]_vars, NEW x \in Ends, NEW y, y = PeerEnd(x), Write(y)
  PROVE  FlowOf(x)'
<1> DEFINE r == Req("data", y)
<1>0. OpenInv /\ TypeOK /\ y \in End /\ y \in Ends /\ r \in Request
  BY TwoEnds DEF FlowInv, OpenInv
<1>1. /\ Records(Way(x)) /\ sent[y] \in Nat /\ In(x) \in Nat
      /\ Settled(y) \in Int /\ FlowOf(x)
  BY <1>0, Counts DEF FlowInv, Flow
<1>2. /\ UNCHANGED <<wire, got, readCh, reader, conns, closed>>
      /\ sent'[y] = sent[y] + 1 /\ call[r] = "idle" /\ call'[r] = "enqueue"
  BY <1>0 DEF Write, Submit, TypeOK, outVars
<1>3. /\ Delivering(x)' <=> Delivering(x)
      /\ Arrived(x)' = Arrived(x) /\ Way(x)' = Way(x)
  BY <1>2 DEF Delivering, Arrived, Way
<1>4. In(x)' = In(x)
  BY <1>3 DEF In
<1>5. ~Closes(Way(x), x.id) /\ ~Closing(x)'
  <2>1. ~Finished(y)
    BY <1>0, FinishedStays
  <2>2. Closing(x)' => Closing(x)
    BY <1>2 DEF Closing
  <2> QED BY <1>1, <2>1, <2>2 DEF FlowOf
<1>6. Numbered(Way(x), x.id, In(x), sent[y] + 1) /\ Behind(Way(x), x.id, In(x), sent[y] + 1)
  BY <1>1, ChunkWritten DEF FlowOf
<1>7. Trailing(Way(x), x.id, sent[y] + 1)
  <2>1. Len(Way(x)) \in Nat
    BY <1>1 DEF Records
  <2> QED BY <1>5, <2>1 DEF Trailing, Closes
<1>8. Settled(y)' = Settled(y)
  <2>1. Settled(y) = sent[y]
    BY <1>2 DEF Settled, Called
  <2>2. Settled(y)' = sent'[y] - 1
    BY <1>2 DEF Settled, Called
  <2> QED BY <1>1, <1>2, <2>1, <2>2
<1>9. Live(x)' => Complete(Way(x), x.id, In(x), Settled(y))
  BY LiveComplete
<1>10. Gapless(x)'
  BY <1>1, <1>2, <1>3 DEF FlowOf, Gapless
<1> QED BY <1>2, <1>3, <1>4, <1>5, <1>6, <1>7, <1>8, <1>9, <1>10 DEF FlowOf

\* A record of the other side is written.
LEMMA RecordFlow ==
  ASSUME FlowInv, TypeOK', [Next]_vars, NEW x \in Ends, NEW y, y = PeerEnd(x), RecordWritten(y.side)
  PROVE  FlowOf(x)'
<1> DEFINE t == y.side
<1> DEFINE w == wire[t]
<1> DEFINE v == wire'[t]
<1>0. /\ OpenInv /\ TypeOK /\ OneSide /\ y \in End /\ y \in Ends /\ t \in Side /\ t = Peer(x.side)
      /\ x.side \in Side /\ x.id \in Id /\ y.id = x.id /\ y.origin = Dialer
  BY TwoEnds DEF FlowInv, OpenInv
<1>1. /\ Records(w) /\ sent[y] \in Nat /\ In(x) \in Nat
      /\ Settled(y) \in Int /\ Settled(y) >= sent[y] - 1 /\ FlowOf(x) /\ Way(x) = w /\ Way(x)' = v
  BY <1>0, Counts DEF FlowInv, Flow, Way
<1>2. PICK q \in Request : q = writer[t].req
  BY <1>0, Answered
<1>3. /\ q.end \in Ends /\ q.end.side = t /\ q = Req(q.op, q.end)
      /\ Unsent(q) /\ ~Unsent(q)' /\ call[q] \in {"wait", "done"} /\ call'[q] # "enqueue"
      /\ Encode(q).id = q.end.id /\ (Encode(q).type = "open" <=> q.op = "open")
      /\ Encode(q).type = "data" <=> q.op = "data"
      /\ \A s \in Side : ~Receive(s)
  BY <1>0, <1>2, Written
<1>4. Longer(w, v, Encode(q))
  BY <1>0, <1>2, WireOf DEF Longer
<1>5. UNCHANGED <<readCh, sent, got, closed>>
  BY <1>0, Answered DEF ioVars
<1>6. ~Write(y) /\ ~Deliver(x.side)
  <2>1. ~Write(y)
    BY <1>0, <1>1, <1>5 DEF Write, TypeOK
  <2>2. ~Deliver(x.side)
    BY <1>1, <1>4 DEF Deliver, outVars, Longer, Records
  <2> QED BY <2>1, <2>2
<1>7. /\ Delivering(x)' <=> Delivering(x)
      /\ Delivering(x) => reader'[x.side].data = reader[x.side].data
      /\ Closing(x)' => Closing(x)
  BY <1>0, <1>3, <1>6, HandStays
<1>8. Arrived(x)' = Arrived(x) /\ sent'[y] = sent[y]
  BY <1>5 DEF Arrived
<1>9. In(x)' = In(x)
  BY <1>7, <1>8 DEF In
<1>10. Gapless(x)'
  <2>1. Gapless(x)
    BY <1>1 DEF FlowOf
  <2> QED BY <1>5, <1>7, <1>8, <2>1 DEF Gapless
<1>11. Finished(y) => Finished(y)'
  BY <1>0, FinishedStays
<1>12. Closing(x)' => Finished(y)' /\ (x \in closed' \/ Arrived(x)' >= sent'[y] - 1)
  <2>1. Closing(x) => Finished(y) /\ (x \in closed \/ Arrived(x) >= sent[y] - 1)
    BY <1>1 DEF FlowOf
  <2> QED BY <1>5, <1>7, <1>8, <1>11, <2>1
<1>13. q.end.id = x.id => q.end = y
  BY <1>0, <1>3, TwoEnds
<1>14. /\ Due(y)' => Due(y)
       /\ Called("data", y)' => Called("data", y)
       /\ Called("data", y) => Called("data", y)' \/ q = Req("data", y)
  BY <1>0, <1>2, <1>6, WritesGoOn
<1>15. /\ Numbered(w, x.id, In(x), sent[y])
       /\ Due(y) => Behind(w, x.id, In(x), sent[y])
       /\ Trailing(w, x.id, sent[y])
       /\ Closes(w, x.id) => Finished(y)
  BY <1>1 DEF FlowOf
<1>16. Live(x)' => Complete(w, x.id, In(x), Settled(y))
  BY <1>1, LiveComplete
<1>17. CASE q.op = "data" /\ q.end.id = x.id
  <2>1. q = Req("data", y) /\ q.end = y
    BY <1>3, <1>13, <1>17
  <2>2. /\ Encode(q).type = "data" /\ Encode(q).id = x.id
        /\ Encode(q).data.origin = Dialer /\ Encode(q).data.id = x.id /\ Encode(q).data.n = sent[y]
    BY <1>0, <1>17, <2>1 DEF Encode, Chunk
  <2>3. Due(y) /\ ~Due(y)'
    BY <1>3, <2>1 DEF Due
  <2>4. /\ Numbered(v, x.id, In(x), sent[y])
        /\ Complete(w, x.id, In(x), sent[y] - 1) => Complete(v, x.id, In(x), sent[y])
        /\ Trailing(v, x.id, sent[y])
        /\ Closes(v, x.id) => Closes(w, x.id)
    BY <1>1, <1>4, <1>15, <2>2, <2>3, ChunkAdded
  <2>5. Live(x)' => Complete(v, x.id, In(x), Settled(y)')
    <3>1. Settled(y)' \in Int /\ Settled(y)' <= sent[y]
      BY <1>1, <1>8 DEF Settled
    <3>2. Live(x)' => Complete(w, x.id, In(x), sent[y] - 1)
      BY <1>1, <1>16, LessIsComplete
    <3> QED BY <1>1, <2>4, <3>1, <3>2, LessIsComplete
  <2> QED BY <1>1, <1>8, <1>9, <1>10, <1>11, <1>12, <1>15, <2>3, <2>4, <2>5 DEF FlowOf
<1>18. CASE ~(q.op = "data" /\ q.end.id = x.id)
  <2>1. ~(Encode(q).type = "data" /\ Encode(q).id = x.id)
    BY <1>3, <1>18
  <2>2. /\ Numbered(v, x.id, In(x), sent[y])
        /\ Behind(w, x.id, In(x), sent[y]) => Behind(v, x.id, In(x), sent[y])
        /\ \A c \in Int : Complete(w, x.id, In(x), c) => Complete(v, x.id, In(x), c)
        /\ Trailing(v, x.id, sent[y])
        /\ Closes(v, x.id) => Closes(w, x.id) \/ (Encode(q).type = "close" /\ Encode(q).id = x.id)
    BY <1>1, <1>4, <1>15, <2>1, OtherAdded
  <2>3. Encode(q).type = "close" /\ Encode(q).id = x.id => Finished(y)
    <3> SUFFICES ASSUME Encode(q).type = "close", Encode(q).id = x.id PROVE Finished(y)
      OBVIOUS
    <3>1. q.op \in {"open", "data", "close", "reject"} /\ q.end = y
      BY <1>3, <1>13, Parts
    <3>2. q = Req("close", y) \/ q = Req("reject", y)
      BY <1>3, <3>1
    <3> QED BY <1>3, <3>2 DEF Finished, Called
  <2>4. Settled(y)' = Settled(y)
    <3>1. q # Req("data", y)
      BY <1>0, <1>18, TwoEnds
    <3> QED BY <1>8, <1>14, <3>1 DEF Settled
  <2>5. Live(x)' => Complete(v, x.id, In(x), Settled(y)')
    BY <1>1, <1>16, <2>2, <2>4
  <2> QED BY <1>1, <1>8, <1>9, <1>10, <1>11, <1>12, <1>14, <1>15, <2>2, <2>3, <2>5 DEF FlowOf
<1> QED BY <1>17, <1>18

\* A record of the other side is read.
LEMMA ReceiveFlow ==
  ASSUME FlowInv, TypeOK', [Next]_vars, NEW x \in Ends, NEW y, y = PeerEnd(x), Receive(x.side)
  PROVE  FlowOf(x)'
<1> DEFINE s == x.side
<1> DEFINE i == x.id
<1> DEFINE w == wire[y.side]
<1> DEFINE v == wire'[y.side]
<1>0. /\ OpenInv /\ TypeOK /\ OneSide /\ y \in End /\ y \in Ends /\ y.side \in Side /\ y.side = Peer(s)
      /\ s \in Side /\ i \in Id /\ x \in End /\ x.origin = Dialer /\ y.id = x.id
  BY TwoEnds DEF FlowInv, OpenInv
<1>1. /\ Records(w) /\ sent[y] \in Nat /\ In(x) \in Nat /\ Arrived(x) \in Nat
      /\ Settled(y) \in Int /\ Settled(y) >= sent[y] - 1 /\ FlowOf(x) /\ Way(x) = w /\ Way(x)' = v
  BY <1>0, Counts DEF FlowInv, Flow, Way
<1>2. PICK m \in Message : m = Head(w)
  BY <1>0, Received
<1>3. /\ reader[s].at = "read" /\ w # <<>> /\ w \in Seq(Message) /\ m.id \in Id /\ m = w[1]
      /\ wire' = [wire EXCEPT ![y.side] = Tail(w)]
      /\ UNCHANGED <<shutVars, ctl, dat, writer, dialVars, ioVars, backlog, call, closed, held>>
  BY <1>0, <1>2, Received, ZenonT(40)
<1>4. Shorter(w, v)
  <2>1. v = Tail(w)
    BY <1>0, <1>3 DEF TypeOK
  <2> HIDE DEF w, v
  <2> QED BY <1>3, <2>1 DEF Shorter
<1>5. \/ /\ m.type = "open" /\ reader'[s].at = "open"
      \/ /\ m.type # "open" /\ conns[s][m.id] = "none" /\ UNCHANGED <<conns, reader>>
      \/ /\ m.type = "data" /\ conns[s][m.id] = Dialer /\ UNCHANGED conns /\ m.data \in Payload
         /\ reader'[s].at = "deliver" /\ reader'[s].end = TheEnd(s, Dialer, m.id)
         /\ reader'[s].data = m.data
      \/ /\ m.type = "close" /\ conns[s][m.id] = Dialer /\ UNCHANGED conns
         /\ reader'[s].at = "remoteClose" /\ reader'[s].end = TheEnd(s, Dialer, m.id)
  <2>1. \/ /\ m.type = "open" /\ reader'[s] = [at |-> "open", end |-> TheEnd(s, Peer(s), m.id)]
        \/ /\ m.type # "open" /\ conns[s][m.id] = "none" /\ UNCHANGED <<conns, reader>>
        \/ /\ m.type = "data" /\ conns[s][m.id] \in Side /\ UNCHANGED conns /\ m.data \in Payload
           /\ reader'[s] = [at |-> "deliver", end |-> TheEnd(s, conns[s][m.id], m.id), data |-> m.data]
        \/ /\ m.type = "close" /\ conns[s][m.id] \in Side /\ UNCHANGED conns
           /\ reader'[s] = [at |-> "remoteClose", end |-> TheEnd(s, conns[s][m.id], m.id)]
    <3>1. m = Head(wire[Peer(s)])
      BY <1>0, <1>2
    <3> HIDE DEF w, v
    <3> QED BY <1>0, <3>1, Received, ZenonT(40)
  <2>2. conns[s][m.id] \in {Dialer, "none"} /\ "none" \notin Side
    BY <1>0, <1>3 DEF OneSide, Side
  <2>3. CASE m.type = "open"
    BY <2>1, <2>3
  <2>4. CASE m.type # "open" /\ conns[s][m.id] = "none"
    BY <2>1, <2>2, <2>4
  <2>5. CASE m.type # "open" /\ conns[s][m.id] # "none"
    BY <2>1, <2>2, <2>5
  <2> QED BY <2>3, <2>4, <2>5
<1>6. x = TheEnd(s, Dialer, i) /\ (TheEnd(s, Dialer, m.id) = x <=> m.id = i)
  BY <1>0, <1>3, TwoSides, Parts DEF OneSide
<1>7. ~Delivering(x) /\ In(x) = Arrived(x) /\ ~Closing(x)
  BY <1>3 DEF Delivering, In, Closing
<1>8. /\ UNCHANGED <<readCh, sent, got, closed, call>>
      /\ Arrived(x)' = Arrived(x) /\ sent'[y] = sent[y]
      /\ Settled(y)' = Settled(y)
  BY <1>3 DEF ioVars, Arrived, Settled, Called
<1>9. Due(y)' => Due(y)
  BY <1>3 DEF Due, Unsent, InHand
<1>10. /\ Gapless(x)
       /\ Numbered(w, i, In(x), sent[y])
       /\ Due(y) => Behind(w, i, In(x), sent[y])
       /\ Trailing(w, i, sent[y])
       /\ Closes(w, i) => Finished(y)
       /\ Live(x) => Complete(w, i, In(x), Settled(y))
  BY <1>1 DEF FlowOf
<1>11. Live(x)' => Complete(w, i, In(x), Settled(y))
  BY <1>1, LiveComplete
<1>12. /\ Numbered(v, i, In(x), sent[y])
       /\ Due(y) => Behind(v, i, In(x), sent[y])
       /\ \A c \in Int : Complete(w, i, In(x), c) /\ ~DataAt(w, i, 1) => Complete(v, i, In(x), c)
       /\ Trailing(v, i, sent[y])
       /\ Closes(v, i) => Closes(w, i)
  BY <1>1, <1>4, <1>10, HeadTaken
<1>13. Finished(y) => Finished(y)'
  BY <1>0, FinishedStays
<1>14. Closing(x)' => Finished(y)' /\ (x \in closed' \/ Arrived(x)' >= sent'[y] - 1)
  <2> SUFFICES ASSUME Closing(x)'
               PROVE  Finished(y) /\ Arrived(x) >= sent[y] - 1
    BY <1>8, <1>13
  <2>0. Closing(x)'
    OBVIOUS
  <2>1. m.type = "close" /\ m.id = i /\ conns[s][i] = Dialer
    <3>1. reader'[s].at = "remoteClose" /\ reader'[s].end = x
      BY <2>0 DEF Closing
    <3>2. CASE m.type = "close" /\ conns[s][m.id] = Dialer
      <4>1. reader'[s].end = TheEnd(s, Dialer, m.id)
        BY <1>3, <1>5, <3>1, <3>2
      <4> QED BY <1>6, <3>1, <3>2, <4>1
    <3>3. CASE m.type # "close" \/ conns[s][m.id] # Dialer
      <4>1. reader'[s].at \in {"open", "deliver", "read"}
        BY <1>3, <1>5, <3>3
      <4> QED BY <3>1, <4>1
    <3> QED BY <3>2, <3>3
  <2>2. CloseAt(w, i, 1) /\ Len(w) >= 1
    BY <1>3, <2>1 DEF CloseAt
  <2>3. Live(x)
    BY <1>0, <2>1 DEF Live, Registered
  <2>4. In(x) >= sent[y] - 1
    BY <1>1, <1>10, <2>2, <2>3, CloseTaken
  <2>5. Finished(y)
    BY <1>1, <1>10, <2>2 DEF Closes, Records
  <2> QED BY <1>7, <2>4, <2>5
<1>15. CASE Delivering(x)'
  <2>1. m.type = "data" /\ m.id = i /\ conns[s][i] = Dialer /\ m.data \in Payload /\ reader'[s].data = m.data
    <3>1. reader'[s].at = "deliver" /\ reader'[s].end = x
      BY <1>15 DEF Delivering
    <3>2. CASE m.type = "data" /\ conns[s][m.id] = Dialer
      <4>1. /\ m.data \in Payload
            /\ reader'[s].end = TheEnd(s, Dialer, m.id) /\ reader'[s].data = m.data
        BY <1>3, <1>5, <3>1, <3>2
      <4> QED BY <1>6, <3>1, <3>2, <4>1
    <3>3. CASE m.type # "data" \/ conns[s][m.id] # Dialer
      <4>1. reader'[s].at \in {"open", "remoteClose", "read"}
        BY <1>3, <1>5, <3>3
      <4> QED BY <3>1, <4>1
    <3> QED BY <3>2, <3>3
  <2>2. Live(x) /\ DataAt(w, i, 1)
    BY <1>0, <1>3, <2>1 DEF Live, Registered, DataAt
  <2>3. /\ w[1].data.origin = Dialer /\ w[1].data.id = i /\ w[1].data.n = In(x) + 1
        /\ Numbered(v, i, In(x) + 1, sent[y])
        /\ Behind(w, i, In(x), sent[y]) => Behind(v, i, In(x) + 1, sent[y])
        /\ Complete(v, i, In(x) + 1, Settled(y))
    BY <1>1, <1>4, <1>10, <2>2, ChunkTaken
  <2>4. In(x)' = In(x) + 1
    BY <1>7, <1>8, <1>15 DEF In
  <2>5. reader'[s].data = NthChunk(x, Arrived(x) + 1)
    BY <1>0, <1>3, <1>7, <2>1, <2>3 DEF Payload, NthChunk
  <2>6. Gapless(x)'
    BY <1>8, <1>10, <2>5 DEF Gapless
  <2> QED BY <1>1, <1>8, <1>9, <1>10, <1>12, <1>13, <1>14, <2>3, <2>4, <2>6 DEF FlowOf
<1>16. CASE ~Delivering(x)'
  <2>1. In(x)' = In(x)
    BY <1>7, <1>8, <1>16 DEF In
  <2>2. Gapless(x)'
    BY <1>8, <1>10, <1>16 DEF Gapless
  <2>3. Live(x)' => ~DataAt(w, i, 1)
    <3> SUFFICES ASSUME Live(x)', DataAt(w, i, 1) PROVE FALSE
      OBVIOUS
    <3>1. m.type = "data" /\ m.id = i
      BY <1>3 DEF DataAt
    <3>2. conns[s][i] = "none" /\ UNCHANGED conns
      BY <1>5, <1>6, <1>16, <3>1 DEF Delivering
    <3>3. x.side = Acceptor /\ OpenSent(i)'
      BY <1>0, <3>2, TwoSides DEF Live, Registered, OneSide, Side
    <3>4. OpenSent(i)
      <4>1. ASSUME RecordWritten(Dialer) PROVE FALSE
        <5>1. Dialer \in Side
          BY <1>0, TwoSides DEF OneSide
        <5>2. writer[Dialer].req \in Request
          BY <1>0, <4>1, <5>1, Answered
        <5> QED BY <1>0, <4>1, <5>1, <5>2, Written
      <4> QED BY <1>0, <3>3, <4>1, OpenMoves
    <3>5. x = Accepted(i) /\ w = wire[Dialer]
      BY <1>0, <3>3, TwoSides, TwoEnds DEF OneSide
    <3>6. ~Known(x)
      BY <1>0, <3>4, <3>5 DEF OpenInv, Opening
    <3>7. 1 \in 1..Len(w)
      BY <1>1, <1>4 DEF Shorter, Records
    <3>8. \E j \in 1..1 : OpenAt(i, j)
      BY <1>0, <3>1, <3>5, <3>6, <3>7, <1>3 DEF OpenInv, Opening
    <3> QED BY <1>3, <3>1, <3>5, <3>8 DEF OpenAt
  <2> QED BY <1>1, <1>8, <1>9, <1>11, <1>12, <1>10, <1>13, <1>14, <2>1, <2>2, <2>3 DEF FlowOf
<1> QED BY <1>15, <1>16

\* A chunk is delivered, or dropped as x is closed.
LEMMA DeliverFlow ==
  ASSUME FlowInv, TypeOK', [Next]_vars, NEW x \in Ends, NEW y, y = PeerEnd(x),
         Deliver(x.side), Delivering(x)
  PROVE  FlowOf(x)'
<1> DEFINE s == x.side
<1> DEFINE w == Way(x)
<1>0. OpenInv /\ TypeOK /\ OneSide /\ y \in Ends /\ s \in Side /\ x \in End
  BY TwoEnds DEF FlowInv, OpenInv
<1>1. /\ Records(w) /\ sent[y] \in Nat /\ In(x) \in Nat /\ Arrived(x) \in Nat
      /\ Settled(y) \in Int /\ FlowOf(x) /\ readCh[x] \in Seq(Payload) /\ Len(readCh[x]) \in Nat
      /\ Len(got[x]) \in Nat
  BY <1>0, Counts DEF FlowInv, Flow
<1>2. /\ \/ readCh' = [readCh EXCEPT ![x] = Append(readCh[x], reader[s].data)]
         \/ x \in closed /\ UNCHANGED readCh
      /\ reader'[s].at = "read"
      /\ UNCHANGED <<ctl, dat, writer, wire, sent, got, conns, call, closed>>
  BY <1>0 DEF Deliver, Delivering, At, TypeOK, outVars
<1>3. /\ ~Delivering(x)' /\ ~Closing(x)' /\ Way(x)' = w /\ sent'[y] = sent[y]
      /\ Settled(y)' = Settled(y) /\ (Due(y)' <=> Due(y)) /\ (Live(x)' <=> Live(x))
  BY <1>2 DEF Delivering, Closing, Way, Settled, Due, Unsent, InHand, Live, Registered, OpenSent, OpenAt,
              Called
<1>4. In(x) = Arrived(x) + 1 /\ In(x)' = Arrived(x)'
  BY <1>3 DEF In
<1>5. /\ Gapless(x) /\ reader[s].data = NthChunk(x, Arrived(x) + 1)
      /\ Numbered(w, x.id, In(x), sent[y])
      /\ Due(y) => Behind(w, x.id, In(x), sent[y])
      /\ Live(x) => Complete(w, x.id, In(x), Settled(y))
      /\ Trailing(w, x.id, sent[y])
      /\ Closes(w, x.id) => Finished(y)
  BY <1>1 DEF FlowOf, Gapless
<1>6. Finished(y) => Finished(y)'
  BY <1>0, FinishedStays
<1>7. CASE readCh' = [readCh EXCEPT ![x] = Append(readCh[x], reader[s].data)]
  <2>1. readCh'[x] = Append(readCh[x], reader[s].data) /\ reader[s].data \in Payload
    BY <1>0, <1>7, ReaderType DEF TypeOK, Delivering
  <2>2. /\ Len(readCh'[x]) = Len(readCh[x]) + 1
        /\ readCh'[x][Len(readCh[x]) + 1] = reader[s].data
        /\ \A k \in 1..Len(readCh[x]) : readCh'[x][k] = readCh[x][k]
    BY <1>1, <2>1
  <2>3. Arrived(x)' = Arrived(x) + 1
    <3>1. Arrived(x) + 1 = Len(got[x]) + (Len(readCh[x]) + 1)
      BY <1>1, Sums, Zenon DEF Arrived
    <3> QED BY <1>2, <2>2, <3>1, Zenon DEF Arrived
  <2>4. Gapless(x)'
    <3>1. \A k \in 1..Len(readCh'[x]) : readCh'[x][k] = NthChunk(x, Len(got[x]) + k)
      <4>1. \A k \in 1..Len(readCh'[x]) : k \in 1..Len(readCh[x]) \/ k = Len(readCh[x]) + 1
        BY <1>1, <2>2
      <4>2. Arrived(x) + 1 = Len(got[x]) + (Len(readCh[x]) + 1)
        BY <1>1, Sums, Zenon DEF Arrived
      <4>3. \A k \in 1..Len(readCh[x]) : readCh[x][k] = NthChunk(x, Len(got[x]) + k)
        BY <1>5 DEF Gapless
      <4> QED BY <1>5, <2>2, <4>1, <4>2, <4>3
    <3> QED BY <1>2, <1>3, <1>5, <3>1 DEF Gapless
  <2> QED BY <1>3, <1>4, <1>5, <1>6, <2>3, <2>4 DEF FlowOf
<1>8. CASE x \in closed /\ UNCHANGED readCh
  <2>1. Arrived(x)' = Arrived(x)
    BY <1>2, <1>8 DEF Arrived
  <2>2. ~Live(x)
    <3>1. ~Registered(x) /\ Known(x)
      BY <1>0, <1>8 DEF OpenInv, Holding, Known
    <3>2. x.side = Acceptor => ~OpenSent(x.id)
      BY <1>0, <3>1, TwoEnds DEF OpenInv, Opening
    <3> QED BY <3>1, <3>2 DEF Live
  <2>3. Numbered(w, x.id, Arrived(x), sent[y])
    BY <1>1, <1>4, <1>5 DEF Numbered, Records, DataAt
  <2>4. Due(y) => Behind(w, x.id, Arrived(x), sent[y])
    BY <1>1, <1>4, <1>5 DEF Behind
  <2>5. Gapless(x)'
    BY <1>2, <1>3, <1>5, <1>8 DEF Gapless
  <2> QED BY <1>3, <1>4, <1>5, <1>6, <2>1, <2>2, <2>3, <2>4, <2>5 DEF FlowOf
<1> QED BY <1>2, <1>7, <1>8

\* Reading moves the first chunk of a queue to the end of what was read.
LEMMA HeadRead ==
  ASSUME NEW S, NEW q \in Seq(S), q # <<>>, NEW r \in Seq(S)
  PROVE  /\ Len(q) >= 1 /\ Len(Tail(q)) = Len(q) - 1
         /\ \A k \in 1..Len(Tail(q)) : Tail(q)[k] = q[k + 1] /\ k + 1 \in 1..Len(q)
         /\ Len(Append(r, Head(q))) = Len(r) + 1 /\ Append(r, Head(q))[Len(r) + 1] = q[1]
         /\ \A k \in 1..Len(r) : Append(r, Head(q))[k] = r[k]
<1>1. Len(q) >= 1 /\ Head(q) = q[1] /\ Head(q) \in S
  OBVIOUS
<1>2. /\ Len(Tail(q)) = Len(q) - 1
      /\ \A k \in 1..Len(Tail(q)) : Tail(q)[k] = q[k + 1]
  BY <1>1
<1>3. \A k \in 1..Len(Tail(q)) : k + 1 \in 1..Len(q)
  BY <1>1, <1>2
<1>4. /\ Len(Append(r, Head(q))) = Len(r) + 1 /\ Append(r, Head(q))[Len(r) + 1] = q[1]
      /\ \A k \in 1..Len(r) : Append(r, Head(q))[k] = r[k]
  BY <1>1
<1> QED BY <1>1, <1>2, <1>3, <1>4, Zenon

\* The application reads.
LEMMA ReadFlow ==
  ASSUME FlowInv, TypeOK', [Next]_vars, NEW x \in Ends, NEW y, y = PeerEnd(x), Read(x)
  PROVE  FlowOf(x)'
<1> DEFINE w == Way(x)
<1>0. OpenInv /\ TypeOK /\ y \in Ends /\ x \in End
  BY TwoEnds DEF FlowInv, OpenInv
<1>1. /\ FlowOf(x) /\ readCh[x] \in Seq(Payload) /\ got[x] \in Seq(Payload) /\ Len(readCh[x]) \in Nat
      /\ Len(got[x]) \in Nat
  BY <1>0, Counts DEF FlowInv, Flow
<1>2. /\ readCh[x] # <<>>
      /\ got'[x] = Append(got[x], Head(readCh[x])) /\ readCh'[x] = Tail(readCh[x])
      /\ UNCHANGED <<ctl, dat, writer, wire, sent, conns, reader, call, closed>>
  BY <1>0 DEF Read, TypeOK, outVars
<1>3. /\ Len(readCh[x]) >= 1 /\ Len(readCh'[x]) = Len(readCh[x]) - 1
      /\ \A k \in 1..Len(readCh'[x]) : readCh'[x][k] = readCh[x][k + 1] /\ k + 1 \in 1..Len(readCh[x])
      /\ Len(got'[x]) = Len(got[x]) + 1 /\ got'[x][Len(got[x]) + 1] = readCh[x][1]
      /\ \A k \in 1..Len(got[x]) : got'[x][k] = got[x][k]
  <2>1. /\ Len(readCh[x]) >= 1 /\ Len(Tail(readCh[x])) = Len(readCh[x]) - 1
        /\ \A k \in 1..Len(Tail(readCh[x])) :
              Tail(readCh[x])[k] = readCh[x][k + 1] /\ k + 1 \in 1..Len(readCh[x])
        /\ Len(Append(got[x], Head(readCh[x]))) = Len(got[x]) + 1
        /\ Append(got[x], Head(readCh[x]))[Len(got[x]) + 1] = readCh[x][1]
        /\ \A k \in 1..Len(got[x]) : Append(got[x], Head(readCh[x]))[k] = got[x][k]
    <3> DEFINE q == readCh[x]
    <3> DEFINE r == got[x]
    <3>1. q \in Seq(Payload) /\ q # <<>> /\ r \in Seq(Payload)
      BY <1>1, <1>2
    <3> HIDE DEF q, r
    <3>2. /\ Len(q) >= 1 /\ Len(Tail(q)) = Len(q) - 1
          /\ \A k \in 1..Len(Tail(q)) : Tail(q)[k] = q[k + 1] /\ k + 1 \in 1..Len(q)
          /\ Len(Append(r, Head(q))) = Len(r) + 1 /\ Append(r, Head(q))[Len(r) + 1] = q[1]
          /\ \A k \in 1..Len(r) : Append(r, Head(q))[k] = r[k]
      BY <3>1, HeadRead, SMTT(30)
    <3> QED BY <3>2, Zenon DEF q, r
  <2>2. got'[x] = Append(got[x], Head(readCh[x])) /\ readCh'[x] = Tail(readCh[x])
    BY <1>2
  <2> QED BY <2>1, <2>2, ZenonT(40)
<1>4. Arrived(x)' = Arrived(x)
  <2>1. (Len(got[x]) + 1) + (Len(readCh[x]) - 1) = Len(got[x]) + Len(readCh[x])
    BY <1>1, Sums, Zenon
  <2> QED BY <1>3, <2>1, Zenon DEF Arrived
<1>5. /\ (Delivering(x)' <=> Delivering(x)) /\ (Closing(x)' <=> Closing(x)) /\ Way(x)' = w
      /\ sent'[y] = sent[y] /\ Settled(y)' = Settled(y) /\ (Due(y)' <=> Due(y)) /\ (Live(x)' <=> Live(x))
  BY <1>2 DEF Delivering, Closing, Way, Settled, Due, Unsent, InHand, Live, Registered, OpenSent, OpenAt,
              Called
<1>6. In(x)' = In(x)
  BY <1>4, <1>5 DEF In
<1>7. Finished(y) => Finished(y)'
  BY <1>0, FinishedStays
<1>8. Gapless(x)'
  <2>1. /\ \A k \in 1..Len(got[x]) : got[x][k] = NthChunk(x, k)
        /\ \A k \in 1..Len(readCh[x]) : readCh[x][k] = NthChunk(x, Len(got[x]) + k)
        /\ Delivering(x) => reader[x.side].data = NthChunk(x, Arrived(x) + 1)
    BY <1>1 DEF FlowOf, Gapless
  <2>2. \A k \in 1..Len(got'[x]) : got'[x][k] = NthChunk(x, k)
    <3>1. \A k \in 1..Len(got'[x]) : k \in 1..Len(got[x]) \/ k = Len(got[x]) + 1
      BY <1>1, <1>3
    <3>2. readCh[x][1] = NthChunk(x, Len(got[x]) + 1)
      BY <1>1, <1>3, <2>1
    <3> QED BY <1>3, <2>1, <3>1, <3>2
  <2>3. \A k \in 1..Len(readCh'[x]) : readCh'[x][k] = NthChunk(x, Len(got'[x]) + k)
    <3> SUFFICES ASSUME NEW k \in 1..Len(readCh'[x])
                 PROVE  readCh'[x][k] = NthChunk(x, Len(got'[x]) + k)
      OBVIOUS
    <3>1. readCh'[x][k] = NthChunk(x, Len(got[x]) + (k + 1))
      BY <1>3, <2>1
    <3>2. Len(got[x]) + (k + 1) = Len(got'[x]) + k
      <4>0. k \in Nat
        OBVIOUS
      <4>1. Len(got[x]) + (k + 1) = (Len(got[x]) + 1) + k
        BY <1>1, <4>0, Sums, Zenon
      <4> QED BY <1>3, <4>1, Zenon
    <3> QED BY <3>1, <3>2
  <2> QED BY <1>2, <1>4, <1>5, <2>1, <2>2, <2>3 DEF Gapless
<1> QED BY <1>1, <1>2, <1>4, <1>5, <1>6, <1>7, <1>8 DEF FlowOf

\* Nothing else touches the streams of x.
LEMMA OtherFlow ==
  ASSUME FlowInv, TypeOK', [Next]_vars, NEW x \in Ends, NEW y, y = PeerEnd(x),
         ~Write(y), ~RecordWritten(y.side), ~Receive(x.side), ~(Deliver(x.side) /\ Delivering(x)), ~Read(x)
  PROVE  FlowOf(x)'
<1> DEFINE w == Way(x)
<1>0. /\ OpenInv /\ TypeOK /\ OneSide /\ y \in Ends /\ x \in End /\ y.side \in Side /\ y.side = Peer(x.side)
      /\ x.side = Peer(y.side) /\ x.side \in Side
  BY TwoEnds DEF FlowInv, OpenInv
<1>1. FlowOf(x)
  BY DEF FlowInv, Flow
<1>2. got'[x] = got[x]
  <2>1. ASSUME NEW f \in End, Read(f) PROVE got'[x] = got[x]
    BY <1>0, <2>1 DEF Read, TypeOK
  <2> QED BY <1>0, <2>1, DataMoves
<1>3. readCh'[x] = readCh[x]
  <2>1. ASSUME NEW f \in End, Read(f) PROVE readCh'[x] = readCh[x]
    BY <1>0, <2>1 DEF Read, TypeOK
  <2>2. ASSUME NEW s \in Side, Deliver(s) PROVE readCh'[x] = readCh[x]
    <3>1. reader[s].end # x
      <4>1. reader[s].at = "deliver"
        BY <2>2 DEF Deliver
      <4>2. reader[s].end.side = s
        BY <1>0, <4>1 DEF OneSide, HasEnd
      <4> QED BY <2>2, <4>1, <4>2 DEF Delivering
    <3> QED BY <1>0, <2>2, <3>1 DEF Deliver, TypeOK
  <2> QED BY <1>0, <2>1, <2>2, DataMoves
<1>4. Way(x)' = w
  BY <1>0, WireOf DEF Way
<1>5. /\ Delivering(x)' <=> Delivering(x)
      /\ Delivering(x) => reader'[x.side].data = reader[x.side].data
      /\ Closing(x)' => Closing(x)
  BY HandStays
<1>6. /\ sent'[y] = sent[y]
      /\ Due(y)' => Due(y)
      /\ Called("data", y)' <=> Called("data", y)
  BY <1>0, WritesGoOn
<1>7. Settled(y)' = Settled(y) /\ Arrived(x)' = Arrived(x)
  BY <1>2, <1>3, <1>6 DEF Settled, Arrived
<1>8. In(x)' = In(x)
  BY <1>5, <1>7 DEF In
<1>9. (Finished(y) => Finished(y)') /\ closed \subseteq closed'
  BY <1>0, FinishedStays, ClosedGrows
<1>10. Live(x)' => Complete(w, x.id, In(x), Settled(y))
  BY LiveComplete
<1>11. Gapless(x)'
  BY <1>1, <1>2, <1>3, <1>5, <1>7 DEF FlowOf, Gapless
<1> QED BY <1>1, <1>4, <1>5, <1>6, <1>7, <1>8, <1>9, <1>10, <1>11 DEF FlowOf

\* Initially nothing is on its way.
LEMMA FlowInit == OneDialer /\ Init => FlowInv
<1> SUFFICES ASSUME OneDialer, Init PROVE FlowInv
  OBVIOUS
<1>1. OpenInv
  BY OpenInit
<1>2. Refusals
  BY DEF Refusals, Init, Pending, Ends, Req, Request
<1>3. Flow
  <2> SUFFICES ASSUME NEW x \in Ends, NEW y, y = PeerEnd(x) PROVE FlowOf(x)
    BY DEF Flow
  <2>1. /\ x \in End /\ y \in End /\ x.side \in Side /\ y.side \in Side /\ Peer(x.side) \in Side
        /\ Req("data", y) \in Request /\ Req("data", y).end = y
    BY <1>1, TwoEnds, PeerType
  <2>2. /\ got[x] = <<>> /\ readCh[x] = <<>> /\ Way(x) = <<>> /\ sent[y] = 0
        /\ reader[x.side].at = "read" /\ call[Req("data", y)] = "idle"
    BY <2>1 DEF Init, Way
  <2>3. Len(<<>>) = 0 /\ 1..0 = {}
    OBVIOUS
  <2>4. Arrived(x) = 0 /\ In(x) = 0 /\ ~Delivering(x) /\ ~Closing(x)
    <3>1. Arrived(x) = 0 + 0 /\ ~Delivering(x) /\ ~Closing(x)
      BY <2>2, <2>3, Zenon DEF Arrived, Delivering, Closing
    <3> QED BY <3>1 DEF In
  <2>5. Gapless(x)
    BY <2>2, <2>3, <2>4 DEF Gapless
  <2>6. ~Due(y) /\ Settled(y) = 0
    <3>1. ~Unsent(Req("data", y))
      BY <2>1, <2>3 DEF Init, Unsent, InHand, Holds
    <3> QED BY <2>2, <3>1 DEF Due, Settled, Called
  <2>7. /\ Numbered(<<>>, x.id, 0, 0) /\ Complete(<<>>, x.id, 0, 0)
        /\ Trailing(<<>>, x.id, 0) /\ ~Closes(<<>>, x.id)
    BY <2>3 DEF Numbered, Complete, Trailing, Closes
  <2> QED BY <2>2, <2>4, <2>5, <2>6, <2>7 DEF FlowOf
<1> QED BY <1>1, <1>2, <1>3 DEF FlowInv

\* The invariant is preserved.
LEMMA FlowStep == FlowInv /\ TypeInv' /\ [Next]_vars => FlowInv'
<1> SUFFICES ASSUME FlowInv, TypeInv', [Next]_vars PROVE FlowInv'
  OBVIOUS
<1>1. OpenInv' /\ TypeOK'
  BY OpenStep DEF FlowInv, TypeInv
<1>2. Refusals'
  BY RefusalsStep DEF FlowInv
<1>3. Flow'
  <2> SUFFICES ASSUME NEW x \in Ends, NEW y, y = PeerEnd(x) PROVE FlowOf(x)'
    BY DEF Flow
  <2> QED BY <1>1, WriteFlow, RecordFlow, ReceiveFlow, DeliverFlow, ReadFlow, OtherFlow
<1> QED BY <1>1, <1>2, <1>3 DEF FlowInv

\* With one dialing side, the streams of every connection stay in order.
LEMMA FlowInvHolds ==
  ASSUME OneDialer
  PROVE  Spec => []FlowInv
<1>1. Init => FlowInv
  BY FlowInit
<1> QED BY <1>1, FlowStep, TypeInvHolds, PTL DEF Spec

\* What has been read was written, in order.
LEMMA ReadInOrder ==
  ASSUME FlowInv
  PROVE  InOrder
<1>0. OpenInv /\ TypeOK /\ OneSide
  BY DEF FlowInv, OpenInv
<1> SUFFICES ASSUME NEW e \in End
             PROVE  /\ Len(got[e]) <= sent[PeerEnd(e)]
                    /\ \A k \in 1..Len(got[e]) : got[e][k] = [origin |-> e.origin, id |-> e.id, n |-> k]
  BY DEF InOrder
<1>1. CASE e \in Ends
  <2> DEFINE y == PeerEnd(e)
  <2>1. /\ In(e) \in Nat /\ Arrived(e) \in Nat /\ Len(got[e]) \in Nat /\ Len(readCh[e]) \in Nat
        /\ sent[y] \in Nat /\ FlowOf(e)
    BY <1>0, <1>1, Counts DEF FlowInv, Flow
  <2>2. In(e) <= sent[y]
    BY <2>1 DEF FlowOf, Numbered
  <2>3. Len(got[e]) <= In(e)
    <3>1. \A a, b \in Nat : a <= a + b /\ a <= (a + b) + 1
      OBVIOUS
    <3> QED BY <2>1, <3>1, Zenon DEF In, Arrived
  <2>4. Len(got[e]) <= sent[y]
    BY <2>1, <2>2, <2>3
  <2> QED BY <2>1, <2>4 DEF FlowOf, Gapless, NthChunk
<1>2. CASE e \notin Ends
  <2>1. got[e] = <<>> /\ PeerEnd(e) \in End
    BY <1>0, <1>2, PeerType DEF OneSide, PeerEnd, End
  <2>2. sent[PeerEnd(e)] \in Nat
    BY <1>0, <2>1, BoundsAssumption DEF TypeOK
  <2> QED BY <2>1, <2>2
<1> QED BY <1>1, <1>2

\* When one side dials, each application reads from a connection exactly what the other end
\* has written to it, from the first chunk on and with none missing or twice (Read, Write).
THEOREM StreamsInOrder ==
  ASSUME OneDialer
  PROVE  Spec => []InOrder
<1>1. FlowInv => InOrder
  BY ReadInOrder
<1> QED BY <1>1, FlowInvHolds, PTL

\* CLOSE does not overtake the data of its connection but for the last chunk: when one side
\* dials, remoteClose finds all of it delivered (handleClose after handleData).
THEOREM CloseAfterData ==
  ASSUME OneDialer
  PROVE  Spec => ClosedAfterData
<1>1. ASSUME FlowInv, [Next]_vars, NEW e \in closed' \ closed, sess[e.side] = "open",
             call'[Req("close", e)] = "idle"
      PROVE  Len(got[e]) + Len(readCh[e]) >= sent[PeerEnd(e)] - 1
  <2>0. OpenInv /\ TypeOK /\ OneSide
    BY <1>1 DEF FlowInv, OpenInv
  <2>1. CASE Close(e)
    BY <1>1, <2>0, <2>1, ReqType DEF Close, Submit, TypeOK
  <2>2. ASSUME NEW s \in Side, RemoteClose(s), reader[s].at = "remoteClose", e = reader[s].end
        PROVE  Len(got[e]) + Len(readCh[e]) >= sent[PeerEnd(e)] - 1
    <3>1. e \in Ends /\ e.side = s
      BY <2>0, <2>2 DEF OneSide, HasEnd
    <3>2. Closing(e)
      BY <2>2, <3>1 DEF Closing
    <3>3. Arrived(e) >= sent[PeerEnd(e)] - 1
      BY <1>1, <3>1, <3>2 DEF FlowInv, Flow, FlowOf
    <3> QED BY <3>3 DEF Arrived
  <2>3. ASSUME NEW s \in Side, CloseAll(s), sess[s] = "stopped", e.side = s PROVE FALSE
    BY <1>1, <2>3
  <2> QED BY <1>1, <2>0, <2>1, <2>2, <2>3, ClosedGrows
<1>2. FlowInv /\ [Next]_vars =>
        [\A e \in closed' \ closed :
           sess[e.side] = "open" /\ call'[Req("close", e)] = "idle"
             => Len(got[e]) + Len(readCh[e]) >= sent[PeerEnd(e)] - 1]_vars
  BY <1>1
<1> QED BY <1>2, FlowInvHolds, PTL DEF Spec, ClosedAfterData

-----------------------------------------------------------------------------
(* The sessions implement the streams: the state ConnStreams sees, and the *)
(* step of it that each step of the sessions is.                           *)

Lengths == [e \in End |-> Len(got[e])]
Left == {e \in End : Called("close", e)}
Refused == {e \in End : Called("reject", e)}
Up == [s \in Side |-> ~Stopped(s)]

\* No connection is closed or refused by its application.
SameCauses == \A e \in End : /\ Called("close", e)' <=> Called("close", e)
                             /\ Called("reject", e)' <=> Called("reject", e)

\* A call that goes on or returns is neither a new Close nor a new refusal.
LEMMA CallsKeepCauses ==
  ASSUME TypeOK, NEW r \in Request,
         Enqueue(r) \/ (call[r] \in Pending /\ \E ok : Return(r, ok))
  PROVE  SameCauses
<1>1. call[r] # "idle" /\ \A q \in Request : q # r => call'[q] = call[q]
  BY DEF Enqueue, Return, Pending, TypeOK
<1>2. r.op # "data" => call'[r] # "idle"
  BY DEF Enqueue, Return, TypeOK
<1> SUFFICES ASSUME NEW e \in End, NEW op \in {"close", "reject"}
             PROVE  Called(op, e)' <=> Called(op, e)
  BY DEF SameCauses
<1>3. Req(op, e) \in Request /\ Req(op, e).op = op
  BY ReqType
<1> QED BY <1>1, <1>2, <1>3 DEF Called

\* A new call begins.
LEMMA SubmitCauses ==
  ASSUME TypeOK, NEW r \in Request, Submit(r)
  PROVE  /\ r.op \notin {"close", "reject"} => SameCauses
         /\ r.op = "close" => Left' = Left \cup {r.end} /\ Refused' = Refused
         /\ r.op = "reject" => Left' = Left /\ Refused' = Refused \cup {r.end}
<1>1. \A q \in Request : call'[q] # "idle" <=> (q = r \/ call[q] # "idle")
  BY DEF Submit, TypeOK
<1>2. \A e \in End, op \in {"close", "reject"} :
         Called(op, e)' <=> ((r.op = op /\ r.end = e) \/ Called(op, e))
  <2>1. \A e \in End, op \in {"close", "reject"} :
           Req(op, e) \in Request /\ (Req(op, e) = r <=> r.op = op /\ r.end = e)
    BY ReqType, Parts
  <2> QED BY <1>1, <2>1 DEF Called
<1>3. r.end \in End
  BY RequestType
<1> QED BY <1>2, <1>3 DEF SameCauses, Left, Refused

\* Nothing of what ConnStreams sees changes.
LEMMA Stutters ==
  ASSUME UNCHANGED <<sent, got, closed, sess>>, SameCauses
  PROVE  UNCHANGED Streams!vars
<1>1. Lengths' = Lengths /\ Up' = Up
  BY DEF Lengths, Up, Stopped
<1>2. Left' = Left /\ Refused' = Refused
  BY DEF SameCauses, Left, Refused
<1> QED BY <1>1, <1>2 DEF Streams!vars, Lengths, Left, Refused, Up, Called

\* A Write of an application.
LEMMA WriteMaps ==
  ASSUME FlowInv, NEW e \in End, Write(e)
  PROVE  Streams!Next
<1>0. TypeOK /\ Req("data", e) \in Request /\ Req("data", e).op = "data"
  BY ReqType DEF FlowInv, OpenInv
<1>1. /\ e \notin closed /\ sent' = [sent EXCEPT ![e] = @ + 1]
      /\ UNCHANGED <<got, closed, sess>> /\ Submit(Req("data", e))
  BY DEF Write, shutVars
<1>2. SameCauses
  BY <1>0, <1>1, SubmitCauses
<1>3. Lengths' = Lengths /\ Up' = Up /\ Left' = Left /\ Refused' = Refused
  BY <1>1, <1>2 DEF Lengths, Up, Stopped, SameCauses, Left, Refused
<1>4. Streams!Write(e)
  BY <1>1, <1>3 DEF Streams!Write, Lengths, Left, Refused, Up, Called
<1> QED BY <1>4 DEF Streams!Next

\* A Read that takes data: what it takes had been written.
LEMMA ReadMaps ==
  ASSUME FlowInv, TypeOK', [Next]_vars, NEW e \in End, Read(e)
  PROVE  Streams!Next
<1>0. TypeOK /\ OpenInv /\ OneSide
  BY DEF FlowInv, OpenInv
<1>1. /\ readCh[e] # <<>> /\ got' = [got EXCEPT ![e] = Append(got[e], Head(readCh[e]))]
      /\ UNCHANGED <<sent, closed, sess, call>>
  BY <1>0 DEF Read, shutVars, TypeOK
<1>2. e \in Ends
  BY <1>0, <1>1 DEF OneSide
<1>3. Lengths[e] < sent[PeerEnd(e)]
  <2>1. /\ In(e) \in Nat /\ Len(got[e]) \in Nat /\ Len(readCh[e]) \in Nat /\ readCh[e] \in Seq(Payload)
        /\ sent[PeerEnd(e)] \in Nat /\ FlowOf(e)
    BY <1>0, <1>2, Counts DEF FlowInv, Flow
  <2>2. In(e) <= sent[PeerEnd(e)]
    BY <2>1 DEF FlowOf, Numbered
  <2>3. Len(readCh[e]) >= 1
    BY <1>1, <2>1
  <2>4. Len(got[e]) < In(e)
    <3>1. \A a, b \in Nat : b >= 1 => a < a + b /\ a < (a + b) + 1
      OBVIOUS
    <3> QED BY <2>1, <2>3, <3>1, Zenon DEF In, Arrived
  <2>5. Len(got[e]) < sent[PeerEnd(e)]
    BY <2>1, <2>2, <2>4
  <2> QED BY <2>5 DEF Lengths
<1>4. Lengths' = [Lengths EXCEPT ![e] = @ + 1]
  <2>1. \A f \in End : got'[f] = IF f = e THEN Append(got[e], Head(readCh[e])) ELSE got[f]
    BY <1>0, <1>1 DEF TypeOK
  <2>2. Len(got'[e]) = Len(got[e]) + 1
    <3>1. got[e] \in Seq(Payload) /\ Head(readCh[e]) \in Payload
      BY <1>0, <1>1 DEF TypeOK
    <3>2. Len(Append(got[e], Head(readCh[e]))) = Len(got[e]) + 1
      BY <3>1, AppendProperties, ZenonT(40)
    <3> QED BY <2>1, <3>2, Zenon
  <2> QED BY <2>1, <2>2 DEF Lengths
<1>5. Left' = Left /\ Refused' = Refused /\ Up' = Up
  BY <1>1 DEF Left, Refused, Up, Called, Stopped
<1>6. Streams!Read(e)
  BY <1>1, <1>3, <1>4, <1>5 DEF Streams!Read, Lengths, Left, Refused, Up, Called
<1> QED BY <1>6 DEF Streams!Next

\* A conn.Close of an application, and a refusal of handleOpen.
LEMMA CloseMaps ==
  ASSUME FlowInv
  PROVE  /\ \A e \in End : Close(e) => Streams!Next
         /\ \A s \in Side : RefuseOpen(s) => Streams!Next
<1>0. TypeOK
  BY DEF FlowInv, OpenInv
<1>1. ASSUME NEW e \in End, Close(e) PROVE Streams!Next
  <2>1. /\ e \notin closed /\ closed' = closed \cup {e} /\ UNCHANGED <<sent, got, sess>>
        /\ Submit(Req("close", e))
    BY <1>1 DEF Close, shutVars, ioVars
  <2>2. Left' = Left \cup {e} /\ Refused' = Refused
    BY <1>0, <2>1, SubmitCauses, ReqType
  <2>3. Lengths' = Lengths /\ Up' = Up
    BY <2>1 DEF Lengths, Up, Stopped
  <2>4. Streams!Close(e)
    BY <2>1, <2>2, <2>3 DEF Streams!Close, Lengths, Left, Refused, Up, Called
  <2> QED BY <2>4 DEF Streams!Next
<1>2. ASSUME NEW s \in Side, RefuseOpen(s) PROVE Streams!Next
  <2>1. PICK e \in End : e = reader[s].end
    BY <1>0, <1>2, ReaderType DEF RefuseOpen
  <2>2. UNCHANGED <<sent, got, closed, sess>> /\ Submit(Req("reject", e))
    BY <1>2, <2>1 DEF RefuseOpen, shutVars, ioVars
  <2>3. Left' = Left /\ Refused' = Refused \cup {e}
    BY <1>0, <2>2, SubmitCauses, ReqType
  <2>4. Lengths' = Lengths /\ Up' = Up
    BY <2>2 DEF Lengths, Up, Stopped
  <2>5. Streams!Refuse(e)
    BY <2>2, <2>3, <2>4 DEF Streams!Refuse, Lengths, Left, Refused, Up, Called
  <2> QED BY <2>5 DEF Streams!Next
<1> QED BY <1>1, <1>2

\* A CLOSE that is handled: the other end was closed or refused.
LEMMA RemoteCloseMaps ==
  ASSUME FlowInv, NEW s \in Side, RemoteClose(s)
  PROVE  Streams!Next
<1>0. TypeOK /\ OpenInv /\ OneSide
  BY DEF FlowInv, OpenInv
<1>1. PICK e \in Ends : e = reader[s].end /\ e.side = s
  BY <1>0 DEF RemoteClose, OneSide, HasEnd
<1>2. Finished(PeerEnd(e))
  BY <1>1 DEF RemoteClose, FlowInv, Flow, FlowOf, Closing
<1>3. PeerEnd(e) \in Left \cup Refused
  BY <1>0, <1>1, <1>2, TwoEnds DEF Finished, Left, Refused
<1>4. closed' = closed \cup {e} /\ UNCHANGED <<sent, got, sess, call>>
  BY <1>1 DEF RemoteClose, shutVars, ioVars
<1>5. Left' = Left /\ Refused' = Refused /\ Lengths' = Lengths /\ Up' = Up
  BY <1>4 DEF Left, Refused, Called, Lengths, Up, Stopped
<1>6. Streams!PeerCloses(e)
  BY <1>3, <1>4, <1>5 DEF Streams!PeerCloses, Lengths, Left, Refused, Up, Called
<1> QED BY <1>1, <1>6 DEF Streams!Next, Ends

\* A session goes down, and closeAll.
LEMMA DownMaps ==
  ASSUME FlowInv, NEW s \in Side
  PROVE  ReadFails(s) \/ SessionClose(s) \/ CloseAll(s) => Streams!Next
<1>0. TypeOK
  BY DEF FlowInv, OpenInv
<1>1. ASSUME ReadFails(s) \/ SessionClose(s) PROVE Streams!Next
  <2>1. Stop(s) /\ UNCHANGED <<sent, got, closed, call>>
    BY <1>1 DEF ReadFails, SessionClose, ioVars
  <2>2. Up' = [Up EXCEPT ![s] = FALSE]
    BY <1>0, <2>1 DEF Stop, Up, Stopped, TypeOK
  <2>3. Left' = Left /\ Refused' = Refused /\ Lengths' = Lengths
    BY <2>1 DEF Left, Refused, Called, Lengths
  <2>4. Streams!GoDown(s)
    BY <2>1, <2>2, <2>3 DEF Streams!GoDown, Lengths, Left, Refused, Up, Called
  <2> QED BY <2>4 DEF Streams!Next
<1>2. ASSUME CloseAll(s) PROVE Streams!Next
  <2>1. /\ Stopped(s) /\ closed \subseteq closed' /\ (\A e \in closed' \ closed : e.side = s)
        /\ UNCHANGED <<sent, got, call>> /\ sess' = [sess EXCEPT ![s] = "closed"]
    BY <1>2 DEF CloseAll, Stopped, ioVars
  <2>2. Up' = Up /\ ~Up[s]
    BY <1>0, <2>1 DEF Up, Stopped, TypeOK
  <2>3. Left' = Left /\ Refused' = Refused /\ Lengths' = Lengths
    BY <2>1 DEF Left, Refused, Called, Lengths
  <2>4. Streams!DownCloses(s)
    BY <2>1, <2>2, <2>3 DEF Streams!DownCloses, Lengths, Left, Refused, Up, Called
  <2> QED BY <2>4 DEF Streams!Next
<1> QED BY <1>1, <1>2

\* Every step of the sessions is a step of the streams, or leaves them as they are.
LEMMA StreamsStep ==
  ASSUME FlowInv, TypeOK', [Next]_vars
  PROVE  [Streams!Next]_(Streams!vars)
<1>0. TypeOK
  BY DEF FlowInv, OpenInv
<1>1. ASSUME UNCHANGED <<sent, got, closed, sess, call>> PROVE UNCHANGED Streams!vars
  <2>1. SameCauses
    BY <1>1 DEF SameCauses, Called
  <2> QED BY <1>1, <2>1, Stutters
<1>2. ASSUME NEW r \in Request, Enqueue(r) \/ GiveUp(r) PROVE UNCHANGED Streams!vars
  <2>1. SameCauses
    BY <1>0, <1>2, CallsKeepCauses DEF GiveUp
  <2>2. UNCHANGED <<sent, got, closed, sess>>
    BY <1>2 DEF Enqueue, GiveUp, shutVars, ioVars
  <2> QED BY <2>1, <2>2, Stutters
<1>3. ASSUME NEW s \in Side, RecordWritten(s) \/ WriteFails(s) PROVE UNCHANGED Streams!vars
  <2>1. /\ writer[s].req \in Request /\ UNCHANGED <<sent, got, closed, sess>>
        /\ \/ UNCHANGED call
           \/ call[writer[s].req] \in Pending /\ \E ok : Return(writer[s].req, ok)
    BY <1>0, <1>3, Answered DEF shutVars, ioVars, Pending
  <2>2. SameCauses
    BY <1>0, <2>1, CallsKeepCauses DEF SameCauses, Called
  <2> QED BY <2>1, <2>2, Stutters
<1>4. ASSUME NEW s \in Side, HandStep(s) PROVE UNCHANGED Streams!vars
  BY <1>1, <1>4, HandFrame
<1>5. ASSUME NEW s \in Side, Receive(s) \/ OfferOpen(s) \/ Deliver(s)
      PROVE  UNCHANGED Streams!vars
  <2>1. UNCHANGED <<sent, got, closed, sess, call>>
    BY <1>5 DEF Receive, OfferOpen, Deliver, shutVars, ioVars
  <2> QED BY <1>1, <2>1
<1>6. ASSUME NEW s \in Side, DialCheck(s) \/ Accept(s) PROVE UNCHANGED Streams!vars
  <2>1. UNCHANGED <<sent, got, closed, sess, call>>
    BY <1>6 DEF DialCheck, Accept, shutVars, ioVars
  <2> QED BY <1>1, <2>1
<1>7. ASSUME NEW s \in Side, DialOpen(s) PROVE UNCHANGED Streams!vars
  <2>1. PICK e \in End : e = TheEnd(s, s, nextID[s] + 1)
    BY <1>7, DialIsFresh, TwoSides, Parts DEF FlowInv, OpenInv, OneSide
  <2>2. Submit(Req("open", e)) /\ UNCHANGED <<sent, got, closed, sess>>
    BY <1>7, <2>1 DEF DialOpen, shutVars, ioVars
  <2>3. SameCauses
    BY <1>0, <2>2, SubmitCauses, ReqType
  <2> QED BY <2>2, <2>3, Stutters
<1>8. ASSUME QuietStep PROVE (UNCHANGED Streams!vars) \/ \E s \in Side : ReadFails(s) \/ SessionClose(s)
  <2>1. ASSUME NEW s \in Side, ReadLoopEnds(s) \/ TransportClose(s) \/ SessionCloseReturns(s)
        PROVE  UNCHANGED Streams!vars
    <3>1. UNCHANGED <<sent, got, closed, sess, call>>
      BY <2>1 DEF ReadLoopEnds, TransportClose, SessionCloseReturns, shutVars, ioVars
    <3> QED BY <1>1, <3>1
  <2>2. ASSUME LinkBreaks \/ UNCHANGED vars PROVE UNCHANGED Streams!vars
    <3>1. UNCHANGED <<sent, got, closed, sess, call>>
      BY <2>2 DEF LinkBreaks, vars, shutVars, ioVars
    <3> QED BY <1>1, <3>1
  <2> QED BY <1>8, <2>1, <2>2 DEF QuietStep
<1> QED BY <1>0, <1>2, <1>3, <1>4, <1>5, <1>6, <1>7, <1>8, Steps, WriteMaps, ReadMaps, CloseMaps,
          RemoteCloseMaps, DownMaps

\* When one side dials, the sessions implement ConnStreams: nothing is read that was not written,
\* no Write enters a closed end, and no end is closed without a cause.
THEOREM SessionsAreStreams ==
  ASSUME OneDialer
  PROVE  Spec => ImplementsStreams
<1>1. Init => Streams!Init
  <2> SUFFICES ASSUME Init PROVE Streams!Init
    OBVIOUS
  <2>1. Len(<<>>) = 0
    OBVIOUS
  <2>2. Lengths = [e \in End |-> 0] /\ sent = [e \in End |-> 0] /\ closed = {}
    BY <2>1 DEF Init, Lengths
  <2>3. Left = {} /\ Refused = {}
    BY ReqType DEF Init, Left, Refused, Called
  <2>4. Up = [s \in Side |-> TRUE]
    BY DEF Init, Up, Stopped
  <2> QED BY <2>2, <2>3, <2>4 DEF Streams!Init, Lengths, Left, Refused, Up, Called
<1>2. FlowInv /\ TypeInv' /\ [Next]_vars => [Streams!Next]_(Streams!vars)
  BY StreamsStep DEF TypeInv
<1> QED BY <1>1, <1>2, FlowInvHolds, TypeInvHolds, PTL DEF Spec, ImplementsStreams, Streams!Spec
=============================================================================
