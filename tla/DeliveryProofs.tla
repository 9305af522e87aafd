--------------------------- MODULE DeliveryProofs ---------------------------
(***************************************************************************)
(* What reaches a client: the frames on their way to it, its Replica and   *)
(* its subscription, related by an inductive invariant from which follow   *)
(* that a Replica is never a mixture (Consistent), that no Delta looks     *)
(* like a Gap without a loss (NoFalseGap), that a loss shows (LossShows)   *)
(* and that a client owed nothing is up to date (Quiescent); that the data *)
(* plane implements Mirror; and how long a change may wait for a client    *)
(* (NeverStarved), for any number of clients and any pace of output and    *)
(* Acks.                                                                   *)
(***************************************************************************)
EXTENDS FanoutProofs, FanoutPromise, SlowClient

(* The frames that are numbered, and those on their way to c               *)
Sequenced(f) == f.kind \in {"Snapshot", "Delta", "Exited"}

On(q) == {q[i] : i \in {j \in 1..Len(q) : Sequenced(q[j])}}

Flight(c) == On(chan[c]) \cup On(outbox[c])

(* A frame that says which frame it follows                                *)
Chained(f) == f.kind = "Delta" \/ (f.kind = "Exited" /\ f.since # 0)

(* c is attached and its next frame may be a Delta                         *)
Following(c) == c \in attached /\ ~subs[c].snap

-----------------------------------------------------------------------------
(* The invariant, for one client.                                          *)

(* Frames are sent in the order they were built                            *)
Increasing(q) ==
  \A i, j \in 1..Len(q) : i < j /\ Sequenced(q[i]) /\ Sequenced(q[j]) => q[i].seq < q[j].seq

InOrder(c) ==
  /\ Increasing(chan[c])
  /\ Increasing(outbox[c])
  /\ \A f \in On(chan[c]), g \in On(outbox[c]) : f.seq < g.seq

(* The last frame built has the highest number, the Replica's the lowest   *)
Numbered(c) ==
  /\ replica[c].seq <= seq /\ tail[c].seq <= seq
  /\ reaping => replica[c].seq < seq /\ tail[c].seq < seq /\ outbox[c] = <<>>
  /\ tail[c].seq # 0 => replica[c].seq <= tail[c].seq
  /\ \A f \in Flight(c) : replica[c].seq < f.seq /\ f.since < f.seq /\ f.seq <= tail[c].seq

(* The Publisher chains on the last frame built                            *)
SentIsTail(c) ==
  Following(c) => tail[c].seq # 0 /\ subs[c].sent = IF reaping THEN seq ELSE tail[c].seq

(* A connection that is gone has no subscription and no input              *)
GoneIsGone(c) == ~up[c] => c \notin attached /\ inq[c] = <<>>

(* Who has been told of the exit, or is about to be                        *)
Says(f) == f.kind = "Exited" \/ f.exited

ExitKnown(c) ==
  /\ (\E f \in Flight(c) : Says(f)) \/ replica[c].exited => exited /\ ~reaping
  /\ reaping => exited

(* f, applied to state v as a client in mode m sees it, gives the state f   *)
(* was built from; the exit event changes nothing                          *)
Fits(f, v, m) ==
  /\ f.mode = m
  /\ f.kind = "Exited" => f.version = v
  /\ f.kind = "Delta" =>
       LET was == Seen(v, m)
           is  == Seen(f.version, f.mode)
       IN  /\ \A r \in Rows \ f.dirty : was.grid[r] = is.grid[r]
           /\ ~f.hasTitle => was.title = is.title

Linked(c) ==
  /\ \A f \in Flight(c) :
       f.seq = tail[c].seq =>
         /\ f.version = tail[c].version /\ f.mode = tail[c].mode
         /\ f.kind = "Exited" /\ f.since = 0 => ~Following(c)
  /\ \A f, g \in Flight(c) :
       Chained(f) /\ g.seq = f.since =>
         Fits(f, g.version, g.mode) /\ ~(g.kind = "Exited" /\ g.since = 0)
  /\ \A f \in Flight(c) :
       Chained(f) /\ ~torn[c] /\ replica[c].seq = f.since => Fits(f, shown[c].version, shown[c].mode)
  /\ ~torn[c] /\ tail[c].seq # 0 /\ replica[c].seq = tail[c].seq =>
       \/ shown[c].version = tail[c].version /\ shown[c].mode = tail[c].mode
       \/ exited /\ ~reaping /\ ~Following(c)

(* While the connection has lost nothing, each frame follows the one before *)
(* it, and the first the one the Replica applied                           *)
Unbroken(c) ==
  ~lost[c] =>
    /\ \A f \in Flight(c) :
         Chained(f) => /\ replica[c].seq = f.since \/ \E g \in Flight(c) : g.seq = f.since
                       /\ \A g \in Flight(c) : g.seq <= f.since \/ f.seq <= g.seq
    /\ tail[c].seq # 0 => replica[c].seq = tail[c].seq \/ \E f \in Flight(c) : f.seq = tail[c].seq

(* A Snapshot, or the exit event, says last what the Replica will know     *)
Marks(f) == f.kind \in {"Snapshot", "Exited"}

UpToDate(c) ==
  ~lost[c] /\ Following(c) =>
    /\ torn[c] => \E f \in Flight(c) : f.kind = "Snapshot"
    /\ \A f \in Flight(c) :
         Marks(f) => \/ Says(f) = (exited /\ ~reaping)
                     \/ \E g \in Flight(c) : Marks(g) /\ f.seq < g.seq
    /\ \/ replica[c].exited = (exited /\ ~reaping)
       \/ \E f \in Flight(c) : Marks(f)

(* Only what was applied is acknowledged                                   *)
AcksApplied(c) ==
  /\ \A i \in 1..Len(inq[c]) : inq[c][i].kind = "Ack" => inq[c][i].seq <= replica[c].seq
  /\ c \in attached => \/ subs[c].sent = 0
                       \/ subs[c].acked < subs[c].sent
                       \/ subs[c].sent <= replica[c].seq

Shows(c) == ~torn[c] => replica[c].view = Seen(shown[c].version, shown[c].mode)

Delivery(c) ==
  /\ InOrder(c) /\ Numbered(c) /\ SentIsTail(c) /\ GoneIsGone(c) /\ ExitKnown(c)
  /\ Linked(c) /\ Unbroken(c) /\ UpToDate(c) /\ AcksApplied(c) /\ Shows(c)

-----------------------------------------------------------------------------
(* Queues.                                                                 *)

LEMMA OnElement ==
  ASSUME NEW q, NEW f
  PROVE  f \in On(q) <=> \E i \in 1..Len(q) : f = q[i] /\ Sequenced(q[i])
BY DEF On

LEMMA OnAppend ==
  ASSUME NEW S, NEW q \in Seq(S), NEW f \in S
  PROVE  On(Append(q, f)) = On(q) \cup (IF Sequenced(f) THEN {f} ELSE {})
<1> DEFINE p == Append(q, f)
<1>1. /\ Len(p) = Len(q) + 1 /\ Len(q) \in Nat
      /\ \A i \in 1..Len(q) : p[i] = q[i]
      /\ p[Len(q) + 1] = f
  OBVIOUS
<1> HIDE DEF p
<1>2. ASSUME NEW g \in On(p) PROVE g \in On(q) \cup (IF Sequenced(f) THEN {f} ELSE {})
  <2>1. PICK i \in 1..Len(p) : g = p[i] /\ Sequenced(p[i])
    BY OnElement
  <2>2. CASE i \in 1..Len(q)
    BY <1>1, <2>1, <2>2, OnElement
  <2>3. CASE i = Len(q) + 1
    BY <1>1, <2>1, <2>3
  <2> QED BY <1>1, <2>2, <2>3
<1>3. ASSUME NEW g \in On(q) PROVE g \in On(p)
  <2>1. PICK i \in 1..Len(q) : g = q[i] /\ Sequenced(q[i])
    BY OnElement
  <2>2. i \in 1..Len(p) /\ p[i] = q[i]
    BY <1>1
  <2> QED BY <2>1, <2>2, OnElement
<1>4. Sequenced(f) => f \in On(p)
  <2>1. Len(q) + 1 \in 1..Len(p)
    BY <1>1
  <2> QED BY <1>1, <2>1, OnElement
<1> QED BY <1>2, <1>3, <1>4 DEF p

LEMMA OnTail ==
  ASSUME NEW S, NEW q \in Seq(S), q # <<>>
  PROVE  On(q) = On(Tail(q)) \cup (IF Sequenced(Head(q)) THEN {Head(q)} ELSE {})
<1> DEFINE p == Tail(q)
<1>1. /\ Len(q) \in Nat \ {0} /\ Len(p) = Len(q) - 1 /\ Head(q) = q[1]
  BY HeadTailProperties
<1>2. \A i \in 1..Len(p) : i + 1 \in 1..Len(q) /\ p[i] = q[i + 1]
  BY TailElement
<1> HIDE DEF p
<1>3. ASSUME NEW g \in On(q) PROVE g \in On(p) \cup (IF Sequenced(Head(q)) THEN {Head(q)} ELSE {})
  <2>1. PICK i \in 1..Len(q) : g = q[i] /\ Sequenced(q[i])
    BY OnElement
  <2>2. CASE i = 1
    BY <1>1, <2>1, <2>2
  <2>3. CASE i # 1
    <3>1. i - 1 \in 1..Len(p) /\ (i - 1) + 1 = i
      BY <1>1, <2>3
    <3>2. p[i - 1] = q[i]
      BY <1>2, <3>1
    <3> QED BY <2>1, <3>1, <3>2, OnElement
  <2> QED BY <2>2, <2>3
<1>4. ASSUME NEW g \in On(p) PROVE g \in On(q)
  <2>1. PICK i \in 1..Len(p) : g = p[i] /\ Sequenced(p[i])
    BY OnElement
  <2> QED BY <1>2, <2>1, OnElement
<1>5. Sequenced(Head(q)) => Head(q) \in On(q)
  <2>1. 1 \in 1..Len(q)
    BY <1>1
  <2> QED BY <1>1, <2>1, OnElement
<1> QED BY <1>3, <1>4, <1>5 DEF p

LEMMA IncreasingAppend ==
  ASSUME NEW q \in Seq(Frame), NEW f \in Frame, Increasing(q),
         Sequenced(f) => \A g \in On(q) : g.seq < f.seq
  PROVE  Increasing(Append(q, f))
<1> DEFINE p == Append(q, f)
<1>1. /\ Len(p) = Len(q) + 1 /\ Len(q) \in Nat
      /\ \A i \in 1..Len(q) : p[i] = q[i]
      /\ p[Len(q) + 1] = f
  OBVIOUS
<1> HIDE DEF p
<1>2. SUFFICES ASSUME NEW i \in 1..Len(p), NEW j \in 1..Len(p), i < j, Sequenced(p[i]), Sequenced(p[j])
               PROVE  p[i].seq < p[j].seq
  BY DEF Increasing, p
<1>3. i \in 1..Len(q) /\ p[i] = q[i]
  BY <1>1, <1>2
<1>4. CASE j \in 1..Len(q)
  BY <1>1, <1>2, <1>3, <1>4 DEF Increasing
<1>5. CASE j = Len(q) + 1
  <2>1. q[i] \in On(q)
    BY <1>2, <1>3, OnElement
  <2> QED BY <1>1, <1>2, <1>3, <1>5, <2>1
<1> QED BY <1>1, <1>2, <1>4, <1>5

LEMMA IncreasingTail ==
  ASSUME NEW q \in Seq(Frame), q # <<>>, Increasing(q)
  PROVE  /\ Increasing(Tail(q))
         /\ Sequenced(Head(q)) => \A g \in On(Tail(q)) : Head(q).seq < g.seq
<1> DEFINE p == Tail(q)
<1>1. /\ Len(q) \in Nat \ {0} /\ Len(p) = Len(q) - 1 /\ Head(q) = q[1]
  BY HeadTailProperties
<1>2. \A i \in 1..Len(p) : i + 1 \in 1..Len(q) /\ p[i] = q[i + 1]
  BY TailElement
<1> HIDE DEF p
<1>3. Increasing(p)
  <2>1. SUFFICES ASSUME NEW i \in 1..Len(p), NEW j \in 1..Len(p), i < j, Sequenced(p[i]), Sequenced(p[j])
                 PROVE  p[i].seq < p[j].seq
    BY DEF Increasing
  <2>2. i + 1 < j + 1
    BY <2>1
  <2> QED BY <1>2, <2>1, <2>2 DEF Increasing
<1>4. ASSUME Sequenced(Head(q)), NEW g \in On(p) PROVE Head(q).seq < g.seq
  <2>1. PICK i \in 1..Len(p) : g = p[i] /\ Sequenced(p[i])
    BY OnElement
  <2>2. 1 \in 1..Len(q) /\ 1 < i + 1
    BY <1>1
  <2> QED BY <1>1, <1>2, <1>4, <2>1, <2>2 DEF Increasing
<1> QED BY <1>3, <1>4 DEF p

LEMMA EmptyQueue == On(<<>>) = {} /\ Increasing(<<>>)
BY DEF On, Increasing

(* What is on its way is typed, and was built from a state the engine was in *)
LEMMA FlightType ==
  ASSUME TypeOK, VersionsOK, NEW c \in Clients, NEW f \in Flight(c)
  PROVE  /\ f \in Frame /\ Sequenced(f) /\ f.version \in 1..Len(log)
         /\ f.seq \in Nat /\ f.since \in Nat /\ f.mode \in Modes
<1>1. PICK q \in {chan[c], outbox[c]} : f \in On(q)
  BY DEF Flight
<1>2. q \in Seq(Frame) /\ \A i \in 1..Len(q) : q[i].version <= Len(log)
  BY <1>1 DEF TypeOK, VersionsOK
<1>3. PICK i \in 1..Len(q) : f = q[i] /\ Sequenced(q[i])
  BY <1>1, OnElement
<1>4. f \in Frame
  BY <1>2, <1>3
<1>5. Len(log) \in Nat
  BY DEF TypeOK
<1> QED BY <1>2, <1>3, <1>4, <1>5 DEF Frame
-----------------------------------------------------------------------------
(* Steps that build no frame and apply none.                               *)

(* The invariant is kept when frames are at most lost, and when a Delta is  *)
(* due only if it was                                                      *)
LEMMA NothingNew ==
  ASSUME TypeOK, NEW c \in Clients, Delivery(c),
         log' = log, exited' = exited, reaping' = reaping,
         seq' \in Nat, seq <= seq',
         reaping => seq' = seq /\ (outbox[c] = <<>> => outbox'[c] = <<>>),
         tail'[c] = tail[c], replica'[c] = replica[c],
         shown'[c] = shown[c], torn'[c] = torn[c],
         Flight(c)' \subseteq Flight(c),
         ~lost'[c] => ~lost[c] /\ Flight(c)' = Flight(c),
         Following(c)' => Following(c) /\ subs'[c].sent = subs[c].sent,
         InOrder(c)', GoneIsGone(c)', AcksApplied(c)'
  PROVE  Delivery(c)'
<1>1. Numbered(c)'
  <2>1. replica[c].seq \in Nat /\ tail[c].seq \in Nat /\ seq \in Nat
    BY DEF TypeOK
  <2> QED BY <2>1 DEF Delivery, Numbered
<1>2. SentIsTail(c)'
  BY DEF Delivery, SentIsTail
<1>3. ExitKnown(c)'
  BY DEF Delivery, ExitKnown
<1>4. Shows(c)'
  BY DEF Delivery, Shows, Seen
<1>5. ASSUME NEW f, NEW v, NEW m, Fits(f, v, m) PROVE Fits(f, v, m)'
  BY <1>5 DEF Fits, Seen
<1>6. Linked(c)'
  <2>1. \A f \in Flight(c)' :
          f.seq = tail'[c].seq =>
            /\ f.version = tail'[c].version /\ f.mode = tail'[c].mode
            /\ f.kind = "Exited" /\ f.since = 0 => ~Following(c)'
    BY DEF Delivery, Linked
  <2>2. \A f, g \in Flight(c)' :
          Chained(f) /\ g.seq = f.since =>
            Fits(f, g.version, g.mode)' /\ ~(g.kind = "Exited" /\ g.since = 0)
    BY <1>5 DEF Delivery, Linked
  <2>3. \A f \in Flight(c)' :
          Chained(f) /\ ~torn'[c] /\ replica'[c].seq = f.since
            => Fits(f, shown[c].version, shown[c].mode)'
    <3>1. SUFFICES ASSUME NEW f \in Flight(c)', Chained(f), ~torn[c], replica[c].seq = f.since
                   PROVE  Fits(f, shown[c].version, shown[c].mode)'
      OBVIOUS
    <3>2. Fits(f, shown[c].version, shown[c].mode)
      BY <3>1 DEF Delivery, Linked
    <3> QED BY <3>2 DEF Fits, Seen
  <2>4. ~torn'[c] /\ tail'[c].seq # 0 /\ replica'[c].seq = tail'[c].seq =>
          \/ shown'[c].version = tail'[c].version /\ shown'[c].mode = tail'[c].mode
          \/ exited' /\ ~reaping' /\ ~Following(c)'
    BY DEF Delivery, Linked
  <2> QED BY <2>1, <2>2, <2>3, <2>4 DEF Linked, Chained
<1>7. Unbroken(c)'
  BY DEF Delivery, Unbroken, Chained
<1>8. UpToDate(c)'
  BY DEF Delivery, UpToDate, Marks, Says
<1> QED BY <1>1, <1>2, <1>3, <1>4, <1>6, <1>7, <1>8 DEF Delivery
LEMMA SeqStays == TypeOK => seq \in Nat /\ seq <= seq
BY DEF TypeOK

LEMMA Untouched ==
  ASSUME TypeOK, NEW c \in Clients, Delivery(c),
         log' = log, exited' = exited, reaping' = reaping, seq' = seq,
         c \in attached' <=> c \in attached, subs'[c] = subs[c],
         outbox'[c] = outbox[c], chan'[c] = chan[c], inq'[c] = inq[c], up'[c] = up[c],
         replica'[c] = replica[c], tail'[c] = tail[c],
         shown'[c] = shown[c], torn'[c] = torn[c], lost'[c] = lost[c]
  PROVE  Delivery(c)'
<1>1. Flight(c)' = Flight(c)
  BY DEF Flight, On
<1>2. InOrder(c)'
  BY DEF Delivery, InOrder, On, Increasing
<1>3. GoneIsGone(c)' /\ AcksApplied(c)'
  BY DEF Delivery, GoneIsGone, AcksApplied
<1>4. Following(c)' => Following(c) /\ subs'[c].sent = subs[c].sent
  BY DEF Following
<1> QED BY <1>1, <1>2, <1>3, <1>4, SeqStays, NothingNew

(* An overflow of the style table owes everyone a Snapshot                 *)
LEMMA StylesOverflowDelivery ==
  ASSUME TypeOK, StylesOverflow, NEW c \in Clients, Delivery(c)
  PROVE  Delivery(c)'
<1> USE DEF server, wire, client, history
<1>1. Flight(c)' = Flight(c) /\ InOrder(c)'
  BY DEF StylesOverflow, Delivery, Flight, On, InOrder, Increasing
<1>2. subs[c] \in Subscription /\ attached' = attached
  BY DEF TypeOK, StylesOverflow
<1>3. subs'[c] = IF c \in attached THEN Forced(subs[c]) ELSE subs[c]
  BY DEF StylesOverflow
<1>4. /\ subs'[c].sent = subs[c].sent /\ subs'[c].acked = subs[c].acked
      /\ c \in attached => subs'[c].snap
  BY <1>2, <1>3 DEF Forced, Subscription
<1>5. ~Following(c)'
  BY <1>2, <1>4 DEF Following
<1>6. GoneIsGone(c)' /\ AcksApplied(c)'
  BY <1>4 DEF StylesOverflow, Delivery, GoneIsGone, AcksApplied
<1> QED BY <1>1, <1>5, <1>6, SeqStays, NothingNew DEF StylesOverflow

(* The next frame goes into the queue, or is lost                          *)
LEMMA PumpSendDelivery ==
  ASSUME TypeOK, NEW c \in Clients, Delivery(c), PumpSend(c)
  PROVE  Delivery(c)'
<1> USE DEF server, wire, client, history
<1> DEFINE f == Head(outbox[c])
           rest == Tail(outbox[c])
           H == IF Sequenced(f) THEN {f} ELSE {}
<1>1. /\ outbox[c] \in Seq(Frame) /\ outbox[c] # <<>> /\ chan[c] \in Seq(Frame)
      /\ f \in Frame /\ rest \in Seq(Frame)
  BY DEF PumpSend, TypeOK
<1>2. outbox'[c] = rest
  BY DEF PumpSend, TypeOK
<1>3. On(outbox[c]) = On(rest) \cup H
  BY <1>1, OnTail
<1>4. Increasing(rest) /\ (Sequenced(f) => \A g \in On(rest) : f.seq < g.seq)
  BY <1>1, IncreasingTail DEF Delivery, InOrder
<1>5. GoneIsGone(c)' /\ AcksApplied(c)' /\ (Following(c)' => Following(c) /\ subs'[c].sent = subs[c].sent)
  BY DEF PumpSend, Delivery, GoneIsGone, AcksApplied, Following
<1> HIDE DEF f, rest
<1>6. CASE Room(c)
  <2>1. chan'[c] = Append(chan[c], f) /\ lost' = lost
    BY <1>6 DEF PumpSend, Queued, TypeOK, f
  <2>2. On(chan'[c]) = On(chan[c]) \cup H
    BY <1>1, <2>1, OnAppend
  <2>3. Flight(c)' = Flight(c)
    BY <1>2, <1>3, <2>2 DEF Flight, On
  <2>4. Increasing(chan'[c])
    BY <1>1, <1>3, <2>1, IncreasingAppend DEF Delivery, InOrder
  <2>5. \A g \in On(chan'[c]), h \in On(rest) : g.seq < h.seq
    BY <1>3, <1>4, <2>2 DEF Delivery, InOrder
  <2>6. InOrder(c)'
    BY <1>2, <1>4, <2>4, <2>5 DEF InOrder, Increasing, On
  <2> QED BY <1>1, <1>5, <2>1, <2>3, <2>6, SeqStays, NothingNew DEF PumpSend
<1>7. CASE ~Room(c)
  <2>1. chan' = chan /\ lost'[c]
    BY <1>7 DEF PumpSend, Queued, TypeOK
  <2>2. Flight(c)' \subseteq Flight(c)
    BY <1>2, <1>3, <2>1 DEF Flight, On
  <2>3. InOrder(c)'
    BY <1>2, <1>3, <1>4, <2>1 DEF InOrder, Increasing, On, Delivery
  <2> QED BY <1>1, <1>5, <2>1, <2>2, <2>3, SeqStays, NothingNew DEF PumpSend
<1> QED BY <1>6, <1>7
(* A subscription that is dropped is followed no more                      *)
LEMMA DisconnectSilentDelivery ==
  ASSUME TypeOK, NEW c \in Clients, Delivery(c), DisconnectSilent(c)
  PROVE  Delivery(c)'
<1> USE DEF server, wire, client, history
<1>1. Flight(c)' = Flight(c) /\ InOrder(c)'
  BY DEF DisconnectSilent, Delivery, Flight, On, InOrder, Increasing
<1>2. ~Following(c)' /\ GoneIsGone(c)' /\ AcksApplied(c)'
  BY DEF DisconnectSilent, Delivery, Following, GoneIsGone, AcksApplied
<1> QED BY <1>1, <1>2, SeqStays, NothingNew DEF DisconnectSilent

(* A notice is outside the sequence                                        *)
LEMMA NoticeQueued ==
  ASSUME TypeOK, NEW c \in Clients, Delivery(c), NEW f \in Frame, ~Sequenced(f),
         Queued(c, f), outbox' = outbox
  PROVE  Flight(c)' = Flight(c) /\ InOrder(c)' /\ (lost[c] => lost'[c])
<1>1. chan[c] \in Seq(Frame)
  BY DEF TypeOK
<1>2. chan'[c] = chan[c] \/ chan'[c] = Append(chan[c], f)
  BY DEF Queued, TypeOK
<1>3. On(chan'[c]) = On(chan[c]) /\ Increasing(chan'[c])
  <2>1. CASE chan'[c] = chan[c]
    BY <2>1 DEF Delivery, InOrder
  <2>2. CASE chan'[c] = Append(chan[c], f)
    <3>1. Increasing(chan[c])
      BY DEF Delivery, InOrder
    <3>2. On(Append(chan[c], f)) = On(chan[c])
      BY <1>1, OnAppend
    <3>3. Increasing(Append(chan[c], f))
      BY <1>1, <3>1, IncreasingAppend
    <3> QED BY <2>2, <3>2, <3>3
  <2> QED BY <1>2, <2>1, <2>2
<1>4. lost[c] => lost'[c]
  BY DEF Queued, TypeOK
<1> QED BY <1>3, <1>4 DEF Delivery, Flight, InOrder, On, Increasing

(* A request is handled: an Attach owes the client a Snapshot, a Detach     *)
(* drops its subscription, an Ack opens the window for what was applied    *)
LEMMA ServeMsgDelivery ==
  ASSUME TypeOK, SubscriptionOrder, NEW c \in Clients, Delivery(c), ServeMsg(c)
  PROVE  Delivery(c)'
<1> USE DEF server, wire, client, history
<1> DEFINE m == Head(inq[c])
           rest == Tail(inq[c])
<1>1. /\ inq[c] \in Seq(Request) /\ inq[c] # <<>> /\ m \in Request
      /\ inq'[c] = rest
  BY DEF ServeMsg, TypeOK
<1>2. \A i \in 1..Len(rest) : rest[i].kind = "Ack" => rest[i].seq <= replica[c].seq
  BY <1>1, TailElement DEF Delivery, AcksApplied
<1>3. m.kind = "Ack" => m.seq <= replica[c].seq
  <2>1. 1 \in 1..Len(inq[c]) /\ m = inq[c][1]
    BY <1>1
  <2> QED BY <2>1 DEF Delivery, AcksApplied
<1>4. m.seq \in Nat /\ m.mode \in Modes /\ replica[c].seq \in Nat
  <2>1. replica[c].seq \in Nat
    BY DEF TypeOK
  <2> QED BY <1>1, <2>1 DEF Request, Modes
<1> HIDE DEF m, rest
<1>5. up' = up /\ replica' = replica /\ outbox' = outbox
  BY DEF ServeMsg
<1>6. up[c]
  BY <1>1 DEF Delivery, GoneIsGone
<1>7. CASE OnAttach(c, m.mode)
  <2>1. Flight(c)' = Flight(c) /\ InOrder(c)'
    BY <1>5, <1>7 DEF OnAttach, Delivery, Flight, On, InOrder, Increasing
  <2>2. subs'[c] = IF c \in attached THEN Resynced(subs[c], m.mode) ELSE NewSubscription(m.mode)
    BY <1>7 DEF OnAttach, TypeOK
  <2>3. subs[c] \in Subscription
    BY DEF TypeOK
  <2>4. /\ subs'[c].snap
        /\ c \in attached => subs'[c].sent = subs[c].sent /\ subs'[c].acked = subs[c].acked
        /\ c \notin attached => subs'[c].sent = 0
    BY <2>2, <2>3 DEF Resynced, Cleared, NewSubscription, Subscription
  <2>5. ~Following(c)'
    BY <2>4 DEF Following
  <2>6. GoneIsGone(c)' /\ AcksApplied(c)'
    BY <1>1, <1>2, <1>5, <1>6, <2>4 DEF Delivery, GoneIsGone, AcksApplied
  <2> QED BY <1>7, <2>1, <2>5, <2>6, SeqStays, NothingNew DEF ServeMsg, OnAttach
<1>8. CASE OnDetach(c)
  <2> DEFINE f == Notice(IF c \in attached THEN "Detached" ELSE "Error")
  <2>1. f \in Frame /\ ~Sequenced(f)
    BY NoticeType DEF Notice, Sequenced
  <2>2. Queued(c, f) /\ attached' = attached \ {c}
    BY <1>8 DEF OnDetach
  <2> HIDE DEF f
  <2>3. Flight(c)' = Flight(c) /\ InOrder(c)' /\ (lost[c] => lost'[c])
    BY <1>5, <2>1, <2>2, NoticeQueued
  <2>4. ~Following(c)' /\ GoneIsGone(c)' /\ AcksApplied(c)'
    BY <1>1, <1>2, <1>5, <1>6, <2>2 DEF Following, GoneIsGone, AcksApplied
  <2> QED BY <2>3, <2>4, SeqStays, NothingNew DEF ServeMsg
<1>9. CASE m.kind = "Ack" /\ OnAck(c, m.seq)
  <2>1. Flight(c)' = Flight(c) /\ InOrder(c)'
    BY <1>5, <1>9 DEF OnAck, Delivery, Flight, On, InOrder, Increasing
  <2>2. subs'[c] = IF c \in attached THEN Acked(subs[c], m.seq) ELSE subs[c]
    BY <1>9 DEF OnAck, TypeOK
  <2>3. subs[c] \in Subscription /\ attached' = attached
    BY <1>9 DEF TypeOK, OnAck
  <2>4. subs'[c].sent = subs[c].sent /\ subs'[c].snap = subs[c].snap
    BY <2>2, <2>3 DEF Acked, Subscription
  <2>5. c \in attached => \/ subs'[c].acked = subs[c].acked
                          \/ subs'[c].acked < subs'[c].sent
                          \/ subs'[c].sent <= m.seq
    BY <1>4, <2>2, <2>3 DEF Acked, Subscription
  <2>6. subs[c].sent \in Nat /\ subs'[c].acked \in Nat
    BY <1>4, <2>2, <2>3, AckedType DEF Subscription, TypeOK
  <2>7. AcksApplied(c)'
    <3>1. c \in attached' => \/ subs'[c].sent = 0
                             \/ subs'[c].acked < subs'[c].sent
                             \/ subs'[c].sent <= replica[c].seq
      BY <1>3, <1>4, <1>9, <2>3, <2>4, <2>5, <2>6 DEF Delivery, AcksApplied
    <3> QED BY <1>1, <1>2, <1>5, <3>1 DEF AcksApplied
  <2>8. GoneIsGone(c)' /\ (Following(c)' => Following(c))
    BY <1>1, <1>5, <1>6, <2>3, <2>4 DEF GoneIsGone, Following
  <2> QED BY <1>9, <2>1, <2>4, <2>7, <2>8, SeqStays, NothingNew DEF ServeMsg, OnAck
<1> QED BY <1>7, <1>8, <1>9 DEF ServeMsg, m

(* The connection ends, in order or not                                    *)
LEMMA ServeCloseDelivery ==
  ASSUME TypeOK, NEW c \in Clients, Delivery(c), ServeClose(c)
  PROVE  Delivery(c)'
<1> USE DEF server, wire, client, history
<1>1. Flight(c)' = Flight(c) /\ InOrder(c)'
  BY DEF ServeClose, Delivery, Flight, On, InOrder, Increasing
<1>2. c \notin attached' /\ inq'[c] = <<>>
  BY DEF ServeClose, Unregistered, TypeOK
<1>3. ~Following(c)' /\ GoneIsGone(c)' /\ AcksApplied(c)'
  BY <1>2 DEF Following, GoneIsGone, AcksApplied
<1> QED BY <1>1, <1>3, SeqStays, NothingNew DEF ServeClose

LEMMA ConnDropDelivery ==
  ASSUME TypeOK, NEW c \in Clients, Delivery(c), ConnDrop(c)
  PROVE  Delivery(c)'
<1> USE DEF server, wire, client, history
<1>1. c \notin attached' /\ inq'[c] = <<>> /\ chan'[c] = <<>> /\ outbox' = outbox /\ lost'[c]
  BY DEF ConnDrop, Unregistered, TypeOK
<1>2. On(chan'[c]) = {} /\ Increasing(chan'[c])
  BY <1>1, EmptyQueue
<1>3. Flight(c)' \subseteq Flight(c) /\ InOrder(c)'
  BY <1>1, <1>2 DEF Delivery, Flight, On, InOrder, Increasing
<1>4. ~Following(c)' /\ GoneIsGone(c)' /\ AcksApplied(c)'
  BY <1>1 DEF Following, GoneIsGone, AcksApplied
<1> QED BY <1>1, <1>3, <1>4, SeqStays, NothingNew DEF ConnDrop

(* What a client sends other than an Ack of what it applied                *)
LEMMA SentKeepsAcks ==
  ASSUME TypeOK, NEW c \in Clients, Delivery(c), NEW m \in Request, Sent(c, m),
         replica'[c].seq \in Nat, replica[c].seq <= replica'[c].seq,
         m.kind = "Ack" => m.seq <= replica'[c].seq
  PROVE  /\ \A i \in 1..Len(inq'[c]) : inq'[c][i].kind = "Ack" => inq'[c][i].seq <= replica'[c].seq
         /\ ~up[c] => inq'[c] = inq[c]
<1>1. /\ inq[c] \in Seq(Request) /\ replica[c].seq \in Nat
      /\ \A i \in 1..Len(inq[c]) : inq[c][i] \in Request
  BY DEF TypeOK
<1>2. \A i \in 1..Len(inq[c]) : inq[c][i].kind = "Ack" => inq[c][i].seq <= replica'[c].seq
  <2>1. ASSUME NEW i \in 1..Len(inq[c]), inq[c][i].kind = "Ack" PROVE inq[c][i].seq <= replica'[c].seq
    <3>1. inq[c][i].seq \in Nat
      BY <1>1 DEF Request
    <3> QED BY <1>1, <2>1, <3>1 DEF Delivery, AcksApplied
  <2> QED BY <2>1
<1>3. inq'[c] = IF up[c] THEN Append(inq[c], m) ELSE inq[c]
  BY DEF Sent, TypeOK
<1> QED BY <1>1, <1>2, <1>3

LEMMA ClientCallDelivery ==
  ASSUME TypeOK, NEW c \in Clients, Delivery(c),
         ClientDetach(c) \/ \E m \in Modes : ClientAttach(c, m)
  PROVE  Delivery(c)'
<1> USE DEF server, wire, client, history
<1>1. PICK m \in Request : Sent(c, m) /\ m.kind # "Ack"
  BY MsgType DEF ClientDetach, ClientAttach, AttachMsg, DetachMsg
<1>2. /\ attached' = attached /\ subs' = subs /\ up' = up /\ replica' = replica
      /\ chan' = chan /\ outbox' = outbox /\ lost' = lost
  BY DEF ClientDetach, ClientAttach
<1>3. replica[c].seq \in Nat
  BY DEF TypeOK
<1>4. GoneIsGone(c)' /\ AcksApplied(c)'
  BY <1>1, <1>2, <1>3, SentKeepsAcks DEF Delivery, GoneIsGone, AcksApplied
<1>5. Flight(c)' = Flight(c) /\ InOrder(c)' /\ (Following(c)' => Following(c))
  BY <1>2 DEF Delivery, Flight, On, InOrder, Increasing, Following
<1> QED BY <1>2, <1>4, <1>5, SeqStays, NothingNew DEF ClientDetach, ClientAttach
-----------------------------------------------------------------------------
(* Steps that change what frames are built from, or build them.            *)

(* Output that arrives changes no state the engine has been in, and no      *)
(* number                                                                  *)
LEMMA FeedDelivery ==
  ASSUME FanoutAssumption, TypeOK, VersionsOK, NEW k \in Chunks, Feed(k),
         NEW c \in Clients, Delivery(c)
  PROVE  Delivery(c)'
<1> USE DEF server, wire, client, history
<1> DEFINE w == Written(Surface, k, Len(log))
<1>1. k \in Chunk /\ subs[c] \in Subscription
  BY DEF TypeOK, FanoutAssumption
<1>2. log \in Seq(View) /\ Surface \in View /\ Len(log) \in Nat /\ w \in View
  BY <1>1, WrittenType DEF TypeOK, Surface
<1>3. log' = Append(log, w)
  BY DEF Feed
<1> HIDE DEF w
<1>4. \A v \in 1..Len(log), m \in Modes : Seen(v, m)' = Seen(v, m)
  BY <1>2, <1>3, SeenStable
<1>5. /\ exited' = exited /\ seq' = seq /\ attached' = attached /\ reaping' = reaping
      /\ outbox' = outbox /\ chan' = chan /\ inq' = inq /\ up' = up
      /\ replica' = replica /\ tail' = tail /\ shown' = shown /\ torn' = torn /\ lost' = lost
  BY DEF Feed
<1>6. Flight(c)' = Flight(c) /\ InOrder(c)'
  BY <1>5 DEF Delivery, Flight, On, InOrder, Increasing
<1>7. /\ subs'[c].snap = subs[c].snap /\ subs'[c].sent = subs[c].sent
      /\ subs'[c].acked = subs[c].acked
  <2>1. subs'[c] = IF c \in attached THEN Damaged(subs[c], k) ELSE subs[c]
    BY DEF Feed
  <2> QED BY <1>1, <2>1 DEF Damaged, Subscription
<1>8. Following(c)' = Following(c)
  BY <1>5, <1>7 DEF Following
<1>9. shown[c].version \in 1..Len(log) /\ shown[c].mode \in Modes
  <2>1. shown[c] \in [version: Nat \ {0}, mode: Modes] /\ shown[c].version <= Len(log)
    BY DEF TypeOK, VersionsOK
  <2> QED BY <1>2, <2>1
<1>10. ASSUME NEW f \in Flight(c), NEW v \in 1..Len(log), NEW m \in Modes
       PROVE  Fits(f, v, m)' = Fits(f, v, m)
  <2>1. f.version \in 1..Len(log) /\ f.mode \in Modes
    BY FlightType
  <2> QED BY <1>4, <2>1 DEF Fits
<1>11. Linked(c)'
  <2>1. \A f \in Flight(c)' :
          f.seq = tail'[c].seq =>
            /\ f.version = tail'[c].version /\ f.mode = tail'[c].mode
            /\ f.kind = "Exited" /\ f.since = 0 => ~Following(c)'
    BY <1>5, <1>6, <1>8 DEF Delivery, Linked
  <2>2. ASSUME NEW f \in Flight(c)', NEW g \in Flight(c)', Chained(f), g.seq = f.since
        PROVE  Fits(f, g.version, g.mode)' /\ ~(g.kind = "Exited" /\ g.since = 0)
    <3>1. g.version \in 1..Len(log) /\ g.mode \in Modes
      BY <1>6, FlightType
    <3> QED BY <1>6, <1>10, <2>2, <3>1 DEF Delivery, Linked
  <2>3. ASSUME NEW f \in Flight(c)', Chained(f), ~torn[c], replica[c].seq = f.since
        PROVE  Fits(f, shown[c].version, shown[c].mode)'
    <3>1. Fits(f, shown[c].version, shown[c].mode)
      BY <1>6, <2>3 DEF Delivery, Linked
    <3>2. f.version \in 1..Len(log) /\ f.mode \in Modes
      BY <1>6, FlightType
    <3> QED BY <1>4, <1>5, <1>9, <3>1, <3>2 DEF Fits
  <2>4. ~torn'[c] /\ tail'[c].seq # 0 /\ replica'[c].seq = tail'[c].seq =>
          \/ shown'[c].version = tail'[c].version /\ shown'[c].mode = tail'[c].mode
          \/ exited' /\ ~reaping' /\ ~Following(c)'
    BY <1>5, <1>8 DEF Delivery, Linked
  <2>5. \A f \in Flight(c)' :
          Chained(f) /\ ~torn'[c] /\ replica'[c].seq = f.since
            => Fits(f, shown[c].version, shown[c].mode)'
    BY <1>5, <2>3
  <2> QED BY <2>1, <2>2, <2>4, <2>5 DEF Linked, Chained
<1>12. Shows(c)'
  BY <1>4, <1>5, <1>9 DEF Delivery, Shows
<1>13. Numbered(c)' /\ SentIsTail(c)' /\ GoneIsGone(c)' /\ ExitKnown(c)'
  BY <1>5, <1>6, <1>7, <1>8 DEF Delivery, Numbered, SentIsTail, GoneIsGone, ExitKnown, Says
<1>14. Unbroken(c)' /\ UpToDate(c)'
  BY <1>5, <1>6, <1>8 DEF Delivery, Unbroken, UpToDate, Chained, Marks, Says
<1>15. AcksApplied(c)'
  BY <1>5, <1>7 DEF Delivery, AcksApplied
<1> QED BY <1>6, <1>11, <1>12, <1>13, <1>14, <1>15 DEF Delivery

(* The exit is noted: every subscription is ahead of its last frame by the  *)
(* exit event it has not been sent                                         *)
LEMMA ReapPollDelivery ==
  ASSUME TypeOK, VersionsOK, SubscriptionOrder, ReapPoll, NEW c \in Clients, Delivery(c)
  PROVE  Delivery(c)'
<1> USE DEF server, wire, client, history
<1>1. /\ seq' = seq + 1 /\ ~exited /\ exited' /\ ~reaping /\ reaping'
      /\ log' = log /\ attached' = attached
      /\ outbox' = outbox /\ chan' = chan /\ inq' = inq /\ up' = up /\ outbox[c] = <<>>
      /\ replica' = replica /\ tail' = tail /\ shown' = shown /\ torn' = torn /\ lost' = lost
  BY DEF ReapPoll, PumpIdle
<1>2. Flight(c)' = Flight(c) /\ InOrder(c)'
  BY <1>1 DEF Delivery, Flight, On, InOrder, Increasing
<1>3. seq \in Nat /\ subs[c] \in Subscription /\ replica[c].seq \in Nat /\ tail[c].seq \in Nat
  BY DEF TypeOK
<1>4. c \in attached =>
        /\ subs'[c].snap = subs[c].snap /\ subs'[c].acked = subs[c].acked
        /\ subs'[c].sent = seq + 1 /\ subs[c].acked <= seq /\ subs[c].acked \in Nat
  <2>1. ASSUME c \in attached
        PROVE  /\ subs[c].acked <= subs[c].sent /\ subs[c].sent <= seq
               /\ subs'[c] = EventNoted(subs[c], seq + 1)
               /\ subs[c].acked \in Nat /\ subs[c].sent \in Nat
    BY <1>3, <2>1 DEF SubscriptionOrder, ReapPoll, Subscription
  <2>2. ASSUME c \in attached
        PROVE  /\ subs'[c].snap = subs[c].snap /\ subs'[c].acked = subs[c].acked
               /\ subs'[c].sent = IF subs[c].sent < seq + 1 THEN seq + 1 ELSE subs[c].sent
    BY <1>3, <2>1, <2>2 DEF EventNoted, Subscription
  <2> QED BY <1>3, <2>1, <2>2
<1>5. Following(c)' = Following(c)
  BY <1>1, <1>4 DEF Following
<1>6. \A f \in Flight(c) : ~Says(f) /\ f.seq \in Nat
  BY <1>1, FlightType DEF Delivery, ExitKnown
<1>7. Numbered(c)'
  BY <1>1, <1>2, <1>3, <1>6 DEF Delivery, Numbered
<1>8. SentIsTail(c)'
  BY <1>1, <1>4, <1>5 DEF Delivery, SentIsTail, Following
<1>9. ExitKnown(c)'
  BY <1>1, <1>2, <1>6 DEF Delivery, ExitKnown, Says
<1>10. ASSUME NEW f, NEW v, NEW m PROVE Fits(f, v, m)' = Fits(f, v, m)
  BY <1>1 DEF Fits, Seen
<1>11. Linked(c)'
  <2>1. \A f \in Flight(c)' :
          Chained(f) /\ ~torn'[c] /\ replica'[c].seq = f.since
            => Fits(f, shown[c].version, shown[c].mode)'
    <3>1. ASSUME NEW f \in Flight(c), Chained(f), ~torn[c], replica[c].seq = f.since
          PROVE  Fits(f, shown[c].version, shown[c].mode)'
      <4>1. Fits(f, shown[c].version, shown[c].mode)
        BY <3>1 DEF Delivery, Linked
      <4> QED BY <1>1, <4>1 DEF Fits, Seen
    <3> QED BY <1>1, <1>2, <3>1
  <2> QED BY <1>1, <1>2, <1>5, <1>10, <2>1 DEF Delivery, Linked, Chained
<1>12. Unbroken(c)' /\ UpToDate(c)'
  BY <1>1, <1>2, <1>5 DEF Delivery, Unbroken, UpToDate, Chained, Marks, Says
<1>13. Shows(c)' /\ GoneIsGone(c)'
  BY <1>1 DEF Delivery, Shows, Seen, GoneIsGone
<1>14. AcksApplied(c)'
  BY <1>1, <1>3, <1>4 DEF Delivery, AcksApplied
<1> QED BY <1>2, <1>7, <1>8, <1>9, <1>11, <1>12, <1>13, <1>14 DEF Delivery

(* A new connection starts with nothing on its way and no subscription     *)
LEMMA ReconnectDelivery ==
  ASSUME TypeOK, NEW c \in Clients, Delivery(c), Reconnect(c)
  PROVE  Delivery(c)'
<1> USE DEF server, wire, client, history
<1>1. /\ seq' = seq /\ exited' = exited /\ reaping' = reaping
      /\ log' = log /\ attached' = attached
      /\ outbox' = outbox /\ chan' = chan /\ chan[c] = <<>> /\ outbox[c] = <<>>
      /\ replica' = replica /\ shown' = shown /\ torn' = torn /\ ~up[c]
  BY DEF Reconnect
<1>2. tail'[c].seq = 0 /\ up'[c]
  BY DEF Reconnect, TypeOK
<1>3. Flight(c)' = {} /\ InOrder(c)'
  BY <1>1, EmptyQueue DEF Flight, InOrder, On, Increasing
<1>4. c \notin attached' /\ ~Following(c)'
  BY <1>1 DEF Delivery, GoneIsGone, Following
<1>5. \A i \in 1..Len(inq'[c]) : inq'[c][i].kind = "Attach"
  <2>1. inq'[c] = IF attachments[c] = "None" THEN <<>> ELSE <<AttachMsg(attachments[c])>>
    BY DEF Reconnect, TypeOK
  <2> QED BY <2>1 DEF AttachMsg
<1>6. seq \in Nat /\ replica[c].seq \in Nat /\ tail[c].seq \in Nat
  BY DEF TypeOK
<1>7. Numbered(c)' /\ SentIsTail(c)' /\ GoneIsGone(c)' /\ ExitKnown(c)'
  BY <1>1, <1>2, <1>3, <1>4, <1>6 DEF Delivery, Numbered, SentIsTail, GoneIsGone, ExitKnown
<1>8. Linked(c)' /\ Unbroken(c)' /\ UpToDate(c)'
  BY <1>2, <1>3, <1>4 DEF Linked, Unbroken, UpToDate
<1>9. AcksApplied(c)' /\ Shows(c)'
  BY <1>1, <1>4, <1>5 DEF Delivery, AcksApplied, Shows, Seen
<1> QED BY <1>3, <1>7, <1>8, <1>9 DEF Delivery
(* A frame that is built joins those on their way, as the last of them     *)
LEMMA ReapFanOutDelivery ==
  ASSUME TypeOK, VersionsOK, ReapFanOut, NEW c \in Clients, Delivery(c)
  PROVE  Delivery(c)'
<1> USE DEF server, wire, client, history
<1> DEFINE e == ExitedFrame(c)
<1>1. /\ seq' = seq /\ exited' = exited /\ reaping /\ ~reaping' /\ exited
      /\ log' = log /\ attached' = attached /\ subs' = subs
      /\ chan' = chan /\ inq' = inq /\ up' = up /\ outbox[c] = <<>>
      /\ replica' = replica /\ shown' = shown /\ torn' = torn /\ lost' = lost
  BY DEF ReapFanOut, Delivery, ExitKnown, Numbered
<1>2. /\ seq \in Nat /\ replica[c].seq \in Nat /\ tail[c].seq \in Nat
      /\ tail[c] \in [seq: Nat, version: Nat \ {0}, mode: Modes]
      /\ \A f \in Flight(c) : f.seq \in Nat /\ f.since \in Nat /\ ~Says(f) /\ f.kind # "Exited"
  BY <1>1, FlightType DEF TypeOK, Delivery, ExitKnown, Says
<1>3. /\ replica[c].seq < seq /\ tail[c].seq < seq
      /\ \A f \in Flight(c) : f.since < f.seq /\ f.seq <= tail[c].seq /\ f.seq < seq
  BY <1>1, <1>2 DEF Delivery, Numbered
<1>4. ASSUME NEW f, NEW v, NEW m PROVE Fits(f, v, m)' = Fits(f, v, m)
  BY <1>1 DEF Fits, Seen
<1>5. Shows(c)' /\ GoneIsGone(c)' /\ AcksApplied(c)'
  BY <1>1 DEF Delivery, Shows, Seen, GoneIsGone, AcksApplied
<1>6. CASE c \notin attached
  <2>1. tail'[c] = tail[c] /\ outbox'[c] = outbox[c]
    BY <1>6 DEF ReapFanOut
  <2>2. Flight(c)' = Flight(c) /\ InOrder(c)'
    BY <1>1, <2>1 DEF Delivery, Flight, On, InOrder, Increasing
  <2>3. ~Following(c)' /\ ~Following(c)
    BY <1>1, <1>6 DEF Following
  <2>4. Numbered(c)' /\ SentIsTail(c)' /\ ExitKnown(c)'
    BY <1>1, <2>1, <2>2, <2>3 DEF Delivery, Numbered, SentIsTail, ExitKnown, Says
  <2>5. Linked(c)'
    <3>1. ASSUME NEW f \in Flight(c), Chained(f), ~torn[c], replica[c].seq = f.since
          PROVE  Fits(f, shown[c].version, shown[c].mode)'
      <4>1. Fits(f, shown[c].version, shown[c].mode)
        BY <3>1 DEF Delivery, Linked
      <4> QED BY <1>1, <4>1 DEF Fits, Seen
    <3>2. \A f \in Flight(c)' : Chained(f) /\ ~torn'[c] /\ replica'[c].seq = f.since
            => Fits(f, shown[c].version, shown[c].mode)'
      BY <1>1, <2>2, <3>1
    <3> QED BY <1>1, <1>4, <2>1, <2>2, <2>3, <3>2 DEF Delivery, Linked, Chained
  <2>6. Unbroken(c)' /\ UpToDate(c)'
    BY <1>1, <2>1, <2>2, <2>3 DEF Delivery, Unbroken, UpToDate, Chained
  <2> QED BY <1>5, <2>2, <2>4, <2>5, <2>6 DEF Delivery
<1>7. CASE c \in attached
  <2>1. /\ e \in Frame /\ e.kind = "Exited" /\ e.seq = seq /\ e.since = tail[c].seq
        /\ e.version = tail[c].version /\ e.mode = tail[c].mode
    BY ExitedFrameType DEF ExitedFrame
  <2>2. outbox'[c] = <<e>> /\ tail'[c] = [tail[c] EXCEPT !.seq = seq]
    <3>1. outbox'[c] = Append(outbox[c], ExitedFrame(c))
      BY <1>7 DEF ReapFanOut
    <3>2. tail'[c] = [tail[c] EXCEPT !.seq = seq]
      BY <1>7 DEF ReapFanOut
    <3> HIDE DEF e
    <3>3. Append(<<>>, e) = <<e>>
      OBVIOUS
    <3> QED BY <1>1, <3>1, <3>2, <3>3 DEF e
  <2> HIDE DEF e
  <2>3. tail'[c].seq = seq /\ tail'[c].version = tail[c].version /\ tail'[c].mode = tail[c].mode
    BY <1>2, <2>2
  <2>4. On(outbox'[c]) = {e} /\ Increasing(outbox'[c])
    BY <2>1, <2>2 DEF On, Increasing, Sequenced
  <2>5. Flight(c) = On(chan[c]) /\ Flight(c)' = Flight(c) \cup {e}
    <3>1. On(outbox[c]) = {}
      BY <1>1, EmptyQueue
    <3>2. Flight(c)' = On(chan[c]) \cup On(outbox'[c])
      BY <1>1 DEF Flight, On
    <3> QED BY <2>4, <3>1, <3>2 DEF Flight
  <2>6. InOrder(c)'
    <3>1. \A f \in On(chan'[c]), g \in On(outbox'[c]) : f.seq < g.seq
      BY <1>1, <1>3, <2>1, <2>4, <2>5
    <3> QED BY <1>1, <2>4, <3>1 DEF Delivery, InOrder, On, Increasing
  <2>7. Following(c)' = Following(c) /\ (Following(c) => tail[c].seq # 0 /\ subs[c].sent = seq)
    BY <1>1 DEF Delivery, SentIsTail, Following
  <2>8. Numbered(c)'
    <3>1. \A f \in Flight(c)' : replica[c].seq < f.seq /\ f.since < f.seq /\ f.seq <= seq
      BY <1>2, <1>3, <2>1, <2>5 DEF Delivery, Numbered
    <3> QED BY <1>1, <1>2, <1>3, <2>3, <3>1 DEF Numbered
  <2>9. SentIsTail(c)' /\ ExitKnown(c)'
    BY <1>1, <1>2, <1>3, <2>3, <2>7 DEF SentIsTail, ExitKnown
  <2>10. Linked(c)'
    <3>1. \A f \in Flight(c)' :
            f.seq = tail'[c].seq =>
              /\ f.version = tail'[c].version /\ f.mode = tail'[c].mode
              /\ f.kind = "Exited" /\ f.since = 0 => ~Following(c)'
      BY <1>2, <1>3, <2>1, <2>3, <2>5, <2>7
    <3>2. ASSUME NEW f \in Flight(c)', NEW g \in Flight(c)', Chained(f), g.seq = f.since
          PROVE  Fits(f, g.version, g.mode) /\ ~(g.kind = "Exited" /\ g.since = 0)
      <4>1. CASE f \in Flight(c)
        <5>1. g \in Flight(c)
          BY <1>2, <1>3, <2>1, <2>5, <3>2, <4>1
        <5> QED BY <3>2, <4>1, <5>1 DEF Delivery, Linked
      <4>2. CASE f = e
        <5>1. g \in Flight(c) /\ g.seq = tail[c].seq
          BY <1>2, <1>3, <2>1, <2>5, <3>2, <4>2
        <5>2. g.version = f.version /\ g.mode = f.mode /\ g.kind # "Exited"
          BY <1>2, <2>1, <4>2, <5>1 DEF Delivery, Linked
        <5> QED BY <2>1, <4>2, <5>2 DEF Fits
      <4> QED BY <2>5, <4>1, <4>2
    <3>3. ASSUME NEW f \in Flight(c)', Chained(f), ~torn[c], replica[c].seq = f.since
          PROVE  Fits(f, shown[c].version, shown[c].mode)'
      <4>1. Fits(f, shown[c].version, shown[c].mode)
        <5>1. CASE f \in Flight(c)
          BY <3>3, <5>1 DEF Delivery, Linked
        <5>2. CASE f = e
          <6>1. tail[c].seq # 0 /\ replica[c].seq = tail[c].seq
            BY <2>1, <3>3, <5>2 DEF Chained
          <6>2. shown[c].version = tail[c].version /\ shown[c].mode = tail[c].mode
            BY <1>1, <3>3, <6>1 DEF Delivery, Linked
          <6> QED BY <2>1, <5>2, <6>2 DEF Fits
        <5> QED BY <2>5, <5>1, <5>2
      <4> QED BY <1>1, <4>1 DEF Fits, Seen
    <3>4. \A f \in Flight(c)' : Chained(f) /\ ~torn'[c] /\ replica'[c].seq = f.since
            => Fits(f, shown[c].version, shown[c].mode)'
      BY <1>1, <3>3
    <3>5. replica'[c].seq # tail'[c].seq
      BY <1>1, <1>2, <1>3, <2>3
    <3>6. \A f, g \in Flight(c)' :
            Chained(f) /\ g.seq = f.since =>
              Fits(f, g.version, g.mode)' /\ ~(g.kind = "Exited" /\ g.since = 0)
      BY <1>4, <3>2
    <3> QED BY <3>1, <3>4, <3>5, <3>6 DEF Linked, Chained
  <2>11. Unbroken(c)'
    <3>1. SUFFICES ASSUME ~lost[c] PROVE Unbroken(c)'
      BY <1>1 DEF Unbroken
    <3>2. \/ tail[c].seq = 0
          \/ replica[c].seq = tail[c].seq \/ \E g \in Flight(c) : g.seq = tail[c].seq
      BY <3>1 DEF Delivery, Unbroken
    <3>3. ASSUME NEW f \in Flight(c)', Chained(f)
          PROVE  /\ replica[c].seq = f.since \/ \E g \in Flight(c)' : g.seq = f.since
                 /\ \A g \in Flight(c)' : g.seq <= f.since \/ f.seq <= g.seq
      <4>1. CASE f \in Flight(c)
        <5>1. /\ replica[c].seq = f.since \/ \E g \in Flight(c) : g.seq = f.since
              /\ \A g \in Flight(c) : g.seq <= f.since \/ f.seq <= g.seq
          BY <3>1, <3>3, <4>1 DEF Delivery, Unbroken
        <5> QED BY <1>2, <1>3, <2>1, <2>5, <4>1, <5>1
      <4>2. CASE f = e
        <5>1. f.since = tail[c].seq /\ f.since # 0
          BY <2>1, <3>3, <4>2 DEF Chained
        <5> QED BY <1>2, <1>3, <2>1, <2>5, <3>2, <4>2, <5>1
      <4> QED BY <2>5, <4>1, <4>2
    <3> QED BY <1>1, <2>1, <2>3, <2>5, <3>3 DEF Unbroken, Chained
  <2>12. UpToDate(c)'
    <3>1. SUFFICES ASSUME ~lost[c], Following(c) PROVE UpToDate(c)'
      BY <1>1, <2>7 DEF UpToDate
    <3>2. torn'[c] => \E f \in Flight(c)' : f.kind = "Snapshot"
      BY <1>1, <2>5, <3>1 DEF Delivery, UpToDate
    <3>3. Says(e) /\ Marks(e) /\ e \in Flight(c)'
      BY <2>1, <2>5 DEF Says, Marks
    <3>4. \A f \in Flight(c)' : f = e \/ f.seq < e.seq
      BY <1>3, <2>1, <2>5
    <3> QED BY <1>1, <3>2, <3>3, <3>4 DEF UpToDate, Marks, Says
  <2> QED BY <1>5, <2>6, <2>8, <2>9, <2>10, <2>11, <2>12 DEF Delivery
<1> QED BY <1>6, <1>7
(* What a flush puts on its way to one client                              *)
LEMMA BuiltOn ==
  ASSUME TypeOK, NEW s \in Subscription, NEW n \in Nat
  PROVE  /\ Increasing(BuiltFrames(s, n))
         /\ Emission(s) \notin {"Snapshot", "Delta"} => On(BuiltFrames(s, n)) = {}
         /\ Emission(s) \in {"Snapshot", "Delta"} =>
              \E f \in Frame :
                /\ On(BuiltFrames(s, n)) = {f}
                /\ f.kind = Emission(s) /\ f.seq = n /\ f.since = s.sent
                /\ f.dirty = IF s.mode = "Active" /\ Emission(s) = "Delta" THEN s.dirty ELSE {}
                /\ f.hasTitle = s.title /\ f.version = Len(log) /\ f.mode = s.mode
                /\ f.exited = exited
<1> DEFINE bell == IF Emission(s) # "None" /\ s.bell THEN <<Notice("Bell")>> ELSE <<>>
           f == [kind     |-> Emission(s),
                 seq      |-> n,
                 since    |-> s.sent,
                 dirty    |-> IF s.mode = "Active" /\ Emission(s) = "Delta" THEN s.dirty ELSE {},
                 hasTitle |-> s.title,
                 version  |-> Len(log),
                 mode     |-> s.mode,
                 exited   |-> exited]
           b == Notice("Bell")
<1>1. bell \in {<<>>, <<b>>}
  OBVIOUS
<1>2. b \in Frame /\ ~Sequenced(b)
  BY NoticeType DEF Notice, Sequenced
<1>3. BuiltFrames(s, n) = IF Emission(s) \notin {"Snapshot", "Delta"} THEN bell
                          ELSE Append(bell, f)
  BY DEF BuiltFrames
<1>4. ASSUME Emission(s) \in {"Snapshot", "Delta"} PROVE f \in Frame /\ Sequenced(f)
  <2>1. Len(log) \in Nat \ {0}
    BY DEF TypeOK
  <2>2. f \in Frame
    BY <1>4, <2>1 DEF TypeOK, Frame, Subscription
  <2> QED BY <1>4, <2>2 DEF Sequenced
<1>5. /\ f.kind = Emission(s) /\ f.seq = n /\ f.since = s.sent
      /\ f.dirty = IF s.mode = "Active" /\ Emission(s) = "Delta" THEN s.dirty ELSE {}
      /\ f.hasTitle = s.title /\ f.version = Len(log) /\ f.mode = s.mode
      /\ f.exited = exited
  OBVIOUS
<1> HIDE DEF bell, f, b
<1>6. bell \in Seq(Frame) /\ On(bell) = {} /\ Increasing(bell)
  <2>1. On(<<b>>) = {} /\ Increasing(<<b>>)
    BY <1>2 DEF On, Increasing
  <2>2. CASE bell = <<>>
    BY <2>2, EmptyQueue
  <2>3. CASE bell = <<b>>
    BY <1>2, <2>1, <2>3
  <2> QED BY <1>1, <2>2, <2>3
<1>7. ASSUME Emission(s) \in {"Snapshot", "Delta"}
      PROVE  On(Append(bell, f)) = {f} /\ Increasing(Append(bell, f))
  BY <1>4, <1>6, <1>7, OnAppend, IncreasingAppend
<1> QED BY <1>3, <1>4, <1>5, <1>6, <1>7

(* The numbers a flush leaves in a subscription                            *)
LEMMA FlushedNumbers ==
  ASSUME NEW s \in Subscription, NEW n \in Nat
  PROVE  LET t == Flushed(s, n) IN
         /\ Emission(s) \notin {"Snapshot", "Delta"} =>
              t.snap = s.snap /\ t.sent = s.sent /\ t.acked = s.acked
         /\ Emission(s) = "Snapshot" => ~t.snap /\ t.sent = n /\ t.acked = n - 1
         /\ Emission(s) = "Delta" => ~t.snap /\ ~s.snap /\ t.sent = n /\ t.acked = s.acked
<1>1. /\ HeldBack(s).snap = s.snap /\ HeldBack(s).sent = s.sent /\ HeldBack(s).acked = s.acked
      /\ ~SnapshotSent(s, n).snap /\ SnapshotSent(s, n).sent = n
      /\ SnapshotSent(s, n).acked = n - 1
      /\ DeltaSent(s, n).snap = s.snap /\ DeltaSent(s, n).sent = n
      /\ DeltaSent(s, n).acked = s.acked
  BY DEF HeldBack, SnapshotSent, DeltaSent, Cleared, Subscription
<1>2. Emission(s) \notin {"Snapshot", "Delta"} => Flushed(s, n) \in {s, HeldBack(s)}
  BY DEF Emission, Flushed
<1>3. Emission(s) = "Snapshot" => Flushed(s, n) = SnapshotSent(s, n)
  BY DEF Emission, Flushed
<1>4. Emission(s) = "Delta" => Flushed(s, n) = DeltaSent(s, n) /\ ~s.snap
  BY DEF Emission, Flushed
<1> QED BY <1>1, <1>2, <1>3, <1>4

LEMMA FlushDelivery ==
  ASSUME TypeOK, VersionsOK, SubscriptionOrder, Coherent, Flush,
         NEW c \in Clients, Delivery(c)
  PROVE  Delivery(c)'
<1> USE DEF server, wire, client, history
<1> DEFINE s == subs[c]
           n == seq + 1
<1>1. /\ seq' \in {seq, n} /\ exited' = exited /\ ~reaping /\ reaping' = reaping
      /\ log' = log /\ attached' = attached
      /\ chan' = chan /\ inq' = inq /\ up' = up /\ outbox[c] = <<>>
      /\ replica' = replica /\ shown' = shown /\ torn' = torn /\ lost' = lost
  BY DEF Flush, PumpIdle
<1>2. /\ seq \in Nat /\ n \in Nat /\ replica[c].seq \in Nat /\ tail[c].seq \in Nat
      /\ s \in Subscription /\ s.sent \in Nat /\ s.acked \in Nat
  BY DEF TypeOK, Subscription
<1>3. Flight(c) = On(chan[c])
  BY <1>1, EmptyQueue DEF Flight
<1>4. /\ replica[c].seq <= seq /\ tail[c].seq <= seq
      /\ \A f \in Flight(c) : /\ f.seq \in Nat /\ f.since \in Nat
                              /\ replica[c].seq < f.seq /\ f.since < f.seq
                              /\ f.seq <= tail[c].seq /\ f.seq < n
  BY <1>2, FlightType DEF Delivery, Numbered
<1>5. GoneIsGone(c)' /\ Shows(c)'
  BY <1>1 DEF Delivery, GoneIsGone, Shows, Seen
<1>6. ASSUME On(outbox'[c]) = {}, Increasing(outbox'[c]), tail'[c] = tail[c],
             subs'[c].snap = s.snap, subs'[c].sent = s.sent, subs'[c].acked = s.acked
      PROVE  Delivery(c)'
  <2>1. Flight(c)' = Flight(c)
    <3>1. Flight(c)' = On(chan[c]) \cup On(outbox'[c])
      BY <1>1 DEF Flight, On
    <3> QED BY <1>3, <1>6, <3>1
  <2>2. InOrder(c)'
    BY <1>1, <1>6 DEF Delivery, InOrder, On, Increasing
  <2>3. AcksApplied(c)' /\ (Following(c)' => Following(c))
    BY <1>1, <1>6 DEF Delivery, AcksApplied, Following
  <2>4. seq' \in Nat /\ seq <= seq'
    BY <1>1, <1>2
  <2> HIDE DEF s, n
  <2>5. Following(c)' => subs'[c].sent = subs[c].sent
    BY <1>6 DEF s
  <2> QED BY <1>1, <1>5, <1>6, <2>5, <2>1, <2>2, <2>3, <2>4, NothingNew
<1>7. CASE c \notin attached
  <2>1. outbox'[c] = <<>> /\ tail'[c] = tail[c] /\ subs'[c] = s
    BY <1>7 DEF Flush
  <2> QED BY <1>6, <2>1, EmptyQueue
<1>8. CASE c \in attached /\ Emission(s) \notin {"Snapshot", "Delta"}
  <2>1. outbox'[c] = BuiltFrames(s, n) /\ tail'[c] = tail[c] /\ subs'[c] = Flushed(s, n)
    BY <1>8 DEF Flush
  <2> HIDE DEF s, n
  <2>2. /\ subs'[c].snap = s.snap /\ subs'[c].sent = s.sent /\ subs'[c].acked = s.acked
    BY <1>2, <1>8, <2>1, FlushedNumbers
  <2>3. On(outbox'[c]) = {} /\ Increasing(outbox'[c])
    BY <1>2, <1>8, <2>1, BuiltOn
  <2> QED BY <1>6, <2>1, <2>2, <2>3
<1>9. CASE c \in attached /\ Emission(s) \in {"Snapshot", "Delta"}
  <2>1. /\ outbox'[c] = BuiltFrames(s, n) /\ subs'[c] = Flushed(s, n) /\ seq' = n
        /\ tail'[c] = [seq |-> n, version |-> Len(log), mode |-> s.mode]
    BY <1>9 DEF Flush
  <2>2. /\ tail'[c].seq = n /\ tail'[c].version = Len(log) /\ tail'[c].mode = s.mode
    BY <2>1
  <2>3. s.acked <= s.sent /\ s.sent <= seq
    BY <1>9 DEF SubscriptionOrder
  <2>4. Emission(s) = "Delta" =>
          Following(c) /\ s.sent = tail[c].seq /\ tail[c].seq # 0 /\ Tracks(s, tail[c])
    <3>1. Emission(s) = "Delta" => ~s.snap
      BY <1>2, FlushedNumbers
    <3> QED BY <1>1, <1>9, <3>1 DEF Delivery, SentIsTail, Following, Coherent
  <2> HIDE DEF s, n
  <2>5. PICK f \in Frame :
          /\ On(BuiltFrames(s, n)) = {f}
          /\ f.kind = Emission(s) /\ f.seq = n /\ f.since = s.sent
          /\ f.dirty = IF s.mode = "Active" /\ Emission(s) = "Delta" THEN s.dirty ELSE {}
          /\ f.hasTitle = s.title /\ f.version = Len(log) /\ f.mode = s.mode
          /\ f.exited = exited
    BY <1>2, <1>9, BuiltOn
  <2>6. /\ ~subs'[c].snap /\ subs'[c].sent = n
        /\ subs'[c].acked = IF Emission(s) = "Snapshot" THEN n - 1 ELSE s.acked
    BY <1>2, <1>9, <2>1, FlushedNumbers
  <2>7. On(outbox'[c]) = {f} /\ Increasing(outbox'[c])
    BY <1>2, <2>1, <2>5, BuiltOn
  <2>8. Flight(c)' = Flight(c) \cup {f}
    <3>1. Flight(c)' = On(chan[c]) \cup On(outbox'[c])
      BY <1>1 DEF Flight, On
    <3> QED BY <1>3, <2>7, <3>1
  <2>9. n = seq + 1
    BY DEF n
  <2>10. InOrder(c)'
    <3>1. \A g \in On(chan'[c]), h \in On(outbox'[c]) : g.seq < h.seq
      BY <1>1, <1>3, <1>4, <2>5, <2>7
    <3> QED BY <1>1, <2>7, <3>1 DEF Delivery, InOrder, On, Increasing
  <2>11. Numbered(c)'
    <3>1. \A g \in Flight(c)' : replica[c].seq < g.seq /\ g.since < g.seq /\ g.seq <= n
      BY <1>2, <1>4, <2>3, <2>5, <2>8, <2>9
    <3> QED BY <1>1, <1>2, <1>4, <2>1, <2>2, <2>9, <3>1 DEF Numbered
  <2>12. SentIsTail(c)' /\ ExitKnown(c)'
    <3>1. SentIsTail(c)'
      BY <1>1, <1>2, <2>2, <2>6, <2>9 DEF SentIsTail
    <3>2. Says(f) => exited
      BY <1>9, <2>5 DEF Says
    <3> QED BY <1>1, <2>8, <3>1, <3>2 DEF Delivery, ExitKnown, Says
  <2>13. AcksApplied(c)'
    <3>1. subs'[c].acked < subs'[c].sent
      BY <1>2, <2>3, <2>6, <2>9
    <3> QED BY <1>1, <3>1 DEF Delivery, AcksApplied
  <2>14. Linked(c)'
    <3>1. \A g \in Flight(c)' :
            g.seq = tail'[c].seq =>
              /\ g.version = tail'[c].version /\ g.mode = tail'[c].mode
              /\ g.kind = "Exited" /\ g.since = 0 => ~Following(c)'
      BY <1>2, <1>4, <1>9, <2>2, <2>5, <2>8, <2>9
    <3>2. ASSUME Chained(f) PROVE Fits(f, tail[c].version, tail[c].mode)
      <4>1. Emission(s) = "Delta"
        BY <1>9, <2>5, <3>2 DEF Chained
      <4>2. /\ tail[c].mode = s.mode
            /\ \A r \in Rows \ s.dirty : Seen(tail[c].version, tail[c].mode).grid[r] = Seen(Len(log), s.mode).grid[r]
            /\ ~s.title => Seen(tail[c].version, tail[c].mode).title = Seen(Len(log), s.mode).title
        BY <2>4, <4>1 DEF Tracks
      <4>3. ASSUME s.mode # "Active", NEW v \in 1..Len(log)
            PROVE  Seen(v, s.mode).grid = Blank.grid
        <5>1. log[v] \in View
          BY DEF TypeOK
        <5> QED BY <4>3, <5>1 DEF Seen, Stripped, View
      <4>4. tail[c].version \in 1..Len(log) /\ Len(log) \in 1..Len(log)
        <5>1. tail[c] \in [seq: Nat, version: Nat \ {0}, mode: Modes] /\ Len(log) \in Nat \ {0}
          BY DEF TypeOK
        <5> QED BY <5>1 DEF VersionsOK
      <4> QED BY <2>5, <4>1, <4>2, <4>3, <4>4 DEF Fits
    <3>3. ASSUME NEW g \in Flight(c)', NEW h \in Flight(c)', Chained(g), h.seq = g.since
          PROVE  Fits(g, h.version, h.mode) /\ ~(h.kind = "Exited" /\ h.since = 0)
      <4>1. CASE g \in Flight(c)
        <5>1. h \in Flight(c)
          BY <1>2, <1>4, <2>5, <2>8, <2>9, <3>3, <4>1
        <5> QED BY <3>3, <4>1, <5>1 DEF Delivery, Linked
      <4>2. CASE g = f
        <5>1. Following(c) /\ f.since = tail[c].seq
          BY <1>9, <2>4, <2>5, <3>3, <4>2 DEF Chained
        <5>2. h \in Flight(c)
          BY <1>2, <2>3, <2>5, <2>8, <2>9, <3>3, <4>2
        <5>3. h.version = tail[c].version /\ h.mode = tail[c].mode /\ ~(h.kind = "Exited" /\ h.since = 0)
          BY <3>3, <4>2, <5>1, <5>2 DEF Delivery, Linked
        <5> QED BY <3>2, <3>3, <4>2, <5>3
      <4> QED BY <2>8, <4>1, <4>2
    <3>4. ASSUME NEW g \in Flight(c)', Chained(g), ~torn[c], replica[c].seq = g.since
          PROVE  Fits(g, shown[c].version, shown[c].mode)
      <4>1. CASE g \in Flight(c)
        BY <3>4, <4>1 DEF Delivery, Linked
      <4>2. CASE g = f
        <5>1. Following(c) /\ f.since = tail[c].seq /\ tail[c].seq # 0
          BY <1>9, <2>4, <2>5, <3>4, <4>2 DEF Chained
        <5>2. shown[c].version = tail[c].version /\ shown[c].mode = tail[c].mode
          BY <3>4, <4>2, <5>1 DEF Delivery, Linked
        <5> QED BY <3>2, <3>4, <4>2, <5>2
      <4> QED BY <2>8, <4>1, <4>2
    <3>5. \A g \in Flight(c)' : Chained(g) /\ ~torn'[c] /\ replica'[c].seq = g.since
            => Fits(g, shown[c].version, shown[c].mode)'
      <4>1. ASSUME NEW g, Fits(g, shown[c].version, shown[c].mode)
            PROVE  Fits(g, shown[c].version, shown[c].mode)'
        BY <1>1, <4>1 DEF Fits, Seen
      <4> QED BY <1>1, <3>4, <4>1
    <3>6. \A g, h \in Flight(c)' :
            Chained(g) /\ h.seq = g.since =>
              Fits(g, h.version, h.mode)' /\ ~(h.kind = "Exited" /\ h.since = 0)
      <4>1. ASSUME NEW g, NEW v, NEW m, Fits(g, v, m) PROVE Fits(g, v, m)'
        BY <1>1, <4>1 DEF Fits, Seen
      <4> QED BY <3>3, <4>1
    <3>7. replica'[c].seq # tail'[c].seq
      BY <1>1, <1>2, <1>4, <2>2, <2>9
    <3> QED BY <3>1, <3>5, <3>6, <3>7 DEF Linked, Chained
  <2>15. Unbroken(c)'
    <3>1. SUFFICES ASSUME ~lost[c] PROVE Unbroken(c)'
      BY <1>1 DEF Unbroken
    <3>2. \/ tail[c].seq = 0
          \/ replica[c].seq = tail[c].seq \/ \E g \in Flight(c) : g.seq = tail[c].seq
      BY <3>1 DEF Delivery, Unbroken
    <3>3. ASSUME NEW g \in Flight(c)', Chained(g)
          PROVE  /\ replica[c].seq = g.since \/ \E h \in Flight(c)' : h.seq = g.since
                 /\ \A h \in Flight(c)' : h.seq <= g.since \/ g.seq <= h.seq
      <4>1. CASE g \in Flight(c)
        <5>1. /\ replica[c].seq = g.since \/ \E h \in Flight(c) : h.seq = g.since
              /\ \A h \in Flight(c) : h.seq <= g.since \/ g.seq <= h.seq
          BY <3>1, <3>3, <4>1 DEF Delivery, Unbroken
        <5>2. g.seq <= f.seq
          BY <1>2, <1>4, <2>5, <4>1
        <5> QED BY <2>8, <5>1, <5>2
      <4>2. CASE g = f
        <5>1. f.since = tail[c].seq /\ f.since # 0
          BY <1>9, <2>4, <2>5, <3>3, <4>2 DEF Chained
        <5>2. \A h \in Flight(c) : h.seq <= f.since
          BY <1>4, <5>1
        <5>3. f.seq <= f.seq
          BY <1>2, <2>5
        <5> QED BY <2>8, <3>2, <4>2, <5>1, <5>2, <5>3
      <4> QED BY <2>8, <4>1, <4>2
    <3>4. f \in Flight(c)' /\ f.seq = tail'[c].seq
      BY <2>2, <2>5, <2>8
    <3> QED BY <1>1, <3>3, <3>4 DEF Unbroken, Chained
  <2>16. UpToDate(c)'
    <3>1. SUFFICES ASSUME ~lost[c] PROVE UpToDate(c)'
      BY <1>1 DEF UpToDate
    <3>2. CASE Emission(s) = "Snapshot"
      <4>1. f \in Flight(c)' /\ f.kind = "Snapshot" /\ Marks(f) /\ Says(f) = exited
        BY <2>5, <2>8, <3>2 DEF Marks, Says, TypeOK
      <4>2. \A g \in Flight(c)' : g = f \/ g.seq < f.seq
        BY <1>4, <2>5, <2>8
      <4> QED BY <1>1, <4>1, <4>2 DEF UpToDate, Marks, Says
    <3>3. CASE Emission(s) = "Delta"
      <4>1. ~Marks(f)
        BY <2>5, <3>3 DEF Marks
      <4>2. Following(c)
        BY <2>4, <3>3
      <4> QED BY <1>1, <2>8, <3>1, <4>1, <4>2 DEF Delivery, UpToDate, Marks, Says
    <3> QED BY <1>9, <3>2, <3>3
  <2> QED BY <1>5, <2>10, <2>11, <2>12, <2>13, <2>14, <2>15, <2>16 DEF Delivery
<1> QED BY <1>7, <1>8, <1>9
-----------------------------------------------------------------------------
(* The client applies a frame.                                             *)

(* The oldest frame on its way has been applied: all but what the screen    *)
(* shows follows, whatever the kind of the frame                           *)
LEMMA Applied ==
  ASSUME TypeOK, VersionsOK, NEW c \in Clients, Delivery(c), NEW f \in Flight(c),
         log' = log, seq' = seq, exited' = exited, reaping' = reaping,
         attached' = attached, subs' = subs, outbox' = outbox, up' = up,
         tail' = tail, lost' = lost,
         InOrder(c)', Sent(c, AckMsg(f.seq)),
         Flight(c) = Flight(c)' \cup {f}, \A g \in Flight(c)' : f.seq < g.seq,
         replica'[c].seq = f.seq,
         replica'[c].exited = IF Marks(f) THEN Says(f) ELSE replica[c].exited,
         f.kind = "Snapshot" => ~torn'[c],
         f.kind # "Snapshot" /\ ~lost[c] => torn'[c] = torn[c],
         ~torn'[c] => \/ shown'[c].version = f.version /\ shown'[c].mode = f.mode
                      \/ f.kind = "Exited" /\ f.since = 0,
         Shows(c)'
  PROVE  Delivery(c)'
<1>1. /\ replica[c].seq \in Nat /\ tail[c].seq \in Nat /\ seq \in Nat /\ replica'[c].seq \in Nat
      /\ \A g \in Flight(c) : g.seq \in Nat /\ g.since \in Nat
  BY FlightType DEF TypeOK
<1>2. /\ replica[c].seq < f.seq /\ f.since < f.seq /\ f.seq <= tail[c].seq
      /\ \A g \in Flight(c) : g.since < g.seq /\ g.seq <= tail[c].seq
  BY DEF Delivery, Numbered
<1>3. Following(c)' = Following(c)
  BY DEF Following
<1>4. Numbered(c)' /\ SentIsTail(c)'
  <2>1. \A g \in Flight(c)' : replica'[c].seq < g.seq /\ g.since < g.seq /\ g.seq <= tail[c].seq
    BY <1>2
  <2>2. tail[c].seq <= seq /\ (reaping => tail[c].seq < seq /\ outbox[c] = <<>>)
    BY DEF Delivery, Numbered
  <2>3. replica'[c].seq <= tail[c].seq
    BY <1>2
  <2>4. replica'[c].seq <= seq /\ (reaping => replica'[c].seq < seq)
    BY <1>1, <2>2, <2>3
  <2> QED BY <1>3, <2>1, <2>2, <2>3, <2>4 DEF Delivery, Numbered, SentIsTail
<1>5. AcksApplied(c)' /\ GoneIsGone(c)'
  <2>1. AckMsg(f.seq) \in Request /\ (AckMsg(f.seq)).seq = f.seq
    BY <1>1, MsgType DEF AckMsg
  <2>2. /\ \A i \in 1..Len(inq'[c]) : inq'[c][i].kind = "Ack" => inq'[c][i].seq <= replica'[c].seq
        /\ ~up[c] => inq'[c] = inq[c]
    BY <1>1, <1>2, <2>1, SentKeepsAcks
  <2>3. c \in attached => subs[c].sent \in Nat
    BY DEF TypeOK, Subscription
  <2> QED BY <1>1, <1>2, <2>2, <2>3 DEF Delivery, AcksApplied, GoneIsGone
<1>6. ExitKnown(c)'
  BY DEF Delivery, ExitKnown, Says
<1>7. Linked(c)'
  <2>1. \A g \in Flight(c)' :
          g.seq = tail'[c].seq =>
            /\ g.version = tail'[c].version /\ g.mode = tail'[c].mode
            /\ g.kind = "Exited" /\ g.since = 0 => ~Following(c)'
    BY <1>3 DEF Delivery, Linked
  <2>2. ASSUME NEW g, NEW v, NEW m, Fits(g, v, m) PROVE Fits(g, v, m)'
    BY <2>2 DEF Fits, Seen
  <2>3. \A g, h \in Flight(c)' :
          Chained(g) /\ h.seq = g.since =>
            Fits(g, h.version, h.mode)' /\ ~(h.kind = "Exited" /\ h.since = 0)
    BY <2>2 DEF Delivery, Linked
  <2>4. \A g \in Flight(c)' : Chained(g) /\ ~torn'[c] /\ replica'[c].seq = g.since
          => Fits(g, shown[c].version, shown[c].mode)'
    <3>1. SUFFICES ASSUME NEW g \in Flight(c)', Chained(g), ~torn'[c], replica'[c].seq = g.since
                   PROVE  Fits(g, shown[c].version, shown[c].mode)'
      OBVIOUS
    <3>2. Fits(g, f.version, f.mode) /\ ~(f.kind = "Exited" /\ f.since = 0)
      BY <3>1 DEF Delivery, Linked
    <3>3. shown'[c].version = f.version /\ shown'[c].mode = f.mode
      BY <3>1, <3>2
    <3> QED BY <3>2, <3>3 DEF Fits, Seen
  <2>5. ~torn'[c] /\ tail'[c].seq # 0 /\ replica'[c].seq = tail'[c].seq =>
          \/ shown'[c].version = tail'[c].version /\ shown'[c].mode = tail'[c].mode
          \/ exited' /\ ~reaping' /\ ~Following(c)'
    <3>1. f.seq = tail[c].seq =>
            /\ f.version = tail[c].version /\ f.mode = tail[c].mode
            /\ f.kind = "Exited" /\ f.since = 0 => ~Following(c)
      BY DEF Delivery, Linked
    <3>2. f.kind = "Exited" => exited /\ ~reaping
      BY DEF Delivery, ExitKnown, Says
    <3> QED BY <1>3, <3>1, <3>2
  <2> QED BY <2>1, <2>3, <2>4, <2>5 DEF Linked, Chained
<1>8. Unbroken(c)'
  <2>1. SUFFICES ASSUME ~lost[c] PROVE Unbroken(c)'
    BY DEF Unbroken
  <2>2. ASSUME NEW g \in Flight(c)', Chained(g)
        PROVE  /\ replica'[c].seq = g.since \/ \E h \in Flight(c)' : h.seq = g.since
               /\ \A h \in Flight(c)' : h.seq <= g.since \/ g.seq <= h.seq
    <3>1. /\ replica[c].seq = g.since \/ \E h \in Flight(c) : h.seq = g.since
          /\ \A h \in Flight(c) : h.seq <= g.since \/ g.seq <= h.seq
      BY <2>1, <2>2 DEF Delivery, Unbroken
    <3>2. f.seq <= g.since
      BY <1>1, <3>1
    <3> QED BY <1>1, <1>2, <3>1, <3>2
  <2>3. tail[c].seq # 0 => replica'[c].seq = tail[c].seq \/ \E h \in Flight(c)' : h.seq = tail[c].seq
    <3>1. tail[c].seq # 0 => replica[c].seq = tail[c].seq \/ \E h \in Flight(c) : h.seq = tail[c].seq
      BY <2>1 DEF Delivery, Unbroken
    <3> QED BY <1>1, <1>2, <3>1
  <2> QED BY <2>2, <2>3 DEF Unbroken, Chained
<1>9. UpToDate(c)'
  <2>1. SUFFICES ASSUME ~lost[c], Following(c) PROVE UpToDate(c)'
    BY <1>3 DEF UpToDate
  <2> DEFINE e == exited /\ ~reaping
  <2>2. /\ torn[c] => \E g \in Flight(c) : g.kind = "Snapshot"
        /\ \A g \in Flight(c) :
             Marks(g) => \/ Says(g) = e
                         \/ \E h \in Flight(c) : Marks(h) /\ g.seq < h.seq
        /\ \/ replica[c].exited = e
           \/ \E g \in Flight(c) : Marks(g)
    BY <2>1 DEF Delivery, UpToDate
  <2> HIDE DEF e
  <2>3. torn'[c] => \E g \in Flight(c)' : g.kind = "Snapshot"
    BY <2>1, <2>2
  <2>4. ASSUME NEW g \in Flight(c)', Marks(g), Says(g) # e
        PROVE  \E h \in Flight(c)' : Marks(h) /\ g.seq < h.seq
    <3>1. PICK h \in Flight(c) : Marks(h) /\ g.seq < h.seq
      BY <2>2, <2>4
    <3>2. h # f
      BY <1>1, <3>1
    <3> QED BY <3>1, <3>2
  <2>5. replica'[c].exited = e \/ \E g \in Flight(c)' : Marks(g)
    <3>1. CASE Marks(f)
      <4>1. Says(f) = e \/ \E h \in Flight(c) : Marks(h) /\ f.seq < h.seq
        BY <2>2, <3>1
      <4>2. \A h \in Flight(c) : f.seq < h.seq => h \in Flight(c)'
        BY <1>1
      <4> QED BY <3>1, <4>1, <4>2
    <3>2. CASE ~Marks(f)
      BY <2>2, <3>2
    <3> QED BY <3>1, <3>2
  <2>6. \A g \in Flight(c)' : Marks(g) => \/ Says(g) = e
                                          \/ \E h \in Flight(c)' : Marks(h) /\ g.seq < h.seq
    BY <2>4
  <2> QED BY <2>3, <2>5, <2>6 DEF UpToDate, Marks, Says, e
<1> QED BY <1>4, <1>5, <1>6, <1>7, <1>8, <1>9 DEF Delivery

(* A Delta that fits what is shown repairs it completely                   *)
LEMMA PatchedFits ==
  ASSUME log \in Seq(View), NEW f \in Frame, f.kind = "Delta", f.version \in 1..Len(log),
         NEW v \in 1..Len(log), NEW m, Fits(f, v, m)
  PROVE  Patched(Seen(v, m), f) = Seen(f.version, f.mode)
<1> DEFINE was == Seen(v, m)
           is  == Seen(f.version, f.mode)
<1>1. was \in View /\ is \in View
  BY SeenType
<1>2. /\ \A r \in Rows \ f.dirty : was.grid[r] = is.grid[r]
      /\ ~f.hasTitle => was.title = is.title
  BY DEF Fits
<1>3. Patched(was, f) = [grid  |-> [r \in Rows |-> IF r \in f.dirty THEN is.grid[r] ELSE was.grid[r]],
                         meta  |-> is.meta,
                         title |-> IF f.hasTitle THEN is.title ELSE was.title]
  BY DEF Patched
<1> HIDE DEF was, is
<1>4. [r \in Rows |-> IF r \in f.dirty THEN is.grid[r] ELSE was.grid[r]] = is.grid
  BY <1>1, <1>2 DEF View
<1>5. f.hasTitle \in BOOLEAN
  BY DEF Frame
<1>6. is = [grid |-> is.grid, meta |-> is.meta, title |-> is.title]
  BY <1>1 DEF View
<1> QED BY <1>2, <1>3, <1>4, <1>5, <1>6 DEF was, is
LEMMA ClientRecvDelivery ==
  ASSUME TypeOK, VersionsOK, NEW c \in Clients, Delivery(c), ClientRecv(c)
  PROVE  Delivery(c)'
<1> USE DEF server, wire, client, history
<1> DEFINE f == Head(chan[c])
           rest == Tail(chan[c])
           H == IF Sequenced(f) THEN {f} ELSE {}
<1>1. /\ chan[c] \in Seq(Frame) /\ chan[c] # <<>> /\ f \in Frame /\ rest \in Seq(Frame)
      /\ chan'[c] = rest
  BY DEF ClientRecv, TypeOK
<1>2. /\ \/ RecvSnapshot(c, f) \/ RecvDelta(c, f) \/ RecvGap(c, f)
         \/ RecvExited(c, f) \/ RecvNotice(c, f)
      /\ log' = log /\ seq' = seq /\ exited' = exited /\ reaping' = reaping
      /\ attached' = attached /\ subs' = subs /\ outbox' = outbox /\ up' = up
      /\ tail' = tail /\ lost' = lost
  BY DEF ClientRecv
<1>3. On(chan[c]) = On(rest) \cup H
  BY <1>1, OnTail
<1>4. Increasing(rest) /\ (Sequenced(f) => \A g \in On(rest) : f.seq < g.seq)
  BY <1>1, IncreasingTail DEF Delivery, InOrder
<1> HIDE DEF f, rest
<1>5. Flight(c)' = On(rest) \cup On(outbox[c])
  BY <1>1, <1>2 DEF Flight, On
<1>6. InOrder(c)'
  BY <1>1, <1>2, <1>3, <1>4 DEF Delivery, InOrder, On, Increasing
<1>7. replica[c].seq \in Nat /\ f.seq \in Nat
  BY <1>1 DEF TypeOK, Frame
<1>8. ASSUME Sequenced(f)
      PROVE  /\ f \in Flight(c) /\ Flight(c) = Flight(c)' \cup {f}
             /\ \A g \in Flight(c)' : f.seq < g.seq
             /\ f.version \in 1..Len(log) /\ replica[c].seq < f.seq
  <2>1. f \in On(chan[c]) /\ Flight(c) = Flight(c)' \cup {f}
    BY <1>3, <1>5, <1>8 DEF Flight
  <2>2. \A g \in On(outbox[c]) : f.seq < g.seq
    BY <2>1 DEF Delivery, InOrder
  <2> QED BY <1>4, <1>5, <1>8, <2>1, <2>2, FlightType DEF Delivery, Numbered
<1>9. CASE RecvSnapshot(c, f)
  <2>1. Sequenced(f) /\ f.kind = "Snapshot" /\ Marks(f) /\ Says(f) = f.exited
    BY <1>1, <1>9 DEF RecvSnapshot, Sequenced, Marks, Says, Frame
  <2>2. /\ replica'[c] = [seq |-> f.seq, view |-> Seen(f.version, f.mode), exited |-> f.exited]
        /\ shown'[c] = [version |-> f.version, mode |-> f.mode]
        /\ ~torn'[c] /\ Sent(c, AckMsg(f.seq))
    BY <1>9 DEF RecvSnapshot, TypeOK
  <2>3. /\ replica'[c].seq = f.seq /\ replica'[c].exited = f.exited
        /\ replica'[c].view = Seen(f.version, f.mode)
        /\ shown'[c].version = f.version /\ shown'[c].mode = f.mode
    BY <2>2
  <2>4. Shows(c)'
    BY <1>2, <2>3 DEF Shows, Seen
  <2> QED BY <1>2, <1>6, <1>8, <2>1, <2>2, <2>3, <2>4, Applied
<1>10. CASE RecvDelta(c, f)
  <2>1. Sequenced(f) /\ f.kind = "Delta" /\ ~Marks(f) /\ Chained(f) /\ f.since = replica[c].seq
    BY <1>10 DEF RecvDelta, Sequenced, Marks, Chained
  <2>2. replica[c] \in [seq: Nat, view: View, exited: BOOLEAN]
    BY DEF TypeOK
  <2>3. /\ replica'[c] = [replica[c] EXCEPT !.seq = f.seq, !.view = Patched(replica[c].view, f)]
        /\ shown'[c] = [version |-> f.version, mode |-> f.mode]
        /\ torn' = torn /\ Sent(c, AckMsg(f.seq))
    BY <1>10 DEF RecvDelta, TypeOK
  <2>4. /\ replica'[c].seq = f.seq /\ replica'[c].exited = replica[c].exited
        /\ replica'[c].view = Patched(replica[c].view, f)
        /\ shown'[c].version = f.version /\ shown'[c].mode = f.mode
    BY <2>2, <2>3
  <2>5. ~torn[c] => replica'[c].view = Seen(f.version, f.mode)
    <3>1. shown[c].version \in 1..Len(log) /\ log \in Seq(View)
      <4>1. shown[c] \in [version: Nat \ {0}, mode: Modes] /\ Len(log) \in Nat
        BY DEF TypeOK
      <4> QED BY <4>1 DEF TypeOK, VersionsOK
    <3>2. ~torn[c] => /\ replica[c].view = Seen(shown[c].version, shown[c].mode)
                      /\ Fits(f, shown[c].version, shown[c].mode)
      BY <1>8, <2>1 DEF Delivery, Shows, Linked
    <3> QED BY <1>1, <1>8, <2>1, <2>4, <3>1, <3>2, PatchedFits
  <2>6. Shows(c)'
    BY <1>2, <2>3, <2>4, <2>5 DEF Shows, Seen
  <2> QED BY <1>2, <1>6, <1>8, <2>1, <2>3, <2>4, <2>6, Applied
<1>11. CASE RecvGap(c, f)
  <2>1. Sequenced(f) /\ Chained(f) /\ f.since # replica[c].seq
    BY <1>11 DEF RecvGap, Sequenced, Chained
  <2>2. f.since < f.seq /\ f.since \in Nat /\ \A g \in Flight(c) : g.seq \in Nat
    BY <1>8, <2>1, FlightType DEF Delivery, Numbered
  <2>3. \A g \in Flight(c) : g.seq # f.since
    BY <1>7, <1>8, <2>1, <2>2
  <2>4. lost[c]
    BY <1>8, <2>1, <2>3 DEF Delivery, Unbroken
  <2>5. (IF attachments[c] = "None" THEN "Active" ELSE attachments[c]) \in Modes
    BY DEF TypeOK, Modes
  <2>6. PICK m \in Modes : Sent(c, AttachMsg(m))
    BY <1>11, <2>5 DEF RecvGap
  <2>7. AttachMsg(m) \in Request /\ AttachMsg(m).kind # "Ack"
    BY MsgType DEF AttachMsg
  <2>8. replica' = replica /\ shown' = shown /\ torn' = torn
    BY <1>11 DEF RecvGap
  <2>9. GoneIsGone(c)' /\ AcksApplied(c)'
    BY <1>2, <1>7, <2>6, <2>7, <2>8, SentKeepsAcks DEF Delivery, GoneIsGone, AcksApplied
  <2>10. Flight(c)' \subseteq Flight(c) /\ (Following(c)' => Following(c))
    BY <1>2, <1>8, <2>1 DEF Following
  <2> QED BY <1>2, <1>6, <2>4, <2>8, <2>9, <2>10, SeqStays, NothingNew
<1>12. CASE RecvExited(c, f)
  <2>1. Sequenced(f) /\ f.kind = "Exited" /\ Marks(f) /\ Says(f)
    BY <1>12 DEF RecvExited, Sequenced, Marks, Says
  <2>2. replica[c] \in [seq: Nat, view: View, exited: BOOLEAN] /\ torn[c] \in BOOLEAN
    BY DEF TypeOK
  <2>3. /\ replica'[c] = [replica[c] EXCEPT !.seq = f.seq, !.exited = TRUE]
        /\ torn'[c] = (torn[c] \/ (f.since # 0 /\ f.since # replica[c].seq))
        /\ shown' = shown /\ Sent(c, AckMsg(f.seq))
    BY <1>12 DEF RecvExited, TypeOK
  <2>4. /\ replica'[c].seq = f.seq /\ replica'[c].exited = TRUE
        /\ replica'[c].view = replica[c].view
    BY <2>2, <2>3
  <2>5. Shows(c)'
    BY <1>2, <2>3, <2>4 DEF Delivery, Shows, Seen
  <2>6. ~lost[c] => torn'[c] = torn[c]
    <3>1. SUFFICES ASSUME ~lost[c], f.since # 0 PROVE f.since = replica[c].seq
      BY <2>2, <2>3
    <3>2. Chained(f)
      BY <2>1, <3>1 DEF Chained
    <3>3. f.since < f.seq /\ f.since \in Nat /\ \A g \in Flight(c) : g.seq \in Nat
      BY <1>8, <2>1, FlightType DEF Delivery, Numbered
    <3>4. \A g \in Flight(c) : g.seq # f.since
      BY <1>7, <1>8, <2>1, <3>3
    <3> QED BY <1>8, <2>1, <3>1, <3>2, <3>4 DEF Delivery, Unbroken
  <2>7. ~torn'[c] => \/ shown'[c].version = f.version /\ shown'[c].mode = f.mode
                     \/ f.kind = "Exited" /\ f.since = 0
    <3>1. SUFFICES ASSUME ~torn[c], f.since # 0, f.since = replica[c].seq
                   PROVE  shown[c].version = f.version /\ shown[c].mode = f.mode
      BY <2>1, <2>3
    <3>2. Fits(f, shown[c].version, shown[c].mode)
      BY <1>8, <2>1, <3>1 DEF Delivery, Linked, Chained
    <3> QED BY <2>1, <3>2 DEF Fits
  <2>8. replica'[c].exited = IF Marks(f) THEN Says(f) ELSE replica[c].exited
    BY <2>1, <2>4 DEF Says
  <2> QED BY <1>2, <1>6, <1>8, <2>1, <2>3, <2>4, <2>5, <2>6, <2>7, <2>8, Applied
<1>13. CASE RecvNotice(c, f)
  <2>1. ~Sequenced(f) /\ inq' = inq /\ replica' = replica /\ shown' = shown /\ torn' = torn
    BY <1>13 DEF RecvNotice, Sequenced
  <2>2. Flight(c)' = Flight(c)
    BY <1>3, <1>5, <2>1 DEF Flight
  <2>3. GoneIsGone(c)' /\ AcksApplied(c)' /\ (Following(c)' => Following(c))
    BY <1>2, <2>1 DEF Delivery, GoneIsGone, AcksApplied, Following
  <2> QED BY <1>2, <1>6, <2>1, <2>2, <2>3, SeqStays, NothingNew
<1> QED BY <1>2, <1>9, <1>10, <1>11, <1>12, <1>13

-----------------------------------------------------------------------------
(* The invariant.                                                          *)

Delivered == \A c \in Clients : Delivery(c)

LEMMA InitDelivered == Init => Delivered
<1> SUFFICES ASSUME Init, NEW c \in Clients PROVE Delivery(c)
  BY DEF Delivered
<1> USE DEF Init, Started, Fresh
<1>1. Flight(c) = {} /\ InOrder(c)
  BY EmptyQueue DEF Flight, InOrder
<1>2. ~Following(c) /\ c \notin attached
  BY DEF Following
<1>3. Numbered(c) /\ SentIsTail(c) /\ GoneIsGone(c) /\ ExitKnown(c)
  BY <1>1, <1>2 DEF Numbered, SentIsTail, GoneIsGone, ExitKnown
<1>4. Linked(c) /\ Unbroken(c) /\ UpToDate(c)
  BY <1>1, <1>2 DEF Linked, Unbroken, UpToDate
<1>5. AcksApplied(c)
  BY <1>2 DEF AcksApplied
<1>6. Shows(c)
  <2>1. /\ replica[c].view = Blank /\ shown[c].version = 1 /\ shown[c].mode = "Active"
        /\ log[1] = Blank
    OBVIOUS
  <2> QED BY <2>1 DEF Shows, Seen, Stripped
<1> QED BY <1>1, <1>3, <1>4, <1>5, <1>6 DEF Delivery

(* What another client does is nothing to c                                *)
LEMMA OthersDelivery ==
  ASSUME TypeOK, NEW c \in Clients, Delivery(c), NEW d \in Clients, d # c,
         \/ PumpSend(d) \/ DisconnectSilent(d) \/ ServeMsg(d) \/ ServeClose(d) \/ ConnDrop(d)
         \/ (\E m \in Modes : ClientAttach(d, m))
         \/ ClientDetach(d) \/ ClientRecv(d) \/ Reconnect(d)
  PROVE  Delivery(c)'
<1> USE DEF server, wire, client, history
<1>1. log' = log /\ exited' = exited /\ reaping' = reaping /\ seq' = seq
  BY DEF PumpSend, DisconnectSilent, ServeMsg, ServeClose, ConnDrop, ClientAttach,
     ClientDetach, ClientRecv, Reconnect
<1>2. c \in attached' <=> c \in attached
  BY DEF PumpSend, DisconnectSilent, ServeMsg, OnAttach, OnDetach, OnAck, ServeClose,
     ConnDrop, Unregistered, ClientAttach, ClientDetach, ClientRecv, Reconnect
<1>3. subs'[c] = subs[c]
  BY DEF TypeOK, PumpSend, DisconnectSilent, ServeMsg, OnAttach, OnDetach, OnAck, ServeClose,
     ConnDrop, ClientAttach, ClientDetach, ClientRecv, Reconnect
<1>4. outbox'[c] = outbox[c]
  BY DEF TypeOK, PumpSend, DisconnectSilent, ServeMsg, ServeClose,
     ConnDrop, ClientAttach, ClientDetach, ClientRecv, Reconnect
<1>5. chan'[c] = chan[c] /\ lost'[c] = lost[c]
  BY DEF TypeOK, PumpSend, Queued, DisconnectSilent, ServeMsg, OnAttach, OnDetach, OnAck,
     ServeClose, ConnDrop, ClientAttach, ClientDetach, ClientRecv, Reconnect
<1>6. inq'[c] = inq[c]
  <2>1. CASE PumpSend(d) \/ DisconnectSilent(d) \/ ServeMsg(d) \/ ServeClose(d)
    BY <2>1 DEF TypeOK, PumpSend, DisconnectSilent, ServeMsg, ServeClose, Unregistered
  <2>2. CASE ConnDrop(d) \/ Reconnect(d)
    BY <2>2 DEF TypeOK, ConnDrop, Reconnect, Unregistered
  <2>3. ASSUME NEW m, Sent(d, m) PROVE inq'[c] = inq[c]
    BY <2>3 DEF TypeOK, Sent
  <2>4. CASE ClientDetach(d) \/ \E m \in Modes : ClientAttach(d, m)
    BY <2>3, <2>4 DEF ClientAttach, ClientDetach
  <2>5. CASE ClientRecv(d)
    <3>1. PICK f : \/ RecvSnapshot(d, f) \/ RecvDelta(d, f) \/ RecvGap(d, f)
                   \/ RecvExited(d, f) \/ RecvNotice(d, f)
      BY <2>5 DEF ClientRecv
    <3>2. CASE RecvSnapshot(d, f) \/ RecvDelta(d, f)
      BY <2>3, <3>2 DEF RecvSnapshot, RecvDelta
    <3>3. CASE RecvGap(d, f) \/ RecvExited(d, f) \/ RecvNotice(d, f)
      BY <2>3, <3>3 DEF RecvGap, RecvExited, RecvNotice
    <3> QED BY <3>1, <3>2, <3>3
  <2> QED BY <2>1, <2>2, <2>4, <2>5
<1>7. up'[c] = up[c] /\ tail'[c] = tail[c]
  BY DEF TypeOK, PumpSend, DisconnectSilent, ServeMsg, ServeClose, Unregistered,
     ConnDrop, ClientAttach, ClientDetach, ClientRecv, Reconnect
<1>8. replica'[c] = replica[c] /\ shown'[c] = shown[c] /\ torn'[c] = torn[c]
  BY DEF TypeOK, PumpSend, DisconnectSilent, ServeMsg, ServeClose,
     ConnDrop, ClientAttach, ClientDetach, ClientRecv, RecvSnapshot, RecvDelta,
     RecvGap, RecvExited, RecvNotice, Reconnect
<1> QED BY <1>1, <1>2, <1>3, <1>4, <1>5, <1>6, <1>7, <1>8, Untouched

LEMMA DeliveredStep ==
  ASSUME FanoutAssumption, TypeOK, VersionsOK, SubscriptionOrder, Coherent, Delivered, [Next]_vars
  PROVE  Delivered'
<1> USE DEF server, wire, client, history
<1>1. SUFFICES ASSUME NEW c \in Clients PROVE Delivery(c)'
  BY DEF Delivered
<1>2. Delivery(c)
  BY DEF Delivered
<1>3. ASSUME NEW k \in Chunks, Feed(k) PROVE Delivery(c)'
  BY <1>2, <1>3, FeedDelivery
<1>4. CASE StylesOverflow
  BY <1>2, <1>4, StylesOverflowDelivery
<1>5. CASE ReapPoll
  BY <1>2, <1>5, ReapPollDelivery
<1>6. CASE ReapFanOut
  BY <1>2, <1>6, ReapFanOutDelivery
<1>7. CASE Flush
  BY <1>2, <1>7, FlushDelivery
<1>8. ASSUME NEW d \in Clients, d # c,
             \/ PumpSend(d) \/ DisconnectSilent(d) \/ ServeMsg(d) \/ ServeClose(d) \/ ConnDrop(d)
             \/ (\E m \in Modes : ClientAttach(d, m))
             \/ ClientDetach(d) \/ ClientRecv(d) \/ Reconnect(d)
      PROVE  Delivery(c)'
  BY <1>2, <1>8, OthersDelivery
<1>9. CASE \/ PumpSend(c) \/ DisconnectSilent(c) \/ ServeMsg(c) \/ ServeClose(c) \/ ConnDrop(c)
           \/ (\E m \in Modes : ClientAttach(c, m))
           \/ ClientDetach(c) \/ ClientRecv(c) \/ Reconnect(c)
  BY <1>2, <1>9, PumpSendDelivery, DisconnectSilentDelivery, ServeMsgDelivery,
     ServeCloseDelivery, ConnDropDelivery, ClientCallDelivery, ClientRecvDelivery,
     ReconnectDelivery
<1>10. CASE Tick
  BY <1>2, <1>10, Untouched DEF Tick
<1>11. CASE UNCHANGED vars
  BY <1>2, <1>11, Untouched DEF vars
<1> QED BY <1>3, <1>4, <1>5, <1>6, <1>7, <1>8, <1>9, <1>10, <1>11 DEF Next

THEOREM DeliveryInvariant == Spec => []Delivered
<1>1. TypeOK /\ VersionsOK /\ SubscriptionOrder /\ Coherent /\ Delivered /\ [Next]_vars => Delivered'
  BY DeliveredStep, FanoutAssumption
<1> QED BY <1>1, InitDelivered, TypeCorrect, WindowSound, CoalescingLosesNothing, PTL DEF Spec
-----------------------------------------------------------------------------
(* What follows.                                                           *)

LEMMA HeadIsOldest ==
  ASSUME TypeOK, VersionsOK, NEW c \in Clients, Delivery(c), chan[c] # <<>>,
         Sequenced(Head(chan[c]))
  PROVE  /\ Head(chan[c]) \in Flight(c)
         /\ \A g \in Flight(c) : Head(chan[c]).seq <= g.seq
<1> DEFINE f == Head(chan[c])
           rest == Tail(chan[c])
<1>1. chan[c] \in Seq(Frame)
  BY DEF TypeOK
<1>2. On(chan[c]) = On(rest) \cup {f}
  BY <1>1, OnTail
<1>3. \A g \in On(rest) : f.seq < g.seq
  BY <1>1, IncreasingTail DEF Delivery, InOrder
<1> HIDE DEF f, rest
<1>4. f \in On(chan[c]) /\ f \in Flight(c)
  BY <1>2 DEF Flight
<1>5. \A g \in On(outbox[c]) : f.seq < g.seq
  BY <1>4 DEF Delivery, InOrder
<1>6. \A g \in Flight(c) : g.seq \in Nat
  BY FlightType
<1> QED BY <1>2, <1>3, <1>4, <1>5, <1>6 DEF Flight, f

(* A client that follows, has applied the last frame built for it and is    *)
(* owed nothing shows the engine as it is                                  *)
LEMMA NothingPending ==
  ASSUME TypeOK, VersionsOK, Coherent, NEW c \in Clients, Delivery(c), Following(c),
         ~torn[c], replica[c].seq = tail[c].seq, ~Pending(subs[c])
  PROVE  replica[c].view = Seen(Len(log), subs[c].mode)
<1> DEFINE was == Seen(tail[c].version, tail[c].mode)
           is  == Seen(Len(log), subs[c].mode)
<1>1. tail[c].seq # 0
  BY DEF Delivery, SentIsTail
<1>2. replica[c].view = was
  BY <1>1 DEF Delivery, Linked, Shows
<1>3. Tracks(subs[c], tail[c])
  BY DEF Following, Coherent
<1>4. /\ \A r \in Rows : was.grid[r] = is.grid[r]
      /\ was.meta = is.meta /\ was.title = is.title
  BY <1>3 DEF Tracks, Pending
<1>5. was \in View /\ is \in View
  <2>1. tail[c].version \in 1..Len(log) /\ Len(log) \in 1..Len(log)
    <3>1. tail[c] \in [seq: Nat, version: Nat \ {0}, mode: Modes] /\ Len(log) \in Nat \ {0}
      BY DEF TypeOK
    <3> QED BY <3>1 DEF VersionsOK
  <2> QED BY <2>1, SeenType DEF TypeOK
<1> HIDE DEF was, is
<1>6. was.grid = is.grid
  BY <1>4, <1>5 DEF View
<1>7. /\ was = [grid |-> was.grid, meta |-> was.meta, title |-> was.title]
      /\ is = [grid |-> is.grid, meta |-> is.meta, title |-> is.title]
  BY <1>5 DEF View
<1>8. was = is
  BY <1>4, <1>6, <1>7
<1> QED BY <1>2, <1>8 DEF is

(* A Replica is never a mixture of two states of the engine: this is what   *)
(* the gap check of apply_delta, the Snapshots after an attach, a resync    *)
(* and an overflow, and coalescing add up to.                              *)
THEOREM NeverAMixture == Spec => []Consistent
<1>1. Delivered => Consistent
  BY DEF Delivered, Delivery, Shows, Consistent
<1> QED BY <1>1, DeliveryInvariant, PTL

(* As long as no frame is lost, a Delta chains on what the Replica applied. *)
THEOREM NoGapWithoutLoss == Spec => []NoFalseGap
<1>1. TypeOK /\ VersionsOK /\ Delivered => NoFalseGap
  <2>1. SUFFICES ASSUME TypeOK, VersionsOK, Delivered, NEW c \in Clients,
                        ~lost[c], chan[c] # <<>>, Head(chan[c]).kind = "Delta"
                 PROVE  Head(chan[c]).since = replica[c].seq
    BY DEF NoFalseGap
  <2> DEFINE f == Head(chan[c])
  <2>2. Delivery(c) /\ Sequenced(f) /\ Chained(f)
    BY <2>1 DEF Delivered, Sequenced, Chained
  <2>3. f \in Flight(c) /\ \A g \in Flight(c) : f.seq <= g.seq
    BY <2>1, <2>2, HeadIsOldest
  <2>4. /\ f.since < f.seq /\ f.since \in Nat /\ f.seq \in Nat
        /\ \A g \in Flight(c) : g.seq \in Nat
    BY <2>1, <2>2, <2>3, FlightType DEF Delivery, Numbered
  <2> HIDE DEF f
  <2>5. \A g \in Flight(c) : g.seq # f.since
    BY <2>3, <2>4
  <2> QED BY <2>1, <2>2, <2>3, <2>5 DEF Delivery, Unbroken, f
<1> QED BY <1>1, TypeCorrect, DeliveryInvariant, PTL

(* A subscription that owes nothing, whose frames have all arrived, leaves  *)
(* the client with the final state and with the exit.                      *)
THEOREM NothingOwedNothingMissing == Spec => []Quiescent
<1>1. TypeOK /\ VersionsOK /\ Coherent /\ Delivered => Quiescent
  <2>1. SUFFICES ASSUME TypeOK, VersionsOK, Coherent, Delivered, NEW c \in attached,
                        ~Owed(subs[c]), ~lost[c], ~reaping, outbox[c] = <<>>, chan[c] = <<>>
                 PROVE  /\ replica[c].view = Seen(Len(log), subs[c].mode)
                        /\ replica[c].exited = exited
                        /\ replica[c].seq = subs[c].sent
    BY DEF Quiescent
  <2>2. c \in Clients /\ Delivery(c) /\ Following(c) /\ ~Pending(subs[c])
    BY <2>1 DEF TypeOK, Delivered, Following, Owed
  <2>3. Flight(c) = {}
    BY <2>1, EmptyQueue DEF Flight
  <2>4. tail[c].seq # 0 /\ subs[c].sent = tail[c].seq
    BY <2>1, <2>2 DEF Delivery, SentIsTail
  <2>5. replica[c].seq = tail[c].seq
    BY <2>1, <2>2, <2>3, <2>4 DEF Delivery, Unbroken
  <2>6. ~torn[c] /\ replica[c].exited = (exited /\ ~reaping)
    BY <2>1, <2>2, <2>3 DEF Delivery, UpToDate
  <2>7. replica[c].exited = exited
    BY <2>1, <2>6 DEF TypeOK
  <2> QED BY <2>1, <2>2, <2>4, <2>5, <2>6, <2>7, NothingPending
<1> QED BY <1>1, TypeCorrect, CoalescingLosesNothing, DeliveryInvariant, PTL

(* A screen that is behind still has something owed or unacknowledged: the  *)
(* last frame built is acknowledged only if it was applied.                *)
THEOREM LossesShow == Spec => []LossShows
<1>1. TypeOK /\ VersionsOK /\ SubscriptionOrder /\ Coherent /\ Delivered => LossShows
  <2>1. SUFFICES ASSUME TypeOK, VersionsOK, SubscriptionOrder, Coherent, Delivered,
                        NEW c \in attached, ~torn[c], ~Owed(subs[c]),
                        ~(subs[c].sent > subs[c].acked)
                 PROVE  replica[c].view = Seen(Len(log), subs[c].mode)
    BY DEF LossShows, Behind
  <2>2. c \in Clients /\ Delivery(c) /\ Following(c) /\ ~Pending(subs[c])
    BY <2>1 DEF TypeOK, Delivered, Following, Owed
  <2>3. /\ subs[c].sent \in Nat /\ subs[c].acked \in Nat
        /\ replica[c].seq \in Nat /\ tail[c].seq \in Nat /\ seq \in Nat
    <3>1. subs[c] \in Subscription
      BY <2>1, <2>2 DEF TypeOK
    <3>2. replica[c].seq \in Nat /\ tail[c].seq \in Nat /\ seq \in Nat
      BY <2>1, <2>2 DEF TypeOK
    <3> QED BY <3>1, <3>2 DEF Subscription
  <2>4. /\ tail[c].seq # 0 /\ subs[c].sent = (IF reaping THEN seq ELSE tail[c].seq)
        /\ replica[c].seq <= tail[c].seq
        /\ reaping => tail[c].seq < seq
    BY <2>2 DEF Delivery, SentIsTail, Numbered
  <2>5. subs[c].sent <= replica[c].seq
    BY <2>1, <2>2, <2>3, <2>4 DEF Delivery, AcksApplied
  <2>6. replica[c].seq = tail[c].seq
    BY <2>3, <2>4, <2>5
  <2> QED BY <2>1, <2>2, <2>6, NothingPending
<1> QED BY <1>1, TypeCorrect, WindowSound, CoalescingLosesNothing, DeliveryInvariant, PTL
-----------------------------------------------------------------------------
(* The refinement of Mirror: what clients show and are told.               *)

(* Frames carry a state of the engine; the exit event only refers to one   *)
Carries(f) == f.kind \in {"Snapshot", "Delta"}

(* Nothing on its way to c is older than what c shows, or takes the exit    *)
(* back                                                                    *)
Forward(c) ==
  /\ \A f \in Flight(c) : Carries(f) => shown[c].version <= f.version
  /\ \A f, g \in Flight(c) :
       Carries(f) /\ Carries(g) /\ f.seq < g.seq => f.version <= g.version
  /\ \A f \in Flight(c) : f.kind = "Snapshot" /\ replica[c].exited => f.exited
  /\ \A f, g \in Flight(c) : g.kind = "Snapshot" /\ Says(f) /\ f.seq < g.seq => g.exited

AllForward == \A c \in Clients : Forward(c)

-----------------------------------------------------------------------------
(* Frames only ever carry the latest state.                                *)

(* What joins the frames on their way is newer than all of them, and says   *)
(* what is the case                                                        *)
LEMMA NewFramesForward ==
  ASSUME TypeOK, VersionsOK, NEW c \in Clients, Delivery(c), Forward(c),
         shown'[c].version = shown[c].version, replica'[c].exited = replica[c].exited,
         NEW f \in Frame, Carries(f) => f.version = Len(log) /\ f.exited = exited,
         \A g \in Flight(c) : g.seq < f.seq,
         Flight(c)' \subseteq Flight(c) \cup {f}
  PROVE  Forward(c)'
<1>1. /\ \A g \in Flight(c) : g.seq \in Nat /\ g.version <= Len(log)
      /\ shown[c].version <= Len(log) /\ f.seq \in Nat
  <2>1. Len(log) \in Nat
    BY DEF TypeOK
  <2>2. \A g \in Flight(c) : g.seq \in Nat /\ g.version \in 1..Len(log)
    BY FlightType
  <2> QED BY <2>1, <2>2 DEF VersionsOK, Frame
<1>2. \A g \in Flight(c) : Says(g) => exited
  BY DEF Delivery, ExitKnown
<1>3. replica[c].exited => exited
  BY DEF Delivery, ExitKnown
<1>4. \A g \in Flight(c)' : Carries(g) => shown'[c].version <= g.version
  BY <1>1 DEF Forward
<1>5. \A g, h \in Flight(c)' : Carries(g) /\ Carries(h) /\ g.seq < h.seq => g.version <= h.version
  BY <1>1 DEF Forward
<1>6. \A g \in Flight(c)' : g.kind = "Snapshot" /\ replica'[c].exited => g.exited
  BY <1>3 DEF Forward, Carries
<1>7. \A g, h \in Flight(c)' : h.kind = "Snapshot" /\ Says(g) /\ g.seq < h.seq => h.exited
  BY <1>1, <1>2 DEF Forward, Carries
<1> QED BY <1>4, <1>5, <1>6, <1>7 DEF Forward, Carries, Says

LEMMA NoNewFramesForward ==
  ASSUME NEW c \in Clients, Forward(c),
         shown'[c].version = shown[c].version, replica'[c].exited = replica[c].exited,
         Flight(c)' \subseteq Flight(c)
  PROVE  Forward(c)'
BY DEF Forward, Carries, Says

LEMMA FlushForward ==
  ASSUME TypeOK, VersionsOK, Flush, NEW c \in Clients, Delivery(c), Forward(c)
  PROVE  Forward(c)'
<1> USE DEF server, wire, client, history
<1> DEFINE s == subs[c]
           n == seq + 1
<1>1. chan' = chan /\ outbox[c] = <<>> /\ replica' = replica /\ shown' = shown
  BY DEF Flush, PumpIdle
<1>2. s \in Subscription /\ seq \in Nat /\ n \in Nat /\ tail[c].seq \in Nat
  BY DEF TypeOK
<1>3. Flight(c) = On(chan[c]) /\ Flight(c)' = On(chan[c]) \cup On(outbox'[c])
  BY <1>1, EmptyQueue DEF Flight, On
<1>4. \A g \in Flight(c) : g.seq < n
  BY <1>2, FlightType DEF Delivery, Numbered
<1>5. CASE c \notin attached
  <2>1. outbox'[c] = <<>>
    BY <1>5 DEF Flush
  <2> QED BY <1>1, <1>3, <2>1, EmptyQueue, NoNewFramesForward
<1>6. CASE c \in attached
  <2>1. outbox'[c] = BuiltFrames(s, n)
    BY <1>6 DEF Flush
  <2> HIDE DEF s, n
  <2>2. CASE Emission(s) \notin {"Snapshot", "Delta"}
    <3>1. On(outbox'[c]) = {}
      BY <1>2, <2>1, <2>2, BuiltOn
    <3> QED BY <1>1, <1>3, <3>1, NoNewFramesForward
  <2>3. CASE Emission(s) \in {"Snapshot", "Delta"}
    <3>1. PICK f \in Frame : /\ On(outbox'[c]) = {f} /\ f.seq = n
                             /\ f.version = Len(log) /\ f.exited = exited
      BY <1>2, <2>1, <2>3, BuiltOn
    <3>2. Flight(c)' \subseteq Flight(c) \cup {f}
      BY <1>3, <3>1
    <3> QED BY <1>1, <1>4, <3>1, <3>2, NewFramesForward
  <2> QED BY <2>2, <2>3
<1> QED BY <1>5, <1>6

(* The exit event carries no state of its own                              *)
LEMMA ReapFanOutForward ==
  ASSUME TypeOK, VersionsOK, ReapFanOut, NEW c \in Clients, Delivery(c), Forward(c)
  PROVE  Forward(c)'
<1> USE DEF server, wire, client, history
<1> DEFINE e == ExitedFrame(c)
<1>1. /\ chan' = chan /\ outbox[c] = <<>> /\ replica' = replica /\ shown' = shown
      /\ tail[c].seq < seq
  BY DEF ReapFanOut, Delivery, Numbered
<1>2. outbox'[c] = IF c \in attached THEN Append(<<>>, e) ELSE <<>>
  BY <1>1 DEF ReapFanOut
<1>3. e \in Frame /\ e.kind = "Exited" /\ e.seq = seq
  BY ExitedFrameType DEF ExitedFrame
<1>4. seq \in Nat /\ tail[c].seq \in Nat
  BY DEF TypeOK
<1> HIDE DEF e
<1>5. Flight(c)' \subseteq Flight(c) \cup {e}
  <2>1. On(Append(<<>>, e)) \subseteq {e}
    <3>1. <<>> \in Seq(Frame)
      OBVIOUS
    <3>2. On(Append(<<>>, e)) = On(<<>>) \cup (IF Sequenced(e) THEN {e} ELSE {})
      BY <1>3, <3>1, OnAppend
    <3> QED BY <3>2, EmptyQueue
  <2>2. Flight(c)' = On(chan[c]) \cup On(outbox'[c])
    BY <1>1 DEF Flight, On
  <2> QED BY <1>2, <2>1, <2>2, EmptyQueue DEF Flight
<1>6. \A g \in Flight(c) : g.seq < e.seq
  BY <1>1, <1>3, <1>4, FlightType DEF Delivery, Numbered
<1>7. ~Carries(e)
  BY <1>3 DEF Carries
<1> QED BY <1>1, <1>3, <1>5, <1>6, <1>7, NewFramesForward

(* A frame moves from the emit loop into the queue, or is lost             *)
LEMMA PumpSendForward ==
  ASSUME TypeOK, NEW c \in Clients, Forward(c), PumpSend(c)
  PROVE  Forward(c)'
<1> USE DEF server, wire, client, history
<1> DEFINE f == Head(outbox[c])
           rest == Tail(outbox[c])
<1>1. /\ outbox[c] \in Seq(Frame) /\ outbox[c] # <<>> /\ chan[c] \in Seq(Frame)
      /\ f \in Frame /\ outbox'[c] = rest
      /\ replica' = replica /\ shown' = shown
  BY DEF PumpSend, TypeOK
<1>2. chan'[c] = Append(chan[c], f) \/ chan'[c] = chan[c]
  BY DEF PumpSend, Queued, TypeOK
<1> HIDE DEF f
<1>3. On(outbox[c]) = On(rest) \cup (IF Sequenced(f) THEN {f} ELSE {})
  BY <1>1, OnTail DEF f
<1>4. On(chan'[c]) \subseteq On(chan[c]) \cup (IF Sequenced(f) THEN {f} ELSE {})
  BY <1>1, <1>2, OnAppend
<1> HIDE DEF rest
<1>5. Flight(c)' \subseteq Flight(c)
  <2>1. Flight(c)' = On(chan'[c]) \cup On(rest)
    BY <1>1 DEF Flight, On
  <2> QED BY <1>3, <1>4, <2>1 DEF Flight
<1> QED BY <1>1, <1>5, NoNewFramesForward

(* A detach that is served queues a notice, which is not a frame           *)
LEMMA ServeMsgForward ==
  ASSUME TypeOK, NEW c \in Clients, Delivery(c), Forward(c), ServeMsg(c)
  PROVE  Forward(c)'
<1> USE DEF server, wire, client, history
<1>1. outbox' = outbox /\ replica' = replica /\ shown' = shown
  BY DEF ServeMsg
<1>2. CASE chan' = chan
  <2>1. Flight(c)' = Flight(c)
    BY <1>1, <1>2 DEF Flight, On
  <2> QED BY <1>1, <2>1, NoNewFramesForward
<1>3. CASE OnDetach(c)
  <2> DEFINE f == Notice(IF c \in attached THEN "Detached" ELSE "Error")
  <2>1. f \in Frame /\ ~Sequenced(f)
    BY NoticeType DEF Notice, Sequenced
  <2>2. Queued(c, f)
    BY <1>3 DEF OnDetach
  <2> HIDE DEF f
  <2>3. Flight(c)' = Flight(c)
    BY <1>1, <2>1, <2>2, NoticeQueued
  <2> QED BY <1>1, <2>3, NoNewFramesForward
<1> QED BY <1>2, <1>3 DEF ServeMsg, OnAttach, OnAck
(* The oldest frame is the next to be applied                              *)
LEMMA NextFrame ==
  ASSUME TypeOK, NEW c \in Clients, Delivery(c), ClientRecv(c), NEW f, f = Head(chan[c])
  PROVE  /\ f \in Frame /\ Flight(c)' \subseteq Flight(c)
         /\ Sequenced(f) => f \in Flight(c) /\ \A g \in Flight(c)' : f.seq < g.seq
<1> USE DEF server, wire, client, history
<1> DEFINE rest == Tail(chan[c])
<1>1. /\ chan[c] \in Seq(Frame) /\ chan[c] # <<>> /\ f \in Frame
      /\ chan'[c] = rest /\ outbox' = outbox
  BY DEF ClientRecv, TypeOK
<1>2. On(chan[c]) = On(rest) \cup (IF Sequenced(f) THEN {f} ELSE {})
  BY <1>1, OnTail
<1>3. Sequenced(f) => \A g \in On(rest) : f.seq < g.seq
  BY <1>1, IncreasingTail DEF Delivery, InOrder
<1> HIDE DEF rest
<1>4. Flight(c)' = On(rest) \cup On(outbox[c])
  BY <1>1 DEF Flight, On
<1>5. ASSUME Sequenced(f) PROVE f \in Flight(c) /\ \A g \in Flight(c)' : f.seq < g.seq
  <2>1. f \in On(chan[c])
    BY <1>2, <1>5
  <2>2. \A g \in On(outbox[c]) : f.seq < g.seq
    BY <2>1 DEF Delivery, InOrder
  <2> QED BY <1>3, <1>4, <1>5, <2>1, <2>2 DEF Flight
<1> QED BY <1>1, <1>2, <1>4, <1>5 DEF Flight

LEMMA ClientRecvForward ==
  ASSUME TypeOK, NEW c \in Clients, Delivery(c), Forward(c), ClientRecv(c)
  PROVE  Forward(c)'
<1> DEFINE f == Head(chan[c])
<1>1. /\ f \in Frame /\ Flight(c)' \subseteq Flight(c)
      /\ Sequenced(f) => f \in Flight(c) /\ \A g \in Flight(c)' : f.seq < g.seq
  BY NextFrame
<1>2. \/ RecvSnapshot(c, f) \/ RecvDelta(c, f) \/ RecvGap(c, f)
      \/ RecvExited(c, f) \/ RecvNotice(c, f)
  BY DEF ClientRecv
<1>3. replica[c] \in [seq: Nat, view: View, exited: BOOLEAN]
  BY DEF TypeOK
<1> HIDE DEF f
<1>4. CASE RecvSnapshot(c, f)
  <2>1. f.kind = "Snapshot" /\ Sequenced(f) /\ Carries(f)
    BY <1>4 DEF RecvSnapshot, Sequenced, Carries
  <2>2. shown'[c].version = f.version /\ replica'[c].exited = f.exited
    BY <1>4 DEF RecvSnapshot, TypeOK
  <2>3. f.exited => Says(f)
    BY DEF Says
  <2> QED BY <1>1, <2>1, <2>2, <2>3 DEF Forward, Carries, Says
<1>5. CASE RecvDelta(c, f)
  <2>1. Sequenced(f) /\ Carries(f)
    BY <1>5 DEF RecvDelta, Sequenced, Carries
  <2>2. shown'[c].version = f.version /\ replica'[c].exited = replica[c].exited
    BY <1>3, <1>5 DEF RecvDelta, TypeOK
  <2> QED BY <1>1, <2>1, <2>2 DEF Forward, Carries, Says
<1>6. CASE RecvGap(c, f) \/ RecvNotice(c, f)
  <2>1. shown' = shown /\ replica' = replica
    BY <1>6 DEF RecvGap, RecvNotice
  <2> QED BY <1>1, <2>1, NoNewFramesForward
<1>7. CASE RecvExited(c, f)
  <2>1. Sequenced(f) /\ Says(f)
    BY <1>7 DEF RecvExited, Sequenced, Says
  <2>2. shown' = shown
    BY <1>7 DEF RecvExited
  <2> QED BY <1>1, <2>1, <2>2 DEF Forward, Carries, Says
<1> QED BY <1>2, <1>4, <1>5, <1>6, <1>7

LEMMA OthersForward ==
  ASSUME TypeOK, NEW c \in Clients, Forward(c),
         \/ \E k \in Chunks : Feed(k)
         \/ StylesOverflow \/ ReapPoll \/ Tick
         \/ \E d \in Clients :
              \/ DisconnectSilent(d) \/ ServeClose(d) \/ ConnDrop(d)
              \/ (\E m \in Modes : ClientAttach(d, m))
              \/ ClientDetach(d) \/ Reconnect(d)
         \/ \E d \in Clients \ {c} : PumpSend(d) \/ ServeMsg(d) \/ ClientRecv(d)
         \/ UNCHANGED vars
  PROVE  Forward(c)'
<1> USE DEF server, wire, client, history
<1>1. outbox'[c] = outbox[c] /\ chan'[c] \in {chan[c], <<>>}
  <2>1. CASE \E d \in Clients \ {c} : PumpSend(d) \/ ServeMsg(d) \/ ClientRecv(d)
    <3>1. PICK d \in Clients \ {c} : PumpSend(d) \/ ServeMsg(d) \/ ClientRecv(d)
      BY <2>1
    <3>2. outbox'[c] = outbox[c]
      BY <3>1 DEF TypeOK, PumpSend, ServeMsg, ClientRecv
    <3>3. ASSUME NEW f, Queued(d, f) PROVE chan'[c] = chan[c]
      BY <3>1, <3>3 DEF TypeOK, Queued
    <3>4. chan'[c] = chan[c]
      BY <3>1, <3>3 DEF TypeOK, PumpSend, ServeMsg, OnAttach, OnDetach, OnAck, ClientRecv
    <3> QED BY <3>2, <3>4
  <2>2. CASE \E d \in Clients : ConnDrop(d)
    BY <2>2 DEF TypeOK, ConnDrop
  <2>3. CASE \/ \E k \in Chunks : Feed(k)
             \/ StylesOverflow \/ ReapPoll \/ Tick
             \/ \E d \in Clients :
                  \/ DisconnectSilent(d) \/ ServeClose(d)
                  \/ (\E m \in Modes : ClientAttach(d, m))
                  \/ ClientDetach(d) \/ Reconnect(d)
             \/ UNCHANGED vars
    BY <2>3 DEF Feed, StylesOverflow, ReapPoll, Tick, DisconnectSilent, ServeClose,
       ClientAttach, ClientDetach, Reconnect, vars
  <2> QED BY <2>1, <2>2, <2>3
<1>2. shown'[c] = shown[c] /\ replica'[c] = replica[c]
  <2>1. CASE \E d \in Clients \ {c} : PumpSend(d) \/ ServeMsg(d)
    BY <2>1 DEF PumpSend, ServeMsg
  <2>2. CASE \E d \in Clients \ {c} : ClientRecv(d)
    <3>1. PICK d \in Clients \ {c} : ClientRecv(d)
      BY <2>2
    <3>2. PICK f : \/ RecvSnapshot(d, f) \/ RecvDelta(d, f) \/ RecvGap(d, f)
                   \/ RecvExited(d, f) \/ RecvNotice(d, f)
      BY <3>1 DEF ClientRecv
    <3>3. CASE RecvSnapshot(d, f)
      BY <3>3 DEF TypeOK, RecvSnapshot
    <3>4. CASE RecvDelta(d, f)
      BY <3>4 DEF TypeOK, RecvDelta
    <3>5. CASE RecvGap(d, f) \/ RecvExited(d, f) \/ RecvNotice(d, f)
      BY <3>5 DEF TypeOK, RecvGap, RecvExited, RecvNotice
    <3> QED BY <3>2, <3>3, <3>4, <3>5
  <2>3. CASE \/ \E k \in Chunks : Feed(k)
             \/ StylesOverflow \/ ReapPoll \/ Tick \/ UNCHANGED vars
    BY <2>3 DEF Feed, StylesOverflow, ReapPoll, Tick, vars
  <2>4. CASE \E d \in Clients :
               \/ DisconnectSilent(d) \/ ServeClose(d) \/ ConnDrop(d)
               \/ (\E m \in Modes : ClientAttach(d, m))
               \/ ClientDetach(d) \/ Reconnect(d)
    BY <2>4 DEF TypeOK, DisconnectSilent, ServeClose, ConnDrop, ClientAttach, ClientDetach,
       Reconnect
  <2> QED BY <2>1, <2>2, <2>3, <2>4
<1>3. Flight(c)' \subseteq Flight(c)
  <2>1. Flight(c)' = On(chan'[c]) \cup On(outbox[c])
    BY <1>1 DEF Flight, On
  <2> QED BY <1>1, <2>1, EmptyQueue DEF Flight
<1> QED BY <1>2, <1>3, NoNewFramesForward

LEMMA ForwardStep ==
  ASSUME TypeOK, VersionsOK, Delivered, AllForward, [Next]_vars
  PROVE  AllForward'
<1>1. SUFFICES ASSUME NEW c \in Clients PROVE Forward(c)'
  BY DEF AllForward
<1>2. Delivery(c) /\ Forward(c)
  BY DEF Delivered, AllForward
<1>3. CASE Flush
  BY <1>2, <1>3, FlushForward
<1>4. CASE ReapFanOut
  BY <1>2, <1>4, ReapFanOutForward
<1>5. CASE PumpSend(c)
  BY <1>2, <1>5, PumpSendForward
<1>6. CASE ServeMsg(c)
  BY <1>2, <1>6, ServeMsgForward
<1>7. CASE ClientRecv(c)
  BY <1>2, <1>7, ClientRecvForward
<1>8. CASE \/ \E k \in Chunks : Feed(k)
           \/ StylesOverflow \/ ReapPoll \/ Tick
           \/ \E d \in Clients :
                \/ DisconnectSilent(d) \/ ServeClose(d) \/ ConnDrop(d)
                \/ (\E m \in Modes : ClientAttach(d, m))
                \/ ClientDetach(d) \/ Reconnect(d)
           \/ \E d \in Clients \ {c} : PumpSend(d) \/ ServeMsg(d) \/ ClientRecv(d)
           \/ UNCHANGED vars
  BY <1>2, <1>8, OthersForward
<1> QED BY <1>3, <1>4, <1>5, <1>6, <1>7, <1>8 DEF Next

LEMMA InitForward == Init => AllForward
<1> SUFFICES ASSUME Init, NEW c \in Clients PROVE Forward(c)
  BY DEF AllForward
<1>1. Flight(c) = {}
  BY EmptyQueue DEF Flight, Init, Fresh
<1> QED BY <1>1 DEF Forward

(* What is on its way to a client is in the order of the engine's states,   *)
(* none older than what the client shows, and once one says that the child *)
(* has exited every later Snapshot says so.                                 *)
THEOREM FramesGoForward == Spec => []AllForward
<1>1. TypeOK /\ VersionsOK /\ Delivered /\ AllForward /\ [Next]_vars => AllForward'
  BY ForwardStep
<1> QED BY <1>1, InitForward, TypeCorrect, DeliveryInvariant, PTL DEF Spec
-----------------------------------------------------------------------------
(* Every step of the data plane is a step of Mirror, or none.              *)

(* No exit event was applied over a missing frame, the one case in which a  *)
(* screen may be a mixture (see Consistent)                                *)
NeverTorn == \A c \in Clients : ~torn[c]

(* What Mirror sees of the clients                                         *)
Screens  == [c \in Clients |-> replica[c].view]
Versions == [c \in Clients |-> shown[c].version]
Told     == [c \in Clients |-> replica[c].exited]

LEMMA InitPromise == Init => Promise!Init
<1> SUFFICES ASSUME Init PROVE Promise!Init
  OBVIOUS
<1>1. log = <<Blank>> /\ exited = FALSE
  BY DEF Init, Fresh
<1>2. Len(log) = 1 /\ log[1] = Blank
  BY <1>1
<1>3. /\ Screens = [c \in Clients |-> Blank]
      /\ Versions = [c \in Clients |-> 1] /\ Told = [c \in Clients |-> FALSE]
  BY DEF Init, Fresh, Screens, Versions, Told
<1>4. "Active" \in Modes /\ Stripped(log[1], "Active") = Blank
  BY <1>2 DEF Modes, Stripped
<1> QED BY <1>1, <1>2, <1>3, <1>4 DEF Promise!Init, Screens, Versions, Told

LEMMA FeedWrites ==
  ASSUME FanoutAssumption, TypeOK, NEW k \in Chunks, Feed(k)
  PROVE  Promise!Write
<1> USE DEF server, wire, client, history
<1>1. k \in Chunk /\ log \in Seq(View) /\ Surface \in View /\ Len(log) \in Nat
  BY DEF FanoutAssumption, TypeOK, Surface
<1>2. PICK w \in View : log' = Append(log, w)
  BY <1>1, WrittenType DEF Feed
<1>3. Len(log') = Len(log) + 1 /\ SubSeq(log', 1, Len(log)) = log
  BY <1>1, <1>2
<1>4. exited' = exited /\ replica' = replica /\ shown' = shown
  BY DEF Feed
<1> QED BY <1>3, <1>4 DEF Promise!Write

LEMMA ReapEnds == ReapPoll => Promise!End
BY DEF ReapPoll, Promise!End, server, wire, client, history

(* The client shows the state the frame was built from, and knows of the    *)
(* exit if the frame says so                                               *)
LEMMA FrameShows ==
  ASSUME TypeOK, VersionsOK, NEW c \in Clients, Delivery(c), Forward(c), Delivery(c)', ~torn'[c],
         NEW f, f = Head(chan[c]), ClientRecv(c), RecvSnapshot(c, f) \/ RecvDelta(c, f)
  PROVE  Promise!Show(c)
<1> USE DEF server, wire, client, history
<1> DEFINE knows == IF f.kind = "Snapshot" THEN f.exited ELSE replica[c].exited
<1>1. Sequenced(f) /\ Carries(f) /\ f.kind \in {"Snapshot", "Delta"}
  BY DEF RecvSnapshot, RecvDelta, Sequenced, Carries
<1>2. f \in Flight(c) /\ f \in Frame
  BY <1>1, NextFrame
<1>3. log' = log /\ exited' = exited
  BY DEF ClientRecv
<1>4. f.version \in shown[c].version..Len(log) /\ f.mode \in Modes
  <2>1. f.version \in 1..Len(log) /\ f.mode \in Modes
    BY <1>2, FlightType
  <2>2. shown[c].version \in Nat /\ shown[c].version <= f.version
    BY <1>1, <1>2 DEF Forward, TypeOK
  <2> QED BY <2>1, <2>2
<1>5. shown' = [shown EXCEPT ![c] = [version |-> f.version, mode |-> f.mode]]
  BY DEF RecvSnapshot, RecvDelta
<1>6. shown'[c].version = f.version /\ shown'[c].mode = f.mode
  BY <1>5 DEF TypeOK
<1>7. Versions' = [Versions EXCEPT ![c] = f.version]
  BY <1>5 DEF Versions, TypeOK
<1>8. replica'[c].view = Stripped(log[f.version], f.mode)
  BY <1>3, <1>6 DEF Delivery, Shows, Seen
<1>9. \A d \in Clients : d # c => replica'[d] = replica[d]
  BY DEF RecvSnapshot, RecvDelta, TypeOK
<1>10. Screens' = [Screens EXCEPT ![c] = Stripped(log[f.version], f.mode)]
  <2>1. \A d \in Clients : Screens'[d] = [Screens EXCEPT ![c] = Stripped(log[f.version], f.mode)][d]
    BY <1>8, <1>9 DEF Screens
  <2> QED BY <2>1 DEF Screens
<1>11. replica'[c].exited = knows /\ knows \in BOOLEAN /\ replica[c].exited \in BOOLEAN
  <2>1. replica[c] \in [seq: Nat, view: View, exited: BOOLEAN] /\ f.exited \in BOOLEAN
    BY <1>2 DEF TypeOK, Frame
  <2>2. CASE RecvSnapshot(c, f)
    <3>1. f.kind = "Snapshot" /\ replica'[c].exited = f.exited
      BY <2>2 DEF RecvSnapshot, TypeOK
    <3> QED BY <2>1, <3>1
  <2>3. CASE RecvDelta(c, f)
    <3>1. f.kind = "Delta"
      BY <2>3 DEF RecvDelta
    <3>2. replica'[c] = [replica[c] EXCEPT !.seq = f.seq, !.view = Patched(replica[c].view, f)]
      BY <2>3 DEF RecvDelta, TypeOK
    <3>3. replica'[c].exited = replica[c].exited
      BY <2>1, <3>2
    <3> QED BY <2>1, <3>1, <3>3
  <2> QED BY <2>2, <2>3
<1>12. /\ replica[c].exited => knows
       /\ knows => replica[c].exited \/ exited
  BY <1>1, <1>2 DEF Forward, Delivery, ExitKnown, Says
<1> HIDE DEF knows
<1>13. \E k \in {Told[c], exited} : Told' = [Told EXCEPT ![c] = @ \/ k]
  <2>1. PICK k \in {Told[c], exited} : knows = (Told[c] \/ k)
    <3>1. Told[c] = replica[c].exited /\ Told[c] \in BOOLEAN
      BY <1>11 DEF Told
    <3>2. CASE knows /\ ~Told[c]
      <4>1. exited /\ knows = (Told[c] \/ exited)
        BY <1>11, <1>12, <3>1, <3>2
      <4> QED BY <4>1
    <3>3. CASE knows = Told[c]
      <4>1. knows = (Told[c] \/ Told[c])
        BY <1>11, <3>3
      <4> QED BY <4>1
    <3> QED BY <1>11, <1>12, <3>1, <3>2, <3>3
  <2>2. \A d \in Clients : Told'[d] = [Told EXCEPT ![c] = @ \/ k][d]
    BY <1>9, <1>11, <2>1 DEF Told
  <2> QED BY <2>2 DEF Told
<1> QED BY <1>3, <1>4, <1>7, <1>10, <1>13 DEF Promise!Show, Screens, Versions, Told

LEMMA ExitTells ==
  ASSUME TypeOK, NEW c \in Clients, Delivery(c),
         NEW f, f = Head(chan[c]), ClientRecv(c), RecvExited(c, f)
  PROVE  Promise!Tell(c)
<1> USE DEF server, wire, client, history
<1>1. Sequenced(f) /\ Says(f)
  BY DEF RecvExited, Sequenced, Says
<1>2. exited
  BY <1>1, NextFrame DEF Delivery, ExitKnown
<1>3. log' = log /\ exited' = exited /\ shown' = shown
  BY DEF ClientRecv, RecvExited
<1>4. \A d \in Clients : d # c => replica'[d] = replica[d]
  BY DEF RecvExited, TypeOK
<1>5. replica'[c].exited = TRUE /\ replica'[c].view = replica[c].view
  <2>1. replica[c] \in [seq: Nat, view: View, exited: BOOLEAN]
    BY DEF TypeOK
  <2> QED BY <2>1 DEF RecvExited, TypeOK
<1>6. Screens' = Screens
  BY <1>4, <1>5 DEF Screens
<1>7. Told' = [Told EXCEPT ![c] = TRUE]
  <2>1. \A d \in Clients : Told'[d] = [Told EXCEPT ![c] = TRUE][d]
    BY <1>4, <1>5 DEF Told
  <2> QED BY <2>1 DEF Told
<1> QED BY <1>2, <1>3, <1>6, <1>7 DEF Promise!Tell, Screens, Told

LEMMA PromiseStep ==
  ASSUME FanoutAssumption, TypeOK, VersionsOK, Delivered, AllForward, Delivered', NeverTorn',
         [Next]_vars
  PROVE  [Promise!Next]_(Promise!vars)
<1> USE DEF server, wire, client, history
<1>1. ASSUME NEW k \in Chunks, Feed(k) PROVE Promise!Next
  BY <1>1, FeedWrites DEF Promise!Next
<1>2. CASE ReapPoll
  BY <1>2, ReapEnds DEF Promise!Next
<1>3. ASSUME NEW c \in Clients, ClientRecv(c) PROVE [Promise!Next]_(Promise!vars)
  <2> DEFINE f == Head(chan[c])
  <2>1. Delivery(c) /\ Delivery(c)' /\ Forward(c) /\ ~torn'[c]
    BY DEF Delivered, AllForward, NeverTorn
  <2>2. /\ \/ RecvSnapshot(c, f) \/ RecvDelta(c, f) \/ RecvGap(c, f)
           \/ RecvExited(c, f) \/ RecvNotice(c, f)
        /\ log' = log /\ exited' = exited
    BY <1>3 DEF ClientRecv
  <2>3. f = Head(chan[c])
    OBVIOUS
  <2> HIDE DEF f
  <2>4. CASE RecvSnapshot(c, f) \/ RecvDelta(c, f)
    BY <1>3, <2>1, <2>3, <2>4, FrameShows DEF Promise!Next
  <2>5. CASE RecvExited(c, f)
    BY <1>3, <2>1, <2>3, <2>5, ExitTells DEF Promise!Next
  <2>6. CASE RecvGap(c, f) \/ RecvNotice(c, f)
    BY <2>2, <2>6 DEF RecvGap, RecvNotice, Promise!vars
  <2> QED BY <2>2, <2>4, <2>5, <2>6
<1>4. CASE \/ StylesOverflow \/ ReapFanOut \/ Flush \/ Tick
           \/ \E c \in Clients :
                \/ PumpSend(c) \/ DisconnectSilent(c) \/ ServeMsg(c) \/ ServeClose(c)
                \/ ConnDrop(c) \/ (\E m \in Modes : ClientAttach(c, m))
                \/ ClientDetach(c) \/ Reconnect(c)
           \/ UNCHANGED vars
  <2>1. log' = log /\ exited' = exited /\ replica' = replica /\ shown' = shown
    BY <1>4 DEF StylesOverflow, ReapFanOut, Flush, Tick, PumpSend, DisconnectSilent,
       ServeMsg, ServeClose, ConnDrop, ClientAttach, ClientDetach, Reconnect, vars
  <2> QED BY <2>1 DEF Promise!vars
<1> QED BY <1>1, <1>2, <1>3, <1>4 DEF Next

(* The data plane implements Mirror: whatever is lost, repeated, resynced   *)
(* or connected again, a client only ever shows a whole state of the        *)
(* engine, never an older one than before, and never forgets the exit or    *)
(* learns of it early.                                                     *)
THEOREM PromiseKept == Spec /\ []NeverTorn => KeepsPromise
<1>1. TypeOK /\ VersionsOK /\ Delivered /\ AllForward /\ Delivered' /\ NeverTorn' /\ [Next]_vars
        => [Promise!Next]_(Promise!vars)
  BY PromiseStep, FanoutAssumption
<1> QED BY <1>1, InitPromise, TypeCorrect, DeliveryInvariant, FramesGoForward, PTL
        DEF Spec, KeepsPromise, Promise!Spec
-----------------------------------------------------------------------------
(* How long a change waits (module SlowClient) *)

(* How long a change may have waited before the stall clock runs: the exit  *)
(* event may close a window that an Ack had reopened, and start it again   *)
Allowed == IF exited THEN SlowAfter ELSE 0

(* While a change of c waits, the stall clock has run since, or is about to *)
(* start at the next flush                                                 *)
Waits(c) ==
  /\ Stale(c)
  /\ staleSince[c] \in Nat /\ staleSince[c] <= now
  /\ now <= staleSince[c] + SlowAfter + Allowed
  /\ subs[c].stalledSince # NoStall => subs[c].stalledSince <= staleSince[c] + Allowed
  /\ subs[c].stalledSince = NoStall /\ Blocked(subs[c]) => now <= staleSince[c] + Allowed

Clocked(c) ==
  /\ subs[c].stalledSince # NoStall => subs[c].stalledSince <= now
  /\ staleSince[c] # NoStall => Waits(c)

AllClocked == \A c \in Clients : Clocked(c)

-----------------------------------------------------------------------------
(* What a step does to a subscription.                                     *)

(* t follows s without starting the stall clock anew: it keeps it, stops it *)
(* with the window open, or starts it on a window that was closed          *)
Paced(s, t) ==
  /\ t.stalledSince # NoStall =>
       \/ t.stalledSince = s.stalledSince
       \/ t.stalledSince = now /\ s.stalledSince = NoStall /\ Blocked(s)
  /\ t.stalledSince = NoStall /\ Blocked(t) => s.stalledSince = NoStall /\ Blocked(s)

(* t has no change waiting, or follows s                                   *)
Follows(s, t) ==
  /\ t.stalledSince \in {NoStall, now, s.stalledSince}
  /\ t.dirty # {} /\ ~t.snap => Paced(s, t)

LEMMA SameFollows == ASSUME NEW s PROVE Follows(s, s)
BY DEF Follows, Paced

LEMMA DamagedFollows ==
  ASSUME NEW s \in Subscription, NEW k \in Chunk
  PROVE  Follows(s, Damaged(s, k))
<1>1. /\ Damaged(s, k).stalledSince = s.stalledSince
      /\ Damaged(s, k).sent = s.sent /\ Damaged(s, k).acked = s.acked
  BY DEF Damaged, Subscription
<1> QED BY <1>1 DEF Follows, Paced, Blocked

LEMMA ForcedFollows ==
  ASSUME NEW s \in Subscription
  PROVE  Follows(s, Forced(s))
BY DEF Forced, Follows, Subscription

LEMMA AttachedFollows ==
  ASSUME NEW s \in Subscription, NEW m
  PROVE  Follows(s, NewSubscription(m)) /\ Follows(s, Resynced(s, m))
BY DEF NewSubscription, Resynced, Cleared, Follows, Subscription

(* An Ack stops the stall clock only by opening the window                 *)
LEMMA AckedFollows ==
  ASSUME FanoutAssumption, NEW s \in Subscription, NEW n \in Nat
  PROVE  Follows(s, Acked(s, n))
<1> DEFINE top == IF n <= s.acked THEN s.acked ELSE IF n < s.sent THEN n ELSE s.sent
           t   == [s EXCEPT !.acked = top, !.lastAckAt = now]
<1>1. s.sent \in Nat /\ s.acked \in Nat /\ AckWindow \in Nat
  BY DEF Subscription, FanoutAssumption
<1>2. /\ t.acked = top /\ t.sent = s.sent /\ t.stalledSince = s.stalledSince
  BY DEF Subscription
<1>3. Blocked(t) => Blocked(s)
  BY <1>1, <1>2 DEF Blocked
<1>4. Acked(s, n) = IF Blocked(t) THEN t ELSE [t EXCEPT !.stalledSince = NoStall]
  BY DEF Acked
<1>5. CASE Blocked(t)
  BY <1>2, <1>3, <1>4, <1>5 DEF Follows, Paced
<1>6. CASE ~Blocked(t)
  <2>1. /\ Acked(s, n).stalledSince = NoStall
        /\ Acked(s, n).sent = t.sent /\ Acked(s, n).acked = t.acked
    BY <1>4, <1>6 DEF Subscription
  <2>2. ~Blocked(Acked(s, n))
    BY <1>6, <2>1 DEF Blocked
  <2> QED BY <2>1, <2>2 DEF Follows, Paced
<1> QED BY <1>5, <1>6

(* A flush leaves a change waiting only behind a closed window, with the    *)
(* stall clock running                                                     *)
LEMMA FlushedFollows ==
  ASSUME FanoutAssumption, now \in Nat, NEW s \in Subscription, NEW n \in Nat
  PROVE  Follows(s, Flushed(s, n))
<1>1. CASE Flushed(s, n) = s
  BY <1>1, SameFollows
<1>2. CASE Held(s) /\ Flushed(s, n) = HeldBack(s)
  <2>1. Blocked(s) /\ HeldBack(s).stalledSince = StalledSince(s)
    BY <1>2 DEF Held, HeldBack, Subscription
  <2>2. StalledSince(s) # NoStall
    BY DEF StalledSince, FanoutAssumption
  <2> QED BY <1>2, <2>1, <2>2 DEF Follows, Paced, StalledSince
<1>3. CASE Flushed(s, n) \in {SnapshotSent(s, n), DeltaSent(s, n)}
  <2>1. Flushed(s, n).dirty = {} /\ Flushed(s, n).stalledSince = NoStall
    BY <1>3 DEF SnapshotSent, DeltaSent, Cleared, Subscription
  <2> QED BY <2>1 DEF Follows
<1> QED BY <1>1, <1>2, <1>3 DEF Flushed

LEMMA ServeMsgFollows ==
  ASSUME FanoutAssumption, TypeOK, NEW d \in Clients, ServeMsg(d), NEW c \in Clients
  PROVE  Follows(subs[c], subs'[c])
<1> DEFINE m == Head(inq[d])
<1>1. inq[d] # <<>> /\ inq[d] \in Seq(Request)
  BY DEF ServeMsg, TypeOK
<1>2. m \in Request
  BY <1>1
<1>3. m.seq \in Nat
  BY <1>2 DEF Request
<1>4. subs[c] \in Subscription
  BY DEF TypeOK
<1>5. OnAttach(d, m.mode) \/ OnDetach(d) \/ OnAck(d, m.seq)
  BY DEF ServeMsg
<1> HIDE DEF m
<1>6. CASE OnAttach(d, m.mode)
  <2>1. subs'[c] \in {subs[c], NewSubscription(m.mode), Resynced(subs[c], m.mode)}
    BY <1>6 DEF OnAttach, TypeOK
  <2> QED BY <1>4, <2>1, SameFollows, AttachedFollows
<1>7. CASE OnDetach(d)
  BY <1>7, SameFollows DEF OnDetach
<1>8. CASE OnAck(d, m.seq)
  <2>1. subs'[c] \in {subs[c], Acked(subs[c], m.seq)}
    BY <1>8 DEF OnAck, TypeOK
  <2> QED BY <1>3, <1>4, <2>1, SameFollows, AckedFollows
<1> QED BY <1>5, <1>6, <1>7, <1>8

(* Every step but the exit and a tick of the clock                         *)
LEMMA StepFollows ==
  ASSUME FanoutAssumption, TypeOK, NEW c \in Clients, Next, ~ReapPoll, ~Tick
  PROVE  now' = now /\ exited' = exited /\ Follows(subs[c], subs'[c])
<1> USE DEF server, wire, client, history
<1>1. subs[c] \in Subscription /\ now \in Nat /\ seq + 1 \in Nat
  BY DEF TypeOK
<1>2. ASSUME NEW k \in Chunks, Feed(k)
      PROVE  now' = now /\ exited' = exited /\ Follows(subs[c], subs'[c])
  <2>1. k \in Chunk
    BY DEF FanoutAssumption
  <2>2. subs'[c] \in {subs[c], Damaged(subs[c], k)}
    BY <1>2 DEF Feed
  <2> QED BY <1>1, <1>2, <2>1, <2>2, SameFollows, DamagedFollows DEF Feed
<1>3. CASE StylesOverflow
  <2>1. subs'[c] \in {subs[c], Forced(subs[c])}
    BY <1>3 DEF StylesOverflow
  <2> QED BY <1>1, <1>3, <2>1, SameFollows, ForcedFollows DEF StylesOverflow
<1>4. CASE Flush
  <2>1. subs'[c] \in {subs[c], Flushed(subs[c], seq + 1)}
    BY <1>4 DEF Flush
  <2> QED BY <1>1, <1>4, <2>1, SameFollows, FlushedFollows DEF Flush
<1>5. CASE \E d \in Clients : ServeMsg(d)
  BY <1>5, ServeMsgFollows DEF ServeMsg
<1>6. CASE \/ ReapFanOut
           \/ \E d \in Clients :
                \/ PumpSend(d) \/ DisconnectSilent(d) \/ ServeClose(d) \/ ConnDrop(d)
                \/ (\E m \in Modes : ClientAttach(d, m))
                \/ ClientDetach(d) \/ ClientRecv(d) \/ Reconnect(d)
  <2>1. now' = now /\ exited' = exited /\ subs' = subs
    BY <1>6 DEF ReapFanOut, PumpSend, DisconnectSilent, ServeClose, ConnDrop, ClientAttach,
       ClientDetach, ClientRecv, Reconnect
  <2> QED BY <2>1, SameFollows
<1> QED BY <1>2, <1>3, <1>4, <1>5, <1>6 DEF Next
-----------------------------------------------------------------------------
(* The invariant.                                                          *)

LEMMA TimelessClocked ==
  ASSUME FanoutAssumption, TypeOK, NEW c \in Clients, Clocked(c),
         now' = now, exited' = exited, Follows(subs[c], subs'[c]),
         staleSince'[c] = IF ~Stale(c)' THEN NoStall ELSE IF Stale(c) THEN staleSince[c] ELSE now
  PROVE  Clocked(c)'
<1> DEFINE s == subs[c]
           t == subs'[c]
<1>1. now \in Nat /\ SlowAfter \in Nat /\ NoStall \notin Nat
  BY DEF TypeOK, FanoutAssumption
<1>2. Allowed' = Allowed /\ Allowed \in Nat
  BY <1>1 DEF Allowed
<1>3. t.stalledSince # NoStall => t.stalledSince \in Nat /\ t.stalledSince <= now
  <2>1. s.stalledSince # NoStall => s.stalledSince \in Nat
    BY DEF TypeOK, Subscription
  <2> QED BY <1>1, <2>1 DEF Clocked, Follows
<1>4. CASE ~Stale(c)'
  BY <1>3, <1>4 DEF Clocked
<1>5. CASE Stale(c)'
  <2>1. Paced(s, t)
    BY <1>5 DEF Stale, Follows
  <2>2. CASE ~Stale(c)
    <3>1. staleSince'[c] = now
      BY <1>5, <2>2
    <3>2. now <= now + SlowAfter + Allowed /\ now <= now + Allowed
      BY <1>1, <1>2
    <3>3. t.stalledSince # NoStall => t.stalledSince <= now + Allowed
      BY <1>1, <1>2, <1>3
    <3> QED BY <1>1, <1>2, <1>3, <1>5, <3>1, <3>2, <3>3 DEF Clocked, Waits
  <2>3. CASE Stale(c)
    <3>1. staleSince'[c] = staleSince[c]
      BY <1>5, <2>3
    <3>2. CASE staleSince[c] = NoStall
      BY <1>3, <3>1, <3>2 DEF Clocked
    <3>3. CASE staleSince[c] # NoStall
      <4>1. Waits(c)
        BY <3>3 DEF Clocked
      <4>2. t.stalledSince # NoStall => t.stalledSince <= staleSince[c] + Allowed
        BY <2>1, <4>1 DEF Waits, Paced
      <4>3. t.stalledSince = NoStall /\ Blocked(t) => now <= staleSince[c] + Allowed
        BY <2>1, <4>1 DEF Waits, Paced
      <4>4. Waits(c)'
        BY <1>2, <1>5, <3>1, <4>1, <4>2, <4>3 DEF Waits, Blocked
      <4> QED BY <1>3, <4>4 DEF Clocked
    <3> QED BY <3>2, <3>3
  <2> QED BY <2>2, <2>3
<1> QED BY <1>4, <1>5

(* The exit may close the window of a client that waits, once              *)
LEMMA ExitClocked ==
  ASSUME FanoutAssumption, TypeOK, NEW c \in Clients, Clocked(c), ReapPoll,
         staleSince'[c] = IF ~Stale(c)' THEN NoStall ELSE IF Stale(c) THEN staleSince[c] ELSE now
  PROVE  Clocked(c)'
<1>1. /\ now \in Nat /\ SlowAfter \in Nat /\ NoStall \notin Nat
      /\ subs[c] \in Subscription
  BY DEF TypeOK, FanoutAssumption
<1>2. now' = now /\ attached' = attached /\ Allowed = 0 /\ Allowed' = SlowAfter
  BY DEF ReapPoll, Allowed
<1>3. /\ subs'[c].stalledSince = subs[c].stalledSince
      /\ subs'[c].dirty = subs[c].dirty /\ subs'[c].snap = subs[c].snap
  <2>1. subs'[c] = IF c \in attached THEN EventNoted(subs[c], seq + 1) ELSE subs[c]
    BY DEF ReapPoll
  <2> QED BY <1>1, <2>1 DEF EventNoted, Subscription
<1>4. Stale(c)' = Stale(c)
  BY <1>2, <1>3 DEF Stale
<1>5. staleSince'[c] # NoStall => Stale(c) /\ staleSince'[c] \in {staleSince[c], NoStall}
  BY <1>4
<1>6. ASSUME staleSince'[c] # NoStall PROVE Waits(c)'
  <2>1. staleSince'[c] = staleSince[c] /\ Waits(c)
    BY <1>5, <1>6 DEF Clocked
  <2>2. /\ staleSince[c] \in Nat /\ staleSince[c] <= now
        /\ now <= staleSince[c] + SlowAfter
        /\ subs[c].stalledSince # NoStall => subs[c].stalledSince <= staleSince[c]
    BY <1>1, <1>2, <2>1 DEF Waits
  <2>3. subs[c].stalledSince # NoStall => subs[c].stalledSince \in Nat
    BY <1>1 DEF Subscription
  <2>4. subs[c].stalledSince # NoStall => subs[c].stalledSince <= staleSince[c] + SlowAfter
    BY <1>1, <2>2, <2>3
  <2>5. now <= staleSince[c] + SlowAfter + SlowAfter
    BY <1>1, <2>2
  <2> QED BY <1>2, <1>3, <1>4, <1>5, <1>6, <2>1, <2>2, <2>4, <2>5 DEF Waits
<1> QED BY <1>2, <1>3, <1>6 DEF Clocked

(* A second goes by only while the stall clock of a client that waits has   *)
(* not run out: a flush would change everything else                       *)
LEMMA TickClocked ==
  ASSUME FanoutAssumption, TypeOK, NEW c \in Clients, Clocked(c), Tick,
         staleSince'[c] = IF ~Stale(c)' THEN NoStall ELSE IF Stale(c) THEN staleSince[c] ELSE now
  PROVE  Clocked(c)'
<1> DEFINE s == subs[c]
<1>1. /\ now \in Nat /\ SlowAfter \in Nat /\ NoStall \notin Nat
      /\ s \in Subscription /\ seq + 1 \in Nat
  BY DEF TypeOK, FanoutAssumption
<1>2. /\ now' = now + 1 /\ subs' = subs /\ attached' = attached /\ exited' = exited
      /\ c \in attached => Flushed(s, seq + 1) = s
  BY DEF Tick
<1>3. s.stalledSince # NoStall => s.stalledSince \in Nat /\ s.stalledSince <= now
  BY <1>1 DEF Clocked, Subscription
<1>4. Stale(c)' = Stale(c) /\ Allowed' = Allowed /\ Allowed \in Nat
  BY <1>1, <1>2 DEF Stale, Allowed
<1> HIDE DEF s
<1>5. ASSUME Stale(c)
      PROVE  s.stalledSince # NoStall /\ now < s.stalledSince + SlowAfter
  <2>1. Flushed(s, seq + 1) = s /\ s.dirty # {} /\ ~s.snap
    BY <1>2, <1>5 DEF Stale, s
  <2>2. Owed(s)
    BY <2>1 DEF Owed, Pending
  <2>3. SnapshotSent(s, seq + 1).dirty = {} /\ DeltaSent(s, seq + 1).dirty = {}
    BY <1>1 DEF SnapshotSent, DeltaSent, Cleared, Subscription
  <2>4. Held(s) /\ HeldBack(s) = s
    BY <2>1, <2>2, <2>3 DEF Flushed
  <2>5. HeldBack(s).stalledSince = StalledSince(s)
    BY <1>1 DEF HeldBack, Subscription
  <2>6. s.stalledSince # NoStall
    BY <1>1, <2>4, <2>5 DEF StalledSince
  <2> QED BY <2>4, <2>6 DEF Held, StalledSince
<1>6. ASSUME staleSince'[c] # NoStall PROVE Waits(c)'
  <2>1. Stale(c) /\ staleSince'[c] = staleSince[c] /\ Waits(c)
    BY <1>4, <1>6 DEF Clocked
  <2>2. /\ staleSince[c] \in Nat /\ staleSince[c] <= now
        /\ s.stalledSince <= staleSince[c] + Allowed
    BY <1>5, <2>1 DEF Waits, s
  <2>3. now + 1 <= staleSince[c] + SlowAfter + Allowed
    BY <1>1, <1>3, <1>4, <1>5, <2>1, <2>2
  <2> QED BY <1>1, <1>2, <1>4, <1>5, <2>1, <2>2, <2>3 DEF Waits, s
<1>7. s.stalledSince # NoStall => s.stalledSince <= now + 1
  BY <1>1, <1>3
<1> QED BY <1>2, <1>6, <1>7 DEF Clocked, s

LEMMA ClockedStep ==
  ASSUME FanoutAssumption, TypeOK, AllClocked, [SlowNext]_slowVars
  PROVE  AllClocked'
<1>1. SUFFICES ASSUME NEW c \in Clients PROVE Clocked(c)'
  BY DEF AllClocked
<1>2. Clocked(c)
  BY DEF AllClocked
<1>3. CASE SlowNext
  <2>1. staleSince'[c] = IF ~Stale(c)' THEN NoStall ELSE IF Stale(c) THEN staleSince[c] ELSE now
    BY <1>3 DEF SlowNext
  <2>2. CASE ReapPoll
    BY <1>2, <2>1, <2>2, ExitClocked
  <2>3. CASE Tick
    BY <1>2, <2>1, <2>3, TickClocked
  <2>4. CASE ~ReapPoll /\ ~Tick
    BY <1>2, <1>3, <2>1, <2>4, StepFollows, TimelessClocked DEF SlowNext
  <2> QED BY <2>2, <2>3, <2>4
<1>4. CASE UNCHANGED slowVars
  <2>1. /\ now' = now /\ exited' = exited /\ subs' = subs /\ attached' = attached
        /\ staleSince' = staleSince
    BY <1>4 DEF slowVars, vars, server
  <2> QED BY <1>2, <2>1 DEF Clocked, Waits, Stale, Allowed, Blocked
<1> QED BY <1>3, <1>4

(* The history clock changes nothing of what the data plane does           *)
LEMMA OnlyHistory == SlowSpec => Spec
<1>1. SlowInit => Init
  BY DEF SlowInit
<1>2. [SlowNext]_slowVars => [Next]_vars
  BY DEF SlowNext, slowVars
<1> QED BY <1>1, <1>2, PTL DEF SlowSpec, Spec

(* A change waits for the window of its client at most as long as the       *)
(* configuration says, and at most twice as long when the child exits: no   *)
(* Ack, held flush or new output starts the stall clock again.             *)
THEOREM NoClientStarves == SlowSpec => []NeverStarved
<1>1. SlowInit => AllClocked
  <2>1. SUFFICES ASSUME SlowInit, NEW c \in Clients PROVE Clocked(c)
    BY DEF AllClocked
  <2>2. subs[c] = NewSubscription("Active") /\ staleSince[c] = NoStall
    BY <2>1 DEF SlowInit, Init, Fresh
  <2>3. subs[c].stalledSince = NoStall
    BY <2>2 DEF NewSubscription
  <2> QED BY <2>2, <2>3 DEF Clocked
<1>2. TypeOK /\ AllClocked /\ [SlowNext]_slowVars => AllClocked'
  BY ClockedStep, FanoutAssumption
<1>3. TypeOK /\ AllClocked => NeverStarved
  <2>1. SlowAfter \in Nat /\ (TypeOK => now \in Nat)
    BY FanoutAssumption DEF FanoutAssumption, TypeOK
  <2>2. SUFFICES ASSUME TypeOK, AllClocked, NEW c \in Clients, staleSince[c] # NoStall
                 PROVE  now <= staleSince[c] + (IF exited THEN 2 * SlowAfter ELSE SlowAfter)
    BY DEF NeverStarved
  <2>3. staleSince[c] \in Nat /\ now <= staleSince[c] + SlowAfter + Allowed
    BY <2>2 DEF AllClocked, Clocked, Waits
  <2> QED BY <2>1, <2>2, <2>3 DEF Allowed
<1> QED BY <1>1, <1>2, <1>3, OnlyHistory, TypeCorrect, PTL DEF SlowSpec
=============================================================================
