---------------------------- MODULE FanoutProofs ----------------------------
(* Theorems about Fanout, for every number of clients, rows and chunks and  *)
(* every value of the windows, capacities and bounds.                       *)
EXTENDS Fanout, SequenceTheorems, TLAPS

-----------------------------------------------------------------------------
(* What the Publisher's operators return.                                  *)

LEMMA NewSubscriptionType ==
  ASSUME now \in Nat, NEW m \in Modes
  PROVE  NewSubscription(m) \in Subscription
BY DEF NewSubscription, Subscription

LEMMA ClearedType ==
  ASSUME NEW s \in Subscription
  PROVE  Cleared(s) \in Subscription
BY DEF Cleared, Subscription

LEMMA ResyncedType ==
  ASSUME now \in Nat, NEW s \in Subscription, NEW m \in Modes
  PROVE  Resynced(s, m) \in Subscription
BY ClearedType DEF Resynced, Subscription

LEMMA AckedType ==
  ASSUME now \in Nat, NEW s \in Subscription, NEW n \in Nat
  PROVE  Acked(s, n) \in Subscription
BY DEF Acked, Subscription

LEMMA DamagedType ==
  ASSUME NEW s \in Subscription, NEW k \in Chunk
  PROVE  Damaged(s, k) \in Subscription
BY DEF Damaged, Subscription, Chunk

LEMMA ForcedType ==
  ASSUME NEW s \in Subscription
  PROVE  Forced(s) \in Subscription
BY DEF Forced, Subscription

LEMMA EventNotedType ==
  ASSUME NEW s \in Subscription, NEW n \in Nat
  PROVE  EventNoted(s, n) \in Subscription
BY DEF EventNoted, Subscription

LEMMA SentTypes ==
  ASSUME now \in Nat, NEW s \in Subscription, NEW n \in Nat \ {0}
  PROVE  /\ HeldBack(s) \in Subscription
         /\ SnapshotSent(s, n) \in Subscription
         /\ DeltaSent(s, n) \in Subscription
<1>1. HeldBack(s) \in Subscription
  BY DEF HeldBack, StalledSince, Subscription
<1>2. SnapshotSent(s, n) \in Subscription
  <2>1. n \in Nat /\ n - 1 \in Nat
    OBVIOUS
  <2> QED BY <2>1, ClearedType DEF SnapshotSent, Subscription
<1>3. DeltaSent(s, n) \in Subscription
  BY ClearedType DEF DeltaSent, Subscription
<1> QED BY <1>1, <1>2, <1>3

LEMMA FlushedType ==
  ASSUME now \in Nat, NEW s \in Subscription, NEW n \in Nat \ {0}
  PROVE  Flushed(s, n) \in Subscription
BY SentTypes DEF Flushed

-----------------------------------------------------------------------------
(* Every frame was built from a state the engine has been in.              *)

VersionsOK ==
  \A c \in Clients :
    /\ tail[c].version <= Len(log)
    /\ shown[c].version <= Len(log)
    /\ \A i \in 1..Len(chan[c]) : chan[c][i].version <= Len(log)
    /\ \A i \in 1..Len(outbox[c]) : outbox[c][i].version <= Len(log)

LEMMA BlankType == Blank \in View
BY DEF Blank, View

LEMMA StrippedType ==
  ASSUME NEW view \in View, NEW m
  PROVE  Stripped(view, m) \in View
BY BlankType DEF Stripped, View, Blank

LEMMA SeenType ==
  ASSUME log \in Seq(View), NEW v \in 1..Len(log), NEW m
  PROVE  Seen(v, m) \in View
BY StrippedType DEF Seen

LEMMA WrittenType ==
  ASSUME NEW view \in View, NEW k \in Chunk, NEW n \in Nat
  PROVE  Written(view, k, n) \in View
BY DEF Written, View

LEMMA PatchedType ==
  ASSUME log \in Seq(View), NEW view \in View, NEW f \in Frame,
         f.version \in 1..Len(log)
  PROVE  Patched(view, f) \in View
<1>1. Seen(f.version, f.mode) \in View
  BY SeenType
<1> QED BY <1>1 DEF Patched, View

LEMMA NoticeType ==
  /\ Notice("Bell") \in Frame
  /\ Notice("Detached") \in Frame
  /\ Notice("Error") \in Frame
BY DEF Notice, Frame, Modes

LEMMA MsgType ==
  /\ \A m \in Modes : AttachMsg(m) \in Request
  /\ DetachMsg \in Request
  /\ \A n \in Nat : AckMsg(n) \in Request
BY DEF AttachMsg, DetachMsg, AckMsg, Request, Modes

LEMMA BuiltFramesType ==
  ASSUME TypeOK, NEW s \in Subscription, NEW n \in Nat
  PROVE  BuiltFrames(s, n) \in Seq(Frame)
<1> DEFINE bell == IF Emission(s) # "None" /\ s.bell THEN <<Notice("Bell")>> ELSE <<>>
           f == [kind     |-> Emission(s),
                 seq      |-> n,
                 since    |-> s.sent,
                 dirty    |-> IF s.mode = "Active" /\ Emission(s) = "Delta" THEN s.dirty ELSE {},
                 hasTitle |-> s.title,
                 version  |-> Len(log),
                 mode     |-> s.mode,
                 exited   |-> exited]
<1>1. bell \in Seq(Frame)
  BY NoticeType
<1>2. ASSUME Emission(s) \in {"Snapshot", "Delta"} PROVE f \in Frame
  <2>1. Len(log) \in Nat \ {0}
    BY DEF TypeOK
  <2> QED BY <1>2, <2>1 DEF TypeOK, Frame, Subscription
<1>3. BuiltFrames(s, n) = IF Emission(s) \notin {"Snapshot", "Delta"} THEN bell
                          ELSE Append(bell, f)
  BY DEF BuiltFrames
<1> QED
  <2> HIDE DEF bell, f
  <2> QED BY <1>1, <1>2, <1>3

LEMMA InitType == FanoutAssumption /\ Init => TypeOK /\ VersionsOK
<1> SUFFICES ASSUME FanoutAssumption, Init PROVE TypeOK /\ VersionsOK
  OBVIOUS
<1>1. now \in Nat /\ "Active" \in Modes
  BY DEF Init, Started, Fresh, Modes
<1>2. NewSubscription("Active") \in Subscription
  BY <1>1, NewSubscriptionType
<1>3. log \in Seq(View) /\ log # <<>> /\ Len(log) = 1
  BY BlankType DEF Init, Started, Fresh
<1>4. /\ outbox \in [Clients -> Seq(Frame)]
      /\ chan \in [Clients -> Seq(Frame)]
      /\ inq \in [Clients -> Seq(Request)]
  BY DEF Init, Started, Fresh
<1>5. /\ replica \in [Clients -> [seq: Nat, view: View, exited: BOOLEAN]]
      /\ tail \in [Clients -> [seq: Nat, version: Nat \ {0}, mode: Modes]]
      /\ shown \in [Clients -> [version: Nat \ {0}, mode: Modes]]
  BY <1>1, BlankType DEF Init, Started, Fresh
<1>6. subs \in [Clients -> Subscription]
  BY <1>2 DEF Init, Started, Fresh
<1>7. TypeOK
  BY <1>1, <1>3, <1>4, <1>5, <1>6 DEF Init, Started, Fresh, TypeOK
<1>8. VersionsOK
  <2> SUFFICES ASSUME NEW c \in Clients
               PROVE  /\ tail[c].version <= Len(log)
                      /\ shown[c].version <= Len(log)
                      /\ \A i \in 1..Len(chan[c]) : chan[c][i].version <= Len(log)
                      /\ \A i \in 1..Len(outbox[c]) : outbox[c][i].version <= Len(log)
    BY DEF VersionsOK
  <2>1. tail[c].version = 1 /\ shown[c].version = 1
    BY DEF Init, Started, Fresh
  <2>2. Len(chan[c]) = 0 /\ Len(outbox[c]) = 0
    BY DEF Init, Started, Fresh
  <2> QED BY <1>3, <2>1, <2>2
<1> QED BY <1>7, <1>8

-----------------------------------------------------------------------------
(* Each action keeps the types.                                            *)

LEMMA FeedType ==
  ASSUME FanoutAssumption, TypeOK, VersionsOK, NEW k \in Chunks, Feed(k)
  PROVE  TypeOK' /\ VersionsOK'
<1> USE DEF server, wire, client, history
<1>1. k \in Chunk
  BY DEF FanoutAssumption
<1>2. Surface \in View /\ Len(log) \in Nat \ {0}
  BY DEF TypeOK, Surface
<1>3. log' \in Seq(View) /\ log' # <<>> /\ Len(log') = Len(log) + 1
  <2>1. Written(Surface, k, Len(log)) \in View
    BY <1>1, <1>2, WrittenType
  <2>2. log' = Append(log, Written(Surface, k, Len(log))) /\ log \in Seq(View)
    BY DEF Feed, TypeOK
  <2> QED BY <2>1, <2>2
<1>4. subs' \in [Clients -> Subscription]
  BY <1>1, DamagedType DEF Feed, TypeOK
<1>5. TypeOK'
  BY <1>3, <1>4 DEF Feed, TypeOK
<1>6. ASSUME NEW q \in [Clients -> Seq(Frame)], NEW c \in Clients, NEW i \in 1..Len(q[c]),
             q[c][i].version <= Len(log)
      PROVE  q[c][i].version <= Len(log')
  <2>1. q[c][i] \in Frame
    OBVIOUS
  <2> QED BY <1>2, <1>3, <1>6, <2>1 DEF Frame
<1>7. ASSUME NEW c \in Clients
      PROVE  tail[c].version <= Len(log') /\ shown[c].version <= Len(log')
  BY <1>2, <1>3 DEF TypeOK, VersionsOK
<1>8. VersionsOK'
  BY <1>6, <1>7 DEF Feed, TypeOK, VersionsOK
<1> QED BY <1>5, <1>8

LEMMA StylesOverflowType ==
  ASSUME TypeOK, VersionsOK, StylesOverflow
  PROVE  TypeOK' /\ VersionsOK'
<1> USE DEF server, wire, client, history
<1>1. subs' \in [Clients -> Subscription]
  BY ForcedType DEF StylesOverflow, TypeOK
<1>2. TypeOK'
  BY <1>1 DEF StylesOverflow, TypeOK
<1> QED BY <1>2 DEF StylesOverflow, VersionsOK

LEMMA ReapPollType ==
  ASSUME TypeOK, VersionsOK, ReapPoll
  PROVE  TypeOK' /\ VersionsOK'
<1> USE DEF server, wire, client, history
<1>1. seq + 1 \in Nat
  BY DEF TypeOK
<1>2. subs' \in [Clients -> Subscription]
  BY <1>1, EventNotedType DEF ReapPoll, TypeOK
<1>3. TypeOK'
  BY <1>1, <1>2 DEF ReapPoll, TypeOK
<1> QED BY <1>3 DEF ReapPoll, VersionsOK

LEMMA ExitedFrameType ==
  ASSUME TypeOK, NEW c \in Clients
  PROVE  ExitedFrame(c) \in Frame /\ ExitedFrame(c).version = tail[c].version
BY DEF TypeOK, ExitedFrame, Frame

LEMMA ReapFanOutType ==
  ASSUME TypeOK, VersionsOK, ReapFanOut
  PROVE  TypeOK' /\ VersionsOK'
<1> USE DEF server, wire, client, history
<1>1. outbox' \in [Clients -> Seq(Frame)]
  <2>1. ASSUME NEW c \in Clients PROVE outbox[c] \in Seq(Frame) /\ Append(outbox[c], ExitedFrame(c)) \in Seq(Frame)
    <3>1. outbox[c] \in Seq(Frame) BY DEF TypeOK
    <3>2. ExitedFrame(c) \in Frame BY ExitedFrameType
    <3> QED BY <3>1, <3>2
  <2> QED BY <2>1 DEF ReapFanOut
<1>2. tail' \in [Clients -> [seq: Nat, version: Nat \ {0}, mode: Modes]]
  <2>1. \A c \in Clients : tail[c] \in [seq: Nat, version: Nat \ {0}, mode: Modes]
    BY DEF TypeOK
  <2>2. \A c \in Clients : [tail[c] EXCEPT !.seq = seq] \in [seq: Nat, version: Nat \ {0}, mode: Modes]
    BY <2>1 DEF TypeOK
  <2> QED BY <2>1, <2>2 DEF ReapFanOut
<1>3. TypeOK'
  BY <1>1, <1>2 DEF ReapFanOut, TypeOK
<1>4. ASSUME NEW c \in Clients PROVE tail'[c].version = tail[c].version
  BY DEF ReapFanOut, TypeOK
<1>5. ASSUME NEW c \in Clients, NEW i \in 1..Len(outbox'[c])
      PROVE  outbox'[c][i].version <= Len(log)
  <2>1. CASE c \in attached
    <3>1. outbox'[c] = Append(outbox[c], ExitedFrame(c))
      BY <2>1 DEF ReapFanOut
    <3>2. outbox[c] \in Seq(Frame)
      BY DEF TypeOK
    <3>3. i \in 1..Len(outbox[c]) \/ i = Len(outbox[c]) + 1
      BY <3>1, <3>2
    <3> QED BY <3>1, <3>2, <3>3, ExitedFrameType DEF VersionsOK
  <2>2. CASE c \notin attached
    BY <2>2 DEF ReapFanOut, VersionsOK
  <2> QED BY <2>1, <2>2
<1>6. VersionsOK'
  BY <1>4, <1>5 DEF ReapFanOut, VersionsOK
<1> QED BY <1>3, <1>6

LEMMA BuiltFramesVersion ==
  ASSUME TypeOK, NEW s \in Subscription, NEW n \in Nat,
         NEW i \in 1..Len(BuiltFrames(s, n))
  PROVE  BuiltFrames(s, n)[i].version <= Len(log)
<1> DEFINE bell == IF Emission(s) # "None" /\ s.bell THEN <<Notice("Bell")>> ELSE <<>>
           f == [kind     |-> Emission(s),
                 seq      |-> n,
                 since    |-> s.sent,
                 dirty    |-> IF s.mode = "Active" /\ Emission(s) = "Delta" THEN s.dirty ELSE {},
                 hasTitle |-> s.title,
                 version  |-> Len(log),
                 mode     |-> s.mode,
                 exited   |-> exited]
<1>1. Len(log) \in Nat \ {0}
  BY DEF TypeOK
<1>2. f.version = Len(log) /\ Notice("Bell").version = 1
  BY DEF Notice
<1>3. BuiltFrames(s, n) = IF Emission(s) \notin {"Snapshot", "Delta"} THEN bell
                          ELSE Append(bell, f)
  BY DEF BuiltFrames
<1>4. bell = <<>> \/ bell = <<Notice("Bell")>>
  OBVIOUS
<1>5. BuiltFrames(s, n) = bell \/ BuiltFrames(s, n) = Append(bell, f)
  BY <1>3
<1> HIDE DEF f, bell
<1>6. CASE bell = <<>>
  BY <1>1, <1>2, <1>5, <1>6
<1>7. CASE bell = <<Notice("Bell")>>
  BY <1>1, <1>2, <1>5, <1>7
<1> QED BY <1>4, <1>6, <1>7

LEMMA FlushType ==
  ASSUME TypeOK, VersionsOK, Flush
  PROVE  TypeOK' /\ VersionsOK'
<1> USE DEF server, wire, client, history
<1>1. seq + 1 \in Nat \ {0} /\ seq + 1 \in Nat /\ Len(log) \in Nat \ {0}
  BY DEF TypeOK
<1>2. subs' \in [Clients -> Subscription]
  BY <1>1, FlushedType DEF Flush, TypeOK
<1>3. outbox' \in [Clients -> Seq(Frame)]
  <2>1. ASSUME NEW c \in Clients PROVE BuiltFrames(subs[c], seq + 1) \in Seq(Frame)
    BY <1>1, BuiltFramesType DEF TypeOK
  <2> QED BY <2>1 DEF Flush
<1>4. tail' \in [Clients -> [seq: Nat, version: Nat \ {0}, mode: Modes]]
  BY <1>1 DEF Flush, TypeOK, Subscription
<1>5. seq' \in Nat
  BY <1>1 DEF Flush, TypeOK
<1>6. TypeOK'
  BY <1>2, <1>3, <1>4, <1>5 DEF Flush, TypeOK
<1>7. ASSUME NEW c \in Clients PROVE tail'[c].version <= Len(log)
  BY <1>1 DEF Flush, VersionsOK
<1>8. ASSUME NEW c \in Clients, NEW i \in 1..Len(outbox'[c])
      PROVE  outbox'[c][i].version <= Len(log)
  <2>1. CASE c \in attached
    BY <1>1, <2>1, BuiltFramesVersion DEF Flush, TypeOK
  <2>2. CASE c \notin attached
    BY <2>2 DEF Flush
  <2> QED BY <2>1, <2>2
<1>9. VersionsOK'
  BY <1>7, <1>8 DEF Flush, VersionsOK
<1> QED BY <1>6, <1>9

(* What Queued leaves of a queue, when the frame it is given is well typed *)
LEMMA QueuedType ==
  ASSUME TypeOK, VersionsOK, log' = log, NEW c \in Clients, NEW f \in Frame,
         f.version <= Len(log), Queued(c, f)
  PROVE  /\ chan' \in [Clients -> Seq(Frame)]
         /\ lost' \in [Clients -> BOOLEAN]
         /\ \A d \in Clients : \A i \in 1..Len(chan'[d]) : chan'[d][i].version <= Len(log')
<1>1. chan' \in [Clients -> Seq(Frame)] /\ lost' \in [Clients -> BOOLEAN]
  BY DEF Queued, TypeOK
<1>2. ASSUME NEW d \in Clients, NEW i \in 1..Len(chan'[d])
      PROVE  chan'[d][i].version <= Len(log')
  <2>1. CASE chan'[d] = chan[d]
    BY <2>1 DEF VersionsOK
  <2>2. CASE chan'[d] = Append(chan[d], f)
    <3>1. chan[d] \in Seq(Frame)
      BY DEF TypeOK
    <3>2. i \in 1..Len(chan[d]) \/ i = Len(chan[d]) + 1
      BY <2>2, <3>1
    <3> QED BY <2>2, <3>1, <3>2 DEF VersionsOK
  <2> QED BY <2>1, <2>2 DEF Queued, TypeOK
<1> QED BY <1>1, <1>2

LEMMA TailElement ==
  ASSUME NEW S, NEW q \in Seq(S), q # <<>>, NEW i \in 1..Len(Tail(q))
  PROVE  i + 1 \in 1..Len(q) /\ Tail(q)[i] = q[i + 1]
<1>1. Len(Tail(q)) = Len(q) - 1 /\ Len(q) \in Nat \ {0}
  BY HeadTailProperties
<1>2. Tail(q)[i] = q[i + 1]
  BY HeadTailProperties
<1> QED BY <1>1, <1>2

LEMMA PumpSendType ==
  ASSUME TypeOK, VersionsOK, NEW c \in Clients, PumpSend(c)
  PROVE  TypeOK' /\ VersionsOK'
<1> USE DEF server, wire, client, history
<1>1. /\ outbox[c] \in Seq(Frame) /\ outbox[c] # <<>>
      /\ outbox' = [outbox EXCEPT ![c] = Tail(outbox[c])]
      /\ log' = log
  BY DEF PumpSend, TypeOK
<1>2. Head(outbox[c]) \in Frame /\ Head(outbox[c]).version <= Len(log)
  BY <1>1 DEF VersionsOK
<1>3. Queued(c, Head(outbox[c]))
  BY DEF PumpSend
<1>4. closing' \in [Clients -> BOOLEAN]
  BY DEF PumpSend, Notified, TypeOK
<1>5. outbox' \in [Clients -> Seq(Frame)]
  BY <1>1 DEF TypeOK
<1>6. TypeOK'
  BY <1>1, <1>2, <1>3, <1>4, <1>5, QueuedType DEF PumpSend, TypeOK
<1>7. ASSUME NEW d \in Clients, NEW i \in 1..Len(outbox'[d])
      PROVE  outbox'[d][i].version <= Len(log)
  <2>1. CASE d = c
    <3>1. outbox'[d] = Tail(outbox[d])
      BY <1>1, <2>1 DEF TypeOK
    <3>2. i + 1 \in 1..Len(outbox[d]) /\ outbox'[d][i] = outbox[d][i + 1]
      BY <1>1, <2>1, <3>1, TailElement
    <3> QED BY <3>2 DEF VersionsOK
  <2>2. CASE d # c
    BY <1>1, <2>2 DEF TypeOK, VersionsOK
  <2> QED BY <2>1, <2>2
<1>8. VersionsOK'
  BY <1>1, <1>2, <1>3, <1>7, QueuedType DEF PumpSend, VersionsOK
<1> QED BY <1>6, <1>8

LEMMA DisconnectSilentType ==
  ASSUME TypeOK, VersionsOK, NEW c \in Clients, DisconnectSilent(c)
  PROVE  TypeOK' /\ VersionsOK'
<1> USE DEF server, wire, client, history
<1>1. closing' \in [Clients -> BOOLEAN]
  BY DEF DisconnectSilent, Notified, TypeOK
<1>2. TypeOK'
  BY <1>1 DEF DisconnectSilent, TypeOK
<1> QED BY <1>2 DEF DisconnectSilent, VersionsOK

LEMMA ServeMsgType ==
  ASSUME TypeOK, VersionsOK, NEW c \in Clients, ServeMsg(c)
  PROVE  TypeOK' /\ VersionsOK'
<1> USE DEF server, wire, client, history
<1> DEFINE m == Head(inq[c])
<1>1. inq[c] \in Seq(Request) /\ inq[c] # <<>> /\ log' = log /\ outbox' = outbox
  BY DEF ServeMsg, TypeOK
<1>2. m \in Request
  BY <1>1
<1>3. m.mode \in Modes /\ m.seq \in Nat
  BY <1>2 DEF Request, Modes
<1>4. /\ inq' \in [Clients -> Seq(Request)]
      /\ closing' \in [Clients -> BOOLEAN]
  BY <1>1 DEF ServeMsg, TypeOK
<1>5. CASE OnAttach(c, m.mode)
  <2>1. subs' \in [Clients -> Subscription]
    BY <1>3, <1>5, ResyncedType, NewSubscriptionType DEF OnAttach, TypeOK
  <2>2. TypeOK'
    BY <1>4, <1>5, <2>1 DEF ServeMsg, OnAttach, TypeOK
  <2> QED BY <1>5, <2>2 DEF ServeMsg, OnAttach, VersionsOK
<1>6. CASE OnDetach(c)
  <2> DEFINE f == Notice(IF c \in attached THEN "Detached" ELSE "Error")
  <2>1. f \in Frame /\ f.version <= Len(log)
    <3>1. Len(log) \in Nat \ {0}
      BY DEF TypeOK
    <3>2. f.version = 1
      BY DEF Notice
    <3> QED BY <3>1, <3>2, NoticeType
  <2>2. Queued(c, f)
    BY <1>6 DEF OnDetach
  <2> HIDE DEF f
  <2>3. /\ chan' \in [Clients -> Seq(Frame)]
        /\ lost' \in [Clients -> BOOLEAN]
        /\ \A d \in Clients : \A i \in 1..Len(chan'[d]) : chan'[d][i].version <= Len(log')
    BY <1>1, <2>1, <2>2, QueuedType
  <2>4. TypeOK'
    BY <1>4, <1>6, <2>3 DEF ServeMsg, OnDetach, TypeOK
  <2> QED BY <1>1, <2>3, <2>4 DEF ServeMsg, VersionsOK
<1>7. CASE OnAck(c, m.seq)
  <2>1. subs' \in [Clients -> Subscription]
    BY <1>3, <1>7, AckedType DEF OnAck, TypeOK
  <2>2. TypeOK'
    BY <1>4, <1>7, <2>1 DEF ServeMsg, OnAck, TypeOK
  <2> QED BY <1>7, <2>2 DEF ServeMsg, OnAck, VersionsOK
<1> QED BY <1>5, <1>6, <1>7 DEF ServeMsg

LEMMA ServeCloseType ==
  ASSUME TypeOK, VersionsOK, NEW c \in Clients, ServeClose(c)
  PROVE  TypeOK' /\ VersionsOK'
<1> USE DEF server, wire, client, history
<1>1. TypeOK'
  BY DEF ServeClose, Unregistered, TypeOK
<1> QED BY <1>1 DEF ServeClose, VersionsOK

LEMMA ConnDropType ==
  ASSUME TypeOK, VersionsOK, NEW c \in Clients, ConnDrop(c)
  PROVE  TypeOK' /\ VersionsOK'
<1> USE DEF server, wire, client, history
<1>1. TypeOK'
  BY DEF ConnDrop, Unregistered, TypeOK
<1>2. ASSUME NEW d \in Clients, NEW i \in 1..Len(chan'[d])
      PROVE  chan'[d][i].version <= Len(log)
  <2>1. chan' = [chan EXCEPT ![c] = <<>>]
    BY DEF ConnDrop
  <2>2. CASE d = c
    BY <2>1, <2>2 DEF TypeOK
  <2>3. CASE d # c
    BY <2>1, <2>3 DEF TypeOK, VersionsOK
  <2> QED BY <2>2, <2>3
<1> QED BY <1>1, <1>2 DEF ConnDrop, VersionsOK

LEMMA SentType ==
  ASSUME TypeOK, NEW c \in Clients, NEW m \in Request, Sent(c, m)
  PROVE  inq' \in [Clients -> Seq(Request)]
BY DEF Sent, TypeOK

LEMMA ClientCallType ==
  ASSUME TypeOK, VersionsOK, NEW c \in Clients,
         ClientDetach(c) \/ \E m \in Modes : ClientAttach(c, m)
  PROVE  TypeOK' /\ VersionsOK'
<1> USE DEF server, wire, client, history
<1>1. CASE ClientDetach(c)
  <2>1. inq' \in [Clients -> Seq(Request)]
    BY <1>1, MsgType, SentType DEF ClientDetach
  <2>2. attachments' \in [Clients -> Modes \cup {"None"}] /\ calls' \in Nat
    BY <1>1 DEF ClientDetach, TypeOK
  <2>3. TypeOK'
    BY <1>1, <2>1, <2>2 DEF ClientDetach, TypeOK
  <2> QED BY <1>1, <2>3 DEF ClientDetach, VersionsOK
<1>2. ASSUME NEW m \in Modes, ClientAttach(c, m) PROVE TypeOK' /\ VersionsOK'
  <2>1. inq' \in [Clients -> Seq(Request)]
    BY <1>2, MsgType, SentType DEF ClientAttach
  <2>2. attachments' \in [Clients -> Modes \cup {"None"}] /\ calls' \in Nat
    BY <1>2 DEF ClientAttach, TypeOK
  <2>3. TypeOK'
    BY <1>2, <2>1, <2>2 DEF ClientAttach, TypeOK
  <2> QED BY <1>2, <2>3 DEF ClientAttach, VersionsOK
<1> QED BY <1>1, <1>2

LEMMA ClientRecvType ==
  ASSUME TypeOK, VersionsOK, NEW c \in Clients, ClientRecv(c)
  PROVE  TypeOK' /\ VersionsOK'
<1> USE DEF server, wire, client, history
<1> DEFINE f == Head(chan[c])
<1>1. /\ chan[c] \in Seq(Frame) /\ chan[c] # <<>> /\ log' = log
      /\ chan' = [chan EXCEPT ![c] = Tail(chan[c])]
      /\ outbox' = outbox /\ tail' = tail
  BY DEF ClientRecv, TypeOK
<1>2. f \in Frame /\ f.version \in 1..Len(log)
  <2>1. f \in Frame /\ f.version <= Len(log)
    BY <1>1 DEF VersionsOK
  <2> QED BY <2>1 DEF TypeOK, Frame
<1>3. chan' \in [Clients -> Seq(Frame)]
  BY <1>1 DEF TypeOK
<1>4. ASSUME NEW d \in Clients, NEW i \in 1..Len(chan'[d])
      PROVE  chan'[d][i].version <= Len(log)
  <2>1. CASE d = c
    <3>1. chan'[d] = Tail(chan[d])
      BY <1>1, <2>1 DEF TypeOK
    <3>2. i + 1 \in 1..Len(chan[d]) /\ chan'[d][i] = chan[d][i + 1]
      BY <1>1, <2>1, <3>1, TailElement
    <3> QED BY <3>2 DEF VersionsOK
  <2>2. CASE d # c
    BY <1>1, <2>2 DEF TypeOK, VersionsOK
  <2> QED BY <2>1, <2>2
<1>5. f.seq \in Nat /\ f.version \in Nat \ {0} /\ f.mode \in Modes /\ f.exited \in BOOLEAN
  BY <1>2 DEF Frame
<1>6. Seen(f.version, f.mode) \in View /\ Patched(replica[c].view, f) \in View
  BY <1>2, SeenType, PatchedType DEF TypeOK
<1> HIDE DEF f
<1>7. /\ replica' \in [Clients -> [seq: Nat, view: View, exited: BOOLEAN]]
      /\ shown' \in [Clients -> [version: Nat \ {0}, mode: Modes]]
      /\ torn' \in [Clients -> BOOLEAN]
      /\ attachments' \in [Clients -> Modes \cup {"None"}]
      /\ inq' \in [Clients -> Seq(Request)]
      /\ \A d \in Clients : shown'[d].version <= Len(log)
  <2>1. AckMsg(f.seq) \in Request
    BY <1>5, MsgType
  <2>2. CASE RecvSnapshot(c, f)
    <3>1. inq' \in [Clients -> Seq(Request)]
      BY <2>1, <2>2, SentType DEF RecvSnapshot
    <3>2. replica' \in [Clients -> [seq: Nat, view: View, exited: BOOLEAN]]
      BY <1>5, <1>6, <2>2 DEF RecvSnapshot, TypeOK
    <3>3. /\ shown' \in [Clients -> [version: Nat \ {0}, mode: Modes]]
          /\ \A d \in Clients : shown'[d].version <= Len(log)
      BY <1>2, <1>5, <2>2 DEF RecvSnapshot, TypeOK, VersionsOK
    <3> QED BY <2>2, <3>1, <3>2, <3>3 DEF RecvSnapshot, TypeOK
  <2>3. CASE RecvDelta(c, f)
    <3>1. inq' \in [Clients -> Seq(Request)]
      BY <2>1, <2>3, SentType DEF RecvDelta
    <3>2. replica' \in [Clients -> [seq: Nat, view: View, exited: BOOLEAN]]
      <4> DEFINE r == [replica[c] EXCEPT !.seq = f.seq, !.view = Patched(replica[c].view, f)]
      <4>1. r \in [seq: Nat, view: View, exited: BOOLEAN]
        <5>1. replica[c] \in [seq: Nat, view: View, exited: BOOLEAN]
          BY DEF TypeOK
        <5> QED BY <1>5, <1>6, <5>1
      <4>2. replica' = [replica EXCEPT ![c] = r]
        BY <2>3 DEF RecvDelta
      <4> HIDE DEF r
      <4> QED BY <4>1, <4>2 DEF TypeOK
    <3>3. /\ shown' \in [Clients -> [version: Nat \ {0}, mode: Modes]]
          /\ \A d \in Clients : shown'[d].version <= Len(log)
      BY <1>2, <1>5, <2>3 DEF RecvDelta, TypeOK, VersionsOK
    <3> QED BY <2>3, <3>1, <3>2, <3>3 DEF RecvDelta, TypeOK
  <2>4. CASE RecvGap(c, f)
    <3>1. (IF attachments[c] = "None" THEN "Active" ELSE attachments[c]) \in Modes
      BY DEF TypeOK, Modes
    <3>2. inq' \in [Clients -> Seq(Request)]
      BY <2>4, <3>1, MsgType, SentType DEF RecvGap
    <3> QED BY <2>4, <3>2 DEF RecvGap, TypeOK, VersionsOK
  <2>5. CASE RecvExited(c, f)
    <3>1. inq' \in [Clients -> Seq(Request)]
      BY <2>1, <2>5, SentType DEF RecvExited
    <3>2. replica' \in [Clients -> [seq: Nat, view: View, exited: BOOLEAN]]
      <4> DEFINE r == [replica[c] EXCEPT !.seq = f.seq, !.exited = TRUE]
      <4>1. r \in [seq: Nat, view: View, exited: BOOLEAN]
        <5>1. replica[c] \in [seq: Nat, view: View, exited: BOOLEAN]
          BY DEF TypeOK
        <5> QED BY <1>5, <5>1
      <4>2. replica' = [replica EXCEPT ![c] = r]
        BY <2>5 DEF RecvExited
      <4> HIDE DEF r
      <4> QED BY <4>1, <4>2 DEF TypeOK
    <3>3. torn' \in [Clients -> BOOLEAN]
      BY <2>5 DEF RecvExited, TypeOK
    <3> QED BY <2>5, <3>1, <3>2, <3>3 DEF RecvExited, TypeOK, VersionsOK
  <2>6. CASE RecvNotice(c, f)
    BY <2>6 DEF RecvNotice, TypeOK, VersionsOK
  <2> QED BY <2>2, <2>3, <2>4, <2>5, <2>6 DEF ClientRecv, f
<1>8. TypeOK'
  BY <1>3, <1>7 DEF ClientRecv, TypeOK
<1>9. VersionsOK'
  BY <1>1, <1>4, <1>7 DEF VersionsOK
<1> QED BY <1>8, <1>9

LEMMA ReconnectType ==
  ASSUME TypeOK, VersionsOK, NEW c \in Clients, Reconnect(c)
  PROVE  TypeOK' /\ VersionsOK'
<1> USE DEF server, wire, client, history
<1>1. ASSUME attachments[c] # "None" PROVE AttachMsg(attachments[c]) \in Request
  BY <1>1, MsgType DEF TypeOK
<1>2. inq' \in [Clients -> Seq(Request)]
  BY <1>1 DEF Reconnect, TypeOK
<1>3. tail' \in [Clients -> [seq: Nat, version: Nat \ {0}, mode: Modes]]
  BY DEF Reconnect, TypeOK
<1>4. TypeOK'
  BY <1>2, <1>3 DEF Reconnect, TypeOK
<1>5. \A d \in Clients : tail'[d].version = tail[d].version
  BY DEF Reconnect, TypeOK
<1> QED BY <1>4, <1>5 DEF Reconnect, VersionsOK

LEMMA TickType ==
  ASSUME TypeOK, VersionsOK, Tick
  PROVE  TypeOK' /\ VersionsOK'
<1> USE DEF server, wire, client, history
<1>1. TypeOK'
  BY DEF Tick, TypeOK
<1> QED BY <1>1 DEF Tick, VersionsOK

LEMMA StepType ==
  ASSUME FanoutAssumption, TypeOK, VersionsOK, [Next]_vars
  PROVE  TypeOK' /\ VersionsOK'
<1>1. CASE Next
  BY <1>1, FeedType, StylesOverflowType, ReapPollType, ReapFanOutType, FlushType,
     PumpSendType, DisconnectSilentType, ServeMsgType, ServeCloseType, ConnDropType,
     ClientCallType, ClientRecvType, ReconnectType, TickType DEF Next
<1>2. CASE UNCHANGED vars
  BY <1>2 DEF vars, server, wire, client, history, TypeOK, VersionsOK
<1> QED BY <1>1, <1>2

(* The types, and that every frame anywhere carries a state the engine was  *)
(* in, are invariants.                                                      *)
THEOREM TypeCorrect == Spec => [](TypeOK /\ VersionsOK)
<1>1. Init => TypeOK /\ VersionsOK
  BY InitType, FanoutAssumption
<1>2. (TypeOK /\ VersionsOK) /\ [Next]_vars => (TypeOK /\ VersionsOK)'
  BY StepType, FanoutAssumption
<1> QED BY <1>1, <1>2, PTL DEF Spec

-----------------------------------------------------------------------------
(* The acknowledgement window.                                             *)

Ordered(s, n) == s.acked <= s.sent /\ s.sent <= n

LEMMA FlushedOrdered ==
  ASSUME NEW s \in Subscription, NEW n \in Nat, Ordered(s, n)
  PROVE  /\ Ordered(Flushed(s, n + 1), n + 1)
         /\ Emission(s) = "None" => Ordered(Flushed(s, n + 1), n)
<1>1. Ordered(HeldBack(s), n) /\ Ordered(HeldBack(s), n + 1)
  BY DEF Ordered, HeldBack, Subscription
<1>2. Ordered(SnapshotSent(s, n + 1), n + 1)
  BY DEF Ordered, SnapshotSent, Cleared, Subscription
<1>3. Ordered(DeltaSent(s, n + 1), n + 1)
  BY DEF Ordered, DeltaSent, Cleared, Subscription
<1>4. Ordered(s, n + 1)
  BY DEF Ordered, Subscription
<1>5. Emission(s) = "None" => Flushed(s, n + 1) \in {s, HeldBack(s)}
  BY DEF Emission, Flushed
<1>6. Flushed(s, n + 1) \in {s, HeldBack(s), SnapshotSent(s, n + 1), DeltaSent(s, n + 1)}
  BY DEF Flushed
<1> QED BY <1>1, <1>2, <1>3, <1>4, <1>5, <1>6

LEMMA AckedOrdered ==
  ASSUME NEW s \in Subscription, NEW m \in Nat, NEW n \in Nat, Ordered(s, n)
  PROVE  Ordered(Acked(s, m), n)
BY DEF Ordered, Acked, Subscription

LEMMA OrderStep ==
  ASSUME FanoutAssumption, TypeOK, SubscriptionOrder, [Next]_vars
  PROVE  SubscriptionOrder'
<1> USE DEF server, wire, client, history
<1>1. seq \in Nat /\ \A c \in attached : c \in Clients /\ subs[c] \in Subscription
  BY DEF TypeOK
<1>2. \A c \in attached : Ordered(subs[c], seq)
  BY DEF SubscriptionOrder, Ordered
<1>3. SUFFICES ASSUME NEW c \in attached' PROVE Ordered(subs'[c], seq')
  BY DEF SubscriptionOrder, Ordered
<1>4. ASSUME attached' \subseteq attached, subs' = subs, seq' = seq
      PROVE  Ordered(subs'[c], seq')
  BY <1>2, <1>4
<1>5. ASSUME NEW k \in Chunks, Feed(k) PROVE Ordered(subs'[c], seq')
  <2>1. c \in attached /\ seq' = seq /\ subs'[c] = Damaged(subs[c], k)
    BY <1>1, <1>5 DEF Feed
  <2>2. Damaged(subs[c], k).sent = subs[c].sent /\ Damaged(subs[c], k).acked = subs[c].acked
    BY <1>1, <2>1 DEF Damaged, Subscription
  <2> QED BY <1>2, <2>1, <2>2 DEF Ordered
<1>6. CASE StylesOverflow
  <2>1. c \in attached /\ seq' = seq /\ subs'[c] = Forced(subs[c])
    BY <1>1, <1>6 DEF StylesOverflow
  <2>2. Forced(subs[c]).sent = subs[c].sent /\ Forced(subs[c]).acked = subs[c].acked
    BY <1>1, <2>1 DEF Forced, Subscription
  <2> QED BY <1>2, <2>1, <2>2 DEF Ordered
<1>7. CASE ReapPoll
  <2>1. c \in attached /\ seq' = seq + 1 /\ subs'[c] = EventNoted(subs[c], seq + 1)
    BY <1>1, <1>7 DEF ReapPoll
  <2> QED BY <1>1, <1>2, <2>1 DEF EventNoted, Ordered, Subscription
<1>8. CASE ReapFanOut
  BY <1>4, <1>8 DEF ReapFanOut
<1>9. CASE Flush
  <2>1. c \in attached /\ subs'[c] = Flushed(subs[c], seq + 1)
    BY <1>1, <1>9 DEF Flush
  <2>2. seq' = seq + 1 \/ (seq' = seq /\ Emission(subs[c]) = "None")
    BY <1>9, <2>1 DEF Flush
  <2> QED BY <1>1, <1>2, <2>1, <2>2, FlushedOrdered
<1>10. ASSUME NEW d \in Clients, ServeMsg(d) PROVE Ordered(subs'[c], seq')
  <2> DEFINE m == Head(inq[d])
  <2>1. inq[d] \in Seq(Request) /\ inq[d] # <<>> /\ seq' = seq
    BY <1>10 DEF ServeMsg, TypeOK
  <2>2. m \in Request
    BY <2>1
  <2>3. m.seq \in Nat
    BY <2>2 DEF Request
  <2>4. CASE OnAttach(d, m.mode)
    <3>1. CASE c # d
      BY <1>2, <2>1, <2>4, <3>1 DEF OnAttach, TypeOK
    <3>2. CASE c = d /\ d \in attached
      <4>1. subs'[c] = Resynced(subs[c], m.mode)
        BY <2>4, <3>2 DEF OnAttach, TypeOK
      <4>2. /\ Resynced(subs[c], m.mode).sent = subs[c].sent
            /\ Resynced(subs[c], m.mode).acked = subs[c].acked
        BY <1>1, <3>2 DEF Resynced, Cleared, Subscription
      <4> QED BY <1>2, <2>1, <3>2, <4>1, <4>2 DEF Ordered
    <3>3. CASE c = d /\ d \notin attached
      <4>1. subs'[c] = NewSubscription(m.mode)
        BY <2>4, <3>3 DEF OnAttach, TypeOK
      <4> QED BY <1>1, <2>1, <4>1 DEF NewSubscription, Ordered
    <3> QED BY <3>1, <3>2, <3>3
  <2>5. CASE OnDetach(d)
    BY <1>4, <2>1, <2>5 DEF OnDetach
  <2>6. CASE OnAck(d, m.seq)
    <3>1. c \in attached /\ subs'[c] \in {subs[c], Acked(subs[c], m.seq)}
      BY <2>6 DEF OnAck, TypeOK
    <3> QED BY <1>1, <1>2, <2>1, <2>3, <3>1, AckedOrdered
  <2> QED BY <1>10, <2>4, <2>5, <2>6 DEF ServeMsg
<1>11. ASSUME NEW d \in Clients,
              \/ PumpSend(d) \/ DisconnectSilent(d) \/ ServeClose(d) \/ ConnDrop(d)
              \/ (\E m \in Modes : ClientAttach(d, m))
              \/ ClientDetach(d) \/ ClientRecv(d) \/ Reconnect(d)
       PROVE  Ordered(subs'[c], seq')
  <2>1. attached' \subseteq attached /\ subs' = subs /\ seq' = seq
    BY <1>11 DEF PumpSend, DisconnectSilent, ServeClose, ConnDrop, Unregistered,
       ClientAttach, ClientDetach, ClientRecv, Reconnect
  <2> QED BY <1>4, <2>1
<1>12. CASE Tick
  BY <1>4, <1>12 DEF Tick
<1>13. CASE UNCHANGED vars
  BY <1>4, <1>13 DEF vars
<1> QED BY <1>5, <1>6, <1>7, <1>8, <1>9, <1>10, <1>11, <1>12, <1>13 DEF Next

(* Whatever Acks arrive, in whatever order, and however often a client      *)
(* attaches again, a subscription never has acknowledged more than it was   *)
(* sent, nor was sent more than the Surface has numbered.                   *)
THEOREM WindowSound == Spec => []SubscriptionOrder
<1>1. Init => SubscriptionOrder
  BY DEF Init, Started, Fresh, SubscriptionOrder
<1>2. TypeOK /\ SubscriptionOrder /\ [Next]_vars => SubscriptionOrder'
  BY OrderStep, FanoutAssumption
<1> QED BY <1>1, <1>2, TypeCorrect, PTL DEF Spec

-----------------------------------------------------------------------------
(* Coalescing.                                                             *)

CoherentFor(c) == ~subs[c].snap => Tracks(subs[c], tail[c])

(* What was seen of an earlier state does not change when the log grows *)
LEMMA SeenStable ==
  ASSUME log \in Seq(View), NEW w \in View, log' = Append(log, w)
  PROVE  /\ \A v \in 1..Len(log), m \in Modes : Seen(v, m)' = Seen(v, m)
         /\ \A m \in Modes : Seen(Len(log), m)' = Stripped(w, m)
<1>1. Len(log') = Len(log) + 1 /\ log'[Len(log')] = w
  OBVIOUS
<1>2. \A v \in 1..Len(log) : log'[v] = log[v]
  OBVIOUS
<1> QED BY <1>1, <1>2 DEF Seen

LEMMA FeedCoherent ==
  ASSUME FanoutAssumption, TypeOK, VersionsOK, NEW k \in Chunks, Feed(k),
         NEW c \in attached, CoherentFor(c)
  PROVE  CoherentFor(c)'
<1> USE DEF server, wire, client, history
<1> DEFINE s == subs[c]
           t == tail[c]
           w == Written(Surface, k, Len(log))
           was == Seen(t.version, t.mode)
           is == Seen(Len(log), s.mode)
           next == Stripped(w, s.mode)
<1>1. c \in Clients /\ s \in Subscription /\ s.mode \in Modes /\ k \in Chunk
  BY DEF TypeOK, FanoutAssumption, Subscription
<1>2. /\ log \in Seq(View) /\ Len(log) \in Nat \ {0} /\ Surface \in View
      /\ t.version \in 1..Len(log) /\ t.mode \in Modes
  BY <1>1 DEF TypeOK, VersionsOK, Surface
<1>3. w \in View
  BY <1>1, <1>2, WrittenType
<1>4. log' = Append(log, w) /\ subs'[c] = Damaged(s, k) /\ tail' = tail
  BY <1>1 DEF Feed
<1>5. /\ Damaged(s, k).mode = s.mode
      /\ Damaged(s, k).snap = s.snap
      /\ Damaged(s, k).dirty = s.dirty \cup k.rows
      /\ Damaged(s, k).meta = (s.meta \/ k.meta)
      /\ Damaged(s, k).title = (s.title \/ k.title)
  BY <1>1 DEF Damaged, Subscription
<1>6. Seen(t.version, t.mode)' = was /\ Seen(Len(log), s.mode)' = next
  <2>1. t' = t /\ s.mode' = s.mode
    BY <1>4, <1>5
  <2>2. /\ \A v \in 1..Len(log), m \in Modes : Seen(v, m)' = Seen(v, m)
        /\ \A m \in Modes : Seen(Len(log), m)' = Stripped(w, m)
    BY <1>2, <1>3, <1>4, SeenStable
  <2> QED BY <1>1, <1>2, <2>1, <2>2 DEF Seen
<1>7. /\ \A r \in Rows \ k.rows : next.grid[r] = is.grid[r]
      /\ ~k.meta => next.meta = is.meta
      /\ ~k.title => next.title = is.title
  BY <1>1, <1>2 DEF Seen, Stripped, Written, View, Surface, Blank
<1> HIDE DEF w, was, is, next
<1>8. ASSUME ~s.snap PROVE Tracks(subs[c], tail[c])'
  <2>1. /\ t.mode = s.mode
        /\ \A r \in Rows \ s.dirty : was.grid[r] = is.grid[r]
        /\ ~s.meta => was.meta = is.meta
        /\ ~s.title => was.title = is.title
    BY <1>8 DEF CoherentFor, Tracks, was, is
  <2>2. /\ t.mode = s.mode
        /\ \A r \in Rows \ (s.dirty \cup k.rows) : was.grid[r] = next.grid[r]
        /\ ~(s.meta \/ k.meta) => was.meta = next.meta
        /\ ~(s.title \/ k.title) => was.title = next.title
    BY <1>7, <2>1
  <2> QED BY <1>4, <1>5, <1>6, <2>2 DEF Tracks
<1> QED BY <1>4, <1>5, <1>8 DEF CoherentFor

(* A flush either leaves what is pending, or sends a frame of the current   *)
(* state and starts from nothing.                                          *)
LEMMA FlushedPending ==
  ASSUME NEW s \in Subscription, NEW n
  PROVE  LET f == Flushed(s, n) IN
         /\ f.mode = s.mode
         /\ Emission(s) \notin {"Snapshot", "Delta"} =>
              f.snap = s.snap /\ f.dirty = s.dirty /\ f.meta = s.meta /\ f.title = s.title
<1>1. HeldBack(s).mode = s.mode /\ HeldBack(s).snap = s.snap
      /\ HeldBack(s).dirty = s.dirty /\ HeldBack(s).meta = s.meta /\ HeldBack(s).title = s.title
  BY DEF HeldBack, Subscription
<1>2. SnapshotSent(s, n).mode = s.mode /\ DeltaSent(s, n).mode = s.mode
  BY DEF SnapshotSent, DeltaSent, Cleared, Subscription
<1>3. Emission(s) \notin {"Snapshot", "Delta"} => Flushed(s, n) \in {s, HeldBack(s)}
  BY DEF Emission, Flushed
<1>4. Flushed(s, n) \in {s, HeldBack(s), SnapshotSent(s, n), DeltaSent(s, n)}
  BY DEF Flushed
<1> QED BY <1>1, <1>2, <1>3, <1>4

LEMMA FlushCoherent ==
  ASSUME TypeOK, VersionsOK, Flush, NEW c \in attached, CoherentFor(c)
  PROVE  CoherentFor(c)'
<1> USE DEF server, wire, client, history
<1> DEFINE s == subs[c]
           f == Flushed(s, seq + 1)
<1>1. c \in Clients /\ s \in Subscription /\ log' = log
  BY DEF TypeOK, Flush
<1>2. subs'[c] = f
  BY <1>1 DEF Flush
<1>3. f.mode = s.mode
  BY <1>1, FlushedPending
<1>4. CASE Emission(s) \in {"Snapshot", "Delta"}
  <2>1. tail'[c].version = Len(log) /\ tail'[c].mode = s.mode
    BY <1>1, <1>4 DEF Flush
  <2> HIDE DEF f
  <2>2. Seen(tail[c].version, tail[c].mode)' = Seen(Len(log), subs[c].mode)'
    BY <1>1, <1>2, <1>3, <2>1 DEF Seen
  <2> QED BY <1>2, <1>3, <2>1, <2>2 DEF CoherentFor, Tracks
<1>5. CASE Emission(s) \notin {"Snapshot", "Delta"}
  <2>1. tail'[c] = tail[c]
    BY <1>1, <1>5 DEF Flush
  <2>2. f.snap = s.snap /\ f.dirty = s.dirty /\ f.meta = s.meta /\ f.title = s.title
    BY <1>1, <1>5, FlushedPending
  <2> HIDE DEF f
  <2> QED BY <1>1, <1>2, <1>3, <2>1, <2>2 DEF CoherentFor, Tracks, Seen
<1> QED BY <1>4, <1>5

(* Every other action leaves alone what Tracks reads, or asks for a Snapshot *)
LEMMA SameCoherent ==
  ASSUME NEW c \in attached, CoherentFor(c), log' = log,
         tail'[c].version = tail[c].version, tail'[c].mode = tail[c].mode,
         subs'[c].mode = subs[c].mode, subs'[c].snap = subs[c].snap,
         subs'[c].dirty = subs[c].dirty, subs'[c].meta = subs[c].meta,
         subs'[c].title = subs[c].title
  PROVE  CoherentFor(c)'
BY DEF CoherentFor, Tracks, Seen

LEMMA CoherentStep ==
  ASSUME FanoutAssumption, TypeOK, VersionsOK, Coherent, [Next]_vars
  PROVE  Coherent'
<1> USE DEF server, wire, client, history
<1>1. \A c \in attached : c \in Clients /\ subs[c] \in Subscription /\ CoherentFor(c)
  BY DEF TypeOK, Coherent, CoherentFor
<1>2. SUFFICES ASSUME NEW c \in attached' PROVE CoherentFor(c)'
  BY DEF Coherent, CoherentFor
<1>3. ASSUME attached' \subseteq attached, subs' = subs, log' = log,
             tail'[c].version = tail[c].version, tail'[c].mode = tail[c].mode
      PROVE  CoherentFor(c)'
  BY <1>1, <1>3, SameCoherent
<1>4. ASSUME NEW k \in Chunks, Feed(k) PROVE CoherentFor(c)'
  <2>1. c \in attached
    BY <1>4 DEF Feed
  <2> QED BY <1>1, <1>4, <2>1, FeedCoherent
<1>5. CASE StylesOverflow
  <2>1. c \in attached /\ subs'[c] = Forced(subs[c])
    BY <1>1, <1>5 DEF StylesOverflow
  <2>2. Forced(subs[c]).snap
    BY <1>1, <2>1 DEF Forced, Subscription
  <2> QED BY <2>1, <2>2 DEF CoherentFor
<1>6. CASE ReapPoll
  <2>1. /\ c \in attached /\ c \in Clients /\ log' = log /\ tail' = tail
        /\ subs'[c] = EventNoted(subs[c], seq + 1)
    BY <1>1, <1>6 DEF ReapPoll
  <2> DEFINE e == EventNoted(subs[c], seq + 1)
  <2>2. /\ e.mode = subs[c].mode /\ e.snap = subs[c].snap /\ e.dirty = subs[c].dirty
        /\ e.meta = subs[c].meta /\ e.title = subs[c].title
    BY <1>1, <2>1 DEF EventNoted, Subscription
  <2> HIDE DEF e
  <2>3. subs'[c] = e
    BY <2>1 DEF e
  <2> QED BY <1>1, <2>1, <2>2, <2>3, SameCoherent
<1>7. CASE ReapFanOut
  <2>1. /\ attached' = attached /\ subs' = subs /\ log' = log
        /\ tail'[c].version = tail[c].version /\ tail'[c].mode = tail[c].mode
    BY <1>1, <1>7 DEF ReapFanOut, TypeOK
  <2> QED BY <1>3, <2>1
<1>8. CASE Flush
  <2>1. c \in attached
    BY <1>8 DEF Flush
  <2> QED BY <1>1, <1>8, <2>1, FlushCoherent
<1>9. ASSUME NEW d \in Clients, ServeMsg(d) PROVE CoherentFor(c)'
  <2> DEFINE m == Head(inq[d])
  <2>1. log' = log /\ tail' = tail
    BY <1>9 DEF ServeMsg
  <2>2. CASE OnAttach(d, m.mode)
    <3>1. CASE c # d
      <4>1. c \in attached /\ subs'[c] = subs[c]
        BY <2>2, <3>1 DEF OnAttach, TypeOK
      <4> QED BY <1>1, <2>1, <4>1, SameCoherent
    <3>2. CASE c = d /\ d \in attached
      <4>1. subs'[c] = Resynced(subs[c], m.mode)
        BY <2>2, <3>2 DEF OnAttach, TypeOK
      <4>2. Resynced(subs[c], m.mode).snap
        BY <1>1, <3>2 DEF Resynced, Cleared, Subscription
      <4> QED BY <4>1, <4>2 DEF CoherentFor
    <3>3. CASE c = d /\ d \notin attached
      <4>1. subs'[c] = NewSubscription(m.mode)
        BY <2>2, <3>3 DEF OnAttach, TypeOK
      <4>2. NewSubscription(m.mode).snap
        BY DEF NewSubscription
      <4> QED BY <4>1, <4>2 DEF CoherentFor
    <3> QED BY <3>1, <3>2, <3>3
  <2>3. CASE OnDetach(d)
    BY <1>3, <2>1, <2>3 DEF OnDetach
  <2>4. CASE OnAck(d, m.seq)
    <3>1. c \in attached /\ subs'[c] \in {subs[c], Acked(subs[c], m.seq)}
      BY <2>4 DEF OnAck, TypeOK
    <3> DEFINE a == Acked(subs[c], m.seq)
    <3>2. /\ a.mode = subs[c].mode /\ a.snap = subs[c].snap /\ a.dirty = subs[c].dirty
          /\ a.meta = subs[c].meta /\ a.title = subs[c].title
      BY <1>1, <3>1 DEF Acked, Subscription
    <3>3. subs'[c] \in {subs[c], a}
      BY <3>1
    <3> HIDE DEF a
    <3> QED BY <1>1, <2>1, <3>1, <3>2, <3>3, SameCoherent
  <2> QED BY <1>9, <2>2, <2>3, <2>4 DEF ServeMsg
<1>10. ASSUME NEW d \in Clients,
              \/ PumpSend(d) \/ DisconnectSilent(d) \/ ServeClose(d) \/ ConnDrop(d)
              \/ (\E m \in Modes : ClientAttach(d, m))
              \/ ClientDetach(d) \/ ClientRecv(d)
       PROVE  CoherentFor(c)'
  <2>1. attached' \subseteq attached /\ subs' = subs /\ log' = log /\ tail' = tail
    BY <1>10 DEF PumpSend, DisconnectSilent, ServeClose, ConnDrop, Unregistered,
       ClientAttach, ClientDetach, ClientRecv
  <2> QED BY <1>3, <2>1
<1>11. ASSUME NEW d \in Clients, Reconnect(d) PROVE CoherentFor(c)'
  <2>1. attached' = attached /\ subs' = subs /\ log' = log
    BY <1>11 DEF Reconnect
  <2>2. tail'[c].version = tail[c].version /\ tail'[c].mode = tail[c].mode
    <3>0. c \in Clients BY <1>1, <2>1
    <3>1. tail[c] \in [seq: Nat, version: Nat \ {0}, mode: Modes] BY <3>0 DEF TypeOK
    <3>2. tail' = [tail EXCEPT ![d] = [tail[d] EXCEPT !.seq = 0]] BY <1>11 DEF Reconnect
    <3>3. tail \in [Clients -> [seq: Nat, version: Nat \ {0}, mode: Modes]] BY DEF TypeOK
    <3>4. tail'[c] = IF c = d THEN [tail[c] EXCEPT !.seq = 0] ELSE tail[c] BY <3>0, <3>2, <3>3
    <3> QED BY <3>1, <3>4
  <2> QED BY <1>3, <2>1, <2>2
<1>12. CASE Tick
  BY <1>3, <1>12 DEF Tick
<1>13. CASE UNCHANGED vars
  BY <1>3, <1>13 DEF vars
<1> QED BY <1>4, <1>5, <1>6, <1>7, <1>8, <1>9, <1>10, <1>11, <1>12, <1>13 DEF Next

(* However chunks of output, flushes, resyncs, overflows of the style table *)
(* and Acks interleave, the last frame built for a subscription together    *)
(* with what it is still owed is the state of the engine.                   *)
THEOREM CoalescingLosesNothing == Spec => []Coherent
<1>1. Init => Coherent
  BY DEF Init, Started, Fresh, Coherent
<1>2. TypeOK /\ VersionsOK /\ Coherent /\ [Next]_vars => Coherent'
  BY CoherentStep, FanoutAssumption
<1> QED BY <1>1, <1>2, TypeCorrect, PTL DEF Spec
=============================================================================
