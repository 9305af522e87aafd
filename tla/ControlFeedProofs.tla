------------------------- MODULE ControlFeedProofs -------------------------
(* Proof that no change of the document is missed by a subscriber of the   *)
(* control plane, for any number of clients and any bounds.                *)
EXTENDS ControlFeed, TLAPS

(* The part of TypeOK the argument rests on *)
FeedTypes ==
  /\ doc \in Doc
  /\ ring \in Seq(Envelope)
  /\ up \in [Clients -> BOOLEAN]
  /\ pos \in [Clients -> Nat \ {0}]
  /\ from \in [Clients -> Nat \cup {None}]
  /\ res \in [Clients -> Seq(Line)]
  /\ pump \in [Clients -> Seq(Line)]
  /\ lagged \in [Clients -> BOOLEAN]
  /\ sent \in [Clients -> Nat]

(* No event is ahead of the document *)
NotAhead == \A i \in 1..Len(ring) : ring[i].line.doc.rev <= doc.rev

(* No receiver is ahead of the channel *)
InPlace == \A c \in Clients : up[c] => pos[c] <= Len(ring) + 1

(* What the pump is told to skip has been sent or is about to be *)
SkipCovered(c) ==
  \/ from[c] <= sent[c]
  \/ Answering(c) /\ from[c] <= Head(res[c]).doc.rev

SkipsCovered == \A c \in Clients : up[c] /\ from[c] # None => SkipCovered(c)

FeedInv == FeedTypes /\ NotAhead /\ InPlace /\ SkipsCovered /\ NothingMissed

(* A line has a document, a document has a number for its revision *)
LEMMA LineTypes ==
  /\ \A l \in Line : l.doc \in Doc /\ l.doc.rev \in Nat
  /\ \A e \in Envelope : e.line \in Line
  /\ \A s \in Seq(Line) : s # <<>> => Head(s) \in Line
<1>1. \A l \in Line : l.doc \in Doc /\ l.doc.rev \in Nat
  BY DEF Line, Doc
<1>2. \A e \in Envelope : e.line \in Line
  BY DEF Envelope
<1>3. \A s \in Seq(Line) : s # <<>> => Head(s) \in Line
  OBVIOUS
<1> QED BY <1>1, <1>2, <1>3

(* A wider publication: whatever is appended to the channel is before every *)
(* receiver.                                                                *)
LEMMA PublishStep ==
  ASSUME FeedInv,
         NEW es \in Seq(Envelope),
         doc' \in Doc, doc.rev <= doc'.rev,
         \A i \in 1..Len(es) : es[i].line.doc.rev <= doc'.rev,
         ring' = ring \o es,
         res' \in [Clients -> Seq(Line)],
         \A c \in Clients : \/ res'[c] = res[c]
                            \/ res[c] = <<>> /\ res'[c] # <<>> /\ Head(res'[c]).t = "ok",
         UNCHANGED <<up, pos, from, pump, lagged, sent>>
  PROVE  FeedInv'
<1>1. FeedTypes'
  BY DEF FeedInv, FeedTypes
<1>2. /\ Len(ring') = Len(ring) + Len(es)
      /\ \A i \in 1..Len(ring) : ring'[i] = ring[i]
      /\ \A i \in 1..Len(ring') : i > Len(ring) => i - Len(ring) \in 1..Len(es)
                                                  /\ ring'[i] = es[i - Len(ring)]
  BY DEF FeedInv, FeedTypes
<1>3. NotAhead'
  <2> SUFFICES ASSUME NEW i \in 1..Len(ring')
               PROVE  ring'[i].line.doc.rev <= doc'.rev
    BY DEF NotAhead
  <2>1. CASE i \in 1..Len(ring)
    <3>1. ring[i] \in Envelope /\ ring[i].line.doc.rev <= doc.rev
      BY <2>1 DEF FeedInv, FeedTypes, NotAhead
    <3>2. ring[i].line.doc.rev \in Nat /\ doc.rev \in Nat /\ doc'.rev \in Nat
      BY <3>1, LineTypes DEF FeedInv, FeedTypes, Doc
    <3> QED BY <3>1, <3>2, <1>2, <2>1
  <2>2. CASE i > Len(ring)
    BY <2>2, <1>2
  <2> QED BY <2>1, <2>2, <1>2 DEF FeedInv, FeedTypes
<1>4. InPlace'
  BY <1>2 DEF FeedInv, FeedTypes, InPlace
<1>5. \A c \in Clients : Answering(c)' <=> Answering(c)
  BY DEF Answering
<1>6. \A c \in Clients : Answering(c) => res'[c] = res[c]
  BY DEF Answering
<1>7. SkipsCovered'
  BY <1>5, <1>6 DEF FeedInv, SkipsCovered, SkipCovered
<1>8. NothingMissed'
  <2> SUFFICES ASSUME NEW c \in Clients, Subscribed(c)',
                      NEW i \in 1..Len(ring'),
                      Concerns(c, ring[i])',
                      ~ (i >= pos'[c])
               PROVE  Covered(c, ring[i].line.doc.rev)'
    BY DEF NothingMissed
  <2>0. Subscribed(c) /\ up[c]
    BY <1>5 DEF Subscribed
  <2>1. i \in 1..Len(ring)
    BY <1>2, <2>0 DEF FeedInv, FeedTypes, InPlace
  <2>2. Covered(c, ring[i].line.doc.rev)
    BY <2>0, <2>1, <1>2 DEF FeedInv, NothingMissed, Concerns
  <2> QED BY <2>1, <2>2, <1>2, <1>5, <1>6 DEF Covered
<1> QED BY <1>1, <1>3, <1>4, <1>7, <1>8 DEF FeedInv

(* A step of one connection that publishes nothing keeps the invariant if   *)
(* it keeps what that connection owes.                                      *)
LEMMA ConnStep ==
  ASSUME FeedInv, FeedTypes',
         NEW c \in Clients,
         UNCHANGED <<doc, ring>>,
         \A d \in Clients \ {c} :
           /\ up'[d] = up[d] /\ pos'[d] = pos[d] /\ from'[d] = from[d]
           /\ res'[d] = res[d] /\ pump'[d] = pump[d]
           /\ lagged'[d] = lagged[d] /\ sent'[d] = sent[d],
         up'[c] => pos'[c] <= Len(ring) + 1,
         up'[c] /\ from'[c] # None => SkipCovered(c)',
         Subscribed(c)' =>
           \A i \in 1..Len(ring) : Concerns(c, ring[i]) =>
               i >= pos'[c] \/ Covered(c, ring[i].line.doc.rev)'
  PROVE  FeedInv'
<1>1. NotAhead'
  BY DEF FeedInv, NotAhead
<1>2. InPlace'
  BY DEF FeedInv, InPlace
<1>3. \A d \in Clients \ {c} : Answering(d)' <=> Answering(d)
  BY DEF Answering
<1>4. SkipsCovered'
  BY <1>3 DEF FeedInv, SkipsCovered, SkipCovered
<1>5. ASSUME NEW d \in Clients \ {c}, NEW n
      PROVE  Covered(d, n)' <=> Covered(d, n)
  BY <1>3 DEF Covered
<1>6. NothingMissed'
  <2> SUFFICES ASSUME NEW d \in Clients, Subscribed(d)',
                      NEW i \in 1..Len(ring),
                      Concerns(d, ring[i])
               PROVE  i >= pos'[d] \/ Covered(d, ring[i].line.doc.rev)'
    BY DEF NothingMissed, Concerns
  <2>1. CASE d = c
    BY <2>1
  <2>2. CASE d # c
    BY <2>2, <1>3, <1>5 DEF FeedInv, NothingMissed, Subscribed
  <2> QED BY <2>1, <2>2
<1> QED BY <1>1, <1>2, <1>4, <1>6 DEF FeedInv

LEMMA InitFeed == Init => FeedInv
BY DEF Init, FeedInv, FeedTypes, NotAhead, InPlace, SkipsCovered, NothingMissed, Subscribed,
       Doc, Answering

LEMMA BumpedDoc ==
  ASSUME doc \in Doc
  PROVE  Bumped \in Doc /\ Bumped.rev = doc.rev + 1 /\ doc.rev \in Nat
BY DEF Doc, Bumped

LEMMA MutatedStep ==
  ASSUME FeedInv, NEW o \in Clients \cup {None}, Mutated(o),
         res' \in [Clients -> Seq(Line)],
         \A c \in Clients : \/ res'[c] = res[c]
                            \/ res[c] = <<>> /\ res'[c] # <<>> /\ Head(res'[c]).t = "ok",
         UNCHANGED <<up, pos, from, pump, lagged, sent>>
  PROVE  FeedInv'
<1> DEFINE es == <<EnvelopeOf("ev.workspace", Bumped, o)>>
<1>1. doc' \in Doc /\ doc'.rev = doc.rev + 1 /\ doc.rev \in Nat
  BY BumpedDoc DEF FeedInv, FeedTypes, Mutated
<1>2. es \in Seq(Envelope)
  BY <1>1 DEF Mutated, EnvelopeOf, LineOf, Envelope, Line
<1>3. ring' = ring \o es /\ es[1].line.doc.rev = doc'.rev
  BY DEF Mutated, Published, EnvelopeOf, LineOf
<1>4. \A i \in 1..Len(es) : es[i].line.doc.rev <= doc'.rev
  BY <1>1, <1>3
<1>5. doc.rev <= doc'.rev
  BY <1>1
<1> HIDE DEF es
<1> QED BY <1>1, <1>2, <1>3, <1>4, <1>5, PublishStep

LEMMA SurfaceChangedStep == FeedInv /\ SurfaceChanged => FeedInv'
BY MutatedStep DEF SurfaceChanged, conn, FeedInv, FeedTypes

LEMMA SurfaceExitedStep == FeedInv /\ SurfaceExited => FeedInv'
<1> SUFFICES ASSUME FeedInv, SurfaceExited PROVE FeedInv'
  OBVIOUS
<1> DEFINE es == <<EnvelopeOf("ev.surface_exited", doc', None), EnvelopeOf("ev.workspace", doc', None)>>
<1>1. doc' \in Doc /\ doc'.rev = doc.rev + 1 /\ doc.rev \in Nat
  <2>1. Bumped \in Doc /\ Bumped.rev = doc.rev + 1 /\ doc.rev \in Nat
    BY BumpedDoc DEF FeedInv, FeedTypes
  <2>2. doc' = [Bumped EXCEPT !.exited = TRUE]
    BY DEF SurfaceExited
  <2> QED BY <2>1, <2>2 DEF Doc
<1>2. es \in Seq(Envelope)
  BY <1>1 DEF EnvelopeOf, LineOf, Envelope, Line
<1>3. ring' = ring \o es
  BY DEF SurfaceExited, Published
<1>4. \A i \in 1..Len(es) : es[i].line.doc.rev <= doc'.rev
  BY <1>1 DEF EnvelopeOf, LineOf
<1>5. UNCHANGED <<up, pos, from, res, pump, lagged, sent>> /\ res' \in [Clients -> Seq(Line)]
  BY DEF SurfaceExited, conn, FeedInv, FeedTypes
<1>6. doc.rev <= doc'.rev
  BY <1>1
<1> HIDE DEF es
<1> QED BY <1>1, <1>2, <1>3, <1>4, <1>5, <1>6, PublishStep

LEMMA HandleStep ==
  ASSUME FeedInv, NEW c \in Clients, Handle(c)
  PROVE  FeedInv'
<1>1. CASE Head(inq[c]) = "subscribe"
  <2>1. /\ UNCHANGED <<doc, ring, up, pos, from, pump, lagged, sent>>
        /\ res[c] = <<>>
        /\ res' = [res EXCEPT ![c] = <<LineOf("snapshot", doc)>>]
    BY <1>1 DEF Handle
  <2>2. LineOf("snapshot", doc) \in Line
    BY DEF FeedInv, FeedTypes, LineOf, Line
  <2>3. FeedTypes'
    BY <2>1, <2>2 DEF FeedInv, FeedTypes
  <2>4. Answering(c)' /\ Head(res'[c]).doc = doc
    BY <2>1, <2>2 DEF FeedInv, FeedTypes, Answering, LineOf
  <2>5. \A i \in 1..Len(ring) : Covered(c, ring[i].line.doc.rev)'
    <3>1. \A i \in 1..Len(ring) : ring'[i].line.doc.rev <= Head(res'[c]).doc.rev
      BY <2>1, <2>4 DEF FeedInv, NotAhead
    <3> QED BY <3>1, <2>1, <2>4 DEF Covered
  <2>6. up'[c] => pos'[c] <= Len(ring) + 1
    BY <2>1 DEF FeedInv, InPlace
  <2>7. ~Answering(c)
    BY <2>1 DEF Answering
  <2>8. up'[c] /\ from'[c] # None => SkipCovered(c)'
    BY <2>1, <2>7 DEF FeedInv, SkipsCovered, SkipCovered
  <2>9. \A d \in Clients \ {c} : res'[d] = res[d]
    BY <2>1 DEF FeedInv, FeedTypes
  <2> QED BY <2>1, <2>3, <2>5, <2>6, <2>8, <2>9, ConnStep
<1>2. CASE Head(inq[c]) \in {"mutate", "view.set"}
  <2>1. /\ UNCHANGED <<up, pos, from, pump, lagged, sent>>
        /\ res[c] = <<>>
        /\ res' = [res EXCEPT ![c] = <<LineOf("ok", doc)>>]
    BY <1>2 DEF Handle
  <2>2. LineOf("ok", doc) \in Line /\ LineOf("ok", doc).t = "ok"
    BY DEF FeedInv, FeedTypes, LineOf, Line
  <2>3. res' \in [Clients -> Seq(Line)]
    BY <2>1, <2>2 DEF FeedInv, FeedTypes
  <2>4. \A d \in Clients : \/ res'[d] = res[d]
                           \/ res[d] = <<>> /\ res'[d] # <<>> /\ Head(res'[d]).t = "ok"
    BY <2>1, <2>2 DEF FeedInv, FeedTypes
  <2>5. CASE UNCHANGED <<doc, ring>>
    <3>1. ring' = ring \o <<>> /\ doc' \in Doc /\ doc.rev <= doc'.rev
      BY <2>5 DEF FeedInv, FeedTypes, Doc
    <3>2. <<>> \in Seq(Envelope) /\ 1..Len(<<>>) = {}
      OBVIOUS
    <3> QED BY <2>1, <2>3, <2>4, <3>1, <3>2, PublishStep
  <2>6. CASE Mutated(IF Head(inq[c]) = "view.set" THEN c ELSE None)
    BY <2>6, <2>1, <2>3, <2>4, MutatedStep
  <2> QED BY <1>2, <2>5, <2>6 DEF Handle
<1> QED BY <1>1, <1>2 DEF Handle

LEMMA ConnectStep ==
  ASSUME FeedInv, NEW c \in Clients, Connect(c)
  PROVE  FeedInv'
<1>1. /\ UNCHANGED <<doc, ring>>
      /\ from'[c] = None /\ res'[c] = <<>> /\ pos'[c] = Len(ring) + 1
  BY DEF Connect, Opened, server, FeedInv, FeedTypes
<1>2. ~Answering(c)' /\ ~Subscribed(c)'
  BY <1>1 DEF Answering, Subscribed
<1>3. FeedTypes'
  BY <1>1 DEF Connect, Opened, FeedInv, FeedTypes
<1>4. \A d \in Clients \ {c} :
        /\ up'[d] = up[d] /\ pos'[d] = pos[d] /\ from'[d] = from[d]
        /\ res'[d] = res[d] /\ pump'[d] = pump[d]
        /\ lagged'[d] = lagged[d] /\ sent'[d] = sent[d]
  BY DEF Connect, Opened, FeedInv, FeedTypes
<1>5. pos'[c] <= Len(ring) + 1
  BY <1>1 DEF FeedInv, FeedTypes
<1> QED BY <1>1, <1>2, <1>3, <1>4, <1>5, ConnStep

LEMMA ArmStep ==
  ASSUME FeedInv, NEW c \in Clients, Arm(c)
  PROVE  FeedInv'
<1>1. /\ UNCHANGED <<doc, ring, up, pos, res, pump, lagged, sent>>
      /\ up[c] /\ Answering(c)
      /\ from' = [from EXCEPT ![c] = Head(res[c]).doc.rev]
  BY DEF Arm, Armed, server, Answering
<1>2. Head(res[c]).doc.rev \in Nat
  BY <1>1, LineTypes DEF FeedInv, FeedTypes, Answering
<1>3. FeedTypes'
  BY <1>1, <1>2 DEF FeedInv, FeedTypes
<1>4. Answering(c)' /\ from'[c] = Head(res'[c]).doc.rev
  BY <1>1 DEF FeedInv, FeedTypes, Answering
<1>9. SkipCovered(c)'
  BY <1>1, <1>2, <1>4 DEF SkipCovered
<1>5. \A n : Covered(c, n)' <=> Covered(c, n)
  BY <1>1, <1>4 DEF Covered
<1>6. \A i \in 1..Len(ring) : Concerns(c, ring[i]) =>
        i >= pos'[c] \/ Covered(c, ring[i].line.doc.rev)'
  BY <1>1, <1>5 DEF FeedInv, NothingMissed, Subscribed
<1>7. up'[c] => pos'[c] <= Len(ring) + 1
  BY <1>1 DEF FeedInv, InPlace
<1>8. \A d \in Clients \ {c} : from'[d] = from[d]
  BY <1>1 DEF FeedInv, FeedTypes
<1> QED BY <1>1, <1>2, <1>3, <1>4, <1>6, <1>7, <1>8, <1>9, ConnStep

LEMMA RespondStep ==
  ASSUME FeedInv, NEW c \in Clients, Respond(c)
  PROVE  FeedInv'
<1> DEFINE line == Head(res[c])
<1>1. /\ UNCHANGED <<doc, ring, up, pos, from, pump, lagged>>
      /\ res[c] # <<>> /\ res' = [res EXCEPT ![c] = <<>>]
      /\ sent' = [sent EXCEPT ![c] = IF line.t = "snapshot" THEN Higher(@, line.doc.rev) ELSE @]
  BY DEF Respond, server
<1>2. line \in Line /\ line.doc.rev \in Nat
  BY <1>1, LineTypes DEF FeedInv, FeedTypes
<1>3. /\ sent'[c] \in Nat /\ sent[c] \in Nat /\ sent[c] <= sent'[c]
      /\ Answering(c) => line.doc.rev <= sent'[c]
  BY <1>1, <1>2 DEF FeedInv, FeedTypes, Higher, Answering
<1> HIDE DEF line
<1>4. FeedTypes'
  <2>1. sent' \in [Clients -> Nat]
    BY <1>1, <1>3 DEF FeedInv, FeedTypes
  <2> QED BY <1>1, <2>1 DEF FeedInv, FeedTypes
<1>5. ~Answering(c)' /\ (Answering(c) => from[c] # None)
  BY <1>1 DEF FeedInv, FeedTypes, Answering, Respond
<1>6. \A n \in Nat : Covered(c, n) => Covered(c, n)'
  BY <1>1, <1>3, <1>2 DEF Covered, line
<1>7. \A i \in 1..Len(ring) : ring[i].line.doc.rev \in Nat
  BY LineTypes DEF FeedInv, FeedTypes
<1>8. Subscribed(c)' => \A i \in 1..Len(ring) : Concerns(c, ring[i]) =>
        i >= pos'[c] \/ Covered(c, ring[i].line.doc.rev)'
  BY <1>1, <1>5, <1>6, <1>7 DEF FeedInv, NothingMissed, Subscribed
<1>9. up'[c] /\ from'[c] # None => SkipCovered(c)'
  <2> SUFFICES ASSUME up[c], from[c] # None PROVE from[c] <= sent'[c]
    BY <1>1 DEF SkipCovered
  <2>1. from[c] \in Nat
    BY DEF FeedInv, FeedTypes
  <2>2. from[c] <= sent[c] \/ (Answering(c) /\ from[c] <= line.doc.rev)
    BY DEF FeedInv, SkipsCovered, SkipCovered, line
  <2> QED BY <1>2, <1>3, <2>1, <2>2
<1>10. up'[c] => pos'[c] <= Len(ring) + 1
  BY <1>1 DEF FeedInv, InPlace
<1>11. \A d \in Clients \ {c} : res'[d] = res[d] /\ sent'[d] = sent[d]
  BY <1>1 DEF FeedInv, FeedTypes
<1> QED BY <1>1, <1>4, <1>8, <1>9, <1>10, <1>11, ConnStep

LEMMA PumpTakeStep ==
  ASSUME FeedInv, NEW c \in Clients, PumpTake(c)
  PROVE  FeedInv'
<1> DEFINE e == ring[pos[c]]
<1>1. /\ UNCHANGED <<doc, ring, up, from, res, lagged, sent>>
      /\ up[c] /\ from[c] # None /\ pump[c] = <<>> /\ ~lagged[c]
      /\ pos[c] <= Len(ring)
      /\ pos' = [pos EXCEPT ![c] = @ + 1]
      /\ pump' = [pump EXCEPT ![c] = IF Skipped(c, e) THEN <<>> ELSE <<e.line>>]
  BY DEF PumpTake, Pumping, server
<1>2. pos[c] \in 1..Len(ring) /\ pos'[c] = pos[c] + 1
  BY <1>1 DEF FeedInv, FeedTypes
<1>3. e \in Envelope /\ e.line \in Line /\ e.line.doc.rev \in Nat
  BY <1>2, LineTypes DEF FeedInv, FeedTypes
<1>4. FeedTypes'
  BY <1>1, <1>2, <1>3 DEF FeedInv, FeedTypes
<1>5. Answering(c)' <=> Answering(c)
  BY <1>1 DEF Answering
<1>6. \A n : Covered(c, n) => Covered(c, n)'
  BY <1>1, <1>5 DEF Covered
<1>7. ASSUME NEW i \in 1..Len(ring), i = pos[c], Concerns(c, ring[i])
      PROVE  Covered(c, ring[i].line.doc.rev)'
  <2> DEFINE n == ring[i].line.doc.rev
  <2>1. e = ring[i] /\ n \in Nat /\ ring' = ring
    BY <1>1, <1>3, <1>7
  <2>2. CASE Skipped(c, e)
    <3>1. n <= from[c]
      BY <2>1, <2>2, <1>7 DEF Skipped, Concerns
    <3>2. from[c] \in Nat /\ sent[c] \in Nat
      BY <1>1 DEF FeedInv, FeedTypes
    <3>3. SkipCovered(c)
      BY <1>1 DEF FeedInv, SkipsCovered
    <3>4. Answering(c) => Head(res[c]).doc.rev \in Nat
      BY LineTypes DEF FeedInv, FeedTypes, Answering
    <3>5. n <= sent[c] \/ (Answering(c) /\ n <= Head(res[c]).doc.rev)
      BY <2>1, <3>1, <3>2, <3>3, <3>4 DEF SkipCovered
    <3> QED BY <1>1, <1>5, <3>5 DEF Covered
  <2>3. CASE ~Skipped(c, e)
    <3>1. pump'[c] = <<ring[i].line>>
      BY <1>1, <2>1, <2>3 DEF FeedInv, FeedTypes
    <3>2. pump'[c] # <<>> /\ Head(pump'[c]) = ring[i].line
      BY <3>1
    <3>3. Head(pump'[c]).t = "ev.workspace" /\ n <= Head(pump'[c]).doc.rev
      BY <3>2, <2>1, <1>7 DEF Concerns
    <3> QED BY <3>2, <3>3, <2>1 DEF Covered
  <2> QED BY <2>2, <2>3
<1>8. \A i \in 1..Len(ring) : Concerns(c, ring[i]) =>
        i >= pos'[c] \/ Covered(c, ring[i].line.doc.rev)'
  <2> SUFFICES ASSUME NEW i \in 1..Len(ring), Concerns(c, ring[i]), ~ (i >= pos'[c])
               PROVE  Covered(c, ring[i].line.doc.rev)'
    OBVIOUS
  <2>1. CASE i = pos[c]
    BY <1>7, <2>1
  <2>2. CASE i # pos[c]
    <3>1. ~ (i >= pos[c])
      BY <1>2, <2>2
    <3>2. Covered(c, ring[i].line.doc.rev)
      BY <1>1, <3>1 DEF FeedInv, NothingMissed, Subscribed
    <3> QED BY <1>1, <1>6, <3>2
  <2> QED BY <2>1, <2>2
<1>9. pos'[c] <= Len(ring) + 1
  BY <1>2
<1>10. SkipCovered(c)'
  BY <1>1, <1>5 DEF FeedInv, SkipsCovered, SkipCovered
<1>11. \A d \in Clients \ {c} : pos'[d] = pos[d] /\ pump'[d] = pump[d]
  BY <1>1 DEF FeedInv, FeedTypes
<1> QED BY <1>1, <1>4, <1>8, <1>9, <1>10, <1>11, ConnStep

LEMMA PumpLagStep ==
  ASSUME FeedInv, NEW c \in Clients, PumpLag(c)
  PROVE  FeedInv'
<1>1. /\ UNCHANGED <<doc, ring, up, from, res, pump, sent>>
      /\ pos' = [pos EXCEPT ![c] = Oldest] /\ pos[c] < Oldest
      /\ lagged' = [lagged EXCEPT ![c] = TRUE]
  BY DEF PumpLag, Lagging, LagTo, server
<1>2. Oldest \in Nat \ {0} /\ Oldest <= Len(ring) + 1
  BY ControlFeedAssumption DEF FeedInv, FeedTypes, Oldest
<1>3. FeedTypes' /\ pos'[c] = Oldest /\ lagged'[c]
  BY <1>1, <1>2 DEF FeedInv, FeedTypes
<1>4. \A n : Covered(c, n)'
  BY <1>3 DEF Covered
<1>5. Answering(c)' <=> Answering(c)
  BY <1>1 DEF Answering
<1>6. up'[c] /\ from'[c] # None => SkipCovered(c)'
  BY <1>1, <1>5 DEF FeedInv, SkipsCovered, SkipCovered
<1>7. \A d \in Clients \ {c} : pos'[d] = pos[d] /\ lagged'[d] = lagged[d]
  BY <1>1 DEF FeedInv, FeedTypes
<1> QED BY <1>1, <1>2, <1>3, <1>4, <1>6, <1>7, ConnStep

LEMMA PumpRereadStep ==
  ASSUME FeedInv, NEW c \in Clients, PumpReread(c)
  PROVE  FeedInv'
<1>1. /\ UNCHANGED <<doc, ring, up, pos, from, res, sent>>
      /\ pump' = [pump EXCEPT ![c] = <<LineOf("ev.workspace", doc)>>]
      /\ lagged' = [lagged EXCEPT ![c] = FALSE]
  BY DEF PumpReread, Reread, server
<1>2. LineOf("ev.workspace", doc) \in Line
  BY DEF FeedInv, FeedTypes, LineOf, Line
<1>3. FeedTypes'
  BY <1>1, <1>2 DEF FeedInv, FeedTypes
<1>4. pump'[c] # <<>> /\ Head(pump'[c]).t = "ev.workspace" /\ Head(pump'[c]).doc = doc
  BY <1>1, <1>2 DEF FeedInv, FeedTypes, LineOf
<1>5. \A i \in 1..Len(ring) : Covered(c, ring[i].line.doc.rev)'
  <2>1. \A i \in 1..Len(ring) : ring'[i].line.doc.rev <= Head(pump'[c]).doc.rev
    BY <1>1, <1>4 DEF FeedInv, NotAhead
  <2> QED BY <1>1, <1>4, <2>1 DEF Covered
<1>6. Answering(c)' <=> Answering(c)
  BY <1>1 DEF Answering
<1>7. up'[c] /\ from'[c] # None => SkipCovered(c)'
  BY <1>1, <1>6 DEF FeedInv, SkipsCovered, SkipCovered
<1>8. up'[c] => pos'[c] <= Len(ring) + 1
  BY <1>1 DEF FeedInv, InPlace
<1>9. \A d \in Clients \ {c} : pump'[d] = pump[d] /\ lagged'[d] = lagged[d]
  BY <1>1 DEF FeedInv, FeedTypes
<1> QED BY <1>1, <1>3, <1>5, <1>7, <1>8, <1>9, ConnStep

LEMMA PumpSendStep ==
  ASSUME FeedInv, NEW c \in Clients, PumpSend(c)
  PROVE  FeedInv'
<1> DEFINE line == Head(pump[c])
<1>1. /\ UNCHANGED <<doc, ring, up, pos, from, res, lagged>>
      /\ pump[c] # <<>> /\ pump' = [pump EXCEPT ![c] = <<>>]
      /\ sent' = [sent EXCEPT ![c] = IF line.t = "ev.workspace" THEN Higher(@, line.doc.rev) ELSE @]
  BY DEF PumpSend, server
<1>2. line \in Line /\ line.doc.rev \in Nat
  BY <1>1, LineTypes DEF FeedInv, FeedTypes
<1>3. /\ sent'[c] \in Nat /\ sent[c] \in Nat /\ sent[c] <= sent'[c]
      /\ line.t = "ev.workspace" => line.doc.rev <= sent'[c]
  BY <1>1, <1>2 DEF FeedInv, FeedTypes, Higher
<1> HIDE DEF line
<1>4. FeedTypes'
  <2>1. sent' \in [Clients -> Nat]
    BY <1>1, <1>3 DEF FeedInv, FeedTypes
  <2> QED BY <1>1, <2>1 DEF FeedInv, FeedTypes
<1>5. Answering(c)' <=> Answering(c)
  BY <1>1 DEF Answering
<1>6. \A n \in Nat : Covered(c, n) => Covered(c, n)'
  BY <1>1, <1>2, <1>3, <1>5 DEF Covered, line
<1>7. \A i \in 1..Len(ring) : ring[i].line.doc.rev \in Nat
  BY LineTypes DEF FeedInv, FeedTypes
<1>8. Subscribed(c)' => \A i \in 1..Len(ring) : Concerns(c, ring[i]) =>
        i >= pos'[c] \/ Covered(c, ring[i].line.doc.rev)'
  BY <1>1, <1>5, <1>6, <1>7 DEF FeedInv, NothingMissed, Subscribed
<1>9. up'[c] /\ from'[c] # None => SkipCovered(c)'
  <2> SUFFICES ASSUME up[c], from[c] # None
               PROVE  from[c] <= sent'[c] \/ (Answering(c) /\ from[c] <= Head(res[c]).doc.rev)
    BY <1>1, <1>5 DEF SkipCovered
  <2>1. from[c] \in Nat
    BY DEF FeedInv, FeedTypes
  <2>2. SkipCovered(c)
    BY DEF FeedInv, SkipsCovered
  <2> QED BY <1>3, <2>1, <2>2 DEF SkipCovered
<1>10. up'[c] => pos'[c] <= Len(ring) + 1
  BY <1>1 DEF FeedInv, InPlace
<1>11. \A d \in Clients \ {c} : pump'[d] = pump[d] /\ sent'[d] = sent[d]
  BY <1>1 DEF FeedInv, FeedTypes
<1> QED BY <1>1, <1>4, <1>8, <1>9, <1>10, <1>11, ConnStep

(* Connections end: their clients are no longer subscribed. *)
LEMMA ClosedStep ==
  ASSUME FeedInv, NEW Gone \in SUBSET Clients, Closed(Gone), UNCHANGED <<doc, ring>>
  PROVE  FeedInv'
<1>1. /\ \A c \in Clients : up'[c] => c \notin Gone /\ up[c]
      /\ UNCHANGED <<pos, sent>>
      /\ \A c \in Clients \ Gone : /\ res'[c] = res[c] /\ pump'[c] = pump[c]
                                  /\ lagged'[c] = lagged[c] /\ from'[c] = from[c]
  BY DEF Closed, FeedInv, FeedTypes
<1>2. FeedTypes'
  BY DEF Closed, FeedInv, FeedTypes
<1>3. \A c \in Clients \ Gone : Answering(c)' <=> Answering(c)
  BY <1>1 DEF Answering
<1>4. \A n : \A c \in Clients \ Gone : Covered(c, n)' <=> Covered(c, n)
  BY <1>1, <1>3 DEF Covered
<1>5. NotAhead' /\ InPlace'
  BY <1>1 DEF FeedInv, NotAhead, InPlace
<1>6. SkipsCovered'
  BY <1>1, <1>3 DEF FeedInv, SkipsCovered, SkipCovered
<1>7. NothingMissed'
  <2> SUFFICES ASSUME NEW c \in Clients, Subscribed(c)',
                      NEW i \in 1..Len(ring), Concerns(c, ring[i])
               PROVE  i >= pos'[c] \/ Covered(c, ring[i].line.doc.rev)'
    BY DEF NothingMissed, Concerns
  <2>1. c \notin Gone
    BY <1>1 DEF Subscribed
  <2>2. Subscribed(c)
    BY <1>1, <1>3, <2>1 DEF Subscribed
  <2> QED BY <1>1, <1>4, <2>1, <2>2 DEF FeedInv, NothingMissed
<1> QED BY <1>2, <1>5, <1>6, <1>7 DEF FeedInv

LEMMA RestartStep == FeedInv /\ Restart => FeedInv'
<1> SUFFICES ASSUME FeedInv, Restart PROVE FeedInv'
  OBVIOUS
<1>1. ring' = <<>> /\ \A c \in Clients : ~up'[c]
  BY DEF Restart, Closed
<1>2. FeedTypes'
  BY DEF Restart, Closed, FeedInv, FeedTypes, Doc
<1>3. NotAhead' /\ InPlace' /\ SkipsCovered' /\ NothingMissed'
  BY <1>1 DEF NotAhead, InPlace, SkipsCovered, NothingMissed, Subscribed
<1> QED BY <1>2, <1>3 DEF FeedInv

(* What the clients do, and a stutter, is nothing to the invariant. *)
LEMMA StutterStep ==
  ASSUME FeedInv, UNCHANGED <<doc, ring, up, pos, from, res, pump, lagged, sent>>
  PROVE  FeedInv'
BY DEF FeedInv, FeedTypes, NotAhead, InPlace, SkipsCovered, SkipCovered, NothingMissed,
       Subscribed, Concerns, Covered, Answering

LEMMA NextFeed == FeedInv /\ [Next]_vars => FeedInv'
<1> SUFFICES ASSUME FeedInv, [Next]_vars PROVE FeedInv'
  OBVIOUS
<1>1. CASE SurfaceChanged  BY <1>1, SurfaceChangedStep
<1>2. CASE SurfaceExited   BY <1>2, SurfaceExitedStep
<1>3. CASE Restart         BY <1>3, RestartStep
<1>4. CASE UNCHANGED vars  BY <1>4, StutterStep DEF vars, server, conn
<1>5. ASSUME NEW c \in Clients
      PROVE  /\ Connect(c) \/ Handle(c) \/ Arm(c) \/ Respond(c) => FeedInv'
             /\ PumpTake(c) \/ PumpLag(c) \/ PumpReread(c) \/ PumpSend(c) => FeedInv'
             /\ ConnDrop(c) => FeedInv'
             /\ (\E r \in Request : Ask(c, r)) \/ OnData(c) => FeedInv'
  <2>1. Connect(c) \/ Handle(c) \/ Arm(c) \/ Respond(c) => FeedInv'
    BY ConnectStep, HandleStep, ArmStep, RespondStep
  <2>2. PumpTake(c) \/ PumpLag(c) \/ PumpReread(c) \/ PumpSend(c) => FeedInv'
    BY PumpTakeStep, PumpLagStep, PumpRereadStep, PumpSendStep
  <2>3. ConnDrop(c) => FeedInv'
    BY ClosedStep DEF ConnDrop
  <2>4. ASSUME \E r \in Request : Ask(c, r) PROVE FeedInv'
    BY <2>4, StutterStep DEF Ask
  <2>5. ASSUME OnData(c) PROVE FeedInv'
    <3>1. UNCHANGED <<doc, ring, up, pos, from, res, pump, lagged, sent>>
      BY <2>5 DEF OnData, server
    <3> QED BY <3>1, StutterStep
  <2> QED BY <2>1, <2>2, <2>3, <2>4, <2>5
<1> QED BY <1>1, <1>2, <1>3, <1>4, <1>5 DEF Next

(* For any number of clients, any capacity of the channel and of the queues *)
(* and any pace of the three tasks of a connection: a subscriber has been   *)
(* sent, is being sent or is still to be sent every published document.     *)
THEOREM SubscriberMissesNothing == Spec => []NothingMissed
<1>1. Init => FeedInv
  BY InitFeed
<1>2. FeedInv /\ [Next]_vars => FeedInv'
  BY NextFeed
<1>3. FeedInv => NothingMissed
  BY DEF FeedInv
<1> QED BY <1>1, <1>2, <1>3, PTL DEF Spec
=============================================================================
