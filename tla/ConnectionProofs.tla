-------------------------- MODULE ConnectionProofs --------------------------
(***************************************************************************)
(* Proofs about module Connection, for any limits of frames and lines, any *)
(* number of messages and any cut of the stream into reads: every message  *)
(* is answered once and in order, and the client is attached as it last    *)
(* asked.  The bytes not yet taken always spell the items not yet taken    *)
(* (Spell), and what follows is how the decoder, the line reader and the   *)
(* stream keep it so.                                                      *)
(***************************************************************************)
EXTENDS Machines, Integers, SequenceTheorems, FiniteSetTheorems, WellFoundedInduction, TLAPS
-----------------------------------------------------------------------------
(* What a data client may ask for, what it is told is wrong, what breaks the *)
(* framing, and the lines that have a newline                                *)
Told == {"attach", "detach", "input", "paste", "resize", "flat", "fetch", "ack", "view"}
Untold == {"hello", "foreign", "reply", "novel", "cut"}
Broken == {"short", "huge"}
Ended == {"greeting", "outdated", "misplaced", "request", "garbage", "blank"}

(* What peers may send, by what becomes of it                            *)
LEMMA ItemsAre ==
  /\ DOMAIN Conn!Bytes = {"magic", "junk"} \cup Told \cup Untold \cup Broken \cup Conn!Spoken
  /\ Conn!Spoken = Ended \cup {"unended", "endless"}
BY DEF Conn!Bytes, Conn!Spoken, Told, Untold, Broken, Ended

(* The numbers of the protocol                                           *)
LEMMA TypesAre ==
  /\ Conn!HELLO = 1 /\ Conn!ATTACH = 16 /\ Conn!DETACH = 17 /\ Conn!INPUT = 18 /\ Conn!RESIZE = 19
  /\ Conn!FETCH_HISTORY = 20 /\ Conn!ACK = 21 /\ Conn!SET_VIEW_STATE = 22 /\ Conn!SNAPSHOT = 256
  /\ Conn!Brace = 123 /\ Conn!Newline = 10 /\ Conn!Major = 1 /\ Conn!Magic = <<255, 83>> /\ Conn!MaxInput = 8
BY DEF Conn!HELLO, Conn!ATTACH, Conn!DETACH, Conn!INPUT, Conn!RESIZE, Conn!FETCH_HISTORY, Conn!ACK,
   Conn!SET_VIEW_STATE, Conn!SNAPSHOT, Conn!Brace, Conn!Newline, Conn!Major, Conn!Magic, Conn!MaxInput

(* Short sequences, element by element                                   *)
LEMMA Tuples ==
  /\ <<>> \in Seq(Nat) /\ Len(<<>>) = 0
  /\ \A a \in Nat : <<a>> \in Seq(Nat) /\ Len(<<a>>) = 1 /\ <<a>>[1] = a
  /\ \A a, b \in Nat : <<a, b>> \in Seq(Nat) /\ Len(<<a, b>>) = 2 /\ <<a, b>>[1] = a /\ <<a, b>>[2] = b
  /\ \A a, b, c \in Nat :
       /\ <<a, b, c>> \in Seq(Nat) /\ Len(<<a, b, c>>) = 3
       /\ <<a, b, c>>[1] = a /\ <<a, b, c>>[2] = b /\ <<a, b, c>>[3] = c
  /\ \A a, b, c, d \in Nat :
       /\ <<a, b, c, d>> \in Seq(Nat) /\ Len(<<a, b, c, d>>) = 4
       /\ <<a, b, c, d>>[1] = a /\ <<a, b, c, d>>[2] = b /\ <<a, b, c, d>>[3] = c /\ <<a, b, c, d>>[4] = d
OBVIOUS

(* Short sequences put together, as Framed and Line do                   *)
LEMMA TuplesJoined ==
  /\ \A a, b, c \in Nat : <<a, b>> \o <<c>> = <<a, b, c>>
  /\ \A a, b, c, d \in Nat : <<a, b>> \o <<c, d>> = <<a, b, c, d>>
  /\ \A a, b, c \in Nat : <<a>> \o <<b>> \o <<c>> = <<a, b, c>>
<1>1. ASSUME NEW a \in Nat, NEW b \in Nat, NEW c \in Nat PROVE <<a, b>> \o <<c>> = <<a, b, c>>
  <2> DEFINE u == <<a, b>>  v == <<c>>  w == <<a, b, c>>
  <2>1. u \in Seq(Nat) /\ v \in Seq(Nat) /\ w \in Seq(Nat)
    BY Tuples
  <2>2. /\ Len(u) = 2 /\ Len(v) = 1 /\ Len(w) = 3
        /\ u[1] = a /\ u[2] = b /\ v[1] = c /\ w[1] = a /\ w[2] = b /\ w[3] = c
    BY Tuples
  <2> HIDE DEF u, v, w
  <2>3. /\ u \o v \in Seq(Nat) /\ Len(u \o v) = Len(u) + Len(v)
        /\ \A i \in 1..Len(u) + Len(v) : (u \o v)[i] = IF i <= Len(u) THEN u[i] ELSE v[i - Len(u)]
    BY <2>1, ConcatProperties
  <2>4. Len(u \o v) = Len(w)
    BY <2>2, <2>3
  <2>5. \A i \in 1..Len(u \o v) : (u \o v)[i] = w[i]
    <3> TAKE i \in 1..Len(u \o v)
    <3>1. i \in Int /\ (i = 1 \/ i = 2 \/ i = 3)
      BY <2>2, <2>3
    <3> QED
      BY <2>2, <2>3, <3>1
  <2>6. u \o v = w
    BY <2>1, <2>3, <2>4, <2>5, SeqEqual
  <2> QED
    BY <2>6 DEF u, v, w
<1>2. ASSUME NEW a \in Nat, NEW b \in Nat, NEW c \in Nat, NEW d \in Nat
      PROVE <<a, b>> \o <<c, d>> = <<a, b, c, d>>
  <2> DEFINE u == <<a, b>>  v == <<c, d>>  w == <<a, b, c, d>>
  <2>1. u \in Seq(Nat) /\ v \in Seq(Nat) /\ w \in Seq(Nat)
    BY Tuples
  <2>2. /\ Len(u) = 2 /\ Len(v) = 2 /\ Len(w) = 4 /\ u[1] = a /\ u[2] = b /\ v[1] = c /\ v[2] = d
        /\ w[1] = a /\ w[2] = b /\ w[3] = c /\ w[4] = d
    BY Tuples
  <2> HIDE DEF u, v, w
  <2>3. /\ u \o v \in Seq(Nat) /\ Len(u \o v) = Len(u) + Len(v)
        /\ \A i \in 1..Len(u) + Len(v) : (u \o v)[i] = IF i <= Len(u) THEN u[i] ELSE v[i - Len(u)]
    BY <2>1, ConcatProperties
  <2>4. Len(u \o v) = Len(w)
    BY <2>2, <2>3
  <2>5. \A i \in 1..Len(u \o v) : (u \o v)[i] = w[i]
    <3> TAKE i \in 1..Len(u \o v)
    <3>1. i \in Int /\ (i = 1 \/ i = 2 \/ i = 3 \/ i = 4)
      BY <2>2, <2>3
    <3> QED
      BY <2>2, <2>3, <3>1
  <2>6. u \o v = w
    BY <2>1, <2>3, <2>4, <2>5, SeqEqual
  <2> QED
    BY <2>6 DEF u, v, w
<1>3. ASSUME NEW a \in Nat, NEW b \in Nat PROVE <<a>> \o <<b>> = <<a, b>>
  <2> DEFINE u == <<a>>  v == <<b>>  w == <<a, b>>
  <2>1. u \in Seq(Nat) /\ v \in Seq(Nat) /\ w \in Seq(Nat)
    BY Tuples
  <2>2. Len(u) = 1 /\ Len(v) = 1 /\ Len(w) = 2 /\ u[1] = a /\ v[1] = b /\ w[1] = a /\ w[2] = b
    BY Tuples
  <2> HIDE DEF u, v, w
  <2>3. /\ u \o v \in Seq(Nat) /\ Len(u \o v) = Len(u) + Len(v)
        /\ \A i \in 1..Len(u) + Len(v) : (u \o v)[i] = IF i <= Len(u) THEN u[i] ELSE v[i - Len(u)]
    BY <2>1, ConcatProperties
  <2>4. Len(u \o v) = Len(w)
    BY <2>2, <2>3
  <2>5. \A i \in 1..Len(u \o v) : (u \o v)[i] = w[i]
    <3> TAKE i \in 1..Len(u \o v)
    <3>1. i \in Int /\ (i = 1 \/ i = 2)
      BY <2>2, <2>3
    <3> QED
      BY <2>2, <2>3, <3>1
  <2>6. u \o v = w
    BY <2>1, <2>3, <2>4, <2>5, SeqEqual
  <2> QED
    BY <2>6 DEF u, v, w
<1>4. ASSUME NEW a \in Nat, NEW b \in Nat, NEW c \in Nat PROVE <<a>> \o <<b>> \o <<c>> = <<a, b, c>>
  <2>1. <<a>> \o <<b>> = <<a, b>>
    BY <1>3
  <2>2. <<a, b>> \o <<c>> = <<a, b, c>>
    BY <1>1
  <2> QED
    BY <2>1, <2>2, Zenon
<1> QED
  BY <1>1, <1>2, <1>4

(* The bytes of every item                                               *)
LEMMA BytesAre ==
  /\ Conn!Bytes["magic"] = <<255, 83>> /\ Conn!Bytes["junk"] = <<255, 7>>
  /\ Conn!Bytes["hello"] = <<2, 1, 1>> /\ Conn!Bytes["foreign"] = <<2, 1, 2>>
  /\ Conn!Bytes["attach"] = <<1, 16>> /\ Conn!Bytes["detach"] = <<1, 17>>
  /\ Conn!Bytes["input"] = <<2, 18, 1>> /\ Conn!Bytes["paste"] = <<2, 18, 9>>
  /\ Conn!Bytes["resize"] = <<3, 19, 2, 2>> /\ Conn!Bytes["flat"] = <<3, 19, 2, 0>>
  /\ Conn!Bytes["fetch"] = <<1, 20>> /\ Conn!Bytes["ack"] = <<1, 21>> /\ Conn!Bytes["view"] = <<1, 22>>
  /\ Conn!Bytes["reply"] = <<1, 256>> /\ Conn!Bytes["novel"] = <<2, 99, 1>> /\ Conn!Bytes["cut"] = <<2, 19, 2>>
  /\ Conn!Bytes["short"] = <<0, 16>> /\ Conn!Bytes["huge"] = <<MaxFrame + 1, 18>>
  /\ Conn!Bytes["greeting"] = <<123, 1, 10>> /\ Conn!Bytes["outdated"] = <<123, 2, 10>>
  /\ Conn!Bytes["misplaced"] = <<123, 3, 10>> /\ Conn!Bytes["request"] = <<123, 4, 10>>
  /\ Conn!Bytes["garbage"] = <<123, 5, 10>> /\ Conn!Bytes["blank"] = <<10>>
  /\ Conn!Bytes["unended"] = <<123, 4>>
  /\ Conn!Bytes["endless"] = <<123>> \o [i \in 1..MaxLine |-> 4]
<1>1. \A t \in Nat, p \in Seq(Nat) : Conn!Framed(t, p) = <<1 + Len(p), t>> \o p
  BY Zenon DEF Conn!Framed
<1>2. \A t \in Nat : Conn!Framed(t, <<>>) = <<1, t>>
  <2> TAKE t \in Nat
  <2>1. <<1, t>> \in Seq(Nat) /\ <<>> \in Seq(Nat) /\ Len(<<>>) = 0
    BY Tuples
  <2>2. Conn!Framed(t, <<>>) = <<1 + 0, t>> \o <<>>
    BY <1>1, <2>1
  <2>3. 1 + 0 = 1
    OBVIOUS
  <2>4. <<1, t>> \o <<>> = <<1, t>>
    BY <2>1, ConcatEmptySeq
  <2> QED
    BY <2>2, <2>3, <2>4, Zenon
<1>3. \A t \in Nat, a \in Nat : Conn!Framed(t, <<a>>) = <<2, t, a>>
  <2> TAKE t \in Nat, a \in Nat
  <2>1. Conn!Framed(t, <<a>>) = <<1 + 1, t>> \o <<a>>
    BY <1>1, Tuples
  <2>2. 1 + 1 = 2
    OBVIOUS
  <2>3. <<2, t>> \o <<a>> = <<2, t, a>>
    BY TuplesJoined
  <2> QED
    BY <2>1, <2>2, <2>3, Zenon
<1>4. \A t \in Nat, a \in Nat, b \in Nat : Conn!Framed(t, <<a, b>>) = <<3, t, a, b>>
  <2> TAKE t \in Nat, a \in Nat, b \in Nat
  <2>1. Conn!Framed(t, <<a, b>>) = <<1 + 2, t>> \o <<a, b>>
    BY <1>1, Tuples
  <2>2. 1 + 2 = 3
    OBVIOUS
  <2>3. <<3, t>> \o <<a, b>> = <<3, t, a, b>>
    BY TuplesJoined
  <2> QED
    BY <2>1, <2>2, <2>3, Zenon
<1>5. \A a \in Nat : Conn!Line(<<a>>) = <<123, a, 10>>
  <2> TAKE a \in Nat
  <2>1. Conn!Line(<<a>>) = <<123>> \o <<a>> \o <<10>>
    BY TypesAre, Zenon DEF Conn!Line
  <2>2. 123 \in Nat /\ 10 \in Nat
    OBVIOUS
  <2> QED
    <3>1. \A b, c, d \in Nat : <<b>> \o <<c>> \o <<d>> = <<b, c, d>>
      BY TuplesJoined, Zenon
    <3>2. <<123>> \o <<a>> \o <<10>> = <<123, a, 10>>
      BY <2>2, <3>1
    <3> QED
      BY <2>1, <3>2, Zenon
<1>6. /\ Conn!Bytes["magic"] = <<255, 83>> /\ Conn!Bytes["junk"] = <<255, 7>>
      /\ Conn!Bytes["short"] = <<0, 16>> /\ Conn!Bytes["huge"] = <<MaxFrame + 1, 18>>
      /\ Conn!Bytes["blank"] = <<10>> /\ Conn!Bytes["unended"] = <<123, 4>>
      /\ Conn!Bytes["endless"] = <<123>> \o [i \in 1..MaxLine |-> 4]
  BY TypesAre DEF Conn!Bytes
<1>7. /\ Conn!Bytes["hello"] = <<2, 1, 1>> /\ Conn!Bytes["foreign"] = <<2, 1, 2>>
      /\ Conn!Bytes["input"] = <<2, 18, 1>> /\ Conn!Bytes["paste"] = <<2, 18, 9>>
      /\ Conn!Bytes["novel"] = <<2, 99, 1>> /\ Conn!Bytes["cut"] = <<2, 19, 2>>
  BY <1>3, TypesAre DEF Conn!Bytes
<1>8. /\ Conn!Bytes["attach"] = <<1, 16>> /\ Conn!Bytes["detach"] = <<1, 17>>
      /\ Conn!Bytes["fetch"] = <<1, 20>> /\ Conn!Bytes["ack"] = <<1, 21>> /\ Conn!Bytes["view"] = <<1, 22>>
      /\ Conn!Bytes["reply"] = <<1, 256>>
  BY <1>2, TypesAre DEF Conn!Bytes
<1>9. Conn!Bytes["resize"] = <<3, 19, 2, 2>> /\ Conn!Bytes["flat"] = <<3, 19, 2, 0>>
  BY <1>4, TypesAre DEF Conn!Bytes
<1>10. /\ Conn!Bytes["greeting"] = <<123, 1, 10>> /\ Conn!Bytes["outdated"] = <<123, 2, 10>>
       /\ Conn!Bytes["misplaced"] = <<123, 3, 10>> /\ Conn!Bytes["request"] = <<123, 4, 10>>
       /\ Conn!Bytes["garbage"] = <<123, 5, 10>>
  BY <1>5, TypesAre DEF Conn!Bytes
<1> QED
  BY <1>6, <1>7, <1>8, <1>9, <1>10

(* The same by the number of bytes of an item *)
LEMMA BytesByLength ==
  /\ \A h \in {"attach", "detach", "fetch", "ack", "view", "reply"} :
       \E t \in {16, 17, 20, 21, 22, 256} : Conn!Bytes[h] = <<1, t>>
  /\ \A h \in {"input", "paste", "hello", "foreign", "novel", "cut"} :
       \E t \in {18, 1, 99, 19} : \E a \in {1, 9, 2} : Conn!Bytes[h] = <<2, t, a>>
  /\ \A h \in {"greeting", "outdated", "misplaced", "request", "garbage"} :
       \E a \in {1, 2, 3, 4, 5} : Conn!Bytes[h] = <<123, a, 10>> /\ (h = "greeting" <=> a = 1)
<1>1. ASSUME NEW h \in {"attach", "detach", "fetch", "ack", "view", "reply"}
      PROVE  \E t \in {16, 17, 20, 21, 22, 256} : Conn!Bytes[h] = <<1, t>>
  <2> DEFINE u(t) == <<1, t>>
  <2>1. /\ Conn!Bytes["attach"] = u(16) /\ Conn!Bytes["detach"] = u(17) /\ Conn!Bytes["fetch"] = u(20)
        /\ Conn!Bytes["ack"] = u(21) /\ Conn!Bytes["view"] = u(22) /\ Conn!Bytes["reply"] = u(256)
    BY BytesAre, Zenon
  <2> HIDE DEF u
  <2>2. \E t \in {16, 17, 20, 21, 22, 256} : Conn!Bytes[h] = u(t)
    BY <2>1
  <2> QED
    BY <2>2 DEF u
<1>2. ASSUME NEW h \in {"input", "paste", "hello", "foreign", "novel", "cut"}
      PROVE  \E t \in {18, 1, 99, 19} : \E a \in {1, 9, 2} : Conn!Bytes[h] = <<2, t, a>>
  <2> DEFINE u(t, a) == <<2, t, a>>
  <2>1. /\ Conn!Bytes["input"] = u(18, 1) /\ Conn!Bytes["paste"] = u(18, 9) /\ Conn!Bytes["hello"] = u(1, 1)
        /\ Conn!Bytes["foreign"] = u(1, 2) /\ Conn!Bytes["novel"] = u(99, 1) /\ Conn!Bytes["cut"] = u(19, 2)
    BY BytesAre, Zenon
  <2> HIDE DEF u
  <2>2. \E t \in {18, 1, 99, 19} : \E a \in {1, 9, 2} : Conn!Bytes[h] = u(t, a)
    BY <2>1
  <2> QED
    BY <2>2 DEF u
<1>3. ASSUME NEW h \in {"greeting", "outdated", "misplaced", "request", "garbage"}
      PROVE  \E a \in {1, 2, 3, 4, 5} : Conn!Bytes[h] = <<123, a, 10>> /\ (h = "greeting" <=> a = 1)
  <2> DEFINE u(a) == <<123, a, 10>>
  <2>1. /\ Conn!Bytes["greeting"] = u(1) /\ Conn!Bytes["outdated"] = u(2) /\ Conn!Bytes["misplaced"] = u(3)
        /\ Conn!Bytes["request"] = u(4) /\ Conn!Bytes["garbage"] = u(5)
    BY BytesAre, Zenon
  <2> HIDE DEF u
  <2>2. \E a \in {1, 2, 3, 4, 5} : Conn!Bytes[h] = u(a) /\ (h = "greeting" <=> a = 1)
    BY <2>1
  <2> QED
    BY <2>2 DEF u
<1> QED
  BY <1>1, <1>2, <1>3
-----------------------------------------------------------------------------
(* A line with a newline holds one byte between it and its brace *)
LEMMA LineBytes ==
  ASSUME NEW h \in Ended, h # "blank"
  PROVE  \E a \in {1, 2, 3, 4, 5} : Conn!Bytes[h] = <<123, a, 10>> /\ (h = "greeting" <=> a = 1)
<1>1. h \in {"greeting", "outdated", "misplaced", "request", "garbage"}
  BY DEF Ended
<1>2. \A x \in {"greeting", "outdated", "misplaced", "request", "garbage"} :
        \E a \in {1, 2, 3, 4, 5} : Conn!Bytes[x] = <<123, a, 10>> /\ (x = "greeting" <=> a = 1)
  BY BytesByLength, Zenon
<1> QED
  BY <1>1, <1>2, Zenon

(* What no message is: the magic, what is not the magic, and a blank line *)
LEMMA ShortBytes ==
  /\ \A h \in {"magic", "junk"} :
       /\ Conn!Bytes[h] \in Seq(Nat) /\ Len(Conn!Bytes[h]) = 2 /\ Conn!Bytes[h][1] = 255
       /\ Conn!Bytes[h][2] = 83 <=> h = "magic"
  /\ Conn!Bytes["blank"] \in Seq(Nat) /\ Len(Conn!Bytes["blank"]) = 1 /\ Conn!Bytes["blank"][1] = 10
<1>1. /\ Conn!Bytes["magic"] = <<255, 83>> /\ Conn!Bytes["junk"] = <<255, 7>>
      /\ Conn!Bytes["blank"] = <<10>>
  BY BytesAre, Zenon
<1> DEFINE u == <<255, 83>>  v == <<255, 7>>  w == <<10>>
<1>2. /\ u \in Seq(Nat) /\ Len(u) = 2 /\ u[1] = 255 /\ u[2] = 83
      /\ v \in Seq(Nat) /\ Len(v) = 2 /\ v[1] = 255 /\ v[2] = 7
      /\ w \in Seq(Nat) /\ Len(w) = 1 /\ w[1] = 10
  OBVIOUS
<1>3. Conn!Bytes["magic"] = u /\ Conn!Bytes["junk"] = v /\ Conn!Bytes["blank"] = w
  BY <1>1
<1> HIDE DEF u, v, w
<1> QED
  BY <1>2, <1>3
-----------------------------------------------------------------------------
(* All that may be sent, and of it the frames *)
Known == DOMAIN Conn!Bytes
FrameItem == Told \cup Untold

(* A whole frame says its own length, which is allowed                   *)
LEMMA FramesOfBytes ==
  ASSUME ConnectionAssumption, NEW h \in FrameItem
  PROVE  /\ Conn!Bytes[h] \in Seq(Nat) /\ Len(Conn!Bytes[h]) \in 2..4
         /\ Conn!Bytes[h][1] = Len(Conn!Bytes[h]) - 1 /\ Conn!Bytes[h][1] \in 1..MaxFrame
<1>1. /\ MaxFrame \in Nat /\ 1 \in 1..MaxFrame /\ 2 \in 1..MaxFrame /\ 3 \in 1..MaxFrame
  BY DEF ConnectionAssumption
<1>2. \/ \E t \in Nat : Conn!Bytes[h] = <<1, t>>
      \/ \E t, a \in Nat : Conn!Bytes[h] = <<2, t, a>>
      \/ \E t, a, b \in Nat : Conn!Bytes[h] = <<3, t, a, b>>
  <2>1. CASE h \in {"attach", "detach", "fetch", "ack", "view", "reply"}
    <3>1. \E t \in {16, 17, 20, 21, 22, 256} : Conn!Bytes[h] = <<1, t>>
      BY <2>1, BytesByLength
    <3> QED
      BY <3>1
  <2>2. CASE h \in {"input", "paste", "hello", "foreign", "novel", "cut"}
    <3>1. \E t \in {18, 1, 99, 19} : \E a \in {1, 9, 2} : Conn!Bytes[h] = <<2, t, a>>
      BY <2>2, BytesByLength
    <3> QED
      BY <3>1
  <2>3. CASE h \in {"resize", "flat"}
    <3>1. Conn!Bytes["resize"] = <<3, 19, 2, 2>> /\ Conn!Bytes["flat"] = <<3, 19, 2, 0>>
      BY BytesAre, Zenon
    <3>2. \E b \in {2, 0} : Conn!Bytes[h] = <<3, 19, 2, b>>
      BY <2>3, <3>1
    <3> QED
      BY <3>2
  <2> QED
    BY <2>1, <2>2, <2>3 DEF FrameItem, Told, Untold
<1>3. CASE \E t \in Nat : Conn!Bytes[h] = <<1, t>>
  BY <1>1, <1>3, Tuples
<1>4. CASE \E t, a \in Nat : Conn!Bytes[h] = <<2, t, a>>
  BY <1>1, <1>4, Tuples
<1>5. CASE \E t, a, b \in Nat : Conn!Bytes[h] = <<3, t, a, b>>
  BY <1>1, <1>5, Tuples
<1> QED
  BY <1>2, <1>3, <1>4, <1>5

(* A broken frame has a length that is not                               *)
LEMMA BrokenBytes ==
  ASSUME ConnectionAssumption, NEW h \in Broken
  PROVE  /\ Conn!Bytes[h] \in Seq(Nat) /\ Len(Conn!Bytes[h]) = 2
         /\ Conn!Bytes[h][1] \notin 1..MaxFrame
<1>1. MaxFrame \in Nat /\ MaxFrame + 1 \in Nat /\ 0 \notin 1..MaxFrame /\ MaxFrame + 1 \notin 1..MaxFrame
  BY DEF ConnectionAssumption
<1>2. \E a \in {0, MaxFrame + 1}, t \in Nat : Conn!Bytes[h] = <<a, t>>
  <2>1. Conn!Bytes["short"] = <<0, 16>> /\ Conn!Bytes["huge"] = <<MaxFrame + 1, 18>>
    BY BytesAre, Zenon
  <2>2. h = "short" \/ h = "huge"
    BY DEF Broken
  <2>3. CASE h = "short"
    BY <2>1, <2>3
  <2>4. CASE h = "huge"
    BY <2>1, <2>4
  <2> QED
    BY <2>2, <2>3, <2>4
<1> QED
  BY <1>1, <1>2, Tuples

(* A line holds one newline, at its end                                  *)
LEMMA EndedBytes ==
  ASSUME NEW h \in Ended
  PROVE  /\ Conn!Bytes[h] \in Seq(Nat) /\ Len(Conn!Bytes[h]) \in 1..3
         /\ Conn!Bytes[h][Len(Conn!Bytes[h])] = 10
         /\ \A j \in 1..Len(Conn!Bytes[h]) - 1 : Conn!Bytes[h][j] # 10
<1>1. CASE h = "blank"
  BY <1>1, ShortBytes
<1>2. ASSUME NEW a \in {1, 2, 3, 4, 5}, Conn!Bytes[h] = <<123, a, 10>>
      PROVE  /\ Conn!Bytes[h] \in Seq(Nat) /\ Len(Conn!Bytes[h]) = 3 /\ Conn!Bytes[h][3] = 10
             /\ \A j \in 1..2 : Conn!Bytes[h][j] # 10
  BY <1>2, Tuples
<1>3. CASE h # "blank"
  <2>1. \E a \in {1, 2, 3, 4, 5} : Conn!Bytes[h] = <<123, a, 10>>
    BY <1>3, LineBytes
  <2>2. /\ Conn!Bytes[h] \in Seq(Nat) /\ Len(Conn!Bytes[h]) = 3 /\ Conn!Bytes[h][3] = 10
        /\ \A j \in 1..2 : Conn!Bytes[h][j] # 10
    BY <1>2, <2>1
  <2> QED
    BY <2>2
<1> QED
  BY <1>1, <1>3

(* A line that the end of the stream cuts off                            *)
LEMMA UnendedBytes ==
  /\ Conn!Bytes["unended"] \in Seq(Nat) /\ Len(Conn!Bytes["unended"]) = 2
  /\ Conn!Bytes["unended"][1] = 123 /\ Conn!Bytes["unended"][2] = 4
<1>1. Conn!Bytes["unended"] = <<123, 4>>
  BY BytesAre, Zenon
<1> QED
  BY <1>1, Tuples

(* A line that is longer than any may be                                 *)
LEMMA EndlessBytes ==
  ASSUME ConnectionAssumption
  PROVE  /\ Conn!Bytes["endless"] \in Seq(Nat) /\ Len(Conn!Bytes["endless"]) = MaxLine + 1
         /\ \A j \in 1..MaxLine + 1 : Conn!Bytes["endless"][j] = IF j = 1 THEN 123 ELSE 4
<1> DEFINE f == [i \in 1..MaxLine |-> 4]  u == <<123>>
<1>1. MaxLine \in Nat
  BY DEF ConnectionAssumption
<1>2. f \in Seq(Nat) /\ Len(f) = MaxLine /\ \A i \in 1..MaxLine : f[i] = 4
  BY <1>1
<1>3. u \in Seq(Nat) /\ Len(u) = 1 /\ u[1] = 123
  BY Tuples
<1>4. Conn!Bytes["endless"] = u \o f
  BY BytesAre
<1> HIDE DEF f, u
<1>5. /\ u \o f \in Seq(Nat) /\ Len(u \o f) = Len(u) + Len(f)
      /\ \A i \in 1..Len(u) + Len(f) : (u \o f)[i] = IF i <= Len(u) THEN u[i] ELSE f[i - Len(u)]
  <2>1. u \in Seq(Nat) /\ f \in Seq(Nat)
    BY <1>2, <1>3
  <2> QED
    BY <2>1, ConcatProperties
<1>6. \A j \in 1..MaxLine + 1 : (u \o f)[j] = IF j = 1 THEN 123 ELSE 4
  <2> TAKE j \in 1..MaxLine + 1
  <2>1. CASE j = 1
    BY <1>1, <1>2, <1>3, <1>5, <2>1
  <2>2. CASE j # 1
    <3>1. j - 1 \in 1..MaxLine /\ ~(j <= 1) /\ j \in 1..1 + MaxLine
      BY <1>1, <2>2
    <3> QED
      BY <1>2, <1>3, <1>5, <3>1
  <2> QED
    BY <2>1, <2>2
<1>7. u \o f \in Seq(Nat) /\ Len(u \o f) = MaxLine + 1
  BY <1>1, <1>2, <1>3, <1>5
<1> QED
  BY <1>4, <1>6, <1>7

(* No item is empty                                                      *)
LEMMA SomeBytes ==
  ASSUME ConnectionAssumption, NEW h \in Known
  PROVE  Conn!Bytes[h] \in Seq(Nat) /\ Len(Conn!Bytes[h]) \in Nat \ {0}
<1>1. CASE h \in {"magic", "junk"}
  BY <1>1, ShortBytes
<1>2. CASE h \in FrameItem
  BY <1>2, FramesOfBytes
<1>3. CASE h \in Broken
  BY <1>3, BrokenBytes
<1>4. CASE h \in Ended
  BY <1>4, EndedBytes
<1>5. CASE h = "unended"
  BY <1>5, UnendedBytes
<1>6. CASE h = "endless"
  <2>1. MaxLine + 1 \in Nat \ {0}
    BY DEF ConnectionAssumption
  <2> QED
    BY <1>6, <2>1, EndlessBytes
<1>7. h \in {"magic", "junk"} \cup FrameItem \cup Broken \cup Ended \cup {"unended", "endless"}
  <2>1. h \in {"magic", "junk"} \cup Told \cup Untold \cup Broken \cup Conn!Spoken
    BY ItemsAre, Zenon DEF Known
  <2>2. Conn!Spoken = Ended \cup {"unended", "endless"}
    BY ItemsAre, Zenon
  <2> QED
    BY <2>1, <2>2 DEF FrameItem
<1>8. \/ h \in {"magic", "junk"} \/ h \in FrameItem \/ h \in Broken \/ h \in Ended
      \/ h = "unended" \/ h = "endless"
  BY <1>7
<1> QED
  BY <1>1, <1>2, <1>3, <1>4, <1>5, <1>6, <1>8
-----------------------------------------------------------------------------
(* What is left of a sequence after its first l elements                 *)
LEMMA RestOf ==
  ASSUME NEW S, NEW s \in Seq(S), NEW l \in 0..Len(s)
  PROVE  /\ SubSeq(s, l + 1, Len(s)) \in Seq(S) /\ Len(SubSeq(s, l + 1, Len(s))) = Len(s) - l
         /\ \A k \in 1..Len(s) - l : SubSeq(s, l + 1, Len(s))[k] = s[l + k]
<1>1. Len(s) \in Nat /\ l \in Nat /\ \A k \in l + 1..Len(s) : s[k] \in S
  <2>1. Len(s) \in Nat /\ l \in Nat
    OBVIOUS
  <2> QED
    BY <2>1, ElementOfSeq
<1> DEFINE m == l + 1  n == Len(s)
<1>2. m \in Int /\ n \in Int
  BY <1>1
<1>3. \A k \in m..n : s[k] \in S
  BY <1>1
<1> HIDE DEF m, n
<1>4. /\ SubSeq(s, m, n) \in Seq(S) /\ Len(SubSeq(s, m, n)) = IF m <= n THEN n - m + 1 ELSE 0
      /\ \A k \in 1..n - m + 1 : SubSeq(s, m, n)[k] = s[m + k - 1]
  BY <1>2, <1>3, SubSeqProperties
<1>5. /\ n - m + 1 = Len(s) - l /\ (~(m <= n) => Len(s) - l = 0)
      /\ \A k \in 1..Len(s) - l : m + k - 1 = l + k
  BY <1>1 DEF m, n
<1> QED
  BY <1>4, <1>5 DEF m, n

(* Concatenation associates                                              *)
LEMMA Grouped == \A s, t, u \in Seq(Nat) : (s \o t) \o u = s \o (t \o u)
BY ConcatAssociative

(* An append adds one element and keeps the others                       *)
LEMMA Appended ==
  /\ \A s \in Seq(Nat), x \in Nat : Append(s, x) \in Seq(Nat) /\ Len(Append(s, x)) = Len(s) + 1
  /\ \A s \in Seq(Nat), x \in Nat : \A i \in 1..Len(s) : Append(s, x)[i] = s[i]
  /\ \A s \in Seq(Nat), x \in Nat : Append(s, x)[Len(s) + 1] = x
<1>1. \A s \in Seq(Nat), x \in Nat : Append(s, x) \in Seq(Nat) /\ Len(Append(s, x)) = Len(s) + 1
  BY AppendProperties
<1>2. \A s \in Seq(Nat), x \in Nat : \A i \in 1..Len(s) : Append(s, x)[i] = s[i]
  BY AppendProperties
<1>3. \A s \in Seq(Nat), x \in Nat : Append(s, x)[Len(s) + 1] = x
  BY AppendProperties
<1> QED
  BY <1>1, <1>2, <1>3

(* What is left of a sequence does not depend on what follows it *)
LEMMA LaterOf ==
  ASSUME NEW s \in Seq(Nat), NEW t \in Seq(Nat), NEW l \in Nat, l <= Len(s)
  PROVE  SubSeq(s \o t, l + 1, Len(s \o t)) = SubSeq(s, l + 1, Len(s)) \o t
<1> DEFINE all == s \o t  rest == SubSeq(all, l + 1, Len(all))  later == SubSeq(s, l + 1, Len(s))  u == later \o t
<1>1. /\ all \in Seq(Nat) /\ Len(all) = Len(s) + Len(t) /\ Len(s) \in Nat /\ Len(t) \in Nat
      /\ \A i \in 1..Len(s) + Len(t) : all[i] = IF i <= Len(s) THEN s[i] ELSE t[i - Len(s)]
  BY ConcatProperties
<1> HIDE DEF all
<1>2. l \in 0..Len(s) /\ l \in 0..Len(all)
  BY <1>1
<1>3. /\ rest \in Seq(Nat) /\ Len(rest) = Len(all) - l
      /\ \A k \in 1..Len(all) - l : rest[k] = all[l + k]
  BY <1>1, <1>2, RestOf
<1>4. /\ later \in Seq(Nat) /\ Len(later) = Len(s) - l
      /\ \A k \in 1..Len(s) - l : later[k] = s[l + k]
  BY <1>2, RestOf
<1> HIDE DEF rest, later
<1>5. /\ u \in Seq(Nat) /\ Len(u) = Len(later) + Len(t)
      /\ \A i \in 1..Len(later) + Len(t) : u[i] = IF i <= Len(later) THEN later[i] ELSE t[i - Len(later)]
  BY <1>4, ConcatProperties
<1> HIDE DEF u
<1>6. Len(rest) = Len(u)
  BY <1>1, <1>3, <1>4, <1>5
<1>7. ASSUME NEW k \in 1..Len(rest) PROVE rest[k] = u[k]
  <2>1. /\ k \in 1..Len(all) - l /\ k \in 1..Len(later) + Len(t) /\ l + k \in 1..Len(s) + Len(t)
        /\ k \in Nat
    BY <1>1, <1>3, <1>4, <1>5, <1>6
  <2>2. CASE k <= Len(later)
    <3>1. l + k <= Len(s) /\ k \in 1..Len(s) - l
      BY <1>1, <1>4, <2>1, <2>2
    <3>2. u[k] = s[l + k]
      BY <1>4, <1>5, <2>1, <2>2, <3>1
    <3>3. rest[k] = s[l + k]
      BY <1>1, <1>3, <2>1, <3>1
    <3> QED
      BY <3>2, <3>3
  <2>3. CASE ~(k <= Len(later))
    <3>1. ~(l + k <= Len(s)) /\ l + k - Len(s) = k - Len(later)
      BY <1>1, <1>4, <2>1, <2>3
    <3>2. u[k] = t[k - Len(later)]
      BY <1>5, <2>1, <2>3
    <3>3. rest[k] = t[l + k - Len(s)]
      <4> DEFINE p == l + k
      <4>1. p \in 1..Len(s) + Len(t) /\ ~(p <= Len(s)) /\ rest[k] = all[p]
        BY <1>3, <2>1, <3>1
      <4> HIDE DEF p
      <4>2. all[p] = t[p - Len(s)]
        BY <1>1, <4>1
      <4> QED
        BY <4>1, <4>2 DEF p
    <3> QED
      BY <3>1, <3>2, <3>3
  <2> QED
    BY <2>2, <2>3
<1>8. rest = u
  BY <1>3, <1>5, <1>6, <1>7, SeqEqual
<1> QED
  BY <1>8 DEF all, rest, later, u

(* The items of a stream end where `cut` says *)
Cuts(items, cut) ==
  /\ cut \in [0..Len(items) -> Nat]
  /\ \A i \in 0..Len(items) - 1 : cut[i + 1] = cut[i] + Len(Conn!Bytes[items[i + 1]])
  /\ \A i, k \in 0..Len(items) : i <= k => cut[i] <= cut[k]

(* The bytes from `start` on are those of the items after the first n *)
Follow(bytes, items, n, cut) ==
  \A i \in n..Len(items) - 1 : \A j \in 1..Len(Conn!Bytes[items[i + 1]]) :
    bytes[cut[i] - cut[n] + j] = Conn!Bytes[items[i + 1]][j]

(* The bytes are those of the items after the first n *)
Spell(bytes, items, n) ==
  /\ bytes \in Seq(Nat) /\ items \in Seq(Known) /\ n \in 0..Len(items)
  /\ \E cut : /\ Cuts(items, cut) /\ Len(bytes) = cut[Len(items)] - cut[n]
              /\ Follow(bytes, items, n, cut)

(* No bytes spell no items                                               *)
LEMMA SpellsNone == Spell(<<>>, <<>>, 0)
<1> DEFINE cut == [i \in 0..0 |-> 0]
<1>1. Cuts(<<>>, cut) /\ Len(<<>>) = cut[Len(<<>>)] - cut[0] /\ Follow(<<>>, <<>>, 0, cut)
  BY DEF Cuts, Follow
<1> QED
  BY <1>1 DEF Spell

(* When all items have been taken no byte is left                        *)
LEMMA SpellsNothing ==
  ASSUME NEW bytes, NEW items, Spell(bytes, items, Len(items))
  PROVE  bytes = <<>>
<1>1. Len(bytes) = 0 /\ bytes \in Seq(Nat)
  BY DEF Spell, Cuts
<1> QED
  BY <1>1, EmptySeq, SeqEqual

(* Where an item begins, and that it ends where the next one begins      *)
LEMMA CutsAre ==
  ASSUME ConnectionAssumption, NEW items \in Seq(Known), NEW cut, Cuts(items, cut), NEW i \in 0..Len(items) - 1
  PROVE  /\ items[i + 1] \in Known
         /\ Conn!Bytes[items[i + 1]] \in Seq(Nat) /\ Len(Conn!Bytes[items[i + 1]]) \in Nat \ {0}
         /\ cut[i] \in Nat /\ cut[i + 1] \in Nat /\ cut[Len(items)] \in Nat
         /\ cut[i + 1] = cut[i] + Len(Conn!Bytes[items[i + 1]]) /\ cut[i + 1] <= cut[Len(items)]
<1>1. Len(items) \in Nat /\ i + 1 \in 1..Len(items)
  OBVIOUS
<1>2. items[i + 1] \in Known
  BY <1>1, ElementOfSeq
<1>3. /\ i \in 0..Len(items) /\ i + 1 \in 0..Len(items) /\ Len(items) \in 0..Len(items) /\ i + 1 <= Len(items)
  BY <1>1
<1>4. /\ cut \in [0..Len(items) -> Nat] /\ cut[i + 1] = cut[i] + Len(Conn!Bytes[items[i + 1]])
      /\ cut[i + 1] <= cut[Len(items)]
  BY <1>3, Zenon DEF Cuts
<1>5. cut[i] \in Nat /\ cut[i + 1] \in Nat /\ cut[Len(items)] \in Nat
  BY <1>3, <1>4
<1> QED
  BY <1>2, <1>4, <1>5, SomeBytes

(* What comes next is the first of the items left *)
LEMMA SpellsItem ==
  ASSUME ConnectionAssumption, NEW bytes, NEW items, NEW n, Spell(bytes, items, n), n # Len(items)
  PROVE  LET h == Conn!Bytes[items[n + 1]]
         IN /\ items[n + 1] \in Known /\ Len(h) <= Len(bytes)
            /\ \A j \in 1..Len(h) : bytes[j] = h[j]
            /\ Spell(SubSeq(bytes, Len(h) + 1, Len(bytes)), items, n + 1)
<1> DEFINE h == Conn!Bytes[items[n + 1]]  rest == SubSeq(bytes, Len(h) + 1, Len(bytes))
<1>1. /\ bytes \in Seq(Nat) /\ items \in Seq(Known) /\ Len(items) \in Nat /\ n \in Nat
      /\ n \in 0..Len(items) - 1 /\ n \in n..Len(items) - 1 /\ n + 1 \in 0..Len(items) /\ Len(bytes) \in Nat
  BY DEF Spell
<1>2. PICK cut : /\ Cuts(items, cut) /\ Len(bytes) = cut[Len(items)] - cut[n]
                 /\ Follow(bytes, items, n, cut)
  BY DEF Spell
<1>3. /\ items[n + 1] \in Known /\ h \in Seq(Nat) /\ Len(h) \in Nat \ {0}
      /\ cut[n] \in Nat /\ cut[n + 1] \in Nat /\ cut[Len(items)] \in Nat
      /\ cut[n + 1] = cut[n] + Len(h) /\ cut[n + 1] <= cut[Len(items)]
  BY <1>1, <1>2, CutsAre
<1>4. \A j \in 1..Len(h) : bytes[cut[n] - cut[n] + j] = h[j]
  BY <1>1, <1>2, Zenon DEF Follow
<1> HIDE DEF h
<1>5. Len(h) <= Len(bytes) /\ Len(h) \in 0..Len(bytes)
  BY <1>1, <1>2, <1>3
<1>6. \A j \in 1..Len(h) : bytes[j] = h[j]
  <2>1. \A j \in 1..Len(h) : cut[n] - cut[n] + j = j
    BY <1>3
  <2> QED
    BY <1>4, <2>1
<1>7. /\ rest \in Seq(Nat) /\ Len(rest) = Len(bytes) - Len(h)
      /\ \A k \in 1..Len(bytes) - Len(h) : rest[k] = bytes[Len(h) + k]
  BY <1>1, <1>5, RestOf
<1> HIDE DEF rest
<1>8. Follow(rest, items, n + 1, cut)
  <2> SUFFICES ASSUME NEW i \in n + 1..Len(items) - 1, NEW j \in 1..Len(Conn!Bytes[items[i + 1]])
               PROVE  rest[cut[i] - cut[n + 1] + j] = Conn!Bytes[items[i + 1]][j]
    BY DEF Follow
  <2> DEFINE l == Len(Conn!Bytes[items[i + 1]])
  <2>1. /\ i \in 0..Len(items) - 1 /\ i \in n..Len(items) - 1 /\ i \in 0..Len(items) /\ n + 1 <= i
    BY <1>1
  <2>2. /\ cut[i] \in Nat /\ cut[i + 1] \in Nat /\ l \in Nat
        /\ cut[i + 1] = cut[i] + l /\ cut[i + 1] <= cut[Len(items)]
    BY <1>1, <1>2, <2>1, CutsAre
  <2>3. cut[n + 1] <= cut[i]
    BY <1>1, <1>2, <2>1, Zenon DEF Cuts
  <2>4. bytes[cut[i] - cut[n] + j] = Conn!Bytes[items[i + 1]][j]
    BY <1>2, <2>1, Zenon DEF Follow
  <2>5. j \in Nat /\ 1 <= j /\ j <= l
    BY <2>2
  <2> HIDE DEF l
  <2>6. /\ cut[i] - cut[n + 1] + j \in 1..Len(bytes) - Len(h)
        /\ Len(h) + (cut[i] - cut[n + 1] + j) = cut[i] - cut[n] + j
    <3> DEFINE c == cut[n]  d == cut[n + 1]  e == cut[i]  f == cut[i + 1]  g == cut[Len(items)]
               b == Len(bytes)  q == Len(h)
    <3>1. /\ c \in Nat /\ d \in Nat /\ e \in Nat /\ f \in Nat /\ g \in Nat /\ b \in Nat /\ q \in Nat
          /\ l \in Nat /\ j \in Nat /\ 1 <= j /\ j <= l
          /\ d = c + q /\ d <= e /\ f = e + l /\ f <= g /\ b = g - c
      BY <1>1, <1>2, <1>3, <2>2, <2>3, <2>5
    <3> HIDE DEF c, d, e, f, g, b, q
    <3>2. e - d + j \in 1..b - q /\ q + (e - d + j) = e - c + j
      BY <3>1
    <3> QED
      BY <3>2 DEF c, d, e, f, g, b, q
  <2> QED
    BY <1>7, <2>4, <2>6
<1>9. Len(rest) = cut[Len(items)] - cut[n + 1]
  <2> DEFINE c == cut[n]  d == cut[n + 1]  g == cut[Len(items)]  b == Len(bytes)  q == Len(h)
  <2>1. c \in Nat /\ d \in Nat /\ g \in Nat /\ b \in Nat /\ q \in Nat /\ d = c + q /\ b = g - c
    BY <1>1, <1>2, <1>3
  <2>2. Len(rest) = b - q
    BY <1>7
  <2> HIDE DEF c, d, g, b, q, rest
  <2>3. Len(rest) = g - d
    BY <2>1, <2>2
  <2> QED
    BY <2>3 DEF d, g
<1>10. Spell(rest, items, n + 1)
  BY <1>1, <1>2, <1>7, <1>8, <1>9, Zenon DEF Spell
<1> QED
  BY <1>3, <1>5, <1>6, <1>10 DEF rest, h

(* A peer appends an item *)
LEMMA SpellsMore ==
  ASSUME ConnectionAssumption, NEW bytes, NEW items, NEW n, Spell(bytes, items, n), NEW x \in Known
  PROVE  Spell(bytes \o Conn!Bytes[x], Append(items, x), n)
<1> DEFINE h == Conn!Bytes[x]  more == Append(items, x)  len == Len(items)
<1>1. /\ bytes \in Seq(Nat) /\ items \in Seq(Known) /\ len \in Nat /\ n \in Nat /\ n <= len
      /\ Len(bytes) \in Nat
  BY DEF Spell
<1>2. PICK cut : /\ Cuts(items, cut) /\ Len(bytes) = cut[len] - cut[n]
                 /\ Follow(bytes, items, n, cut)
  BY DEF Spell
<1>3. h \in Seq(Nat) /\ Len(h) \in Nat
  BY SomeBytes
<1>4. /\ more \in Seq(Known) /\ Len(more) = len + 1 /\ \A i \in 1..len : more[i] = items[i]
      /\ more[len + 1] = x
  BY <1>1, AppendProperties
<1>5. /\ bytes \o h \in Seq(Nat) /\ Len(bytes \o h) = Len(bytes) + Len(h)
      /\ \A i \in 1..Len(bytes) + Len(h) :
           (bytes \o h)[i] = IF i <= Len(bytes) THEN bytes[i] ELSE h[i - Len(bytes)]
  BY <1>1, <1>3, ConcatProperties
<1> HIDE DEF more
<1> DEFINE all == bytes \o h
           longer == [i \in 0..len + 1 |-> IF i <= len THEN cut[i] ELSE cut[len] + Len(h)]
<1>6. cut \in [0..len -> Nat] /\ \A i, k \in 0..len : i <= k => cut[i] <= cut[k]
  BY <1>2 DEF Cuts
<1> HIDE DEF len
<1>7. /\ longer \in [0..len + 1 -> Nat]
      /\ \A i \in 0..len : longer[i] = cut[i]
      /\ longer[len + 1] = cut[len] + Len(h)
  <2>1. len \in 0..len /\ cut[len] \in Nat /\ cut[len] + Len(h) \in Nat
    BY <1>1, <1>3, <1>6
  <2>2. \A i \in 0..len + 1 : i <= len => i \in 0..len /\ cut[i] \in Nat
    BY <1>1, <1>6
  <2>3. len + 1 \in 0..len + 1 /\ ~(len + 1 <= len)
    BY <1>1
  <2> HIDE DEF h
  <2> QED
    BY <1>1, <2>1, <2>2, <2>3
<1> HIDE DEF longer, all, h
<1>8. Cuts(more, longer)
  <2>1. ASSUME NEW i \in 0..Len(more) - 1
        PROVE  longer[i + 1] = longer[i] + Len(Conn!Bytes[more[i + 1]])
    <3>1. CASE i = len
      <4>1. len \in 0..len
        BY <1>1
      <4> QED
        BY <1>4, <1>7, <3>1, <4>1 DEF h
    <3>2. CASE i # len
      <4>1. i \in 0..len - 1 /\ i \in 0..len /\ i + 1 \in 0..len /\ i + 1 \in 1..len
        BY <1>1, <1>4, <3>2
      <4>2. cut[i + 1] = cut[i] + Len(Conn!Bytes[items[i + 1]])
        BY <1>2, <4>1, Zenon DEF Cuts, len
      <4> QED
        BY <1>4, <1>7, <4>1, <4>2
    <3> QED
      BY <3>1, <3>2
  <2>2. ASSUME NEW i \in 0..Len(more), NEW k \in 0..Len(more), i <= k
        PROVE  longer[i] <= longer[k]
    <3>1. CASE k = len + 1 /\ i = len + 1
      <4>1. longer[i] \in Nat
        BY <1>1, <1>4, <1>7
      <4> QED
        BY <3>1, <4>1
    <3>2. CASE k = len + 1 /\ i # len + 1
      <4>1. i \in 0..len /\ len \in 0..len /\ i <= len
        BY <1>1, <1>4, <3>2
      <4>2. cut[i] <= cut[len] /\ cut[i] \in Nat /\ cut[len] \in Nat
        BY <1>6, <4>1
      <4> QED
        BY <1>3, <1>7, <3>2, <4>1, <4>2
    <3>3. CASE k # len + 1
      <4>1. i \in 0..len /\ k \in 0..len
        BY <1>1, <1>4, <2>2, <3>3
      <4> QED
        BY <1>6, <1>7, <2>2, <4>1
    <3> QED
      BY <3>1, <3>2, <3>3
  <2>3. longer \in [0..Len(more) -> Nat]
    BY <1>4, <1>7
  <2> QED
    BY <2>1, <2>2, <2>3, Zenon DEF Cuts
<1>9. n \in 0..len /\ len \in 0..len
  BY <1>1
<1>10. Len(all) = longer[Len(more)] - longer[n]
  <2>1. cut[len] \in Nat /\ cut[n] \in Nat
    BY <1>6, <1>9
  <2> QED
    BY <1>2, <1>3, <1>4, <1>5, <1>7, <1>9, <2>1 DEF all
<1>11. Follow(all, more, n, longer)
  <2> SUFFICES ASSUME NEW i \in n..Len(more) - 1, NEW j \in 1..Len(Conn!Bytes[more[i + 1]])
               PROVE  all[longer[i] - longer[n] + j] = Conn!Bytes[more[i + 1]][j]
    BY DEF Follow
  <2>1. cut[len] \in Nat /\ cut[n] \in Nat /\ cut[n] <= cut[len]
    BY <1>1, <1>6, <1>9
  <2>2. CASE i = len
    <3>1. j \in 1..Len(h) /\ Conn!Bytes[more[i + 1]] = h
      BY <1>4, <2>2 DEF h
    <3>2. longer[i] - longer[n] + j = Len(bytes) + j
      BY <1>2, <1>7, <1>9, <2>1, <2>2
    <3>3. Len(bytes) + j \in 1..Len(bytes) + Len(h) /\ ~(Len(bytes) + j <= Len(bytes))
          /\ Len(bytes) + j - Len(bytes) = j
      BY <1>1, <1>3, <3>1
    <3>4. all[Len(bytes) + j] = h[j]
      BY <1>5, <3>3 DEF all
    <3> QED
      BY <3>1, <3>2, <3>4
  <2>3. CASE i # len
    <3>1. i \in 0..len - 1 /\ i \in n..len - 1 /\ i \in 0..len /\ i + 1 \in 1..len
      BY <1>1, <1>4, <2>3
    <3>2. more[i + 1] = items[i + 1] /\ longer[i] = cut[i] /\ longer[n] = cut[n]
      BY <1>4, <1>7, <1>9, <3>1
    <3>3. bytes[cut[i] - cut[n] + j] = Conn!Bytes[items[i + 1]][j]
      BY <1>2, <3>1, <3>2, Zenon DEF Follow, len
    <3> DEFINE l == Len(Conn!Bytes[items[i + 1]])
    <3>4. /\ cut[i] \in Nat /\ cut[i + 1] \in Nat /\ l \in Nat
          /\ cut[i + 1] = cut[i] + l /\ cut[i + 1] <= cut[len]
      BY <1>1, <1>2, <3>1, CutsAre DEF len
    <3>5. j \in Nat /\ 1 <= j /\ j <= l
      BY <3>2, <3>4
    <3>6. cut[n] <= cut[i]
      BY <1>6, <1>9, <3>1
    <3> HIDE DEF l
    <3> DEFINE b == cut[i] - cut[n] + j
    <3>7. b \in 1..Len(bytes) + Len(h) /\ b <= Len(bytes)
      <4> DEFINE c == cut[n]  d == cut[i]  e == cut[i + 1]  f == cut[len]  g == Len(bytes)  q == Len(h)
      <4>1. /\ c \in Nat /\ d \in Nat /\ e \in Nat /\ f \in Nat /\ g \in Nat /\ q \in Nat
            /\ l \in Nat /\ j \in Nat /\ 1 <= j /\ j <= l
            /\ c <= d /\ e = d + l /\ e <= f /\ g = f - c
        BY <1>1, <1>2, <1>3, <2>1, <3>4, <3>5, <3>6
      <4> HIDE DEF c, d, e, f, g, q
      <4>2. d - c + j \in 1..g + q /\ d - c + j <= g
        BY <4>1
      <4> QED
        BY <4>2 DEF c, d, e, f, g, q
    <3> HIDE DEF b
    <3>8. all[b] = bytes[b]
      BY <1>5, <3>7 DEF all
    <3> QED
      BY <3>2, <3>3, <3>8 DEF b
  <2> QED
    BY <2>2, <2>3
<1>12. n \in 0..Len(more)
  BY <1>1, <1>4
<1>13. Spell(all, more, n)
  <2>1. all \in Seq(Nat) /\ more \in Seq(Known)
    BY <1>4, <1>5 DEF all
  <2> QED
    BY <2>1, <1>8, <1>10, <1>11, <1>12, Zenon DEF Spell
<1> QED
  BY <1>13 DEF all, h, more
-----------------------------------------------------------------------------
(* What a decoder holds and what is on the wire is one stream *)
Decoder(d) == d \in [buf : Seq(Nat), pos : Nat, poisoned : BOOLEAN] /\ d.pos <= Len(d.buf)
Unread(d, bytes) == SubSeq(d.buf, d.pos + 1, Len(d.buf)) \o bytes

(* What has not been decoded: what is left in the buffer, then the wire  *)
LEMMA UnreadIs ==
  ASSUME NEW d, Decoder(d), NEW bytes \in Seq(Nat)
  PROVE  /\ Unread(d, bytes) \in Seq(Nat)
         /\ Len(Unread(d, bytes)) = Len(d.buf) - d.pos + Len(bytes)
         /\ \A k \in 1..Len(d.buf) - d.pos : Unread(d, bytes)[k] = d.buf[d.pos + k]
<1> DEFINE kept == SubSeq(d.buf, d.pos + 1, Len(d.buf))
<1>1. d.buf \in Seq(Nat) /\ d.pos \in 0..Len(d.buf) /\ Len(d.buf) \in Nat
  BY DEF Decoder
<1>2. /\ kept \in Seq(Nat) /\ Len(kept) = Len(d.buf) - d.pos
      /\ \A k \in 1..Len(d.buf) - d.pos : kept[k] = d.buf[d.pos + k]
  BY <1>1, RestOf
<1> HIDE DEF kept
<1>3. /\ kept \o bytes \in Seq(Nat) /\ Len(kept \o bytes) = Len(kept) + Len(bytes)
      /\ \A i \in 1..Len(kept) + Len(bytes) :
           (kept \o bytes)[i] = IF i <= Len(kept) THEN kept[i] ELSE bytes[i - Len(kept)]
  BY <1>2, ConcatProperties
<1>4. Unread(d, bytes) = kept \o bytes
  BY DEF Unread, kept
<1>5. ASSUME NEW k \in 1..Len(d.buf) - d.pos PROVE (kept \o bytes)[k] = d.buf[d.pos + k]
  <2>1. k \in 1..Len(kept) + Len(bytes) /\ k <= Len(kept)
    BY <1>1, <1>2
  <2> QED
    BY <1>2, <1>3, <2>1
<1> QED
  BY <1>2, <1>3, <1>4, <1>5

(* A read moves bytes from the wire into the decoder, and compacts it *)
LEMMA PushKeeps ==
  ASSUME NEW d, Decoder(d), NEW bytes \in Seq(Nat), NEW m \in 1..Len(bytes)
  PROVE  LET e == Conn!Push(d, SubSeq(bytes, 1, m))
             left == SubSeq(bytes, m + 1, Len(bytes))
         IN /\ Decoder(e) /\ e.poisoned = d.poisoned /\ (d.pos = 0 => e.pos = 0)
            /\ left \in Seq(Nat) /\ Unread(e, left) = Unread(d, bytes)
<1> DEFINE some == SubSeq(bytes, 1, m)  left == SubSeq(bytes, m + 1, Len(bytes))
           kept == SubSeq(d.buf, d.pos + 1, Len(d.buf))  e == Conn!Push(d, some)
<1>1. /\ d.buf \in Seq(Nat) /\ d.pos \in 0..Len(d.buf) /\ Len(d.buf) \in Nat /\ d.pos \in Nat
      /\ Len(bytes) \in Nat /\ m \in Nat /\ m \in 0..Len(bytes) /\ d.poisoned \in BOOLEAN
      /\ d = [buf |-> d.buf, pos |-> d.pos, poisoned |-> d.poisoned]
  BY DEF Decoder
<1>2. kept \in Seq(Nat) /\ Len(kept) = Len(d.buf) - d.pos
  BY <1>1, RestOf
<1>3. left \in Seq(Nat)
  BY <1>1, RestOf
<1>4. some \in Seq(Nat)
  <2>1. \A k \in 1..m : bytes[k] \in Nat
    BY <1>1, ElementOfSeq
  <2> QED
    BY <1>1, <2>1, SubSeqProperties
<1>5. some \o left = bytes
  <2>1. SubSeq(bytes, 1, m) \o SubSeq(bytes, m + 1, Len(bytes)) = SubSeq(bytes, 1, Len(bytes))
    <3>1. 1 \in 1..Len(bytes) + 1 /\ m \in 1 - 1..Len(bytes) /\ Len(bytes) \in m..Len(bytes)
      BY <1>1
    <3> QED
      BY <3>1, ConcatAdjacentSubSeq
  <2> QED
    BY <2>1, SubSeqFull
<1> HIDE DEF some, left, kept, e
<1>6. kept \o bytes = (kept \o some) \o left
  <2>1. (kept \o some) \o left = kept \o (some \o left)
    BY <1>2, <1>3, <1>4, Grouped
  <2> QED
    BY <1>5, <2>1, Zenon
<1>7. kept \o some \in Seq(Nat) /\ d.buf \o some \in Seq(Nat)
  BY <1>1, <1>2, <1>4, ConcatProperties
<1>8. CASE d.pos > Compact
  <2>1. e = [buf |-> kept \o some, pos |-> 0, poisoned |-> d.poisoned]
    BY <1>1, <1>8 DEF Conn!Push, kept, e
  <2>2. SubSeq(e.buf, e.pos + 1, Len(e.buf)) = kept \o some
    <3>1. e.buf = kept \o some /\ e.pos + 1 = 1
      BY <2>1
    <3> QED
      BY <1>7, <3>1, SubSeqFull
  <2>3. Decoder(e)
    BY <1>1, <1>7, <2>1 DEF Decoder
  <2>4. Unread(e, left) = Unread(d, bytes)
    BY <1>6, <2>2, Zenon DEF Unread, kept
  <2> QED
    BY <1>3, <2>1, <2>3, <2>4 DEF some, left, e
<1>9. CASE ~(d.pos > Compact)
  <2>1. e = [buf |-> d.buf \o some, pos |-> d.pos, poisoned |-> d.poisoned]
    BY <1>1, <1>9 DEF Conn!Push, e
  <2>3. /\ Len(d.buf \o some) = Len(d.buf) + Len(some) /\ Len(some) \in Nat
        /\ \A i \in 1..Len(d.buf) + Len(some) :
             (d.buf \o some)[i] = IF i <= Len(d.buf) THEN d.buf[i] ELSE some[i - Len(d.buf)]
    BY <1>1, <1>4, ConcatProperties
  <2>4. d.pos \in 0..Len(d.buf \o some) /\ d.pos <= Len(d.buf \o some)
    BY <1>1, <2>3
  <2> DEFINE both == d.buf \o some  rest == SubSeq(both, d.pos + 1, Len(both))
  <2>8. rest = kept \o some
    <3>1. d.buf \in Seq(Nat) /\ some \in Seq(Nat) /\ d.pos \in Nat /\ d.pos <= Len(d.buf)
      BY <1>1, <1>4
    <3> QED
      BY <3>1, LaterOf, Zenon DEF kept
  <2> HIDE DEF rest
  <2>9. Decoder(e)
    BY <1>1, <1>7, <2>1, <2>4 DEF Decoder
  <2>10. Unread(e, left) = Unread(d, bytes)
    <3>1. e.buf = both /\ e.pos = d.pos
      BY <2>1
    <3>2. Unread(e, left) = rest \o left
      BY <3>1, Zenon DEF Unread, rest
    <3> QED
      BY <1>6, <2>8, <3>2, Zenon DEF Unread, kept
  <2> QED
    BY <1>3, <2>1, <2>9, <2>10 DEF some, left, e
<1> QED
  BY <1>8, <1>9
-----------------------------------------------------------------------------
(* The two ways a decoder goes on after a frame                          *)
LEMMA DecoderMoved ==
  ASSUME NEW d, Decoder(d), ~d.poisoned
  PROVE  /\ [d EXCEPT !.buf = <<>>, !.pos = 0] = [buf |-> <<>>, pos |-> 0, poisoned |-> FALSE]
         /\ \A end : [d EXCEPT !.pos = end] = [buf |-> d.buf, pos |-> end, poisoned |-> FALSE]
<1>1. d = [buf |-> d.buf, pos |-> d.pos, poisoned |-> d.poisoned] /\ d.poisoned = FALSE
  BY DEF Decoder
<1>2. [d EXCEPT !.buf = <<>>, !.pos = 0] = [buf |-> <<>>, pos |-> 0, poisoned |-> d.poisoned]
  <2> DEFINE e == [d EXCEPT !.buf = <<>>]
  <2>1. e = [buf |-> <<>>, pos |-> d.pos, poisoned |-> d.poisoned]
    BY <1>1
  <2>2. [d EXCEPT !.buf = <<>>, !.pos = 0] = [e EXCEPT !.pos = 0]
    BY Zenon
  <2> HIDE DEF e
  <2> QED
    BY <2>1, <2>2
<1>3. \A end : [d EXCEPT !.pos = end] = [buf |-> d.buf, pos |-> end, poisoned |-> d.poisoned]
  BY <1>1
<1> QED
  BY <1>1, <1>2, <1>3, Zenon

(* The same part of two sequences, at their own places *)
SameCut(s, p, t, q, l) == SubSeq(s, p + 1, p + l) = SubSeq(t, q + 1, q + l)

(* Parts that agree element by element are equal                         *)
LEMMA SamePart ==
  ASSUME NEW s \in Seq(Nat), NEW t \in Seq(Nat), NEW p \in Nat, NEW q \in Nat, NEW l \in Nat,
         p + l <= Len(s), q + l <= Len(t), \A j \in 1..l : s[p + j] = t[q + j]
  PROVE  SameCut(s, p, t, q, l)
<1>1. ASSUME NEW r \in Seq(Nat), NEW k \in Nat, k + l <= Len(r)
      PROVE  /\ SubSeq(r, k + 1, k + l) \in Seq(Nat) /\ Len(SubSeq(r, k + 1, k + l)) = l
             /\ \A j \in 1..l : SubSeq(r, k + 1, k + l)[j] = r[k + j]
  <2> DEFINE m == k + 1  n == k + l  some == SubSeq(r, m, n)
  <2>1. m \in Int /\ n \in Int /\ \A j \in m..n : r[j] \in Nat
    <3>1. \A j \in m..n : j \in 1..Len(r)
      BY <1>1
    <3> QED
      BY <1>1, <3>1, ElementOfSeq
  <2> HIDE DEF m, n
  <2>2. /\ some \in Seq(Nat) /\ Len(some) = IF m <= n THEN n - m + 1 ELSE 0
        /\ \A j \in 1..n - m + 1 : some[j] = r[m + j - 1]
    BY <2>1, SubSeqProperties
  <2> HIDE DEF some
  <2>3. /\ n - m + 1 = l /\ (IF m <= n THEN n - m + 1 ELSE 0) = l
        /\ \A j \in 1..l : m + j - 1 = k + j
    BY <1>1 DEF m, n
  <2>4. /\ some \in Seq(Nat) /\ Len(some) = l /\ \A j \in 1..l : some[j] = r[k + j]
    BY <2>2, <2>3
  <2> QED
    BY <2>4 DEF some, m, n
<1> DEFINE u == SubSeq(s, p + 1, p + l)  v == SubSeq(t, q + 1, q + l)
<1>2. u \in Seq(Nat) /\ Len(u) = l /\ \A j \in 1..l : u[j] = s[p + j]
  BY <1>1
<1>3. v \in Seq(Nat) /\ Len(v) = l /\ \A j \in 1..l : v[j] = t[q + j]
  BY <1>1
<1> HIDE DEF u, v
<1>4. u = v
  BY <1>2, <1>3, SeqEqual
<1> QED
  BY <1>4 DEF u, v, SameCut

(* A frame in the buffer: what it carries, and what is after it *)
Tailed(buf, pos, l, b) ==
  /\ SubSeq(buf, pos + 3, pos + l) = SubSeq(b, 3, l)
  /\ \A kept : kept = SubSeq(buf, pos + 1, Len(buf))
                => SubSeq(buf, pos + l + 1, Len(buf)) = SubSeq(kept, l + 1, Len(kept))

(* A frame at the head of the buffer is cut out of it whole              *)
LEMMA FrameCut ==
  ASSUME NEW buf \in Seq(Nat), NEW b \in Seq(Nat), NEW pos \in Nat, NEW l \in 2..4, Len(b) = l,
         NEW size \in Nat, Len(buf) = pos + size, l <= size, \A j \in 1..l : buf[pos + j] = b[j]
  PROVE  Tailed(buf, pos, l, b)
<1>1. SubSeq(buf, pos + 3, pos + l) = SubSeq(b, 3, l)
  <2> DEFINE k == l - 2  p == pos + 2
  <2>1. /\ k \in Nat /\ p \in Nat /\ p + k <= Len(buf) /\ 2 + k <= Len(b)
        /\ p + 1 = pos + 3 /\ p + k = pos + l /\ 2 + 1 = 3 /\ 2 + k = l
    OBVIOUS
  <2>2. \A j \in 1..k : p + j = pos + (2 + j) /\ 2 + j \in 1..l
    OBVIOUS
  <2> HIDE DEF k, p
  <2>3. \A j \in 1..k : buf[p + j] = b[2 + j]
    BY <2>2
  <2>4. SameCut(buf, p, b, 2, k)
    BY <2>1, <2>3, SamePart
  <2> QED
    BY <2>1, <2>4, Zenon DEF SameCut
<1>2. ASSUME NEW kept, kept = SubSeq(buf, pos + 1, Len(buf))
      PROVE  SubSeq(buf, pos + l + 1, Len(buf)) = SubSeq(kept, l + 1, Len(kept))
  <2>1. pos \in 0..Len(buf) /\ Len(buf) - pos = size
    OBVIOUS
  <2>2. kept \in Seq(Nat) /\ Len(kept) = size /\ \A j \in 1..size : kept[j] = buf[pos + j]
    BY <1>2, <2>1, RestOf
  <2> DEFINE k == size - l  p == pos + l
  <2>3. /\ k \in Nat /\ p \in Nat /\ l \in Nat /\ p + k <= Len(buf) /\ l + k <= Len(kept)
        /\ p + k = Len(buf) /\ l + k = Len(kept)
    BY <2>2
  <2>4. \A j \in 1..k : p + j = pos + (l + j) /\ l + j \in 1..size
    BY <2>2
  <2> HIDE DEF k, p
  <2>5. \A j \in 1..k : buf[p + j] = kept[l + j]
    BY <2>2, <2>4
  <2>6. SameCut(buf, p, kept, l, k)
    <3>1. /\ kept \in Seq(Nat) /\ p \in Nat /\ l \in Nat /\ k \in Nat
          /\ p + k <= Len(buf) /\ l + k <= Len(kept)
      BY <2>2, <2>3, Zenon
    <3> QED
      BY <2>5, <3>1, SamePart
  <2>7. p + 1 = pos + l + 1
    BY DEF p
  <2> QED
    BY <2>3, <2>6, <2>7, Zenon DEF SameCut
<1> QED
  BY <1>1, <1>2, Zenon DEF Tailed

(* The next message of a data client, once it is there: a broken one is an  *)
(* error, any other is taken whole and leaves what follows                  *)
Bite(f, h) ==
  /\ f.is = "frame" /\ f.type = Conn!Bytes[h][2]
  /\ f.payload = SubSeq(Conn!Bytes[h], 3, Len(Conn!Bytes[h]))

(* Decoding takes the first item left, whole or as an error              *)
LEMMA FrameTaken ==
  ASSUME ConnectionAssumption, NEW d, Decoder(d), ~d.poisoned, NEW bytes \in Seq(Nat), NEW items, NEW n,
         Spell(Unread(d, bytes), items, n), Conn!Decode(d).is # "more",
         n # Len(items) => items[n + 1] \in FrameItem \cup Broken
  PROVE  LET f == Conn!Decode(d)
             h == items[n + 1]
         IN /\ n \in 0..Len(items) - 1
            /\ \/ h \in Broken /\ f.is = "error"
               \/ /\ h \in FrameItem /\ Bite(f, h) /\ Decoder(f.next) /\ ~f.next.poisoned
                  /\ Spell(Unread(f.next, bytes), items, n + 1)
<1> DEFINE f == Conn!Decode(d)  stream == Unread(d, bytes)
           size == Len(d.buf) - d.pos  len == d.buf[d.pos + 1]  end == d.pos + 1 + len
<1>1. /\ d.buf \in Seq(Nat) /\ d.pos \in Nat /\ Len(d.buf) \in Nat /\ size \in Nat
      /\ Len(bytes) \in Nat /\ size = Len(d.buf) - d.pos
  BY DEF Decoder
<1>10. d = [buf |-> d.buf, pos |-> d.pos, poisoned |-> FALSE]
  BY DEF Decoder
<1>2. /\ stream \in Seq(Nat) /\ Len(stream) = size + Len(bytes)
      /\ \A k \in 1..size : stream[k] = d.buf[d.pos + k]
  BY UnreadIs
<1> HIDE DEF size
<1>3. size >= 2
  BY <1>1, <1>10 DEF Conn!Decode
<1>4. n # Len(items)
  <2>1. SUFFICES ASSUME n = Len(items) PROVE FALSE
    OBVIOUS
  <2>2. stream = <<>>
    BY <2>1, SpellsNothing
  <2> QED
    BY <1>1, <1>2, <1>3, <2>2
<1>5. n \in 0..Len(items) - 1 /\ items[n + 1] \in FrameItem \cup Broken
  BY <1>4 DEF Spell
<1> DEFINE h == items[n + 1]  b == Conn!Bytes[h]
<1> HIDE DEF stream
<1>6. /\ Len(b) <= Len(stream) /\ \A j \in 1..Len(b) : stream[j] = b[j]
      /\ Spell(SubSeq(stream, Len(b) + 1, Len(stream)), items, n + 1)
  <2>1. Spell(stream, items, n)
    BY DEF stream
  <2> QED
    BY <1>4, <2>1, SpellsItem
<1> HIDE DEF h
<1>7. len = stream[1] /\ d.buf[d.pos + 2] = stream[2]
  <2>1. 1 \in 1..size /\ 2 \in 1..size
    BY <1>1, <1>3
  <2> QED
    BY <1>2, <2>1
<1>8. CASE h \in Broken
  <2>1. b \in Seq(Nat) /\ Len(b) = 2 /\ b[1] \notin 1..MaxFrame
    BY <1>8, BrokenBytes
  <2>2. len = b[1] /\ len \in Nat
    BY <1>6, <1>7, <2>1
  <2>3. len < 1 \/ len > MaxFrame
    BY <2>1, <2>2 DEF ConnectionAssumption
  <2>4. f.is = "error"
    BY <1>1, <1>3, <2>3, <1>10 DEF Conn!Decode
  <2> QED
    BY <1>5, <1>8, <2>4 DEF h
<1>9. CASE h \in FrameItem
  <2>1. /\ b \in Seq(Nat) /\ Len(b) \in 2..4 /\ b[1] = Len(b) - 1 /\ b[1] \in 1..MaxFrame
    BY <1>9, FramesOfBytes
  <2> HIDE DEF b
  <2>2. len = b[1] /\ d.buf[d.pos + 2] = b[2]
    BY <1>6, <1>7, <2>1
  <2>3. len \in 1..MaxFrame /\ len = Len(b) - 1 /\ len \in Nat /\ ~(len < 1 \/ len > MaxFrame)
    BY <2>1, <2>2 DEF ConnectionAssumption
  <2> HIDE DEF len
  <2>4. ~(size < 1 + len)
    BY <1>1, <1>3, <2>3, <1>10 DEF Conn!Decode, len
  <2>5. f = [is |-> "frame", type |-> d.buf[d.pos + 2], payload |-> SubSeq(d.buf, d.pos + 3, end),
             next |-> IF end = Len(d.buf) THEN [d EXCEPT !.buf = <<>>, !.pos = 0] ELSE [d EXCEPT !.pos = end]]
    BY <1>1, <1>3, <2>3, <2>4, <1>10 DEF Conn!Decode, len
  <2> HIDE DEF f
  <2>6. Len(d.buf) = d.pos + size /\ Len(b) <= size /\ \A j \in 1..Len(b) : d.buf[d.pos + j] = b[j]
    <3> DEFINE l == Len(b)  q == d.pos  total == Len(d.buf)
    <3>1. l \in 2..4 /\ q \in Nat /\ total \in Nat /\ len = l - 1 /\ ~(size < 1 + len) /\ size = total - q /\ size \in Nat
      BY <1>1, <2>1, <2>3, <2>4
    <3> HIDE DEF l, q, total
    <3>2. total = q + size /\ l <= size /\ \A j \in 1..l : j \in 1..size
      BY <3>1
    <3> QED
      BY <1>2, <1>6, <3>2 DEF l, q, total
  <2>7. end = d.pos + Len(b) /\ end \in Nat /\ end <= Len(d.buf)
    <3> DEFINE l == Len(b)  q == d.pos  total == Len(d.buf)
    <3>1. l \in 2..4 /\ q \in Nat /\ len = l - 1 /\ total = q + size /\ l <= size /\ size \in Nat
      BY <1>1, <2>1, <2>3, <2>6
    <3> HIDE DEF l, q, total
    <3>2. q + 1 + len = q + l /\ q + l \in Nat /\ q + l <= total
      BY <3>1
    <3> QED
      BY <3>2 DEF l, q, total
  <2> HIDE DEF end
  <2> DEFINE kept == SubSeq(d.buf, d.pos + 1, Len(d.buf))  rest == SubSeq(d.buf, end + 1, Len(d.buf))
  <2>8. SubSeq(d.buf, d.pos + 3, end) = SubSeq(b, 3, Len(b)) /\ rest = SubSeq(kept, Len(b) + 1, Len(kept))
    <3>1. d.buf \in Seq(Nat) /\ b \in Seq(Nat) /\ d.pos \in Nat /\ Len(b) \in 2..4 /\ size \in Nat
      BY <1>1, <2>1
    <3>2. Tailed(d.buf, d.pos, Len(b), b)
      BY <2>6, <3>1, FrameCut
    <3> QED
      BY <2>7, <3>2, Zenon DEF Tailed
  <2>9. /\ Decoder(f.next) /\ ~f.next.poisoned
        /\ SubSeq(f.next.buf, f.next.pos + 1, Len(f.next.buf)) = rest
    <3>1. CASE end = Len(d.buf)
      <4>1. f.next = [d EXCEPT !.buf = <<>>, !.pos = 0]
        BY <2>5, <3>1
      <4>2. f.next = [buf |-> <<>>, pos |-> 0, poisoned |-> FALSE]
        BY <4>1, DecoderMoved, Zenon
      <4>3. Decoder(f.next) /\ ~f.next.poisoned
        BY <4>2 DEF Decoder
      <4>4. rest = <<>>
        BY <2>7, <3>1, SubSeqEmpty
      <4>5. SubSeq(f.next.buf, f.next.pos + 1, Len(f.next.buf)) = <<>>
        BY <4>2, SubSeqEmpty
      <4> QED
        BY <4>3, <4>4, <4>5
    <3>2. CASE end # Len(d.buf)
      <4>1. f.next = [d EXCEPT !.pos = end]
        BY <2>5, <3>2
      <4>2. f.next = [buf |-> d.buf, pos |-> end, poisoned |-> FALSE]
        BY <4>1, DecoderMoved, Zenon
      <4>3. Decoder(f.next) /\ ~f.next.poisoned
        BY <1>1, <2>7, <4>2 DEF Decoder
      <4>4. f.next.buf = d.buf /\ f.next.pos = end
        BY <4>2
      <4> QED
        BY <4>3, <4>4, Zenon
    <3> QED
      BY <3>1, <3>2
  <2>12. SubSeq(stream, Len(b) + 1, Len(stream)) = Unread(f.next, bytes)
    <3>1. Unread(f.next, bytes) = rest \o bytes
      BY <2>9, Zenon DEF Unread
    <3>2. stream = kept \o bytes
      BY DEF stream, Unread
    <3>3. kept \in Seq(Nat) /\ Len(kept) = size
      <4>1. d.pos \in 0..Len(d.buf) /\ Len(d.buf) - d.pos = size
        BY <1>1
      <4> QED
        BY <1>1, <4>1, RestOf
    <3>4. Len(b) \in Nat /\ Len(b) <= Len(kept)
      BY <2>1, <2>6, <3>3
    <3> HIDE DEF kept, rest
    <3>5. SubSeq(kept \o bytes, Len(b) + 1, Len(kept \o bytes)) = SubSeq(kept, Len(b) + 1, Len(kept)) \o bytes
      BY <3>3, <3>4, LaterOf
    <3> QED
      BY <2>8, <3>1, <3>2, <3>5
  <2>10. Spell(Unread(f.next, bytes), items, n + 1)
    BY <1>6, <2>12 DEF b
  <2>11. Bite(f, h)
    <3>1. f.is = "frame" /\ f.type = d.buf[d.pos + 2] /\ f.payload = SubSeq(d.buf, d.pos + 3, end)
      BY <2>5
    <3> QED
      BY <2>2, <2>8, <3>1, Zenon DEF Bite, b, f
  <2> QED
    BY <1>5, <1>9, <2>9, <2>10, <2>11, Zenon DEF h, f
<1> QED
  BY <1>5, <1>8, <1>9 DEF h
-----------------------------------------------------------------------------
(* A set of numbers has a least one: the first newline                   *)
LEMMA LeastNumber == ASSUME NEW S, S \subseteq Nat, S # {} PROVE \E x \in S : \A y \in S : x \leq y
<1>1. PICK x \in S : \A y \in S : ~(<<y, x>> \in OpToRel(<, Nat))
  BY WFMin, NatLessThanWellFounded
<1>2. ASSUME NEW y \in S PROVE x \leq y
  <2>1. x \in Nat /\ y \in Nat
    OBVIOUS
  <2>2. ~(<<y, x>> \in {ss \in Nat \X Nat : ss[1] < ss[2]})
    BY <1>1, Zenon DEF OpToRel
  <2>3. ~(y < x)
    BY <2>1, <2>2
  <2> QED
    BY <2>1, <2>3
<1> QED
  BY <1>2

(* The first newline of a buffer, if there is one *)
LEMMA LineEndIs ==
  ASSUME NEW buf \in Seq(Nat)
  PROVE  \/ Conn!LineEnd(buf) = 0 /\ \A k \in 1..Len(buf) : buf[k] # 10
         \/ /\ Conn!LineEnd(buf) \in 1..Len(buf) /\ buf[Conn!LineEnd(buf)] = 10
            /\ \A k \in 1..Len(buf) : k < Conn!LineEnd(buf) => buf[k] # 10
<1> DEFINE N == {i \in 1..Len(buf) : buf[i] = 10}
<1>1. Conn!Newline = 10
  BY TypesAre
<1>2. CASE N = {}
  <2>1. Conn!LineEnd(buf) = 0
    BY <1>1, <1>2 DEF Conn!LineEnd, Conn!Contains
  <2> QED
    BY <1>2, <2>1
<1>3. CASE N # {}
  <2>1. PICK m \in N : \A i \in N : m <= i
    <3>1. N \subseteq Nat
      OBVIOUS
    <3> QED
      BY <1>3, <3>1, LeastNumber
  <2>2. Conn!LineEnd(buf) = Conn!SelectInSeq(buf, LAMBDA b : b = Conn!Newline)
    BY <1>1, <1>3 DEF Conn!LineEnd, Conn!Contains
  <2>3. Conn!LineEnd(buf) = Conn!Min(N)
    BY <1>1, <1>3, <2>2 DEF Conn!SelectInSeq
  <2>4. Conn!Min(N) \in N /\ \A i \in N : Conn!Min(N) <= i
    BY <2>1 DEF Conn!Min
  <2>5. Conn!LineEnd(buf) \in N /\ \A i \in N : Conn!LineEnd(buf) <= i
    BY <2>3, <2>4, Zenon
  <2> DEFINE e == Conn!LineEnd(buf)
  <2>6. e \in 1..Len(buf) /\ buf[e] = 10 /\ \A i \in N : e <= i
    BY <2>5
  <2> HIDE DEF e
  <2>7. ASSUME NEW k \in 1..Len(buf), k < e PROVE buf[k] # 10
    BY <2>6, <2>7
  <2> QED
    BY <2>6, <2>7 DEF e
<1> QED
  BY <1>2, <1>3

(* The next line of a control client: one that never ends is too long, and  *)
(* any other is taken to its newline                                        *)
LEMMA LineTaken ==
  ASSUME ConnectionAssumption, NEW buf \in Seq(Nat), NEW bytes \in Seq(Nat), NEW items, NEW n,
         Spell(buf \o bytes, items, n), Conn!LineEnd(buf) # 0 \/ Conn!TooLong(buf),
         n # Len(items) => items[n + 1] \in Conn!Spoken /\ (items[n + 1] = "unended" => n + 1 = Len(items))
  PROVE  LET h == items[n + 1]
             b == Conn!Bytes[h]
             end == Conn!LineEnd(buf)
         IN /\ n \in 0..Len(items) - 1
            /\ \/ h = "endless" /\ Conn!TooLong(buf)
               \/ /\ h \in Ended /\ ~Conn!TooLong(buf) /\ end # 0
                  /\ SubSeq(buf, 1, end - 1) = SubSeq(b, 1, Len(b) - 1)
                  /\ SubSeq(buf, end + 1, Len(buf)) \in Seq(Nat)
                  /\ Spell(SubSeq(buf, end + 1, Len(buf)) \o bytes, items, n + 1)
<1> DEFINE stream == buf \o bytes  end == Conn!LineEnd(buf)  h == items[n + 1]  b == Conn!Bytes[h]  len == Len(b)
           size == Len(buf)
<1>1. MaxLine \in Nat /\ MaxLine >= 2
  BY DEF ConnectionAssumption
<1>2. /\ stream \in Seq(Nat) /\ Len(stream) = size + Len(bytes) /\ size \in Nat /\ Len(bytes) \in Nat
      /\ \A k \in 1..size : stream[k] = buf[k]
  <2>1. \A k \in 1..size : k \in 1..Len(buf) + Len(bytes) /\ k <= Len(buf)
    OBVIOUS
  <2>2. /\ stream \in Seq(Nat) /\ Len(stream) = Len(buf) + Len(bytes)
        /\ \A i \in 1..Len(buf) + Len(bytes) : stream[i] = IF i <= Len(buf) THEN buf[i] ELSE bytes[i - Len(buf)]
    BY ConcatProperties
  <2> QED
    BY <2>1, <2>2
<1>3. \/ end = 0 /\ \A k \in 1..size : buf[k] # 10
      \/ /\ end \in 1..size /\ buf[end] = 10
         /\ \A k \in 1..size : k < end => buf[k] # 10
  BY LineEndIs
<1>4. Conn!TooLong(buf) <=> (IF end = 0 THEN size ELSE end - 1) > MaxLine
  BY DEF Conn!TooLong
<1>5. Spell(stream, items, n)
  OBVIOUS
<1>6. end # 0 \/ Conn!TooLong(buf)
  OBVIOUS
<1> HIDE DEF end, size, stream
<1>7. n # Len(items)
  <2>1. SUFFICES ASSUME n = Len(items) PROVE FALSE
    OBVIOUS
  <2>2. stream = <<>>
    BY <1>5, <2>1, SpellsNothing
  <2>3. size = 0
    BY <1>2, <2>2
  <2> QED
    BY <1>1, <1>3, <1>4, <1>6, <2>3
<1>8. n \in 0..Len(items) - 1 /\ h \in Conn!Spoken /\ (h = "unended" => n + 1 = Len(items))
  BY <1>5, <1>7 DEF Spell
<1>9. /\ h \in Known /\ len <= Len(stream) /\ \A j \in 1..len : stream[j] = b[j]
      /\ Spell(SubSeq(stream, len + 1, Len(stream)), items, n + 1)
  BY <1>5, <1>7, SpellsItem
<1> HIDE DEF h
<1>10. CASE h \in Ended
  <2>1. b \in Seq(Nat) /\ len \in 1..3 /\ b[len] = 10 /\ \A j \in 1..len - 1 : b[j] # 10
    BY <1>10, EndedBytes
  <2> HIDE DEF len, b
  <2>2. len <= size => buf[len] = 10
    <3>1. ASSUME len <= size PROVE len \in 1..size /\ len \in 1..len
      BY <1>2, <2>1, <3>1
    <3> QED
      BY <1>2, <1>9, <2>1, <3>1
  <2>3. end # 0
    <3>1. SUFFICES ASSUME end = 0 PROVE FALSE
      OBVIOUS
    <3>2. size > MaxLine
      BY <1>4, <1>6, <3>1
    <3>3. len \in 1..size
      BY <1>1, <1>2, <2>1, <3>2
    <3> QED
      BY <1>3, <2>1, <2>2, <3>1, <3>3
  <2>4. end \in 1..size /\ buf[end] = 10 /\ \A k \in 1..size : k < end => buf[k] # 10
    BY <1>3, <2>3
  <2>5. ~(len < end)
    <3>1. SUFFICES ASSUME len < end PROVE FALSE
      OBVIOUS
    <3>2. len \in 1..size /\ len <= size
      BY <1>2, <2>1, <2>4, <3>1
    <3> QED
      BY <2>2, <2>4, <3>1, <3>2
  <2>6. ~(end < len)
    <3>1. SUFFICES ASSUME end < len PROVE FALSE
      OBVIOUS
    <3>2. end \in 1..len - 1 /\ end \in 1..len
      BY <2>1, <2>4, <3>1
    <3> QED
      BY <1>2, <1>9, <2>1, <2>4, <3>2
  <2>7. end = len
    BY <2>1, <2>4, <2>5, <2>6
  <2>8. ~Conn!TooLong(buf)
    BY <1>1, <1>4, <2>1, <2>3, <2>7
  <2>9. SubSeq(buf, 1, end - 1) = SubSeq(b, 1, len - 1)
    <3> DEFINE l == len - 1
    <3>1. /\ l \in Nat /\ 0 + l <= Len(buf) /\ 0 + l <= Len(b) /\ 0 \in Nat
          /\ 0 + 1 = 1 /\ 0 + l = len - 1 /\ 0 + l = end - 1
      BY <2>1, <2>4, <2>7 DEF size, len
    <3>2. \A j \in 1..l : 0 + j = j /\ j \in 1..size /\ j \in 1..len
      BY <1>2, <2>1, <2>4, <2>7
    <3> HIDE DEF l
    <3>3. \A j \in 1..l : buf[0 + j] = b[0 + j]
      BY <1>2, <1>9, <3>2
    <3>4. SameCut(buf, 0, b, 0, l)
      BY <2>1, <3>1, <3>3, SamePart
    <3> QED
      BY <3>1, <3>4, Zenon DEF SameCut
  <2>10. SubSeq(stream, len + 1, Len(stream)) = SubSeq(buf, end + 1, Len(buf)) \o bytes
    <3>1. end \in Nat /\ end <= Len(buf)
      BY <1>2, <2>4 DEF size
    <3> QED
      BY <2>7, <3>1, LaterOf DEF stream
  <2>11. SubSeq(buf, end + 1, Len(buf)) \in Seq(Nat)
    <3>1. end \in 0..Len(buf)
      BY <1>2, <2>4 DEF size
    <3> QED
      BY <3>1, RestOf
  <2>12. Spell(SubSeq(buf, end + 1, Len(buf)) \o bytes, items, n + 1)
    BY <1>9, <2>10, Zenon
  <2> QED
    BY <1>8, <1>10, <2>3, <2>8, <2>9, <2>11, <2>12, Zenon DEF end, h, b, len
<1>11. CASE h = "endless"
  <2>1. b \in Seq(Nat) /\ len = MaxLine + 1 /\ \A j \in 1..MaxLine + 1 : b[j] # 10
    <3>1. \A j \in 1..MaxLine + 1 : Conn!Bytes["endless"][j] # 10
      <4> TAKE j \in 1..MaxLine + 1
      <4>1. Conn!Bytes["endless"][j] = IF j = 1 THEN 123 ELSE 4
        BY EndlessBytes
      <4> QED
        BY <4>1
    <3> QED
      BY <1>11, <3>1, EndlessBytes
  <2> HIDE DEF len, b
  <2>2. Conn!TooLong(buf)
    <3>1. SUFFICES ASSUME end # 0 PROVE end - 1 > MaxLine
      BY <1>4, <1>6
    <3>2. end \in 1..size /\ buf[end] = 10
      BY <1>3, <3>1
    <3>3. SUFFICES ASSUME end \in 1..MaxLine + 1 PROVE FALSE
      BY <1>1, <1>2, <3>2
    <3> QED
      BY <1>2, <1>9, <2>1, <3>2, <3>3
  <2> QED
    BY <1>8, <1>11, <2>2 DEF h
<1>12. CASE h = "unended"
  <2>1. len = 2 /\ b[1] = 123 /\ b[2] = 4
    BY <1>12, UnendedBytes
  <2> HIDE DEF b, len
  <2>2. SubSeq(stream, len + 1, Len(stream)) = <<>>
    BY <1>8, <1>9, <1>12, SpellsNothing
  <2>3. Len(SubSeq(stream, len + 1, Len(stream))) = Len(stream) - len
    <3>1. len \in 0..Len(stream)
      BY <1>2, <1>9, <2>1
    <3> QED
      BY <1>2, <3>1, RestOf
  <2>4. Len(stream) = 2 /\ size <= 2
    <3>1. Len(stream) - len = 0
      BY <2>2, <2>3
    <3>2. Len(stream) \in Nat
      BY <1>2
    <3> QED
      BY <1>2, <2>1, <3>1, <3>2
  <2>5. \A k \in 1..size : buf[k] # 10
    <3> TAKE k \in 1..size
    <3>1. (k = 1 \/ k = 2) /\ k \in 1..len
      BY <1>2, <2>1, <2>4
    <3> QED
      BY <1>2, <1>9, <2>1, <3>1
  <2>6. end = 0
    BY <1>3, <2>5
  <2> QED
    BY <1>1, <1>2, <1>4, <1>6, <2>4, <2>6
<1> QED
  BY <1>8, <1>10, <1>11, <1>12, ItemsAre

(* When the stream has ended and there is no line, what is left is the last *)
(* item, which has no end                                                   *)
LEMMA EndHeard ==
  ASSUME ConnectionAssumption, NEW buf, NEW items, NEW n, Spell(buf, items, n), buf # <<>>,
         Conn!LineEnd(buf) = 0, ~Conn!TooLong(buf),
         n # Len(items) => items[n + 1] \in Conn!Spoken /\ (items[n + 1] = "unended" => n + 1 = Len(items))
  PROVE  n + 1 = Len(items) /\ items[n + 1] = "unended" /\ buf = Conn!Bytes["unended"]
<1> DEFINE h == items[n + 1]  b == Conn!Bytes[h]  len == Len(b)  size == Len(buf)
<1>1. MaxLine \in Nat /\ MaxLine >= 2
  BY DEF ConnectionAssumption
<1>2. buf \in Seq(Nat) /\ size \in Nat /\ n \in 0..Len(items) /\ Len(items) \in Nat
  BY DEF Spell
<1>3. \A k \in 1..size : buf[k] # 10
  BY <1>2, LineEndIs
<1>4. ~(size > MaxLine)
  BY DEF Conn!TooLong
<1>5. n # Len(items)
  BY SpellsNothing
<1>6. /\ h \in Conn!Spoken /\ (h = "unended" => n + 1 = Len(items))
      /\ len <= size /\ \A j \in 1..len : buf[j] = b[j]
      /\ Spell(SubSeq(buf, len + 1, Len(buf)), items, n + 1)
  BY <1>5, SpellsItem
<1> HIDE DEF h
<1>7. h \notin Ended
  <2>1. SUFFICES ASSUME h \in Ended PROVE FALSE
    OBVIOUS
  <2>2. len \in 1..3 /\ b[len] = 10
    BY <2>1, EndedBytes
  <2> HIDE DEF len, b, size
  <2>3. len \in 1..size /\ len \in 1..len
    BY <1>2, <1>6, <2>2
  <2> QED
    BY <1>3, <1>6, <2>2, <2>3
<1>8. h # "endless"
  <2>1. SUFFICES ASSUME h = "endless" PROVE FALSE
    OBVIOUS
  <2>2. len = MaxLine + 1
    BY <2>1, EndlessBytes
  <2> HIDE DEF len, size
  <2> QED
    BY <1>1, <1>2, <1>4, <1>6, <2>2
<1>9. h = "unended" /\ n + 1 = Len(items)
  BY <1>6, <1>7, <1>8, ItemsAre
<1>10. b \in Seq(Nat) /\ len = 2
  BY <1>9, UnendedBytes
<1> HIDE DEF b, len
<1>11. Len(SubSeq(buf, len + 1, Len(buf))) = size - len
  <2>1. len \in 0..Len(buf)
    BY <1>2, <1>6, <1>10
  <2> QED
    BY <1>2, <2>1, RestOf
<1>12. SubSeq(buf, len + 1, Len(buf)) = <<>>
  BY <1>6, <1>9, SpellsNothing
<1>13. size = len
  <2>1. size - len = 0
    BY <1>11, <1>12
  <2> QED
    BY <1>2, <1>10, <2>1
<1>14. buf = b
  <2>1. \A j \in 1..Len(buf) : buf[j] = b[j]
    BY <1>6, <1>13 DEF size
  <2>2. Len(buf) = Len(b)
    BY <1>13 DEF len, size
  <2> QED
    BY <1>2, <1>10, <2>1, <2>2, SeqEqual
<1> QED
  BY <1>9, <1>14 DEF h, b

(* What has no end is a line once the end of the stream counts as one *)
LEMMA FlushedHeard ==
  ASSUME ConnectionAssumption, NEW buf, buf = Append(Conn!Bytes["unended"], Conn!Newline)
  PROVE  /\ buf \in Seq(Nat) /\ Conn!LineEnd(buf) = 3 /\ ~Conn!TooLong(buf) /\ buf[1] = 123 /\ buf[2] = 4
         /\ Len(buf) = 3
         /\ SubSeq(buf, 4, Len(buf)) = <<>>
<1> DEFINE b == Conn!Bytes["unended"]  end == Conn!LineEnd(buf)
<1>1. b \in Seq(Nat) /\ Len(b) = 2 /\ b[1] = 123 /\ b[2] = 4 /\ Conn!Newline = 10
  BY UnendedBytes, TypesAre
<1>2. buf = Append(b, 10)
  BY <1>1
<1> HIDE DEF b
<1>3. buf \in Seq(Nat) /\ Len(buf) = 3 /\ buf[3] = 10 /\ buf[1] = 123 /\ buf[2] = 4
  <2>4. b \in Seq(Nat)
    BY <1>1
  <2>1. ASSUME NEW x \in Nat
        PROVE  /\ Append(b, x) \in Seq(Nat) /\ Len(Append(b, x)) = Len(b) + 1
               /\ \A i \in 1..Len(b) : Append(b, x)[i] = b[i]
               /\ Append(b, x)[Len(b) + 1] = x
    BY <2>4, Appended
  <2>3. /\ buf \in Seq(Nat) /\ Len(buf) = Len(b) + 1
        /\ \A i \in 1..Len(b) : buf[i] = b[i]
        /\ buf[Len(b) + 1] = 10
    <3>1. 10 \in Nat
      OBVIOUS
    <3> DEFINE x == 10
    <3>2. buf = Append(b, x) /\ x \in Nat
      BY <1>2
    <3> HIDE DEF x
    <3>3. /\ buf \in Seq(Nat) /\ Len(buf) = Len(b) + 1
          /\ \A i \in 1..Len(b) : buf[i] = b[i]
          /\ buf[Len(b) + 1] = x
      BY <2>1, <3>2
    <3> QED
      BY <3>3 DEF x
  <2>2. 1 \in 1..Len(b) /\ 2 \in 1..Len(b) /\ Len(b) + 1 = 3
    BY <1>1
  <2> QED
    BY <1>1, <2>2, <2>3
<1>4. \/ end = 0 /\ \A k \in 1..Len(buf) : buf[k] # 10
      \/ end \in 1..Len(buf) /\ buf[end] = 10
  BY <1>3, LineEndIs
<1> HIDE DEF end
<1>5. end = 3
  <2>1. 3 \in 1..Len(buf) /\ 1..Len(buf) = {1, 2, 3}
    BY <1>3
  <2> QED
    BY <1>3, <1>4, <2>1
<1>6. ~Conn!TooLong(buf)
  <2>1. ~(3 - 1 > MaxLine)
    BY DEF ConnectionAssumption
  <2> QED
    BY <1>5, <2>1 DEF Conn!TooLong, end
<1>7. SubSeq(buf, 4, Len(buf)) = <<>>
  BY <1>3, SubSeqEmpty
<1> QED
  BY <1>3, <1>5, <1>6, <1>7 DEF end
-----------------------------------------------------------------------------
(* What a frame says, in the type and the payload it carries *)
LEMMA PartIs ==
  ASSUME NEW s \in Seq(Nat), NEW t \in Seq(Nat), NEW p \in Nat, p + Len(t) <= Len(s),
         \A j \in 1..Len(t) : s[p + j] = t[j]
  PROVE  SubSeq(s, p + 1, p + Len(t)) = t
<1> DEFINE l == Len(t)  q == 0
<1>1. l \in Nat /\ q \in Nat /\ q + l <= Len(t) /\ p + l <= Len(s) /\ q + 1 = 1 /\ q + l = Len(t)
  OBVIOUS
<1>2. \A j \in 1..l : q + j = j
  OBVIOUS
<1> HIDE DEF l, q
<1>3. \A j \in 1..l : s[p + j] = t[q + j]
  BY <1>2 DEF l
<1>4. SameCut(s, p, t, q, l)
  BY <1>1, <1>3, SamePart
<1>5. SubSeq(s, p + 1, p + l) = SubSeq(t, 1, Len(t))
  BY <1>1, <1>4, Zenon DEF SameCut
<1> QED
  BY <1>5, SubSeqFull DEF l

(* The payload is what follows the length and the type                   *)
LEMMA PayloadIs ==
  /\ \A t \in Nat : SubSeq(<<1, t>>, 3, Len(<<1, t>>)) = <<>>
  /\ \A t, a \in Nat : SubSeq(<<2, t, a>>, 3, Len(<<2, t, a>>)) = <<a>>
  /\ \A t, a, b \in Nat : SubSeq(<<3, t, a, b>>, 3, Len(<<3, t, a, b>>)) = <<a, b>>
<1>1. ASSUME NEW t \in Nat PROVE SubSeq(<<1, t>>, 3, Len(<<1, t>>)) = <<>>
  BY SubSeqEmpty
<1>2. ASSUME NEW t \in Nat, NEW a \in Nat PROVE SubSeq(<<2, t, a>>, 3, Len(<<2, t, a>>)) = <<a>>
  <2> DEFINE u == <<2, t, a>>  v == <<a>>
  <2>1. u \in Seq(Nat) /\ Len(u) = 3 /\ u[3] = a /\ v \in Seq(Nat) /\ Len(v) = 1 /\ v[1] = a
    BY Tuples
  <2> HIDE DEF u, v
  <2>2. \A j \in 1..Len(v) : u[2 + j] = v[j]
    BY <2>1
  <2>3. SubSeq(u, 2 + 1, 2 + Len(v)) = v
    BY <2>1, <2>2, PartIs
  <2>6. SubSeq(u, 3, Len(u)) = v
    BY <2>1, <2>3
  <2> QED
    BY <2>6 DEF u, v
<1>3. ASSUME NEW t \in Nat, NEW a \in Nat, NEW b \in Nat
      PROVE SubSeq(<<3, t, a, b>>, 3, Len(<<3, t, a, b>>)) = <<a, b>>
  <2> DEFINE u == <<3, t, a, b>>  v == <<a, b>>
  <2>1. /\ u \in Seq(Nat) /\ Len(u) = 4 /\ u[3] = a /\ u[4] = b
        /\ v \in Seq(Nat) /\ Len(v) = 2 /\ v[1] = a /\ v[2] = b
    BY Tuples
  <2> HIDE DEF u, v
  <2>2. \A j \in 1..Len(v) : u[2 + j] = v[j]
    BY <2>1
  <2>3. SubSeq(u, 2 + 1, 2 + Len(v)) = v
    BY <2>1, <2>2, PartIs
  <2>6. SubSeq(u, 3, Len(u)) = v
    BY <2>1, <2>3
  <2> QED
    BY <2>6 DEF u, v
<1> QED
  BY <1>1, <1>2, <1>3

Message(h) == [type |-> Conn!Bytes[h][2], payload |-> SubSeq(Conn!Bytes[h], 3, Len(Conn!Bytes[h]))]

(* The message of every item that is one                                 *)
LEMMA MessagesAre ==
  /\ \A h \in {"attach", "detach", "fetch", "ack", "view", "reply"} : Message(h).payload = <<>>
  /\ \A h \in {"input", "hello", "novel"} : Message(h).payload = <<1>>
  /\ \A h \in {"foreign", "cut"} : Message(h).payload = <<2>>
  /\ Message("paste").payload = <<9>>
  /\ Message("resize").payload = <<2, 2>> /\ Message("flat").payload = <<2, 0>>
  /\ Message("attach").type = 16 /\ Message("detach").type = 17 /\ Message("input").type = 18
  /\ Message("paste").type = 18 /\ Message("resize").type = 19 /\ Message("flat").type = 19
  /\ Message("fetch").type = 20 /\ Message("ack").type = 21 /\ Message("view").type = 22
  /\ Message("hello").type = 1 /\ Message("foreign").type = 1 /\ Message("reply").type = 256
  /\ Message("novel").type = 99 /\ Message("cut").type = 19
<1>1. \A h : Message(h).type = Conn!Bytes[h][2] /\ Message(h).payload = SubSeq(Conn!Bytes[h], 3, Len(Conn!Bytes[h]))
  BY DEF Message
<1>2. /\ Message("attach").type = 16 /\ Message("detach").type = 17 /\ Message("input").type = 18
      /\ Message("paste").type = 18 /\ Message("resize").type = 19 /\ Message("flat").type = 19
      /\ Message("fetch").type = 20 /\ Message("ack").type = 21 /\ Message("view").type = 22
      /\ Message("hello").type = 1 /\ Message("foreign").type = 1 /\ Message("reply").type = 256
      /\ Message("novel").type = 99 /\ Message("cut").type = 19
  <2>1. /\ \A h : \A t \in Nat : Conn!Bytes[h] = <<1, t>> => Message(h).type = t
        /\ \A h : \A t, a \in Nat : Conn!Bytes[h] = <<2, t, a>> => Message(h).type = t
        /\ \A h : \A t, a, b \in Nat : Conn!Bytes[h] = <<3, t, a, b>> => Message(h).type = t
    BY <1>1, Tuples
  <2>2. /\ Message("attach").type = 16 /\ Message("detach").type = 17 /\ Message("fetch").type = 20
        /\ Message("ack").type = 21 /\ Message("view").type = 22 /\ Message("reply").type = 256
    BY <2>1, BytesAre
  <2>3. /\ Message("input").type = 18 /\ Message("paste").type = 18 /\ Message("hello").type = 1
        /\ Message("foreign").type = 1 /\ Message("novel").type = 99 /\ Message("cut").type = 19
    BY <2>1, BytesAre
  <2>4. Message("resize").type = 19 /\ Message("flat").type = 19
    BY <2>1, BytesAre
  <2> QED
    BY <2>2, <2>3, <2>4
<1>3. \A h \in {"attach", "detach", "fetch", "ack", "view", "reply"} : Message(h).payload = <<>>
  <2> TAKE h \in {"attach", "detach", "fetch", "ack", "view", "reply"}
  <2>1. PICK t \in Nat : Conn!Bytes[h] = <<1, t>>
    <3>1. \E t \in {16, 17, 20, 21, 22, 256} : Conn!Bytes[h] = <<1, t>>
      BY BytesByLength
    <3> QED
      BY <3>1
  <2> QED
    BY <1>1, <2>1, PayloadIs, Zenon
<1>4. ASSUME NEW h, NEW t \in Nat, NEW a \in Nat, Conn!Bytes[h] = <<2, t, a>>
      PROVE  Message(h).payload = <<a>>
  <2>1. SubSeq(<<2, t, a>>, 3, Len(<<2, t, a>>)) = <<a>>
    BY PayloadIs, Zenon
  <2> QED
    BY <1>1, <1>4, <2>1, Zenon
<1>5. ASSUME NEW h, NEW t \in Nat, NEW a \in Nat, NEW b \in Nat, Conn!Bytes[h] = <<3, t, a, b>>
      PROVE  Message(h).payload = <<a, b>>
  <2>1. SubSeq(<<3, t, a, b>>, 3, Len(<<3, t, a, b>>)) = <<a, b>>
    BY PayloadIs, Zenon
  <2> QED
    BY <1>1, <1>5, <2>1, Zenon
<1>6. /\ \A h \in {"input", "hello", "novel"} : Message(h).payload = <<1>>
      /\ \A h \in {"foreign", "cut"} : Message(h).payload = <<2>>
      /\ Message("paste").payload = <<9>>
  BY <1>4, BytesAre
<1>7. Message("resize").payload = <<2, 2>> /\ Message("flat").payload = <<2, 0>>
  BY <1>5, BytesAre
<1> QED
  BY <1>2, <1>3, <1>6, <1>7

(* from_frame tells what a client may say, and the Hello of our major *)
LEMMA FrameSays ==
  ASSUME NEW h \in FrameItem, NEW f, Bite(f, h)
  PROVE  /\ [type |-> f.type, payload |-> f.payload] = Message(h)
         /\ h \in Untold <=> ~Conn!Decodable(f) \/ f.type \in {Conn!HELLO, Conn!SNAPSHOT}
         /\ h = "hello" <=> f.type = Conn!HELLO /\ Conn!Decodable(f) /\ f.payload[1] = Conn!Major
         /\ h \in Told => Message(h).type # 0
<1>1. f.type = Message(h).type /\ f.payload = Message(h).payload
  BY DEF Bite, Message
<1>2. [type |-> f.type, payload |-> f.payload] = Message(h)
  BY DEF Bite, Message
<1>3. h \in Told \cup Untold
  BY DEF FrameItem
<1>4. /\ Len(<<>>) = 0 /\ Len(<<1>>) = 1 /\ Len(<<2>>) = 1 /\ Len(<<9>>) = 1 /\ Len(<<2, 2>>) = 2 /\ Len(<<2, 0>>) = 2
      /\ <<1>>[1] = 1 /\ <<2>>[1] = 2
  OBVIOUS
<1>5. CASE h \in {"attach", "detach", "fetch", "ack", "view"}
  <2>1. f.type \in {16, 17, 20, 21, 22} /\ Len(f.payload) = 0
    BY <1>1, <1>4, <1>5, MessagesAre
  <2>2. Conn!Decodable(f)
    BY <2>1, TypesAre DEF Conn!Decodable, Conn!Fields
  <2> QED
    BY <1>1, <1>2, <1>5, <2>1, <2>2, TypesAre DEF Told, Untold
<1>6. CASE h \in {"input", "paste"}
  <2>1. f.type = 18 /\ Len(f.payload) = 1
    <3>1. f.type = 18 /\ (f.payload = <<1>> \/ f.payload = <<9>>)
      BY <1>1, <1>6, MessagesAre
    <3> QED
      BY <1>4, <3>1
  <2>2. Conn!Decodable(f)
    BY <2>1, TypesAre DEF Conn!Decodable, Conn!Fields
  <2> QED
    BY <1>1, <1>2, <1>6, <2>1, <2>2, TypesAre DEF Told, Untold
<1>7. CASE h \in {"resize", "flat"}
  <2>1. f.type = 19 /\ Len(f.payload) = 2
    <3>1. f.type = 19 /\ (f.payload = <<2, 2>> \/ f.payload = <<2, 0>>)
      BY <1>1, <1>7, MessagesAre
    <3> QED
      BY <1>4, <3>1
  <2>2. Conn!Decodable(f)
    BY <2>1, TypesAre DEF Conn!Decodable, Conn!Fields
  <2> QED
    BY <1>1, <1>2, <1>7, <2>1, <2>2, TypesAre DEF Told, Untold
<1>8. CASE h \in {"hello", "foreign"}
  <2>1. f.type = 1 /\ Len(f.payload) = 1 /\ (h = "hello" <=> f.payload[1] = 1)
    <3>1. f.type = 1 /\ ((h = "hello" /\ f.payload = <<1>>) \/ (h # "hello" /\ f.payload = <<2>>))
      <4>1. CASE h = "hello"
        <5>1. Message("hello").type = 1 /\ Message("hello").payload = <<1>>
          BY MessagesAre
        <5> QED
          BY <1>1, <4>1, <5>1, Zenon
      <4>2. CASE h = "foreign"
        <5>1. Message("foreign").type = 1 /\ Message("foreign").payload = <<2>>
          BY MessagesAre
        <5> QED
          BY <1>1, <4>2, <5>1
      <4> QED
        BY <1>8, <4>1, <4>2
    <3> QED
      BY <1>4, <3>1
  <2>2. Conn!Decodable(f)
    BY <2>1, TypesAre DEF Conn!Decodable, Conn!Fields
  <2> QED
    BY <1>1, <1>2, <1>8, <2>1, <2>2, TypesAre DEF Told, Untold
<1>9. CASE h \in {"reply", "novel", "cut"}
  <2>1. \/ f.type = 256
        \/ f.type = 99
        \/ f.type = 19 /\ Len(f.payload) = 1
    <3>1. f.type = 256 \/ f.type = 99 \/ (f.type = 19 /\ f.payload = <<2>>)
      <4>1. CASE h = "reply"
        <5>1. Message("reply").type = 256
          BY MessagesAre, Zenon
        <5>2. f.type = 256
          BY <1>1, <4>1, <5>1
        <5> QED
          BY <5>2
      <4>2. CASE h = "novel"
        <5>1. Message("novel").type = 99
          BY MessagesAre, Zenon
        <5>2. f.type = 99
          BY <1>1, <4>2, <5>1
        <5> QED
          BY <5>2
      <4>3. CASE h = "cut"
        BY <1>1, <4>3, MessagesAre
      <4> QED
        BY <1>9, <4>1, <4>2, <4>3
    <3> QED
      BY <1>4, <3>1
  <2>2. f.type = 256 \/ ~Conn!Decodable(f)
    <3>1. CASE f.type = 99
      BY <3>1, TypesAre DEF Conn!Decodable
    <3>2. CASE f.type = 19 /\ Len(f.payload) = 1
      <4>1. Conn!Fields(f.type) = 2
        BY <3>2, TypesAre DEF Conn!Fields
      <4> QED
        BY <3>2, <4>1 DEF Conn!Decodable
    <3> QED
      BY <2>1, <3>1, <3>2
  <2> QED
    BY <1>1, <1>2, <1>9, <2>1, <2>2, TypesAre DEF Told, Untold
<1> QED
  BY <1>3, <1>5, <1>6, <1>7, <1>8, <1>9 DEF Told, Untold

(* A request line tells a greeting, and a blank one says nothing *)
LineIs(h, line) ==
  \/ h = "blank" /\ line = <<>>
  \/ /\ h \in {"greeting", "outdated", "misplaced", "request", "garbage", "unended"}
     /\ line # <<>> /\ Head(line) = 123 /\ Len(line) > 1 /\ line[2] \in 1..5
     /\ h = "greeting" <=> line[2] = 1

(* A line that has its newline says what its item says                   *)
LEMMA LineSays ==
  ASSUME NEW h \in Ended, NEW line, line = SubSeq(Conn!Bytes[h], 1, Len(Conn!Bytes[h]) - 1)
  PROVE  LineIs(h, line)
<1>1. CASE h = "blank"
  <2>1. Conn!Bytes[h] = <<10>> /\ Len(<<10>>) - 1 = 0
    <3>1. Conn!Bytes["blank"] = <<10>>
      BY BytesAre, Zenon
    <3> QED
      BY <1>1, <3>1
  <2>2. line = SubSeq(<<10>>, 1, 0)
    BY <2>1
  <2>3. line = <<>>
    BY <2>2, SubSeqEmpty
  <2> QED
    BY <1>1, <2>3 DEF LineIs
<1>2. CASE h # "blank"
  <2>1. PICK a \in {1, 2, 3, 4, 5} : Conn!Bytes[h] = <<123, a, 10>> /\ (h = "greeting" <=> a = 1)
    BY <1>2, LineBytes
  <2> DEFINE u == <<123, a, 10>>  v == <<123, a>>
  <2>2. a \in Nat /\ a \in 1..5
    BY <2>1
  <2>3. /\ u \in Seq(Nat) /\ Len(u) = 3 /\ u[1] = 123 /\ u[2] = a
        /\ v \in Seq(Nat) /\ Len(v) = 2 /\ v[1] = 123 /\ v[2] = a
    BY <2>2, Tuples
  <2> HIDE DEF u, v
  <2>4. \A j \in 1..Len(v) : u[0 + j] = v[j]
    BY <2>3
  <2>5. SubSeq(u, 0 + 1, 0 + Len(v)) = v
    BY <2>3, <2>4, PartIs
  <2>8. Conn!Bytes[h] = u /\ Len(u) - 1 = 2
    BY <2>1, <2>3 DEF u
  <2>9. line = v
    <3>1. 0 + 1 = 1 /\ 0 + Len(v) = Len(u) - 1
      BY <2>3
    <3>2. SubSeq(u, 1, Len(u) - 1) = v
      BY <2>5, <3>1, Zenon
    <3> QED
      BY <2>8, <3>2, Zenon
  <2>10. v # <<>> /\ Head(v) = v[1]
    <3>1. v # <<>>
      BY <2>3, EmptySeq
    <3> QED
      BY <2>3, <3>1, HeadTailProperties
  <2>11. h \in {"greeting", "outdated", "misplaced", "request", "garbage", "unended"}
    BY <1>2 DEF Ended
  <2> QED
    BY <2>1, <2>2, <2>3, <2>9, <2>10, <2>11 DEF LineIs
<1> QED
  BY <1>1, <1>2

(* Answers that are allowed                                              *)
LEMMA AnswersMay ==
  /\ \A h : Conn!Answerable(h, TRUE) = IF h \in {"hello", "greeting"} THEN {"ack"} ELSE {"reject"}
  /\ \A h \in Told : "no such surface" \in Conn!Answerable(h, FALSE)
  /\ \A h \in {"attach", "resize", "ack", "view", "input", "blank"} : "none" \in Conn!Answerable(h, FALSE)
  /\ "detached" \in Conn!Answerable("detach", FALSE) /\ "not attached" \in Conn!Answerable("detach", FALSE)
  /\ "exited" \in Conn!Answerable("input", FALSE) /\ "history" \in Conn!Answerable("fetch", FALSE)
  /\ \A h \in {"paste", "flat"} \cup Untold : "bad request" \in Conn!Answerable(h, FALSE)
  /\ "reject" \in Conn!Answerable("endless", FALSE)
  /\ \A h \in {"greeting", "outdated", "misplaced", "request", "garbage", "unended"} :
       "response" \in Conn!Answerable(h, FALSE)
BY DEF Conn!Answerable, Told, Untold

(* What was answered to `said` so far, and whether it attached the client *)
AnsweredTo(said, given, at) ==
  \A i \in DOMAIN given :
    /\ i <= Len(said) /\ given[i] \in Conn!Answerable(said[i], i = 1)
    /\ given[i] = "reject" => i = Len(given) /\ at = "closed"

AttachedBy(said, given) ==
  \E i \in DOMAIN given :
    /\ said[i] = "attach" /\ given[i] = "none"
    /\ \A j \in i + 1..Len(given) : given[j] # "detached"

(* One more answer leaves the others                                     *)
LEMMA AnswersGrow ==
  ASSUME NEW S, NEW given \in Seq(S), NEW a \in S
  PROVE  /\ Append(given, a) \in Seq(S) /\ Len(Append(given, a)) = Len(given) + 1
         /\ DOMAIN given = 1..Len(given) /\ DOMAIN Append(given, a) = 1..Len(given) + 1
         /\ \A i \in 1..Len(given) : Append(given, a)[i] = given[i]
         /\ Append(given, a)[Len(given) + 1] = a
         /\ given \o <<>> = given /\ given \o <<a>> = Append(given, a)
<1>1. /\ Append(given, a) \in Seq(S) /\ Len(Append(given, a)) = Len(given) + 1
      /\ Append(given, a)[Len(given) + 1] = a
  BY AppendProperties
<1>2. \A i \in 1..Len(given) : Append(given, a)[i] = given[i]
  BY AppendProperties
<1>3. DOMAIN given = 1..Len(given) /\ DOMAIN Append(given, a) = 1..Len(given) + 1
  <2>1. \A q \in Seq(S) : DOMAIN q = 1..Len(q)
    OBVIOUS
  <2>2. DOMAIN Append(given, a) = 1..Len(Append(given, a))
    BY <1>1, <2>1
  <2> QED
    BY <1>1, <2>1, <2>2
<1>4. given \o <<>> = given /\ given \o <<a>> = Append(given, a)
  BY ConcatEmptySeq, AppendIsConcat
<1> QED
  BY <1>1, <1>2, <1>3, <1>4

(* An allowed answer to the next message keeps the answers in step       *)
LEMMA AnsweredOne ==
  ASSUME NEW S, NEW T, NEW said \in Seq(T), NEW given \in Seq(S), NEW at, AnsweredTo(said, given, at), at # "closed",
         NEW a \in S, Len(given) < Len(said),
         a \in Conn!Answerable(said[Len(given) + 1], Len(given) + 1 = 1),
         NEW then, a = "reject" => then = "closed"
  PROVE  AnsweredTo(said, Append(given, a), then)
<1> DEFINE more == Append(given, a)  n == Len(given)
<1>1. /\ more \in Seq(S) /\ Len(more) = n + 1 /\ DOMAIN given = 1..n /\ DOMAIN more = 1..n + 1
      /\ \A i \in 1..n : more[i] = given[i]
      /\ more[n + 1] = a /\ n \in Nat
  <2>1. n \in Nat
    BY LenProperties
  <2>2. more \in Seq(S) /\ Len(more) = n + 1 /\ more[n + 1] = a
    BY AnswersGrow
  <2>3. DOMAIN given = 1..n /\ DOMAIN more = 1..n + 1
    BY AnswersGrow
  <2>4. \A i \in 1..n : more[i] = given[i]
    BY AnswersGrow
  <2> QED
    BY <2>1, <2>2, <2>3, <2>4
<1>2. n + 1 <= Len(said) /\ a \in Conn!Answerable(said[n + 1], n + 1 = 1)
  <2>1. n < Len(said) /\ Len(said) \in Nat
    BY LenProperties
  <2> DEFINE m == Len(said)
  <2>2. n < m /\ m \in Nat /\ n \in Nat
    BY <1>1, <2>1
  <2> HIDE DEF m, n
  <2>3. n + 1 <= m
    BY <2>2
  <2> QED
    BY <2>3 DEF m, n
<1> HIDE DEF more, n
<1>3. AnsweredTo(said, more, then)
  <2> SUFFICES ASSUME NEW i \in 1..n + 1
               PROVE  /\ i <= Len(said) /\ more[i] \in Conn!Answerable(said[i], i = 1)
                      /\ more[i] = "reject" => i = Len(more) /\ then = "closed"
    BY <1>1 DEF AnsweredTo
  <2>1. CASE i = n + 1
    BY <1>1, <1>2, <2>1
  <2>2. CASE i # n + 1
    <3>1. i \in 1..n
      BY <1>1, <2>2
    <3>2. /\ i <= Len(said) /\ given[i] \in Conn!Answerable(said[i], i = 1)
          /\ given[i] # "reject"
      BY <1>1, <3>1 DEF AnsweredTo
    <3> QED
      BY <1>1, <3>1, <3>2
  <2> QED
    BY <2>1, <2>2
<1> QED
  BY <1>3 DEF more, n

(* Only an Attach or a Detach that was done changes the attachment       *)
LEMMA AttachedOne ==
  ASSUME NEW S, NEW said, NEW given \in Seq(S), NEW a \in S
  PROVE  AttachedBy(said, Append(given, a)) <=>
           \/ said[Len(given) + 1] = "attach" /\ a = "none"
           \/ AttachedBy(said, given) /\ a # "detached"
<1> DEFINE more == Append(given, a)  n == Len(given)
<1>1. /\ more \in Seq(S) /\ Len(more) = n + 1 /\ DOMAIN given = 1..n /\ DOMAIN more = 1..n + 1
      /\ \A i \in 1..n : more[i] = given[i]
      /\ more[n + 1] = a /\ n \in Nat
  <2>1. n \in Nat
    BY LenProperties
  <2>2. more \in Seq(S) /\ Len(more) = n + 1 /\ more[n + 1] = a
    BY AnswersGrow
  <2>3. DOMAIN given = 1..n /\ DOMAIN more = 1..n + 1
    BY AnswersGrow
  <2>4. \A i \in 1..n : more[i] = given[i]
    BY AnswersGrow
  <2> QED
    BY <2>1, <2>2, <2>3, <2>4
<1> HIDE DEF more, n
<1>2. ASSUME AttachedBy(said, more), ~(said[n + 1] = "attach" /\ a = "none")
      PROVE  AttachedBy(said, given) /\ a # "detached"
  <2>1. PICK i \in 1..n + 1 : /\ said[i] = "attach" /\ more[i] = "none"
                              /\ \A j \in i + 1..n + 1 : more[j] # "detached"
    BY <1>1, <1>2 DEF AttachedBy
  <2>2. i \in 1..n
    BY <1>1, <1>2, <2>1
  <2>3. given[i] = "none" /\ a # "detached"
    <3>1. n + 1 \in i + 1..n + 1
      BY <1>1, <2>2
    <3> QED
      BY <1>1, <2>1, <2>2, <3>1
  <2>4. \A j \in i + 1..n : given[j] # "detached"
    <3> TAKE j \in i + 1..n
    <3>1. j \in i + 1..n + 1 /\ j \in 1..n
      BY <1>1, <2>2
    <3> QED
      BY <1>1, <2>1, <3>1
  <2> QED
    BY <1>1, <2>1, <2>2, <2>3, <2>4 DEF AttachedBy, n
<1>3. ASSUME said[n + 1] = "attach", a = "none" PROVE AttachedBy(said, more)
  <2>1. n + 1 \in DOMAIN more /\ more[n + 1] = "none" /\ \A j \in n + 1 + 1..Len(more) : FALSE
    BY <1>1, <1>3
  <2> QED
    BY <1>3, <2>1 DEF AttachedBy
<1>4. ASSUME AttachedBy(said, given), a # "detached" PROVE AttachedBy(said, more)
  <2>1. PICK i \in 1..n : /\ said[i] = "attach" /\ given[i] = "none"
                          /\ \A j \in i + 1..n : given[j] # "detached"
    BY <1>1, <1>4 DEF AttachedBy, n
  <2>2. i \in DOMAIN more /\ more[i] = "none"
    <3>1. i \in 1..n + 1
      BY <1>1
    <3> QED
      BY <1>1, <2>1, <3>1
  <2>3. \A j \in i + 1..Len(more) : more[j] # "detached"
    <3> TAKE j \in i + 1..Len(more)
    <3>1. CASE j = n + 1
      BY <1>1, <1>4, <3>1
    <3>2. CASE j # n + 1
      <4>1. j \in i + 1..n /\ j \in 1..n
        BY <1>1, <3>2
      <4> QED
        BY <1>1, <2>1, <4>1
    <3> QED
      BY <3>1, <3>2
  <2> QED
    BY <2>1, <2>2, <2>3 DEF AttachedBy
<1> QED
  BY <1>2, <1>3, <1>4 DEF more, n

(* What is said later changes nothing of it *)
LEMMA AnsweredStill ==
  ASSUME NEW S, NEW T, NEW said \in Seq(T), NEW more \in Seq(T), NEW given \in Seq(S), NEW at, AnsweredTo(said, given, at),
         Len(said) <= Len(more),
         \A i \in 1..Len(said) : more[i] = said[i]
  PROVE  AnsweredTo(more, given, at) /\ (AttachedBy(more, given) <=> AttachedBy(said, given))
<1>1. \A i \in DOMAIN given : /\ i \in 1..Len(said) /\ i <= Len(more) /\ more[i] = said[i]
  <2> TAKE i \in DOMAIN given
  <2>1. i \in Nat /\ 1 <= i /\ i <= Len(said)
    <3>1. i \in 1..Len(given) /\ Len(given) \in Nat
      BY LenProperties
    <3> QED
      BY <3>1 DEF AnsweredTo
  <2> QED
    BY <2>1
<1> QED
  BY <1>1, Zenon DEF AnsweredTo, AttachedBy
-----------------------------------------------------------------------------
Replies == {"ack", "reject", "none", "no such surface", "detached", "not attached", "exited",
            "history", "bad request", "response"}

(* What a peer sends: one plane, and nothing after what has no end *)
Stream(items) ==
  /\ items \in Seq(Known)
  /\ \A i \in 1..Len(items) :
       /\ i = 1 => items[i] \in Conn!Opening
       /\ i > 1 => items[i] \notin {"magic", "junk"}
       /\ items[i] \in Conn!Spoken <=> items[1] \in Conn!Spoken
       /\ items[i] = "unended" => i = Len(items)

Skipped(items) == IF items # <<>> /\ Head(items) \in {"magic", "junk"} THEN 1 ELSE 0

Typed ==
  /\ peer \in [sent : Seq(Known), open : BOOLEAN] /\ Stream(peer.sent) /\ wire \in Seq(Nat)
  /\ conn \in [at : {"sniff", "shake", "serve", "closed"}, plane : {"none", "data", "control"}]
  /\ host \in [is : {"running", "exited", "gone"}, attached : BOOLEAN]
  /\ answers \in Seq(Replies)

Fresh == [buf |-> <<>>, pos |-> 0, poisoned |-> FALSE]

Sniffing ==
  /\ decoder = Fresh /\ answers = <<>> /\ found = Conn!NoMessage /\ conn.plane = "none"
  /\ Spell(wire, peer.sent, 0)

Behind == IF conn.plane = "data" THEN 1 ELSE 0

(* The items that have been taken out of the stream *)
Taken == Len(answers) + (IF found = Conn!NoMessage THEN 0 ELSE 1) + Behind

(* The end of the stream counts as the end of the last line *)
Flushed ==
  /\ conn.plane = "control" /\ ~peer.open /\ wire = <<>>
  /\ Taken + 1 = Len(peer.sent) /\ peer.sent[Taken + 1] = "unended"
  /\ Spell(Conn!Bytes["unended"], peer.sent, Taken)
  /\ decoder.buf = Append(Conn!Bytes["unended"], Conn!Newline)

InHand == \E h \in Told : found = Message(h) /\ Taken \in 1..Len(peer.sent) /\ peer.sent[Taken] = h

Planes ==
  \/ conn.plane = "data" /\ Head(peer.sent) = "magic"
  \/ conn.plane = "control" /\ Head(peer.sent) \in Conn!Spoken /\ decoder.pos = 0 /\ found = Conn!NoMessage

Talks ==
  /\ Decoder(decoder) /\ ~decoder.poisoned /\ peer.sent # <<>> /\ Planes
  /\ Spell(Unread(decoder, wire), peer.sent, Taken) \/ Flushed
  /\ conn.at = "shake" <=> answers = <<>>
  /\ found # Conn!NoMessage => conn.at = "serve" /\ InHand

(* All of it is inductive: how far the stream has been read is what keeps   *)
(* the answers in step with what was sent                                   *)
ConnInv ==
  /\ Typed
  /\ conn.at = "sniff" => Sniffing
  /\ conn.at \in {"shake", "serve"} => Talks
  /\ conn.at = "closed" => found = Conn!NoMessage
  /\ Conn!Answered /\ Conn!Attachment

SaidOf(items) == IF items # <<>> /\ Head(items) \in {"magic", "junk"} THEN Tail(items) ELSE items

(* What was said is what was sent, the magic aside                       *)
LEMMA SaidOfIs ==
  ASSUME NEW items \in Seq(Known)
  PROVE  /\ SaidOf(items) \in Seq(Known) /\ Len(SaidOf(items)) = Len(items) - Skipped(items)
         /\ \A i \in 1..Len(items) - Skipped(items) : SaidOf(items)[i] = items[i + Skipped(items)]
<1>1. CASE items # <<>> /\ Head(items) \in {"magic", "junk"}
  <2>1. SaidOf(items) = Tail(items) /\ Skipped(items) = 1
    BY <1>1 DEF SaidOf, Skipped
  <2>2. /\ Tail(items) \in Seq(Known) /\ Len(Tail(items)) = Len(items) - 1
        /\ \A i \in 1..Len(items) - 1 : Tail(items)[i] = items[i + 1]
    BY <1>1, HeadTailProperties
  <2> QED
    BY <2>1, <2>2
<1>2. CASE ~(items # <<>> /\ Head(items) \in {"magic", "junk"})
  <2>1. SaidOf(items) = items /\ Skipped(items) = 0
    BY <1>2 DEF SaidOf, Skipped
  <2>2. Len(items) - 0 = Len(items) /\ \A i \in 1..Len(items) : i + 0 = i
    BY LenProperties
  <2> QED
    BY <2>1, <2>2
<1> QED
  BY <1>1, <1>2

(* The same of the items of the peer                                     *)
LEMMA SaidIs ==
  ASSUME peer.sent \in Seq(Known)
  PROVE  /\ Conn!Said \in Seq(Known) /\ Len(Conn!Said) = Len(peer.sent) - Skipped(peer.sent)
         /\ \A i \in 1..Len(peer.sent) - Skipped(peer.sent) : Conn!Said[i] = peer.sent[i + Skipped(peer.sent)]
<1>1. Conn!Said = SaidOf(peer.sent)
  BY DEF Conn!Said, SaidOf
<1> QED
  BY <1>1, SaidOfIs

(* The two properties, as predicates of what was said and answered       *)
LEMMA AnsweredIs ==
  /\ Conn!Answered <=> AnsweredTo(Conn!Said, answers, conn.at)
  /\ Conn!Attachment <=> (host.is # "gone" =>
       (host.attached <=> conn.at # "closed" /\ AttachedBy(Conn!Said, answers)))
  /\ Conn!Answered' <=> AnsweredTo(Conn!Said', answers', conn'.at)
  /\ Conn!Attachment' <=> (host'.is # "gone" =>
       (host'.attached <=> conn'.at # "closed" /\ AttachedBy(Conn!Said', answers')))
BY Zenon DEF Conn!Answered, Conn!Attachment, AnsweredTo, AttachedBy

(* A connection that ends, with a reject or without *)
LEMMA EndsKeeps ==
  ASSUME ConnInv, conn.at # "closed", peer' = peer, wire' \in Seq(Nat),
         \/ Conn!Ends(<<>>)
         \/ /\ Conn!Ends(<<"reject">>) /\ Len(answers) < Len(Conn!Said)
            /\ "reject" \in Conn!Answerable(Conn!Said[Len(answers) + 1], Len(answers) + 1 = 1)
  PROVE  ConnInv'
<1>1. /\ peer \in [sent : Seq(Known), open : BOOLEAN] /\ Stream(peer.sent)
      /\ conn \in [at : {"sniff", "shake", "serve", "closed"}, plane : {"none", "data", "control"}]
      /\ host \in [is : {"running", "exited", "gone"}, attached : BOOLEAN]
      /\ answers \in Seq(Replies) /\ Conn!Answered /\ Conn!Attachment
  BY DEF ConnInv, Typed
<1>2. Conn!Said' = Conn!Said /\ Conn!Said \in Seq(Known)
  BY <1>1, SaidIs DEF Conn!Said
<1>3. /\ conn' = [conn EXCEPT !.at = "closed"] /\ found' = Conn!NoMessage
      /\ host' = [host EXCEPT !.attached = @ /\ host.is = "gone"]
      /\ answers' = answers \o <<>> \/ answers' = answers \o <<"reject">>
  BY DEF Conn!Ends, Conn!Unregistered
<1>4. conn' \in [at : {"closed"}, plane : {"none", "data", "control"}] /\ conn'.at = "closed"
  BY <1>1, <1>3
<1>5. host' \in [is : {"running", "exited", "gone"}, attached : BOOLEAN] /\ (host'.is # "gone" => ~host'.attached)
  BY <1>1, <1>3
<1>6. answers' \in Seq(Replies) /\ AnsweredTo(Conn!Said, answers', "closed")
  <2>1. AnsweredTo(Conn!Said, answers, conn.at)
    BY <1>1, AnsweredIs
  <2>2. CASE answers' = answers \o <<>>
    <3>1. answers' = answers
      BY <1>1, <2>2, ConcatEmptySeq
    <3>2. AnsweredTo(Conn!Said, answers, "closed")
      BY <2>1, Zenon DEF AnsweredTo
    <3> QED
      BY <1>1, <3>1, <3>2
  <2>3. CASE answers' # answers \o <<>>
    <3>1. /\ answers' = answers \o <<"reject">> /\ Len(answers) < Len(Conn!Said)
          /\ "reject" \in Conn!Answerable(Conn!Said[Len(answers) + 1], Len(answers) + 1 = 1)
      BY <2>3 DEF Conn!Ends
    <3>2. "reject" \in Replies
      BY DEF Replies
    <3>3. Append(answers, "reject") \in Seq(Replies) /\ answers \o <<"reject">> = Append(answers, "reject")
      BY <1>1, <3>2, AppendProperties, AppendIsConcat
    <3>4. AnsweredTo(Conn!Said, Append(answers, "reject"), "closed")
      BY <1>1, <1>2, <2>1, <3>1, <3>2, AnsweredOne
    <3> QED
      BY <3>1, <3>3, <3>4
  <2> QED
    BY <2>2, <2>3
<1>7. Conn!Answered' /\ Conn!Attachment'
  BY <1>2, <1>4, <1>5, <1>6, AnsweredIs
<1>8. Typed'
  BY <1>1, <1>4, <1>5, <1>6 DEF Typed
<1> QED
  BY <1>3, <1>4, <1>7, <1>8 DEF ConnInv

(* An answer that ends nothing *)
LEMMA AnswerKeeps ==
  ASSUME ConnInv, conn.at # "closed", peer' = peer, conn'.at # "closed",
         NEW a \in Replies, answers' = Append(answers, a), a # "reject", Len(answers) < Len(Conn!Said),
         a \in Conn!Answerable(Conn!Said[Len(answers) + 1], Len(answers) + 1 = 1),
         host'.is = host.is, host'.attached \in BOOLEAN,
         host.is # "gone" =>
           (host'.attached <=> \/ Conn!Said[Len(answers) + 1] = "attach" /\ a = "none"
                               \/ host.attached /\ a # "detached")
  PROVE  answers' \in Seq(Replies) /\ Conn!Answered' /\ Conn!Attachment'
<1>1. /\ peer.sent \in Seq(Known) /\ answers \in Seq(Replies) /\ Conn!Answered /\ Conn!Attachment
      /\ host.attached \in BOOLEAN
  BY DEF ConnInv, Typed
<1>2. Conn!Said' = Conn!Said /\ Conn!Said \in Seq(Known)
  BY <1>1, SaidIs DEF Conn!Said
<1>3. /\ AnsweredTo(Conn!Said, answers, conn.at)
      /\ host.is # "gone" => (host.attached <=> AttachedBy(Conn!Said, answers))
  BY <1>1, AnsweredIs
<1>4. /\ AnsweredTo(Conn!Said, Append(answers, a), conn'.at)
      /\ AttachedBy(Conn!Said, Append(answers, a)) <=>
           \/ Conn!Said[Len(answers) + 1] = "attach" /\ a = "none"
           \/ AttachedBy(Conn!Said, answers) /\ a # "detached"
  <2>1. AnsweredTo(Conn!Said, Append(answers, a), conn'.at)
    BY <1>1, <1>2, <1>3, AnsweredOne
  <2>2. AttachedBy(Conn!Said, Append(answers, a)) <=>
           \/ Conn!Said[Len(answers) + 1] = "attach" /\ a = "none"
           \/ AttachedBy(Conn!Said, answers) /\ a # "detached"
    BY <1>1, AttachedOne
  <2> QED
    BY <2>1, <2>2
<1>5. Append(answers, a) \in Seq(Replies)
  BY <1>1, AppendProperties
<1>6. host'.is # "gone" => (host'.attached <=> AttachedBy(Conn!Said, Append(answers, a)))
  BY <1>3, <1>4
<1> QED
  BY <1>2, <1>4, <1>5, <1>6, AnsweredIs

(* Where a connection that talks is in what was sent *)
LEMMA TalkSays ==
  ASSUME ConnInv, conn.at \in {"shake", "serve"}
  PROVE  /\ Talks /\ Typed /\ Skipped(peer.sent) = Behind /\ Behind \in {0, 1}
         /\ Len(answers) \in Nat /\ Len(peer.sent) \in Nat
         /\ Taken \in Nat /\ Taken <= Len(peer.sent)
         /\ Len(Conn!Said) = Len(peer.sent) - Behind
         /\ \A i \in 1..Len(Conn!Said) : Conn!Said[i] = peer.sent[i + Behind]
         /\ Taken # Len(peer.sent) =>
              /\ conn.plane = "data" => peer.sent[Taken + 1] \in FrameItem \cup Broken
              /\ conn.plane = "control" => /\ peer.sent[Taken + 1] \in Conn!Spoken
                                           /\ peer.sent[Taken + 1] = "unended" => Taken + 1 = Len(peer.sent)
         /\ found = Conn!NoMessage => Taken = Len(answers) + Behind
         /\ found # Conn!NoMessage => Taken = Len(answers) + 1 + Behind
         /\ Len(answers) + 1 = 1 <=> conn.at = "shake"
<1> DEFINE s == peer.sent  len == Len(s)
<1>1. Talks /\ Typed /\ Planes /\ s # <<>>
  BY DEF ConnInv, Talks
<1>2. /\ s \in Seq(Known) /\ answers \in Seq(Replies) /\ Stream(s)
  BY <1>1 DEF Typed
<1>3. len \in Nat /\ len # 0 /\ 1 \in 1..len /\ Head(s) = s[1] /\ Len(answers) \in Nat
  <2>1. len \in Nat /\ Len(answers) \in Nat
    BY <1>2, LenProperties
  <2>2. len # 0
    BY <1>1, <1>2, EmptySeq, SeqEqual
  <2> QED
    BY <1>1, <1>2, <2>1, <2>2, HeadTailProperties
<1>4. Skipped(s) = Behind /\ Behind \in {0, 1}
  <2>1. CASE conn.plane = "data" /\ Head(s) = "magic"
    BY <1>1, <2>1 DEF Skipped, Behind
  <2>2. CASE conn.plane = "control" /\ Head(s) \in Conn!Spoken
    <3>1. Head(s) \notin {"magic", "junk"}
      BY <2>2 DEF Conn!Spoken
    <3> QED
      BY <2>2, <3>1 DEF Skipped, Behind
  <2> QED
    BY <1>1, <2>1, <2>2 DEF Planes
<1>5. Taken = Len(answers) + (IF found = Conn!NoMessage THEN 0 ELSE 1) + Behind
  BY DEF Taken
<1>6. Taken \in Nat
  BY <1>3, <1>4, <1>5
<1>7. Taken <= len
  <2>1. CASE Spell(Unread(decoder, wire), s, Taken)
    BY <2>1 DEF Spell
  <2>2. CASE Flushed
    BY <1>3, <1>6, <2>2 DEF Flushed
  <2> QED
    BY <1>1, <2>1, <2>2 DEF Talks
<1>8. /\ Len(Conn!Said) = len - Behind
      /\ \A i \in 1..Len(Conn!Said) : Conn!Said[i] = s[i + Behind]
  BY <1>2, <1>4, SaidIs
<1>9. ASSUME Taken # len
      PROVE  /\ conn.plane = "data" => s[Taken + 1] \in FrameItem \cup Broken
             /\ conn.plane = "control" => /\ s[Taken + 1] \in Conn!Spoken
                                          /\ s[Taken + 1] = "unended" => Taken + 1 = len
  <2> DEFINE k == Taken + 1
  <2>1. k \in 1..len
    BY <1>3, <1>6, <1>7, <1>9
  <2>2. /\ s[k] \in Known /\ (k > 1 => s[k] \notin {"magic", "junk"})
        /\ s[k] \in Conn!Spoken <=> s[1] \in Conn!Spoken
        /\ s[k] = "unended" => k = len
    BY <1>2, <2>1, ElementOfSeq DEF Stream
  <2>3. conn.plane = "data" => k > 1 /\ s[1] = "magic"
    <3>1. conn.plane = "data" => Behind = 1 /\ Head(s) = "magic"
      BY <1>1 DEF Behind, Planes
    <3>2. Behind = 1 => Taken >= 1
      BY <1>3, <1>4, <1>5
    <3> QED
      BY <1>3, <1>6, <3>1, <3>2
  <2>4. conn.plane = "control" => s[1] \in Conn!Spoken
    BY <1>1, <1>3 DEF Planes
  <2> HIDE DEF k
  <2>5. "magic" \notin Conn!Spoken
    BY DEF Conn!Spoken
  <2>6. conn.plane = "data" => s[k] \in FrameItem \cup Broken
    BY <2>2, <2>3, <2>5, ItemsAre DEF Known, FrameItem
  <2> QED
    BY <2>2, <2>4, <2>6 DEF k
<1>10. Len(answers) + 1 = 1 <=> conn.at = "shake"
  <2>1. conn.at = "shake" <=> answers = <<>>
    BY <1>1 DEF Talks
  <2>2. answers = <<>> <=> Len(answers) = 0
    BY <1>2, EmptySeq, SeqEqual
  <2> QED
    BY <1>3, <2>1, <2>2
<1> HIDE DEF s, len
<1>11. /\ found = Conn!NoMessage => Taken = Len(answers) + Behind
       /\ found # Conn!NoMessage => Taken = Len(answers) + 1 + Behind
  BY <1>3, <1>4, <1>5
<1> QED
  BY <1>1, <1>3, <1>4, <1>6, <1>7, <1>8, <1>9, <1>10, <1>11 DEF s, len

(* The message that is answered next is the next one said *)
LEMMA NextSaid ==
  ASSUME ConnInv, conn.at \in {"shake", "serve"}, NEW h,
         \/ found = Conn!NoMessage /\ Taken \in 0..Len(peer.sent) - 1 /\ h = peer.sent[Taken + 1]
         \/ found # Conn!NoMessage /\ Taken \in 1..Len(peer.sent) /\ h = peer.sent[Taken]
  PROVE  Len(answers) < Len(Conn!Said) /\ Conn!Said[Len(answers) + 1] = h
<1> DEFINE k == Len(answers) + 1  len == Len(peer.sent)
<1>1. /\ Behind \in {0, 1} /\ Len(answers) \in Nat /\ len \in Nat /\ Taken \in Nat
      /\ Len(Conn!Said) = len - Behind
      /\ \A i \in 1..Len(Conn!Said) : Conn!Said[i] = peer.sent[i + Behind]
      /\ found = Conn!NoMessage => Taken = Len(answers) + Behind
      /\ found # Conn!NoMessage => Taken = Len(answers) + 1 + Behind
  BY TalkSays
<1>2. /\ k + Behind \in 1..len /\ h = peer.sent[k + Behind]
  <2>1. CASE found = Conn!NoMessage
    <3>1. Taken + 1 = k + Behind /\ k + Behind \in 1..len
      BY <1>1, <2>1
    <3> QED
      BY <2>1, <3>1
  <2>2. CASE found # Conn!NoMessage
    <3>1. Taken = k + Behind /\ k + Behind \in 1..len
      BY <1>1, <2>2
    <3> QED
      BY <2>2, <3>1
  <2> QED
    BY <2>1, <2>2
<1>3. k \in 1..Len(Conn!Said) /\ Len(answers) < Len(Conn!Said)
  BY <1>1, <1>2
<1> HIDE DEF k
<1>4. Conn!Said[k] = h
  BY <1>1, <1>2, <1>3
<1> QED
  BY <1>3, <1>4 DEF k

(* A peer that sends: what it says is new, and at the end of the stream *)
LEMMA PeerSendsKeeps == ASSUME ConnectionAssumption, ConnInv, Conn!PeerSends PROVE ConnInv'
<1> DEFINE s == peer.sent  len == Len(s)
<1>1. PICK item \in Items :
        /\ peer.open
        /\ IF s = <<>> THEN item \in Conn!Opening ELSE item \in Conn!Spoken \/ item \notin Conn!Opening
        /\ \A i \in DOMAIN s : (s[i] \in Conn!Spoken <=> item \in Conn!Spoken) /\ s[i] # "unended"
        /\ peer' = [peer EXCEPT !.sent = Append(@, item)] /\ wire' = wire \o Conn!Bytes[item]
        /\ UNCHANGED <<conn, decoder, found, host, answers>>
  BY Zenon DEF Conn!PeerSends
<1>2. /\ peer \in [sent : Seq(Known), open : BOOLEAN] /\ s \in Seq(Known) /\ Stream(s) /\ wire \in Seq(Nat)
      /\ answers \in Seq(Replies) /\ Typed
  BY DEF ConnInv, Typed
<1>3. item \in Known /\ Conn!Bytes[item] \in Seq(Nat)
  BY <1>1, SomeBytes DEF ConnectionAssumption, Known
<1> DEFINE more == Append(s, item)
<1>4. /\ more \in Seq(Known) /\ Len(more) = len + 1 /\ len \in Nat /\ \A i \in 1..len : more[i] = s[i]
      /\ more[len + 1] = item /\ DOMAIN s = 1..len
  <2>1. more \in Seq(Known) /\ Len(more) = len + 1 /\ more[len + 1] = item
    BY <1>2, <1>3, AppendProperties
  <2>2. \A i \in 1..len : more[i] = s[i]
    BY <1>2, <1>3, AppendProperties
  <2> QED
    BY <1>2, <2>1, <2>2, LenProperties
<1>5. peer' = [sent |-> more, open |-> peer.open] /\ peer'.sent = more /\ peer'.open = peer.open
  BY <1>1, <1>2
<1>6. wire' \in Seq(Nat)
  BY <1>1, <1>2, <1>3, ConcatProperties
<1>7. s = <<>> <=> len = 0
  BY <1>2, EmptySeq, SeqEqual
<1> HIDE DEF more, len
<1>8. Stream(more)
  <2> SUFFICES ASSUME NEW i \in 1..Len(more)
               PROVE  /\ i = 1 => more[i] \in Conn!Opening
                      /\ i > 1 => more[i] \notin {"magic", "junk"}
                      /\ more[i] \in Conn!Spoken <=> more[1] \in Conn!Spoken
                      /\ more[i] = "unended" => i = Len(more)
    BY <1>4 DEF Stream
  <2>1. CASE i = len + 1
    <3>1. CASE len = 0
      BY <1>1, <1>4, <1>7, <2>1, <3>1
    <3>2. CASE len # 0
      <4>1. 1 \in 1..len /\ i > 1 /\ more[1] = s[1] /\ more[i] = item
        BY <1>4, <2>1, <3>2
      <4>2. item \notin {"magic", "junk"}
        <5>1. item \in Conn!Spoken \/ item \notin Conn!Opening
          BY <1>1, <1>7, <3>2
        <5> QED
          BY <5>1 DEF Conn!Opening, Conn!Spoken
      <4>3. s[1] \in Conn!Spoken <=> item \in Conn!Spoken
        BY <1>1, <1>4, <4>1
      <4> QED
        BY <1>4, <2>1, <4>1, <4>2, <4>3
    <3> QED
      BY <3>1, <3>2
  <2>2. CASE i # len + 1
    <3>1. i \in 1..len /\ 1 \in 1..len /\ more[i] = s[i] /\ more[1] = s[1]
      BY <1>4, <2>2
    <3>2. /\ i = 1 => s[i] \in Conn!Opening
          /\ i > 1 => s[i] \notin {"magic", "junk"}
          /\ s[i] \in Conn!Spoken <=> s[1] \in Conn!Spoken
          /\ s[i] # "unended"
      BY <1>1, <1>2, <1>4, <3>1 DEF Stream, len
    <3> QED
      BY <3>1, <3>2
  <2> QED
    BY <2>1, <2>2
<1>9. Typed'
  <2>1. peer' \in [sent : Seq(Known), open : BOOLEAN] /\ Stream(peer'.sent)
    BY <1>2, <1>4, <1>5, <1>8
  <2> QED
    BY <1>1, <1>2, <1>6, <2>1 DEF Typed
<1>10. ASSUME conn.at = "sniff" PROVE Sniffing'
  <2>1. Sniffing
    BY <1>10 DEF ConnInv
  <2>2. Spell(wire', more, 0)
    BY <1>1, <1>3, <2>1, SpellsMore DEF Sniffing, more
  <2> QED
    BY <1>1, <1>5, <2>1, <2>2 DEF Sniffing
<1>11. ASSUME conn.at \in {"shake", "serve"} PROVE Talks'
  <2>1. /\ Talks /\ s # <<>> /\ Decoder(decoder)
    BY <1>11 DEF ConnInv, Talks
  <2>2. Taken' = Taken /\ Behind' = Behind
    BY <1>1 DEF Taken, Behind
  <2>3. Head(more) = Head(s) /\ more # <<>>
    <3>1. 1 \in 1..len /\ Len(more) # 0
      BY <1>4, <1>7, <2>1
    <3>2. Head(s) = s[1] /\ more # <<>> /\ Head(more) = more[1]
      BY <1>2, <1>4, <2>1, <3>1, HeadTailProperties, EmptySeq
    <3> QED
      BY <1>4, <3>1, <3>2
  <2>4. Planes'
    BY <1>1, <1>5, <2>1, <2>3 DEF Planes, Talks
  <2>5. Spell(Unread(decoder, wire), s, Taken)
    BY <1>1, <2>1 DEF Talks, Flushed
  <2>6. Unread(decoder, wire') = Unread(decoder, wire) \o Conn!Bytes[item]
    <3> DEFINE kept == SubSeq(decoder.buf, decoder.pos + 1, Len(decoder.buf))
    <3>1. kept \in Seq(Nat)
      <4>1. decoder.buf \in Seq(Nat) /\ decoder.pos \in 0..Len(decoder.buf)
        BY <2>1 DEF Decoder
      <4> QED
        BY <4>1, RestOf
    <3>2. Unread(decoder, wire) = kept \o wire /\ Unread(decoder, wire') = kept \o wire'
      BY DEF Unread
    <3> HIDE DEF kept
    <3>3. (kept \o wire) \o Conn!Bytes[item] = kept \o (wire \o Conn!Bytes[item])
      BY <1>2, <1>3, <3>1, Grouped
    <3> QED
      BY <1>1, <3>2, <3>3, Zenon
  <2>7. Spell(Unread(decoder, wire'), more, Taken)
    BY <1>3, <2>5, <2>6, SpellsMore DEF more
  <2>8. InHand => InHand'
    <3> SUFFICES ASSUME InHand PROVE InHand'
      OBVIOUS
    <3>1. PICK h \in Told : found = Message(h) /\ Taken \in 1..len /\ s[Taken] = h
      BY DEF InHand, len
    <3>2. Taken \in 1..Len(more) /\ more[Taken] = h
      BY <1>4, <3>1
    <3>3. found' = Message(h) /\ Taken' \in 1..Len(peer'.sent) /\ peer'.sent[Taken'] = h
      BY <1>1, <1>5, <2>2, <3>1, <3>2
    <3> QED
      BY <3>3 DEF InHand
  <2>9. Spell(Unread(decoder, wire)', peer'.sent, Taken')
    BY <1>1, <1>5, <2>2, <2>7 DEF Unread
  <2> QED
    BY <1>1, <1>5, <2>1, <2>3, <2>4, <2>8, <2>9 DEF Talks
<1>12. Conn!Answered' /\ Conn!Attachment'
  <2>1. /\ Conn!Said \in Seq(Known) /\ Len(Conn!Said) = len - Skipped(s)
        /\ \A i \in 1..len - Skipped(s) : Conn!Said[i] = s[i + Skipped(s)]
    BY <1>2, SaidIs DEF len
  <2>2. /\ Conn!Said' \in Seq(Known) /\ Len(Conn!Said') = Len(more) - Skipped(more)
        /\ \A i \in 1..Len(more) - Skipped(more) : Conn!Said'[i] = more[i + Skipped(more)]
    <3>1. peer'.sent \in Seq(Known)
      BY <1>4, <1>5
    <3>2. /\ Conn!Said' \in Seq(Known) /\ Len(Conn!Said') = Len(peer'.sent) - Skipped(peer'.sent)
          /\ \A i \in 1..Len(peer'.sent) - Skipped(peer'.sent) : Conn!Said'[i] = peer'.sent[i + Skipped(peer'.sent)]
      <4>1. Conn!Said' = SaidOf(peer'.sent)
        BY DEF Conn!Said, SaidOf
      <4> QED
        BY <3>1, <4>1, SaidOfIs
    <3> QED
      BY <1>5, <3>2
  <2>3. /\ Len(Conn!Said) <= Len(Conn!Said') /\ \A i \in 1..Len(Conn!Said) : Conn!Said'[i] = Conn!Said[i]
    <3>1. CASE len = 0
      <4>1. Skipped(s) = 0 /\ Skipped(more) \in {0, 1}
        BY <1>7, <3>1 DEF Skipped
      <4> QED
        BY <1>4, <2>1, <2>2, <3>1, <4>1
    <3>2. CASE len # 0
      <4>1. Head(s) = s[1] /\ more # <<>> /\ s # <<>> /\ Head(more) = more[1] /\ 1 \in 1..len
        <5>1. 1 \in 1..len /\ Len(more) # 0
          BY <1>4, <3>2
        <5> QED
          BY <1>2, <1>4, <1>7, <3>2, <5>1, HeadTailProperties, EmptySeq
      <4>2. Skipped(more) = Skipped(s) /\ Skipped(s) \in {0, 1}
        BY <1>4, <4>1 DEF Skipped
      <4> DEFINE q == Skipped(s)
      <4>3. /\ q \in {0, 1} /\ Len(Conn!Said) = len - q /\ Len(Conn!Said') = len + 1 - q
            /\ \A i \in 1..len - q : Conn!Said[i] = s[i + q]
            /\ \A i \in 1..len + 1 - q : Conn!Said'[i] = more[i + q]
        BY <1>4, <2>1, <2>2, <4>2
      <4> HIDE DEF q
      <4>4. ASSUME NEW i \in 1..len - q PROVE i \in 1..len + 1 - q /\ i + q \in 1..len
        BY <1>4, <4>3
      <4>5. \A i \in 1..len - q : Conn!Said'[i] = Conn!Said[i]
        BY <1>4, <4>3, <4>4
      <4> QED
        BY <1>4, <4>3, <4>5
    <3> QED
      BY <3>1, <3>2
  <2>4. AnsweredTo(Conn!Said, answers, conn.at)
    BY AnsweredIs DEF ConnInv
  <2>5. /\ AnsweredTo(Conn!Said', answers, conn.at)
        /\ AttachedBy(Conn!Said', answers) <=> AttachedBy(Conn!Said, answers)
    BY <1>2, <2>1, <2>2, <2>3, <2>4, AnsweredStill
  <2>6. answers' = answers /\ conn' = conn /\ host' = host
    BY <1>1
  <2>7. Conn!Attachment
    BY DEF ConnInv
  <2> QED
    BY <2>5, <2>6, <2>7, AnsweredIs
<1> QED
  BY <1>1, <1>9, <1>10, <1>11, <1>12 DEF ConnInv

(* No answer, and no end *)
LEMMA AnsweredSame ==
  ASSUME ConnInv, peer'.sent = peer.sent, answers' = answers,
         conn'.at = "closed" <=> conn.at = "closed",
         host'.is # "gone" => host.is # "gone" /\ host'.attached = host.attached
  PROVE  Conn!Answered' /\ Conn!Attachment'
<1>1. Conn!Answered /\ Conn!Attachment
  BY DEF ConnInv
<1>2. Conn!Said' = Conn!Said
  BY DEF Conn!Said
<1>3. AnsweredTo(Conn!Said, answers, conn.at) => AnsweredTo(Conn!Said, answers, conn'.at)
  BY DEF AnsweredTo
<1> QED
  BY <1>1, <1>2, <1>3, AnsweredIs

(* The peer closes, the Surface ends or is removed, nothing happens      *)
LEMMA OthersKeep ==
  ASSUME ConnInv, Conn!PeerCloses \/ Conn!Exit \/ Conn!Forget \/ UNCHANGED connVars
  PROVE  ConnInv'
<1>1. Typed
  BY DEF ConnInv
<1>2. /\ conn' = conn /\ decoder' = decoder /\ found' = found /\ answers' = answers /\ wire' = wire
      /\ peer'.sent = peer.sent /\ (~peer.open => ~peer'.open)
      /\ peer' \in [sent : Seq(Known), open : BOOLEAN]
      /\ host' \in [is : {"running", "exited", "gone"}, attached : BOOLEAN]
      /\ host'.is # "gone" => host.is # "gone" /\ host'.attached = host.attached
  <2>1. CASE Conn!PeerCloses
    BY <1>1, <2>1 DEF Conn!PeerCloses, Typed
  <2>2. CASE Conn!Exit
    BY <1>1, <2>2 DEF Conn!Exit, Typed
  <2>3. CASE Conn!Forget
    BY <1>1, <2>3 DEF Conn!Forget, Typed
  <2>4. CASE UNCHANGED connVars
    BY <1>1, <2>4 DEF connVars, Typed
  <2> QED
    BY <2>1, <2>2, <2>3, <2>4
<1>3. Conn!Answered' /\ Conn!Attachment'
  BY <1>2, AnsweredSame
<1>4. Typed'
  BY <1>1, <1>2 DEF Typed
<1>5. Sniffing => Sniffing'
  BY <1>2 DEF Sniffing
<1>6. Taken' = Taken /\ Behind' = Behind
  BY <1>2 DEF Taken, Behind
<1>7. (Flushed => Flushed') /\ (InHand => InHand') /\ (Planes => Planes')
  BY <1>2, <1>6 DEF Flushed, InHand, Planes
<1>8. Unread(decoder, wire)' = Unread(decoder, wire)
  BY <1>2 DEF Unread
<1>9. Talks => Talks'
  BY <1>2, <1>6, <1>7, <1>8 DEF Talks
<1> QED
  BY <1>2, <1>3, <1>4, <1>5, <1>9 DEF ConnInv

(* A handshake that times out, a client that is closed                   *)
LEMMA ExpireKeeps == ASSUME ConnInv, Conn!Expire \/ Conn!CloseClient PROVE ConnInv'
<1>1. conn.at # "closed" /\ peer' = peer /\ wire' = wire /\ Conn!Ends(<<>>)
  BY DEF Conn!Expire, Conn!CloseClient
<1>2. wire' \in Seq(Nat)
  BY <1>1 DEF ConnInv, Typed
<1> QED
  BY <1>1, <1>2, EndsKeeps

(* Bytes read are taken from the wire into the decoder *)
LEMMA ReadKeeps == ASSUME ConnInv, Conn!Read PROVE ConnInv'
<1>1. PICK m \in 1..Len(wire) :
        /\ Conn!Wants /\ decoder' = Conn!Push(decoder, SubSeq(wire, 1, m))
        /\ wire' = SubSeq(wire, m + 1, Len(wire))
        /\ UNCHANGED <<peer, conn, found, host, answers>>
  BY DEF Conn!Read
<1>2. Typed /\ wire \in Seq(Nat) /\ conn.at \in {"shake", "serve"} /\ Talks
  <2>1. conn.at \in {"shake", "serve"}
    BY <1>1 DEF Conn!Wants, Conn!Talking
  <2> QED
    BY <2>1 DEF ConnInv, Typed
<1>3. Decoder(decoder) /\ ~decoder.poisoned
  BY <1>2 DEF Talks
<1>4. /\ Decoder(decoder') /\ decoder'.poisoned = decoder.poisoned /\ (decoder.pos = 0 => decoder'.pos = 0)
      /\ wire' \in Seq(Nat) /\ Unread(decoder', wire') = Unread(decoder, wire)
  BY <1>1, <1>2, <1>3, PushKeeps
<1>5. ~Flushed
  <2>1. SUFFICES ASSUME Flushed PROVE FALSE
    OBVIOUS
  <2>2. wire = <<>>
    BY <2>1 DEF Flushed
  <2> QED
    BY <1>1, <2>2
<1>6. Taken' = Taken /\ Behind' = Behind /\ (InHand => InHand') /\ (Planes => Planes')
  BY <1>1, <1>4 DEF Taken, Behind, InHand, Planes
<1>7. Talks'
  <2>1. Spell(Unread(decoder, wire), peer.sent, Taken)
    BY <1>2, <1>5 DEF Talks
  <2>2. Spell(Unread(decoder, wire)', peer'.sent, Taken')
    BY <1>1, <1>4, <1>6, <2>1
  <2> QED
    BY <1>1, <1>2, <1>4, <1>6, <2>2 DEF Talks
<1>8. Typed'
  BY <1>1, <1>2, <1>4 DEF Typed
<1>9. Conn!Answered' /\ Conn!Attachment'
  BY <1>1, AnsweredSame
<1> QED
  BY <1>1, <1>2, <1>7, <1>8, <1>9 DEF ConnInv

(* The first bytes of an item tell a data client from a control client   *)
LEMMA FirstByte ==
  ASSUME ConnectionAssumption
  PROVE  /\ \A h \in {"magic", "junk"} :
              /\ Len(Conn!Bytes[h]) = 2 /\ Conn!Bytes[h][1] = 255 /\ (Conn!Bytes[h][2] = 83 <=> h = "magic")
         /\ \A h \in Conn!Spoken : Len(Conn!Bytes[h]) >= 1 /\ Conn!Bytes[h][1] \in {123, 10}
<1>1. ASSUME NEW h \in {"magic", "junk"}
      PROVE  Len(Conn!Bytes[h]) = 2 /\ Conn!Bytes[h][1] = 255 /\ (Conn!Bytes[h][2] = 83 <=> h = "magic")
  BY <1>1, ShortBytes
<1>2. ASSUME NEW h \in Conn!Spoken PROVE Len(Conn!Bytes[h]) >= 1 /\ Conn!Bytes[h][1] \in {123, 10}
  <2>1. CASE h = "blank"
    BY <2>1, ShortBytes
  <2>2. CASE h \in Ended /\ h # "blank"
    <3>1. \E a \in {1, 2, 3, 4, 5} : Conn!Bytes[h] = <<123, a, 10>>
      BY <2>2, LineBytes
    <3> QED
      BY <3>1
  <2>3. CASE h = "unended"
    BY <2>3, UnendedBytes
  <2>4. CASE h = "endless"
    <3>1. MaxLine \in Nat /\ 1 \in 1..MaxLine + 1
      BY DEF ConnectionAssumption
    <3>2. Conn!Bytes["endless"][1] = IF 1 = 1 THEN 123 ELSE 4
      BY <3>1, EndlessBytes
    <3>3. Len(Conn!Bytes["endless"]) = MaxLine + 1
      BY EndlessBytes
    <3> QED
      BY <2>4, <3>1, <3>2, <3>3
  <2> QED
    BY <2>1, <2>2, <2>3, <2>4, ItemsAre
<1> QED
  BY <1>1, <1>2

(* The first bytes tell the plane, and are those of the first item *)
LEMMA SniffKeeps == ASSUME ConnectionAssumption, ConnInv, Conn!Sniff PROVE ConnInv'
<1> DEFINE s == peer.sent  h == s[1]  b == Conn!Bytes[h]
<1>1. conn.at = "sniff" /\ Sniffing /\ Typed /\ wire # <<>> /\ wire \in Seq(Nat) /\ Len(wire) \in Nat /\ peer' = peer
  <2>1. conn.at = "sniff" /\ wire # <<>> /\ peer' = peer
    BY DEF Conn!Sniff
  <2>2. Sniffing /\ Typed /\ wire \in Seq(Nat)
    BY <2>1 DEF ConnInv, Typed
  <2> QED
    BY <2>1, <2>2, LenProperties
<1>2. /\ Spell(wire, s, 0) /\ decoder = Fresh /\ answers = <<>> /\ found = Conn!NoMessage /\ conn.plane = "none"
  BY <1>1 DEF Sniffing
<1>3. 0 # Len(s)
  BY <1>1, <1>2, SpellsNothing
<1>4. /\ h \in Known /\ Len(b) <= Len(wire) /\ (\A j \in 1..Len(b) : wire[j] = b[j])
      /\ Spell(SubSeq(wire, Len(b) + 1, Len(wire)), s, 1)
  <2>1. 0 + 1 = 1
    OBVIOUS
  <2> QED
    BY <1>2, <1>3, <2>1, SpellsItem
<1>5. s \in Seq(Known) /\ Stream(s) /\ Len(s) \in Nat /\ 1 \in 1..Len(s) /\ s # <<>> /\ Head(s) = h
  <2>1. s \in Seq(Known) /\ Stream(s) /\ Len(s) \in Nat
    BY <1>1, LenProperties DEF Typed
  <2>2. 1 \in 1..Len(s) /\ s # <<>>
    BY <1>3, <2>1
  <2> QED
    BY <2>1, <2>2, HeadTailProperties
<1>6. h \in {"magic", "junk"} \/ h \in Conn!Spoken
  BY <1>5 DEF Stream, Conn!Opening
<1>7. /\ h \in {"magic", "junk"} => Len(b) = 2 /\ wire[1] = 255 /\ (wire[2] = 83 <=> h = "magic")
      /\ h \in Conn!Spoken => wire[1] \in {123, 10}
  <2>1. CASE h \in {"magic", "junk"}
    <3>1. Len(b) = 2 /\ b[1] = 255 /\ (b[2] = 83 <=> h = "magic")
      BY <2>1, FirstByte
    <3>2. h \notin Conn!Spoken
      BY <2>1 DEF Conn!Spoken
    <3> HIDE DEF b, h
    <3>3. 1 \in 1..Len(b) /\ 2 \in 1..Len(b)
      BY <3>1
    <3> QED
      BY <1>4, <3>1, <3>2, <3>3
  <2>2. CASE h \in Conn!Spoken
    <3>1. Len(b) >= 1 /\ b[1] \in {123, 10} /\ Len(b) \in Nat
      BY <1>4, <2>2, FirstByte, SomeBytes
    <3>2. h \notin {"magic", "junk"}
      BY <2>2 DEF Conn!Spoken
    <3> HIDE DEF b, h
    <3>3. 1 \in 1..Len(b)
      BY <3>1
    <3> QED
      BY <1>4, <3>1, <3>2, <3>3
  <2> QED
    BY <1>6, <2>1, <2>2
<1> HIDE DEF h, b, s
<1>8. Head(wire) = wire[1] /\ Conn!Brace = 123 /\ Conn!Magic = <<255, 83>>
      /\ Conn!Magic[1] = 255 /\ Conn!Magic[2] = 83
  BY <1>1, TypesAre, HeadTailProperties
<1>9. /\ Tail(wire) \in Seq(Nat) /\ Len(Tail(wire)) = Len(wire) - 1
      /\ \A i \in 1..Len(wire) - 1 : Tail(wire)[i] = wire[i + 1]
  BY <1>1, HeadTailProperties
<1>10. CASE conn' = [at |-> "shake", plane |-> "control"]
  <2>1. /\ Head(wire) = 123 /\ decoder' = [decoder EXCEPT !.buf = <<123>>] /\ wire' = Tail(wire)
        /\ UNCHANGED <<found, host, answers>>
    <3>1. conn' # [at |-> "shake", plane |-> "data"] /\ ~Conn!Ends(<<>>)
      <4>1. conn'.plane = "control" /\ conn'.at = "shake"
        BY <1>10
      <4>2. Conn!Ends(<<>>) => conn'.at = "closed"
        BY <1>1 DEF Conn!Ends, Typed
      <4> QED
        BY <4>1, <4>2
    <3> QED
      BY <1>8, <3>1 DEF Conn!Sniff
  <2>2. decoder' = [buf |-> <<123>>, pos |-> 0, poisoned |-> FALSE]
    BY <1>2, <2>1 DEF Fresh
  <2>3. Decoder(decoder') /\ ~decoder'.poisoned /\ decoder'.pos = 0
    <3>1. <<123>> \in Seq(Nat) /\ 0 <= Len(<<123>>)
      OBVIOUS
    <3> QED
      BY <2>2, <3>1 DEF Decoder
  <2>4. Unread(decoder', wire') = wire
    <3> DEFINE u == <<123>>  v == Tail(wire)
    <3>1. u \in Seq(Nat) /\ Len(u) = 1 /\ u[1] = 123
      BY Tuples
    <3>2. Unread(decoder', wire') = u \o v
      <4>1. decoder'.buf = u /\ decoder'.pos + 1 = 1 /\ wire' = v
        BY <2>1, <2>2
      <4>2. SubSeq(u, 1, Len(u)) = u
        BY <3>1, SubSeqFull
      <4> HIDE DEF u, v
      <4> QED
        BY <4>1, <4>2 DEF Unread
    <3>3. v \in Seq(Nat) /\ Len(v) = Len(wire) - 1 /\ \A i \in 1..Len(wire) - 1 : v[i] = wire[i + 1]
      BY <1>9
    <3> HIDE DEF u, v
    <3> DEFINE all == u \o v
    <3>4. /\ all \in Seq(Nat) /\ Len(all) = Len(u) + Len(v)
          /\ \A i \in 1..Len(u) + Len(v) : all[i] = IF i <= Len(u) THEN u[i] ELSE v[i - Len(u)]
      <4>1. u \in Seq(Nat) /\ v \in Seq(Nat)
        BY <3>1, <3>3
      <4> QED
        BY <4>1, ConcatProperties
    <3> HIDE DEF all
    <3>5. Len(wire) # 0
      BY <1>1, EmptySeq, SeqEqual
    <3>6. Len(all) = Len(wire)
      BY <1>1, <3>1, <3>3, <3>4, <3>5
    <3>7. ASSUME NEW i \in 1..Len(all) PROVE all[i] = wire[i]
      <4>1. CASE i = 1
        <5>1. i \in 1..Len(u) + Len(v) /\ i <= Len(u)
          BY <3>1, <3>4, <4>1
        <5>2. all[i] = u[1]
          BY <3>4, <4>1, <5>1
        <5> QED
          BY <1>8, <2>1, <3>1, <4>1, <5>2
      <4>2. CASE i # 1
        <5>1. i - 1 \in 1..Len(wire) - 1 /\ ~(i <= 1) /\ i - 1 + 1 = i
          BY <1>1, <3>6, <4>2
        <5>2. i \in 1..Len(u) + Len(v)
          BY <3>4
        <5>3. all[i] = v[i - 1]
          BY <3>1, <3>4, <5>1, <5>2
        <5>4. v[i - 1] = wire[i - 1 + 1]
          BY <3>3, <5>1
        <5> QED
          BY <5>1, <5>3, <5>4
      <4> QED
        BY <4>1, <4>2
    <3>8. all = wire
      BY <1>1, <3>4, <3>6, <3>7, SeqEqual
    <3> QED
      BY <3>2, <3>8 DEF all
  <2>5. h \in Conn!Spoken
    BY <1>6, <1>7, <1>8, <2>1
  <2>6. Taken' = 0
    BY <1>2, <1>10, <2>1 DEF Taken, Behind
  <2>7. Talks'
    <3>1. Spell(Unread(decoder, wire)', peer'.sent, Taken')
      <4>1. Unread(decoder, wire)' = Unread(decoder', wire')
        BY DEF Unread
      <4> QED
        BY <1>1, <1>2, <2>4, <2>6, <4>1 DEF s
    <3>2. Planes'
      BY <1>1, <1>2, <1>5, <1>10, <2>1, <2>3, <2>5 DEF Planes, s
    <3> QED
      BY <1>1, <1>2, <1>5, <1>10, <2>1, <2>3, <3>1, <3>2 DEF Talks, s
  <2>8. Typed'
    BY <1>1, <1>9, <1>10, <2>1 DEF Typed
  <2>9. Conn!Answered' /\ Conn!Attachment'
    BY <1>1, <1>10, <2>1, AnsweredSame
  <2> QED
    BY <1>10, <2>1, <2>7, <2>8, <2>9 DEF ConnInv
<1>11. CASE conn' = [at |-> "shake", plane |-> "data"]
  <2>1. /\ Head(wire) = 255 /\ Len(wire) >= 2 /\ wire' = SubSeq(wire, 3, Len(wire)) /\ wire[2] = 83
        /\ UNCHANGED <<decoder, found, host, answers>>
    <3>1. conn' # [at |-> "shake", plane |-> "control"] /\ ~Conn!Ends(<<>>)
      <4>1. conn'.plane = "data" /\ conn'.at = "shake"
        BY <1>11
      <4>2. Conn!Ends(<<>>) => conn'.at = "closed"
        BY <1>1 DEF Conn!Ends, Typed
      <4> QED
        BY <4>1, <4>2
    <3> QED
      BY <1>8, <3>1 DEF Conn!Sniff
  <2>2. h = "magic" /\ Len(b) = 2
    BY <1>6, <1>7, <1>8, <2>1
  <2>3. Spell(wire', s, 1)
    BY <1>4, <2>1, <2>2
  <2>4. wire' \in Seq(Nat)
    BY <2>3 DEF Spell
  <2>5. Decoder(decoder') /\ ~decoder'.poisoned /\ Unread(decoder', wire') = wire'
    <3>1. decoder' = Fresh
      BY <1>2, <2>1
    <3>2. SubSeq(decoder'.buf, decoder'.pos + 1, Len(decoder'.buf)) = <<>>
      BY <3>1, SubSeqEmpty DEF Fresh
    <3>3. <<>> \o wire' = wire'
      BY <2>4, ConcatEmptySeq
    <3>4. Unread(decoder', wire') = wire'
      BY <3>2, <3>3, Zenon DEF Unread
    <3>5. Decoder(decoder') /\ ~decoder'.poisoned
      BY <3>1 DEF Fresh, Decoder
    <3> QED
      BY <3>4, <3>5
  <2>6. Taken' = 1
    BY <1>2, <1>11, <2>1 DEF Taken, Behind
  <2>7. Talks'
    <3>1. Spell(Unread(decoder, wire)', peer'.sent, Taken')
      <4>1. Unread(decoder, wire)' = Unread(decoder', wire')
        BY DEF Unread
      <4> QED
        BY <1>1, <2>3, <2>5, <2>6, <4>1 DEF s
    <3>2. Planes'
      BY <1>1, <1>5, <1>11, <2>2 DEF Planes, s
    <3> QED
      BY <1>1, <1>2, <1>5, <1>11, <2>1, <2>5, <3>1, <3>2 DEF Talks, s
  <2>8. Typed'
    BY <1>1, <1>11, <2>1, <2>4 DEF Typed
  <2>9. Conn!Answered' /\ Conn!Attachment'
    BY <1>1, <1>11, <2>1, AnsweredSame
  <2> QED
    BY <1>11, <2>1, <2>7, <2>8, <2>9 DEF ConnInv
<1>12. CASE Conn!Ends(<<>>) /\ wire' \in Seq(Nat)
  BY <1>1, <1>12, EndsKeeps
<1>13. \/ conn' = [at |-> "shake", plane |-> "control"] \/ conn' = [at |-> "shake", plane |-> "data"]
       \/ Conn!Ends(<<>>) /\ wire' = Tail(wire)
       \/ Conn!Ends(<<>>) /\ Len(wire) >= 2 /\ wire' = SubSeq(wire, 3, Len(wire))
  BY Zenon DEF Conn!Sniff
<1>14. Len(wire) >= 2 => SubSeq(wire, 3, Len(wire)) \in Seq(Nat)
  <2>1. SUFFICES ASSUME Len(wire) >= 2 PROVE SubSeq(wire, 3, Len(wire)) \in Seq(Nat)
    OBVIOUS
  <2>2. 2 \in 0..Len(wire) /\ 2 + 1 = 3
    BY <1>1, <2>1
  <2>3. SubSeq(wire, 2 + 1, Len(wire)) \in Seq(Nat)
    BY <1>1, <2>2, RestOf
  <2> QED
    BY <2>2, <2>3
<1> QED
  BY <1>9, <1>10, <1>11, <1>12, <1>13, <1>14

(* Nothing of a line is taken before all of it is                        *)
LEMMA BufferIs ==
  ASSUME NEW d, Decoder(d), d.pos = 0, NEW bytes \in Seq(Nat)
  PROVE  d.buf \in Seq(Nat) /\ Unread(d, bytes) = d.buf \o bytes /\ Unread(d, <<>>) = d.buf
<1>1. d.buf \in Seq(Nat) /\ d.pos + 1 = 1
  BY DEF Decoder
<1>2. SubSeq(d.buf, 1, Len(d.buf)) = d.buf
  BY <1>1, SubSeqFull
<1>3. d.buf \o <<>> = d.buf
  BY <1>1, ConcatEmptySeq
<1> QED
  BY <1>1, <1>2, <1>3, Zenon DEF Unread

(* The end of the stream ends the last line, if it had no end *)
LEMMA EofKeeps == ASSUME ConnectionAssumption, ConnInv, Conn!Eof PROVE ConnInv'
<1>1. /\ wire = <<>> /\ ~peer.open /\ peer' = peer /\ wire' = wire
      /\ conn.at = "sniff" \/ Conn!Wants
  BY DEF Conn!Eof
<1>2. Typed /\ wire \in Seq(Nat) /\ conn.at # "closed"
  BY <1>1 DEF ConnInv, Typed, Conn!Wants, Conn!Talking
<1>3. CASE ~(conn.plane = "control" /\ decoder.buf # <<>>)
  <2>1. Conn!Ends(<<>>)
    BY <1>3 DEF Conn!Eof
  <2> QED
    BY <1>1, <1>2, <2>1, EndsKeeps
<1>4. CASE conn.plane = "control" /\ decoder.buf # <<>>
  <2>1. decoder' = [decoder EXCEPT !.buf = Append(@, Conn!Newline)] /\ UNCHANGED <<conn, found, host, answers>>
    BY <1>4 DEF Conn!Eof
  <2>2. conn.at # "sniff"
    BY <1>4 DEF ConnInv, Sniffing
  <2>3. conn.at \in {"shake", "serve"} /\ Talks /\ Conn!LineEnd(decoder.buf) = 0 /\ ~Conn!TooLong(decoder.buf)
    BY <1>1, <1>4, <2>2 DEF Conn!Wants, Conn!Talking, ConnInv
  <2>4. /\ Decoder(decoder) /\ ~decoder.poisoned /\ decoder.pos = 0 /\ found = Conn!NoMessage /\ peer.sent # <<>>
        /\ Planes
    BY <1>4, <2>3 DEF Talks, Planes
  <2>5. ~Flushed
    BY <2>3, FlushedHeard DEF Flushed
  <2>6. Spell(decoder.buf, peer.sent, Taken)
    <3>1. Spell(Unread(decoder, wire), peer.sent, Taken)
      BY <2>3, <2>5 DEF Talks
    <3>2. Unread(decoder, wire) = decoder.buf
      BY <1>1, <1>2, <2>4, BufferIs
    <3> QED
      BY <3>1, <3>2
  <2>7. Taken # Len(peer.sent) =>
          /\ peer.sent[Taken + 1] \in Conn!Spoken
          /\ peer.sent[Taken + 1] = "unended" => Taken + 1 = Len(peer.sent)
    BY <1>4, <2>3, TalkSays
  <2>8. /\ Taken + 1 = Len(peer.sent) /\ peer.sent[Taken + 1] = "unended" /\ decoder.buf = Conn!Bytes["unended"]
    BY <1>4, <2>3, <2>6, <2>7, EndHeard
  <2> DEFINE more == Append(decoder.buf, Conn!Newline)
  <2>9. more \in Seq(Nat) /\ 0 <= Len(more)
    <3>1. more = Append(Conn!Bytes["unended"], Conn!Newline)
      BY <2>8
    <3> HIDE DEF more
    <3>2. more \in Seq(Nat)
      BY <3>1, FlushedHeard
    <3> QED
      BY <3>2, LenProperties
  <2>10. decoder' = [buf |-> more, pos |-> 0, poisoned |-> FALSE]
    <3>1. decoder = [buf |-> decoder.buf, pos |-> decoder.pos, poisoned |-> decoder.poisoned]
      BY <2>4 DEF Decoder
    <3>2. decoder.poisoned = FALSE
      BY <2>4 DEF Decoder
    <3> HIDE DEF more
    <3> QED
      BY <2>1, <2>4, <3>1, <3>2 DEF more
  <2> HIDE DEF more
  <2>11. Decoder(decoder') /\ ~decoder'.poisoned /\ decoder'.pos = 0 /\ decoder'.buf = more
    BY <2>9, <2>10 DEF Decoder
  <2>12. Taken' = Taken /\ Planes'
    BY <1>1, <2>1, <2>4, <2>11 DEF Taken, Behind, Planes
  <2>13. Flushed'
    <3>1. Spell(Conn!Bytes["unended"], peer'.sent, Taken')
      BY <1>1, <2>6, <2>8, <2>12
    <3> QED
      BY <1>1, <1>4, <2>1, <2>8, <2>11, <2>12, <3>1 DEF Flushed, more
  <2>14. Talks'
    BY <1>1, <2>1, <2>3, <2>4, <2>11, <2>12, <2>13 DEF Talks
  <2>15. Typed'
    BY <1>1, <1>2, <2>1 DEF Typed
  <2>16. Conn!Answered' /\ Conn!Attachment'
    BY <1>1, <2>1, AnsweredSame
  <2> QED
    BY <2>1, <2>3, <2>14, <2>15, <2>16 DEF ConnInv
<1> QED
  BY <1>3, <1>4

(* The next frame of a data client that talks, and no message at hand *)
LEMMA FrameNext ==
  ASSUME ConnectionAssumption, ConnInv, Conn!Talking("data"), Conn!Decode(decoder).is # "more",
         peer' = peer, wire' = wire, decoder' = Conn!Decode(decoder).next, conn'.plane = conn.plane,
         NEW h, h = peer.sent[Taken + 1]
  PROVE  /\ Taken \in 0..Len(peer.sent) - 1 /\ Len(answers) < Len(Conn!Said)
         /\ Conn!Said[Len(answers) + 1] = h /\ found = Conn!NoMessage
         /\ \/ h \in Broken /\ Conn!Decode(decoder).is = "error"
            \/ /\ h \in FrameItem /\ Bite(Conn!Decode(decoder), h)
               /\ Decoder(decoder') /\ ~decoder'.poisoned
               /\ \A n : n = Taken + 1 => Spell(Unread(decoder', wire'), peer'.sent, n)
<1> DEFINE f == Conn!Decode(decoder)
<1>1. conn.at \in {"shake", "serve"} /\ conn.plane = "data" /\ found = Conn!NoMessage
  BY DEF Conn!Talking
<1>2. Talks /\ Typed /\ (Taken # Len(peer.sent) => peer.sent[Taken + 1] \in FrameItem \cup Broken)
  BY <1>1, TalkSays
<1>3. Decoder(decoder) /\ ~decoder.poisoned /\ wire \in Seq(Nat)
  BY <1>2 DEF Talks, Typed
<1>4. Spell(Unread(decoder, wire), peer.sent, Taken)
  BY <1>1, <1>2 DEF Talks, Flushed
<1>5. /\ Taken \in 0..Len(peer.sent) - 1
      /\ \/ h \in Broken /\ f.is = "error"
         \/ /\ h \in FrameItem /\ Bite(f, h) /\ Decoder(f.next) /\ ~f.next.poisoned
            /\ Spell(Unread(f.next, wire), peer.sent, Taken + 1)
  BY <1>2, <1>3, <1>4, FrameTaken
<1>6. Len(answers) < Len(Conn!Said) /\ Conn!Said[Len(answers) + 1] = h
  BY <1>1, <1>5, NextSaid
<1> QED
  BY <1>1, <1>5, <1>6

(* The first frame is a Hello of our major, or the connection ends       *)
LEMMA ShakeKeeps == ASSUME ConnectionAssumption, ConnInv, Conn!Shake PROVE ConnInv'
<1> DEFINE f == Conn!Decode(decoder)  h == peer.sent[Taken + 1]  n == Taken + 1
           welcome == f.is = "frame" /\ f.type = Conn!HELLO /\ Conn!Decodable(f) /\ f.payload[1] = Conn!Major
<1>1. /\ Conn!Talking("data") /\ conn.at = "shake" /\ conn.plane = "data"
      /\ f.is # "more" /\ decoder' = f.next /\ peer' = peer /\ wire' = wire
      /\ IF welcome
         THEN conn' = [conn EXCEPT !.at = "serve"] /\ answers' = Append(answers, "ack") /\ UNCHANGED <<found, host>>
         ELSE Conn!Ends(<<"reject">>)
  BY DEF Conn!Shake, Conn!Talking
<1>2. Typed /\ Talks /\ Len(answers) + 1 = 1 /\ answers \in Seq(Replies)
  BY <1>1, TalkSays DEF Typed
<1>3. conn'.plane = conn.plane /\ conn \in [at : {"sniff", "shake", "serve", "closed"}, plane : {"none", "data", "control"}]
  BY <1>1, <1>2 DEF Typed, Conn!Ends
<1> HIDE DEF f, h, n, welcome
<1>4. /\ Taken \in 0..Len(peer.sent) - 1 /\ Len(answers) < Len(Conn!Said)
      /\ Conn!Said[Len(answers) + 1] = h /\ found = Conn!NoMessage
      /\ \/ h \in Broken /\ f.is = "error"
         \/ /\ h \in FrameItem /\ Bite(f, h) /\ Decoder(decoder') /\ ~decoder'.poisoned
            /\ Spell(Unread(decoder', wire'), peer'.sent, n)
  BY <1>1, <1>3, FrameNext DEF f, h, n
<1>5. h = "hello" <=> welcome
  <2>1. CASE h \in Broken /\ f.is = "error"
    <3>1. h # "hello"
      BY <2>1 DEF Broken
    <3> QED
      BY <2>1, <3>1 DEF welcome
  <2>2. CASE h \in FrameItem /\ Bite(f, h)
    <3>1. h = "hello" <=> f.type = Conn!HELLO /\ Conn!Decodable(f) /\ f.payload[1] = Conn!Major
      BY <2>2, FrameSays
    <3> QED
      BY <2>2, <3>1 DEF Bite, welcome
  <2> QED
    BY <1>4, <2>1, <2>2
<1>6. CASE h # "hello"
  <2>1. Conn!Ends(<<"reject">>)
    BY <1>1, <1>5, <1>6
  <2>2. h # "greeting"
    BY <1>4 DEF FrameItem, Told, Untold, Broken
  <2>3. "reject" \in Conn!Answerable(h, TRUE)
    BY <1>6, <2>2, AnswersMay
  <2>4. "reject" \in Conn!Answerable(Conn!Said[Len(answers) + 1], Len(answers) + 1 = 1)
    BY <1>2, <1>4, <2>3
  <2>5. wire' \in Seq(Nat) /\ conn.at # "closed"
    BY <1>1, <1>2 DEF Typed
  <2> QED
    BY <1>1, <1>4, <2>1, <2>4, <2>5, EndsKeeps
<1>7. CASE h = "hello"
  <2>1. conn' = [conn EXCEPT !.at = "serve"] /\ answers' = Append(answers, "ack") /\ UNCHANGED <<found, host>>
    BY <1>1, <1>5, <1>7
  <2>2. conn' \in [at : {"sniff", "shake", "serve", "closed"}, plane : {"none", "data", "control"}] /\ conn'.at = "serve"
    BY <1>3, <2>1
  <2>3. Decoder(decoder') /\ ~decoder'.poisoned /\ Spell(Unread(decoder', wire'), peer'.sent, n)
    BY <1>4, <1>7 DEF Broken
  <2>4. "ack" \in Conn!Answerable(Conn!Said[Len(answers) + 1], Len(answers) + 1 = 1)
    <3>1. "ack" \in Conn!Answerable(h, TRUE)
      BY <1>7, AnswersMay
    <3> QED
      BY <1>2, <1>4, <3>1
  <2>5. answers' \in Seq(Replies) /\ Conn!Answered' /\ Conn!Attachment'
    <3>1. "ack" \in Replies /\ "ack" # "reject" /\ "ack" # "none" /\ "ack" # "detached"
      BY DEF Replies
    <3>2. host'.is = host.is /\ host'.attached = host.attached /\ host.attached \in BOOLEAN
      BY <1>2, <2>1 DEF Typed
    <3>3. conn'.at # "closed" /\ conn.at # "closed" /\ peer' = peer /\ answers' = Append(answers, "ack")
      BY <1>1, <2>1, <2>2
    <3> QED
      BY <1>4, <2>4, <3>1, <3>2, <3>3, AnswerKeeps
  <2>6. Typed'
    BY <1>1, <1>2, <2>1, <2>2, <2>5 DEF Typed
  <2>7. Taken' = n /\ answers' # <<>>
    <3>1. Len(answers') = Len(answers) + 1 /\ answers' # <<>>
      <4>1. "ack" \in Replies
        BY DEF Replies
      <4> QED
        BY <1>2, <2>1, <4>1, AppendProperties
    <3>2. Len(answers) \in Nat /\ Behind \in {0, 1} /\ Behind' = Behind /\ found' = found
      BY <1>1, <1>3, <2>1, TalkSays DEF Behind
    <3> QED
      BY <3>1, <3>2 DEF Taken, n
  <2>8. Talks'
    <3>1. Planes' /\ peer'.sent # <<>>
      BY <1>1, <1>2, <1>3 DEF Talks, Planes
    <3>2. Spell(Unread(decoder, wire)', peer'.sent, Taken')
      BY <2>3, <2>7 DEF Unread
    <3> QED
      BY <1>4, <2>1, <2>2, <2>3, <2>7, <3>1, <3>2 DEF Talks
  <2> QED
    BY <2>2, <2>5, <2>6, <2>8 DEF ConnInv
<1> QED
  BY <1>6, <1>7

(* A frame of a client that was welcomed is answered, or waits for its      *)
(* Surface                                                                  *)
LEMMA HandleKeeps == ASSUME ConnectionAssumption, ConnInv, Conn!Handle PROVE ConnInv'
<1> DEFINE f == Conn!Decode(decoder)  h == peer.sent[Taken + 1]  n == Taken + 1
<1>1. /\ Conn!Talking("data") /\ conn.at = "serve" /\ conn.plane = "data"
      /\ f.is # "more" /\ decoder' = f.next /\ peer' = peer /\ wire' = wire
      /\ \/ f.is = "error" /\ Conn!Ends(<<>>)
         \/ /\ f.is = "frame" /\ (~Conn!Decodable(f) \/ f.type \in {Conn!HELLO, Conn!SNAPSHOT})
            /\ Conn!Answer("bad request") /\ UNCHANGED found
         \/ /\ f.is = "frame" /\ Conn!Decodable(f) /\ f.type \notin {Conn!HELLO, Conn!SNAPSHOT}
            /\ IF host.is = "gone" THEN Conn!Answer("no such surface") /\ UNCHANGED found
               ELSE found' = [type |-> f.type, payload |-> f.payload] /\ UNCHANGED <<conn, host, answers>>
  BY DEF Conn!Handle, Conn!Talking
<1>2. Typed /\ Talks /\ ~(Len(answers) + 1 = 1) /\ answers \in Seq(Replies) /\ wire' \in Seq(Nat)
  BY <1>1, TalkSays DEF Typed
<1>3. conn'.plane = conn.plane
  <2>1. Conn!Ends(<<>>) => conn'.plane = conn.plane
    BY <1>2 DEF Typed, Conn!Ends
  <2> QED
    BY <1>1, <2>1 DEF Conn!Answer
<1> HIDE DEF f, h, n
<1>4. /\ Taken \in 0..Len(peer.sent) - 1 /\ Len(answers) < Len(Conn!Said)
      /\ Conn!Said[Len(answers) + 1] = h /\ found = Conn!NoMessage
      /\ \/ h \in Broken /\ f.is = "error"
         \/ /\ h \in FrameItem /\ Bite(f, h) /\ Decoder(decoder') /\ ~decoder'.poisoned
            /\ Spell(Unread(decoder', wire'), peer'.sent, n)
  BY <1>1, <1>3, FrameNext DEF f, h, n
<1>5. CASE h \in Broken /\ f.is = "error"
  <2>1. Conn!Ends(<<>>) /\ conn.at # "closed"
    BY <1>1, <1>5
  <2> QED
    BY <1>1, <1>2, <2>1, EndsKeeps
<1>6. CASE h \in FrameItem /\ Bite(f, h)
  <2>1. f.is = "frame" /\ h \notin Broken
    BY <1>6 DEF Bite, FrameItem, Told, Untold, Broken
  <2>2. Decoder(decoder') /\ ~decoder'.poisoned /\ Spell(Unread(decoder', wire'), peer'.sent, n)
    BY <1>4, <2>1
  <2>3. /\ [type |-> f.type, payload |-> f.payload] = Message(h)
        /\ h \in Untold <=> ~Conn!Decodable(f) \/ f.type \in {Conn!HELLO, Conn!SNAPSHOT}
        /\ h \in Told => Message(h).type # 0
    BY <1>6, FrameSays
  <2>4. (h \in Told <=> h \notin Untold) /\ (h \in Told \/ h \in Untold)
    BY <1>6 DEF FrameItem, Told, Untold
  <2>5. ASSUME NEW a \in Replies, a \in Conn!Answerable(h, FALSE), a \notin {"reject", "none", "detached"},
               Conn!Answer(a), UNCHANGED found
        PROVE  ConnInv'
    <3>1. answers' = Append(answers, a) /\ conn' = conn /\ host' = host /\ found' = found
      BY <2>5 DEF Conn!Answer
    <3>2. a \in Conn!Answerable(Conn!Said[Len(answers) + 1], Len(answers) + 1 = 1)
      BY <1>2, <1>4, <2>5
    <3>3. answers' \in Seq(Replies) /\ Conn!Answered' /\ Conn!Attachment'
      <4>1. host'.is = host.is /\ host'.attached = host.attached /\ host.attached \in BOOLEAN
        BY <1>2, <3>1 DEF Typed
      <4>2. conn'.at # "closed" /\ conn.at # "closed" /\ peer' = peer /\ a # "reject" /\ a # "none" /\ a # "detached"
        BY <1>1, <2>5, <3>1
      <4> QED
        BY <1>4, <3>1, <3>2, <4>1, <4>2, AnswerKeeps
    <3>4. Typed'
      BY <1>1, <1>2, <3>1, <3>3 DEF Typed
    <3>5. Taken' = n /\ answers' # <<>>
      <4>1. Len(answers') = Len(answers) + 1 /\ answers' # <<>>
        BY <1>2, <3>1, AppendProperties
      <4>2. Len(answers) \in Nat /\ Behind \in {0, 1} /\ Behind' = Behind
        BY <1>1, <3>1, TalkSays DEF Behind
      <4> QED
        BY <3>1, <4>1, <4>2 DEF Taken, n
    <3>6. Talks'
      <4>1. Planes' /\ peer'.sent # <<>>
        BY <1>1, <1>2, <1>3 DEF Talks, Planes
      <4>2. Spell(Unread(decoder, wire)', peer'.sent, Taken')
        BY <2>2, <3>5 DEF Unread
      <4> QED
        BY <1>1, <1>4, <2>2, <3>1, <3>5, <4>1, <4>2 DEF Talks
    <3> QED
      BY <1>1, <3>1, <3>3, <3>4, <3>6 DEF ConnInv
  <2>6. CASE h \in Untold
    <3>1. Conn!Answer("bad request") /\ UNCHANGED found
      BY <1>1, <2>1, <2>3, <2>6
    <3>2. /\ "bad request" \in Replies /\ "bad request" \in Conn!Answerable(h, FALSE)
          /\ "bad request" \notin {"reject", "none", "detached"}
      BY <2>6, AnswersMay DEF Replies
    <3> QED
      BY <2>5, <3>1, <3>2
  <2>7. CASE h \in Told /\ host.is = "gone"
    <3>1. Conn!Answer("no such surface") /\ UNCHANGED found
      BY <1>1, <2>1, <2>3, <2>4, <2>7
    <3>2. /\ "no such surface" \in Replies /\ "no such surface" \in Conn!Answerable(h, FALSE)
          /\ "no such surface" \notin {"reject", "none", "detached"}
      BY <2>7, AnswersMay DEF Replies
    <3> QED
      BY <2>5, <3>1, <3>2
  <2>8. CASE h \in Told /\ host.is # "gone"
    <3>1. found' = Message(h) /\ UNCHANGED <<conn, host, answers>>
      BY <1>1, <2>1, <2>3, <2>4, <2>8
    <3>2. found' # Conn!NoMessage
      <4>1. Conn!NoMessage.type = 0
        BY DEF Conn!NoMessage
      <4> QED
        BY <2>3, <2>8, <3>1, <4>1
    <3>3. Taken' = n /\ n \in 1..Len(peer'.sent)
      <4>1. Len(answers) \in Nat /\ Behind \in {0, 1} /\ Behind' = Behind /\ Len(peer.sent) \in Nat
        BY <1>1, <3>1, TalkSays DEF Behind
      <4> QED
        <5>1. Taken = Len(answers) + Behind /\ Taken' = Len(answers) + 1 + Behind
          BY <1>4, <3>1, <3>2, <4>1 DEF Taken
        <5>2. Taken + 1 \in 1..Len(peer.sent)
          BY <1>4, <4>1
        <5>3. Taken' = Taken + 1
          BY <4>1, <5>1
        <5>4. peer' = peer
          BY <1>1
        <5> QED
          BY <5>2, <5>3, <5>4 DEF n
    <3>4. InHand'
      BY <1>1, <2>8, <3>1, <3>3 DEF InHand, h, n
    <3>5. Talks'
      <4>1. Planes' /\ peer'.sent # <<>>
        BY <1>1, <1>2, <1>3 DEF Talks, Planes
      <4>2. Spell(Unread(decoder, wire)', peer'.sent, Taken')
        BY <2>2, <3>3 DEF Unread
      <4>3. conn.at = "shake" <=> answers = <<>>
        BY <1>2 DEF Talks
      <4> QED
        BY <1>1, <2>2, <3>1, <3>4, <4>1, <4>2, <4>3 DEF Talks
    <3>6. Conn!Answered' /\ Conn!Attachment'
      BY <1>1, <3>1, AnsweredSame
    <3>7. Typed'
      BY <1>1, <1>2, <3>1 DEF Typed
    <3> QED
      BY <1>1, <3>1, <3>5, <3>6, <3>7 DEF ConnInv
  <2> QED
    BY <2>4, <2>6, <2>7, <2>8
<1> QED
  BY <1>4, <1>5, <1>6

(* A message done: it is the last one taken, and its answer the next *)
LEMMA DoneKeeps ==
  ASSUME ConnectionAssumption, ConnInv, NEW type \in Nat \ {0}, NEW a \in Replies, Conn!Done(type, a),
         host' \in [is : {"running", "exited", "gone"}, attached : BOOLEAN], host'.is = host.is,
         \A h \in Told : found = Message(h) =>
           /\ a \in Conn!Answerable(h, FALSE) /\ a # "reject"
           /\ host'.attached <=> (h = "attach" /\ a = "none") \/ (host.attached /\ a # "detached")
  PROVE  ConnInv'
<1>1. /\ found.type = type /\ found' = Conn!NoMessage /\ answers' = Append(answers, a)
      /\ peer' = peer /\ wire' = wire /\ conn' = conn /\ decoder' = decoder
  BY DEF Conn!Done
<1>2. found # Conn!NoMessage
  BY <1>1 DEF Conn!NoMessage
<1>3. conn.at = "serve" /\ conn.at \in {"shake", "serve"} /\ Talks /\ InHand
  <2>1. conn.at \in {"shake", "serve"}
    BY <1>2 DEF ConnInv, Typed, Sniffing
  <2> QED
    BY <1>2, <2>1 DEF ConnInv, Talks
<1>4. Typed /\ ~(Len(answers) + 1 = 1) /\ answers \in Seq(Replies)
  BY <1>3, TalkSays DEF Typed
<1>5. PICK h \in Told : found = Message(h) /\ Taken \in 1..Len(peer.sent) /\ peer.sent[Taken] = h
  BY <1>3 DEF InHand
<1>6. Len(answers) < Len(Conn!Said) /\ Conn!Said[Len(answers) + 1] = h
  BY <1>2, <1>3, <1>5, NextSaid
<1>7. /\ a \in Conn!Answerable(h, FALSE) /\ a # "reject"
      /\ host'.attached <=> (h = "attach" /\ a = "none") \/ (host.attached /\ a # "detached")
  BY <1>5
<1>8. a \in Conn!Answerable(Conn!Said[Len(answers) + 1], Len(answers) + 1 = 1)
  BY <1>4, <1>6, <1>7
<1>9. answers' \in Seq(Replies) /\ Conn!Answered' /\ Conn!Attachment'
  <2>1. conn'.at # "closed" /\ conn.at # "closed" /\ host'.attached \in BOOLEAN
    BY <1>1, <1>3
  <2> QED
    BY <1>1, <1>6, <1>7, <1>8, <2>1, AnswerKeeps
<1>10. Typed'
  BY <1>1, <1>4, <1>9 DEF Typed
<1>11. Taken' = Taken /\ answers' # <<>>
  <2>1. Len(answers') = Len(answers) + 1 /\ answers' # <<>>
    BY <1>1, <1>4, AppendProperties
  <2>2. Len(answers) \in Nat /\ Behind \in {0, 1} /\ Behind' = Behind
    BY <1>1, <1>3, TalkSays DEF Behind
  <2> QED
    BY <1>1, <1>2, <2>1, <2>2 DEF Taken
<1>12. Talks'
  <2>1. Planes /\ ~Flushed
    BY <1>2, <1>3 DEF Talks, Planes, Flushed
  <2>2. Planes' /\ peer'.sent # <<>>
    BY <1>1, <1>3, <2>1 DEF Talks, Planes
  <2>3. Spell(Unread(decoder, wire)', peer'.sent, Taken')
    BY <1>1, <1>3, <1>11, <2>1 DEF Talks, Unread
  <2> QED
    BY <1>1, <1>3, <1>11, <2>2, <2>3 DEF Talks
<1> QED
  BY <1>1, <1>3, <1>9, <1>10, <1>12 DEF ConnInv

(* What a message at hand is, by its type *)
LEMMA ToldAre ==
  ASSUME NEW h \in Told
  PROVE  /\ Message(h).type = 16 => h = "attach"
         /\ Message(h).type = 17 => h = "detach"
         /\ Message(h).type = 18 => \/ h = "input" /\ Message(h).payload[1] = 1
                                    \/ h = "paste" /\ Message(h).payload[1] = 9
         /\ Message(h).type = 19 => \/ h = "resize" /\ Message(h).payload[2] = 2
                                    \/ h = "flat" /\ Message(h).payload[2] = 0
         /\ Message(h).type = 20 => h = "fetch"
         /\ Message(h).type = 21 => h = "ack"
         /\ Message(h).type = 22 => h = "view"
<1>1. /\ Message("attach").type = 16 /\ Message("detach").type = 17 /\ Message("input").type = 18
      /\ Message("paste").type = 18 /\ Message("resize").type = 19 /\ Message("flat").type = 19
      /\ Message("fetch").type = 20 /\ Message("ack").type = 21 /\ Message("view").type = 22
  BY MessagesAre
<1>2. /\ Message("input").payload[1] = 1 /\ Message("paste").payload[1] = 9
      /\ Message("resize").payload[2] = 2 /\ Message("flat").payload[2] = 0
  <2>1. /\ Message("input").payload = <<1>> /\ Message("paste").payload = <<9>>
        /\ Message("resize").payload = <<2, 2>> /\ Message("flat").payload = <<2, 0>>
    BY MessagesAre
  <2> QED
    BY <2>1, Tuples
<1>3. CASE h \in {"attach", "detach", "fetch", "ack", "view"}
  BY <1>1, <1>3
<1>4. CASE h \in {"input", "paste"}
  BY <1>1, <1>2, <1>4
<1>5. CASE h \in {"resize", "flat"}
  BY <1>1, <1>2, <1>5
<1> QED
  BY <1>3, <1>4, <1>5 DEF Told

(* The seven messages, each done under the lock of the Surface *)
LEMMA ActKeeps == ASSUME ConnectionAssumption, ConnInv, Conn!Act PROVE ConnInv'
<1> DEFINE Hosts == [is : {"running", "exited", "gone"}, attached : BOOLEAN]
<1>1. host \in Hosts
  BY DEF ConnInv, Typed
<1>2. \A t \in {Conn!ATTACH, Conn!DETACH, Conn!INPUT, Conn!RESIZE, Conn!FETCH_HISTORY, Conn!ACK, Conn!SET_VIEW_STATE} :
        t \in Nat \ {0}
  BY TypesAre
<1>3. CASE Conn!OnAttach
  <2>1. Conn!Done(Conn!ATTACH, "none") /\ host' = [host EXCEPT !.attached = TRUE]
    BY <1>3 DEF Conn!OnAttach
  <2>2. host' \in Hosts /\ host'.is = host.is /\ host'.attached
    BY <1>1, <2>1
  <2>3. found.type = 16
    BY <2>1, TypesAre DEF Conn!Done
  <2>4. \A h \in Told : found = Message(h) =>
          /\ "none" \in Conn!Answerable(h, FALSE) /\ "none" # "reject"
          /\ host'.attached <=> (h = "attach" /\ "none" = "none") \/ (host.attached /\ "none" # "detached")
    BY <2>2, <2>3, ToldAre, AnswersMay
  <2>5. "none" \in Replies
    BY DEF Replies
  <2> QED
    BY <1>2, <2>1, <2>2, <2>4, <2>5, DoneKeeps
<1>4. CASE Conn!OnDetach
  <2> DEFINE a == IF host.attached THEN "detached" ELSE "not attached"
  <2>1. Conn!Done(Conn!DETACH, a) /\ host' = [host EXCEPT !.attached = FALSE]
    BY <1>4 DEF Conn!OnDetach
  <2>2. host' \in Hosts /\ host'.is = host.is /\ ~host'.attached
    BY <1>1, <2>1
  <2>3. found.type = 17
    BY <2>1, TypesAre DEF Conn!Done
  <2>4. \A h \in Told : found = Message(h) =>
          /\ a \in Conn!Answerable(h, FALSE) /\ a # "reject"
          /\ host'.attached <=> (h = "attach" /\ a = "none") \/ (host.attached /\ a # "detached")
    BY <2>2, <2>3, ToldAre, AnswersMay
  <2>5. a \in Replies
    BY DEF Replies
  <2> HIDE DEF a
  <2> QED
    BY <1>2, <2>1, <2>2, <2>4, <2>5, DoneKeeps
<1>5. ASSUME NEW t \in Nat \ {0}, NEW a \in Replies, a \notin {"reject", "detached"}, Conn!Done(t, a), UNCHANGED host,
             \A h \in Told : found = Message(h) => a \in Conn!Answerable(h, FALSE) /\ h # "attach"
      PROVE  ConnInv'
  <2>1. host' \in Hosts /\ host'.is = host.is /\ (host'.attached <=> host.attached)
    BY <1>1, <1>5
  <2>2. \A h \in Told : found = Message(h) =>
          /\ a \in Conn!Answerable(h, FALSE) /\ a # "reject"
          /\ host'.attached <=> (h = "attach" /\ a = "none") \/ (host.attached /\ a # "detached")
    BY <1>5, <2>1
  <2> QED
    BY <1>5, <2>1, <2>2, DoneKeeps
<1>6. CASE Conn!OnInput
  <2> DEFINE a == IF found.payload[1] > Conn!MaxInput THEN "bad request"
                  ELSE IF host.is = "exited" THEN "exited" ELSE "none"
  <2>1. Conn!Done(Conn!INPUT, a) /\ UNCHANGED host
    BY <1>6 DEF Conn!OnInput
  <2>2. found.type = 18
    BY <2>1, TypesAre DEF Conn!Done
  <2>3. \A h \in Told : found = Message(h) => a \in Conn!Answerable(h, FALSE) /\ h # "attach"
    <3> SUFFICES ASSUME NEW h \in Told, found = Message(h)
                 PROVE  a \in Conn!Answerable(h, FALSE) /\ h # "attach"
      OBVIOUS
    <3>1. (h = "input" /\ found.payload[1] = 1) \/ (h = "paste" /\ found.payload[1] = 9)
      BY <2>2, ToldAre
    <3>2. CASE h = "input" /\ found.payload[1] = 1
      <4>1. a \in {"exited", "none"}
        BY <3>2, TypesAre
      <4> QED
        BY <3>2, <4>1, AnswersMay
    <3>3. CASE h = "paste" /\ found.payload[1] = 9
      <4>1. a = "bad request"
        BY <3>3, TypesAre
      <4> QED
        BY <3>3, <4>1, AnswersMay
    <3> QED
      BY <3>1, <3>2, <3>3
  <2>4. a \in Replies /\ a \notin {"reject", "detached"}
    BY DEF Replies
  <2> HIDE DEF a
  <2> QED
    BY <1>2, <1>5, <2>1, <2>3, <2>4
<1>7. CASE Conn!OnResize
  <2> DEFINE a == IF found.payload[2] = 0 THEN "bad request" ELSE "none"
  <2>1. Conn!Done(Conn!RESIZE, a) /\ UNCHANGED host
    BY <1>7 DEF Conn!OnResize
  <2>2. found.type = 19
    BY <2>1, TypesAre DEF Conn!Done
  <2>3. \A h \in Told : found = Message(h) => a \in Conn!Answerable(h, FALSE) /\ h # "attach"
    BY <2>2, ToldAre, AnswersMay, TypesAre
  <2>4. a \in Replies /\ a \notin {"reject", "detached"}
    BY DEF Replies
  <2> HIDE DEF a
  <2> QED
    BY <1>2, <1>5, <2>1, <2>3, <2>4
<1>8. CASE Conn!OnFetchHistory
  <2>1. Conn!Done(Conn!FETCH_HISTORY, "history") /\ UNCHANGED host
    BY <1>8 DEF Conn!OnFetchHistory
  <2>2. found.type = 20
    BY <2>1, TypesAre DEF Conn!Done
  <2>3. \A h \in Told : found = Message(h) => "history" \in Conn!Answerable(h, FALSE) /\ h # "attach"
    BY <2>2, ToldAre, AnswersMay
  <2>4. "history" \in Replies /\ "history" \notin {"reject", "detached"}
    BY DEF Replies
  <2> QED
    BY <1>2, <1>5, <2>1, <2>3, <2>4
<1>9. CASE Conn!OnAck
  <2>1. Conn!Done(Conn!ACK, "none") /\ UNCHANGED host
    BY <1>9 DEF Conn!OnAck
  <2>2. found.type = 21
    BY <2>1, TypesAre DEF Conn!Done
  <2>3. \A h \in Told : found = Message(h) => "none" \in Conn!Answerable(h, FALSE) /\ h # "attach"
    BY <2>2, ToldAre, AnswersMay
  <2>4. "none" \in Replies /\ "none" \notin {"reject", "detached"}
    BY DEF Replies
  <2> QED
    BY <1>2, <1>5, <2>1, <2>3, <2>4
<1>10. CASE Conn!OnSetViewState
  <2>1. Conn!Done(Conn!SET_VIEW_STATE, "none") /\ UNCHANGED host
    BY <1>10 DEF Conn!OnSetViewState
  <2>2. found.type = 22
    BY <2>1, TypesAre DEF Conn!Done
  <2>3. \A h \in Told : found = Message(h) => "none" \in Conn!Answerable(h, FALSE) /\ h # "attach"
    BY <2>2, ToldAre, AnswersMay
  <2>4. "none" \in Replies /\ "none" \notin {"reject", "detached"}
    BY DEF Replies
  <2> QED
    BY <1>2, <1>5, <2>1, <2>3, <2>4
<1> QED
  BY <1>3, <1>4, <1>6, <1>7, <1>8, <1>9, <1>10 DEF Conn!Act

(* A line of a client, to its newline or to the end of the stream *)
Heard(line) ==
  LET hello == line # <<>> /\ Head(line) = Conn!Brace /\ Len(line) > 1 /\ line[2] \in 1..3
  IN \/ /\ conn.at = "shake"
        /\ IF hello /\ line[2] = 1
           THEN conn' = [conn EXCEPT !.at = "serve"] /\ answers' = Append(answers, "ack") /\ UNCHANGED <<found, host>>
           ELSE Conn!Ends(<<"reject">>)
     \/ conn.at = "serve" /\ Conn!Answer(IF line = <<>> THEN "none" ELSE "response") /\ UNCHANGED found

(* It is answered, or the handshake fails                                *)
LEMMA LineHeard ==
  ASSUME ConnectionAssumption, ConnInv, Conn!Talking("control"),
         NEW h, h = peer.sent[Taken + 1], Taken \in 0..Len(peer.sent) - 1,
         NEW line, LineIs(h, line), Heard(line),
         peer' = peer, wire' = wire, Decoder(decoder'), ~decoder'.poisoned, decoder'.pos = 0,
         Spell(Unread(decoder', wire'), peer.sent, Taken + 1)
  PROVE  ConnInv'
<1> DEFINE hello == line # <<>> /\ Head(line) = Conn!Brace /\ Len(line) > 1 /\ line[2] \in 1..3
<1>0. /\ \/ /\ conn.at = "shake"
            /\ IF hello /\ line[2] = 1
               THEN conn' = [conn EXCEPT !.at = "serve"] /\ answers' = Append(answers, "ack") /\ UNCHANGED <<found, host>>
               ELSE Conn!Ends(<<"reject">>)
         \/ conn.at = "serve" /\ Conn!Answer(IF line = <<>> THEN "none" ELSE "response") /\ UNCHANGED found
      /\ \/ h = "blank" /\ line = <<>>
         \/ /\ h \in {"greeting", "outdated", "misplaced", "request", "garbage", "unended"}
            /\ line # <<>> /\ Head(line) = 123 /\ Len(line) > 1 /\ line[2] \in 1..5
            /\ h = "greeting" <=> line[2] = 1
  BY DEF Heard, LineIs
<1>1. /\ conn.at \in {"shake", "serve"} /\ conn.at # "closed" /\ conn.plane = "control" /\ found = Conn!NoMessage
  BY DEF Conn!Talking
<1>2. /\ Typed /\ Talks /\ answers \in Seq(Replies) /\ wire' \in Seq(Nat)
      /\ Len(answers) + 1 = 1 <=> conn.at = "shake"
      /\ conn \in [at : {"sniff", "shake", "serve", "closed"}, plane : {"none", "data", "control"}]
      /\ host \in [is : {"running", "exited", "gone"}, attached : BOOLEAN]
  BY <1>1, TalkSays DEF Typed
<1>3. Len(answers) < Len(Conn!Said) /\ Conn!Said[Len(answers) + 1] = h
  BY <1>1, NextSaid
<1>4. h = "greeting" <=> hello /\ line[2] = 1
  <2>1. CASE h = "blank" /\ line = <<>>
    <3>1. ~hello
      BY <2>1
    <3>2. h # "greeting"
      BY <2>1
    <3> QED
      BY <3>1, <3>2
  <2>2. CASE ~(h = "blank" /\ line = <<>>)
    <3>1. line # <<>> /\ Head(line) = 123 /\ Len(line) > 1
      BY <1>0, <2>2
    <3>2. h = "greeting" <=> line[2] = 1
      BY <1>0, <2>2
    <3>3. Conn!Brace = 123
      BY TypesAre
    <3>4. hello <=> line[2] \in 1..3
      BY <3>1, <3>3
    <3>5. line[2] = 1 => line[2] \in 1..3
      OBVIOUS
    <3> QED
      BY <3>2, <3>4, <3>5
  <2> QED
    BY <2>1, <2>2
<1>5. h # "hello" /\ h # "attach"
  BY <1>0
<1> HIDE DEF hello
<1>6. ASSUME NEW a \in Replies, a \notin {"reject", "detached"}, answers' = Append(answers, a), UNCHANGED <<found, host>>,
             a \in Conn!Answerable(h, Len(answers) + 1 = 1), conn' = [conn EXCEPT !.at = "serve"]
      PROVE  ConnInv'
  <2>1. conn' \in [at : {"serve"}, plane : {"none", "data", "control"}] /\ conn'.at = "serve" /\ conn'.plane = "control"
    BY <1>1, <1>2, <1>6
  <2>2. answers' \in Seq(Replies) /\ Conn!Answered' /\ Conn!Attachment'
    <3>1. host'.is = host.is /\ host'.attached = host.attached /\ host.attached \in BOOLEAN
      BY <1>2, <1>6
    <3>2. conn'.at # "closed" /\ a # "reject" /\ a # "detached" /\ Conn!Said[Len(answers) + 1] # "attach"
      BY <1>3, <1>5, <1>6, <2>1
    <3>3. a \in Conn!Answerable(Conn!Said[Len(answers) + 1], Len(answers) + 1 = 1)
      BY <1>3, <1>6
    <3> QED
      BY <1>1, <1>3, <1>6, <3>1, <3>2, <3>3, AnswerKeeps
  <2>3. Typed'
    BY <1>2, <1>6, <2>1, <2>2 DEF Typed
  <2>4. Taken' = Taken + 1 /\ answers' # <<>>
    <3>1. Len(answers') = Len(answers) + 1 /\ answers' # <<>>
      BY <1>2, <1>6, AppendProperties
    <3>2. Len(answers) \in Nat /\ Behind \in {0, 1} /\ Behind' = Behind
      BY <1>1, <2>1, TalkSays DEF Behind
    <3>3. Taken = Len(answers) + 0 + Behind
      BY <1>1 DEF Taken
    <3>4. Taken' = Len(answers') + 0 + Behind'
      BY <1>1, <1>6 DEF Taken
    <3> DEFINE n == Len(answers)  m == Len(answers')
    <3> HIDE DEF n, m
    <3>5. m + 0 + Behind = n + 0 + Behind + 1
      BY <3>1, <3>2 DEF n, m
    <3> QED
      BY <3>1, <3>2, <3>3, <3>4, <3>5 DEF n, m
  <2>5. Talks'
    <3>1. Planes' /\ peer'.sent # <<>>
      BY <1>1, <1>2, <1>6, <2>1 DEF Talks, Planes
    <3>2. Spell(Unread(decoder, wire)', peer'.sent, Taken')
      <4>1. Unread(decoder, wire)' = Unread(decoder', wire')
        BY DEF Unread
      <4> QED
        BY <2>4, <4>1
    <3> QED
      BY <1>1, <1>6, <2>1, <2>4, <3>1, <3>2 DEF Talks
  <2> QED
    BY <2>1, <2>2, <2>3, <2>5 DEF ConnInv
<1>7. CASE conn.at = "shake" /\ h = "greeting"
  <2>1. conn' = [conn EXCEPT !.at = "serve"] /\ answers' = Append(answers, "ack") /\ UNCHANGED <<found, host>>
    BY <1>0, <1>4, <1>7
  <2>2. "ack" \in Replies /\ "ack" \notin {"reject", "detached"} /\ "ack" \in Conn!Answerable(h, TRUE)
    <3>1. "ack" \in Replies /\ "ack" \notin {"reject", "detached"}
      BY DEF Replies
    <3>2. "ack" \in Conn!Answerable(h, TRUE)
      BY <1>7 DEF Conn!Answerable
    <3> QED
      BY <3>1, <3>2
  <2>3. "ack" \in Conn!Answerable(h, Len(answers) + 1 = 1)
    BY <1>2, <1>7, <2>2
  <2> QED
    BY <1>6, <2>1, <2>2, <2>3
<1>8. CASE conn.at = "shake" /\ h # "greeting"
  <2>1. Conn!Ends(<<"reject">>)
    BY <1>0, <1>4, <1>8
  <2>2. "reject" \in Conn!Answerable(h, TRUE)
    <3>1. h \notin {"hello", "greeting"}
      BY <1>5, <1>8
    <3> QED
      BY <3>1 DEF Conn!Answerable
  <2>3. "reject" \in Conn!Answerable(Conn!Said[Len(answers) + 1], Len(answers) + 1 = 1)
    BY <1>2, <1>3, <1>8, <2>2
  <2> QED
    BY <1>1, <1>2, <1>3, <2>1, <2>3, EndsKeeps
<1>9. CASE conn.at = "serve"
  <2> DEFINE a == IF line = <<>> THEN "none" ELSE "response"
  <2>1. answers' = Append(answers, a) /\ conn' = conn /\ UNCHANGED <<found, host>>
    BY <1>0, <1>9 DEF Conn!Answer
  <2>2. conn' = [conn EXCEPT !.at = "serve"]
    BY <1>2, <1>9, <2>1
  <2>3. a \in Replies /\ a \notin {"reject", "detached"}
    BY DEF Replies
  <2>4. a \in Conn!Answerable(h, FALSE)
    <3>1. CASE h = "blank" /\ line = <<>>
      <4>1. a = "none"
        BY <3>1
      <4> QED
        BY <3>1, <4>1, AnswersMay
    <3>2. CASE h \in {"greeting", "outdated", "misplaced", "request", "garbage", "unended"} /\ line # <<>>
      <4>1. a = "response"
        BY <3>2
      <4> QED
        BY <3>2, <4>1, AnswersMay
    <3> QED
      BY <1>0, <3>1, <3>2
  <2> HIDE DEF a
  <2>5. a \in Conn!Answerable(h, Len(answers) + 1 = 1)
    BY <1>2, <1>9, <2>4
  <2> QED
    BY <1>6, <2>1, <2>2, <2>3, <2>5
<1> QED
  BY <1>1, <1>7, <1>8, <1>9

(* A line, one that is too long, or what the end of the stream left      *)
LEMMA HearKeeps == ASSUME ConnectionAssumption, ConnInv, Conn!Hear PROVE ConnInv'
<1> DEFINE buf == decoder.buf
           end == Conn!LineEnd(buf)
           line == SubSeq(buf, 1, end - 1)
           rest == SubSeq(buf, end + 1, Len(buf))
           h == peer.sent[Taken + 1]
<1>1. /\ Conn!Talking("control") /\ conn.at \in {"shake", "serve"} /\ conn.at # "closed" /\ conn.plane = "control"
      /\ found = Conn!NoMessage /\ (end # 0 \/ Conn!TooLong(buf))
      /\ peer' = peer /\ wire' = wire /\ decoder' = [decoder EXCEPT !.buf = rest]
      /\ \/ Conn!TooLong(buf) /\ Conn!Ends(<<"reject">>)
         \/ ~Conn!TooLong(buf) /\ Heard(line)
  BY DEF Conn!Hear, Conn!Talking, Heard
<1> HIDE DEF end, line, rest
<1>2. /\ Talks /\ Typed /\ Taken \in Nat /\ Len(peer.sent) \in Nat /\ wire \in Seq(Nat)
      /\ Taken # Len(peer.sent) => h \in Conn!Spoken /\ (h = "unended" => Taken + 1 = Len(peer.sent))
  BY <1>1, TalkSays DEF Typed
<1>3. Decoder(decoder) /\ ~decoder.poisoned /\ decoder.pos = 0 /\ peer.sent # <<>>
  BY <1>1, <1>2 DEF Talks, Planes
<1>4. ASSUME rest \in Seq(Nat)
      PROVE  /\ Decoder(decoder') /\ ~decoder'.poisoned /\ decoder'.pos = 0 /\ decoder'.buf = rest
             /\ Unread(decoder', wire') = rest \o wire
  <2>1. 0 <= Len(rest)
    BY <1>4, LenProperties
  <2>2. Decoder(decoder') /\ ~decoder'.poisoned /\ decoder'.pos = 0 /\ decoder'.buf = rest
    BY <1>1, <1>3, <1>4, <2>1 DEF Decoder
  <2> QED
    BY <1>1, <1>2, <2>2, BufferIs
<1>5. CASE Flushed
  <2>1. /\ wire = <<>> /\ Taken + 1 = Len(peer.sent) /\ h = "unended"
        /\ Spell(Conn!Bytes["unended"], peer.sent, Taken) /\ buf = Append(Conn!Bytes["unended"], Conn!Newline)
    BY <1>5 DEF Flushed
  <2>2. /\ buf \in Seq(Nat) /\ Conn!LineEnd(buf) = 3 /\ ~Conn!TooLong(buf) /\ buf[1] = 123 /\ buf[2] = 4
        /\ Len(buf) = 3 /\ SubSeq(buf, 4, Len(buf)) = <<>>
    BY <2>1, FlushedHeard
  <2>3. end = 3 /\ rest = <<>>
    BY <2>2 DEF end, rest
  <2>4. line # <<>> /\ Head(line) = 123 /\ Len(line) > 1 /\ line[2] = 4
    <3>1. line = SubSeq(buf, 1, 2)
      BY <2>3 DEF line
    <3>2. Len(buf) = 3
      BY <2>2
    <3> HIDE DEF buf
    <3>3. line \in Seq(Nat) /\ Len(line) = 2 /\ line[1] = buf[1] /\ line[2] = buf[2]
      BY <2>2, <3>1, <3>2, SubSeqProperties
    <3>4. line[1] = 123 /\ line[2] = 4
      BY <2>2, <3>3
    <3>5. line # <<>> /\ Head(line) = line[1]
      BY <3>3, EmptySeq, HeadTailProperties
    <3> QED
      BY <3>3, <3>4, <3>5
  <2>5. rest \in Seq(Nat) /\ Unread(decoder', wire') = <<>>
    <3>1. rest \in Seq(Nat) /\ rest \o wire = <<>>
      BY <2>1, <2>3
    <3> QED
      BY <1>4, <3>1
  <2>6. Spell(<<>>, peer.sent, Taken + 1)
    <3> DEFINE b == Conn!Bytes["unended"]
    <3>1. b \in Seq(Nat) /\ Len(b) = 2
      BY UnendedBytes
    <3>2. Taken # Len(peer.sent)
      BY <1>2, <2>1
    <3>3. Conn!Bytes[h] = b
      BY <2>1
    <3>4. Spell(b, peer.sent, Taken)
      BY <2>1
    <3> HIDE DEF b
    <3>5. Spell(SubSeq(b, Len(b) + 1, Len(b)), peer.sent, Taken + 1)
      BY <3>2, <3>3, <3>4, SpellsItem
    <3>6. SubSeq(b, Len(b) + 1, Len(b)) = <<>>
      BY <3>1, SubSeqEmpty
    <3> QED
      BY <3>5, <3>6
  <2>7. Spell(Unread(decoder', wire'), peer.sent, Taken + 1)
    BY <2>5, <2>6
  <2>8. LineIs(h, line)
    BY <2>1, <2>4 DEF LineIs
  <2>9. Taken \in 0..Len(peer.sent) - 1 /\ h = peer.sent[Taken + 1]
    BY <1>2, <2>1
  <2>10. Decoder(decoder') /\ ~decoder'.poisoned /\ decoder'.pos = 0
    BY <1>4, <2>5
  <2>11. Heard(line)
    BY <1>1, <2>2
  <2> HIDE DEF buf, h
  <2> QED
    BY <1>1, <2>7, <2>8, <2>9, <2>10, <2>11, LineHeard, Zenon
<1>6. CASE ~Flushed
  <2>1. buf \in Seq(Nat) /\ Spell(buf \o wire, peer.sent, Taken)
    <3>1. Spell(Unread(decoder, wire), peer.sent, Taken)
      BY <1>2, <1>6 DEF Talks
    <3> QED
      BY <1>2, <1>3, <3>1, BufferIs
  <2> DEFINE b == Conn!Bytes[h]
  <2>2. /\ Taken \in 0..Len(peer.sent) - 1
        /\ \/ h = "endless" /\ Conn!TooLong(buf)
           \/ /\ h \in Ended /\ ~Conn!TooLong(buf) /\ end # 0
              /\ line = SubSeq(b, 1, Len(b) - 1)
              /\ rest \in Seq(Nat)
              /\ Spell(rest \o wire, peer.sent, Taken + 1)
    <3> HIDE DEF buf, h
    <3>1. Taken # Len(peer.sent) =>
            peer.sent[Taken + 1] \in Conn!Spoken /\ (peer.sent[Taken + 1] = "unended" => Taken + 1 = Len(peer.sent))
      BY <1>2 DEF h
    <3>2. LET hh == peer.sent[Taken + 1]
              bb == Conn!Bytes[hh]
              ee == Conn!LineEnd(buf)
          IN /\ Taken \in 0..Len(peer.sent) - 1
             /\ \/ hh = "endless" /\ Conn!TooLong(buf)
                \/ /\ hh \in Ended /\ ~Conn!TooLong(buf) /\ ee # 0
                   /\ SubSeq(buf, 1, ee - 1) = SubSeq(bb, 1, Len(bb) - 1)
                   /\ SubSeq(buf, ee + 1, Len(buf)) \in Seq(Nat)
                   /\ Spell(SubSeq(buf, ee + 1, Len(buf)) \o wire, peer.sent, Taken + 1)
      <4>1. Conn!LineEnd(buf) # 0 \/ Conn!TooLong(buf)
        BY <1>1 DEF end
      <4> QED
        BY <1>2, <2>1, <3>1, <4>1, LineTaken, Zenon
    <3> QED
      BY <3>2 DEF end, line, rest, h
  <2>3. CASE Conn!TooLong(buf)
    <3>1. h = "endless" /\ Conn!Ends(<<"reject">>)
      BY <1>1, <2>2, <2>3
    <3>2. Len(answers) < Len(Conn!Said) /\ Conn!Said[Len(answers) + 1] = h
      BY <1>1, <2>2, NextSaid
    <3>3. /\ "reject" \in Conn!Answerable("endless", TRUE)
          /\ "reject" \in Conn!Answerable("endless", FALSE)
      BY DEF Conn!Answerable
    <3>4. (Len(answers) + 1 = 1) \in BOOLEAN
      OBVIOUS
    <3>5. "reject" \in Conn!Answerable(Conn!Said[Len(answers) + 1], Len(answers) + 1 = 1)
      BY <3>1, <3>2, <3>3, <3>4
    <3> QED
      BY <1>1, <1>2, <3>1, <3>2, <3>5, EndsKeeps
  <2>4. CASE ~Conn!TooLong(buf)
    <3>1. h \in Ended /\ line = SubSeq(b, 1, Len(b) - 1) /\ rest \in Seq(Nat) /\ Spell(rest \o wire, peer.sent, Taken + 1)
      BY <2>2, <2>4
    <3>2. LineIs(h, line)
      <4> HIDE DEF h
      <4> QED
        BY <3>1, LineSays
    <3>3. /\ Decoder(decoder') /\ ~decoder'.poisoned /\ decoder'.pos = 0
          /\ Spell(Unread(decoder', wire'), peer.sent, Taken + 1)
      BY <1>4, <3>1
    <3>4. Heard(line)
      BY <1>1, <2>4
    <3>5. Taken \in 0..Len(peer.sent) - 1 /\ h = peer.sent[Taken + 1]
      BY <2>2
    <3> HIDE DEF buf, h, b
    <3> QED
      BY <1>1, <3>2, <3>3, <3>4, <3>5, LineHeard, Zenon
  <2> QED
    BY <2>3, <2>4
<1> QED
  BY <1>5, <1>6

(* A connection of which no byte has arrived                             *)
LEMMA ConnInitKeeps == ASSUME Conn!Init PROVE ConnInv
<1>1. /\ peer = [sent |-> <<>>, open |-> TRUE] /\ wire = <<>> /\ conn = [at |-> "sniff", plane |-> "none"]
      /\ decoder = Fresh /\ found = Conn!NoMessage /\ host = [is |-> "running", attached |-> FALSE]
      /\ answers = <<>>
  BY DEF Conn!Init, Fresh
<1>2. <<>> \in Seq(Known) /\ <<>> \in Seq(Nat) /\ <<>> \in Seq(Replies) /\ Len(<<>>) = 0
  BY EmptySeq
<1>3. Typed
  <2>1. Stream(peer.sent)
    BY <1>1, <1>2 DEF Stream
  <2> QED
    BY <1>1, <1>2, <2>1 DEF Typed
<1>4. Sniffing
  BY <1>1, SpellsNone DEF Sniffing
<1>5. Conn!Answered
  BY <1>1 DEF Conn!Answered
<1>6. Conn!Attachment
  BY <1>1 DEF Conn!Attachment
<1> QED
  BY <1>1, <1>3, <1>4, <1>5, <1>6 DEF ConnInv

(* Every step of a connection                                            *)
LEMMA ConnKeeps == ASSUME ConnectionAssumption, ConnInv, Conn!Next \/ UNCHANGED connVars PROVE ConnInv'
<1>1. CASE Conn!PeerSends
  BY <1>1, PeerSendsKeeps
<1>2. CASE Conn!PeerCloses \/ Conn!Exit \/ Conn!Forget \/ UNCHANGED connVars
  BY <1>2, OthersKeep
<1>3. CASE Conn!Expire \/ Conn!CloseClient
  BY <1>3, ExpireKeeps
<1>4. CASE Conn!Sniff
  BY <1>4, SniffKeeps
<1>5. CASE Conn!Read
  BY <1>5, ReadKeeps
<1>6. CASE Conn!Eof
  BY <1>6, EofKeeps
<1>7. CASE Conn!Shake
  BY <1>7, ShakeKeeps
<1>8. CASE Conn!Handle
  BY <1>8, HandleKeeps
<1>9. CASE Conn!Act
  BY <1>9, ActKeeps
<1>10. CASE Conn!Hear
  BY <1>10, HearKeeps
<1> QED
  BY <1>1, <1>2, <1>3, <1>4, <1>5, <1>6, <1>7, <1>8, <1>9, <1>10 DEF Conn!Next, Conn!Task

(* Every message of a connection is answered once and in order, however the *)
(* stream is cut into reads, and the client is attached as the last Attach  *)
(* or Detach says (FrameDecoder, next_line, serve, handle)                  *)
THEOREM EveryMessageIsAnswered == MachinesSpec => []Answered
<1>1. MachinesInit => ConnInv
  BY ConnInitKeeps DEF MachinesInit
<1>2. ConnInv /\ [MachinesNext]_machinesVars => ConnInv'
  <2> SUFFICES ASSUME ConnInv, [MachinesNext]_machinesVars PROVE ConnInv'
    OBVIOUS
  <2>1. Conn!Next \/ UNCHANGED connVars
    BY DEF MachinesNext, machinesVars, connVars, ControlStep, ScrollStep, PipeStep, HostStep, ConnStep, PointerStep, MemoryStep
  <2> QED
    BY <2>1, ConnectionAssumption, ConnKeeps
<1>3. ConnInv => Answered
  BY DEF ConnInv, Answered
<1> QED
  BY <1>1, <1>2, <1>3, PTL DEF MachinesSpec
=============================================================================
