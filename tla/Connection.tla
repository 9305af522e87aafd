----------------------------- MODULE Connection -----------------------------
(***************************************************************************)
(* One connection of the daemon, from the first byte to the end: which     *)
(* plane it is (st-server/src/control/mod.rs), the frames of the data      *)
(* plane (st-proto/src/frame.rs, data.rs) and the lines of the control     *)
(* plane (control/conn.rs), the handshake, and one answer per message      *)
(* (data/conn.rs, control/handlers.rs).                                    *)
(*                                                                         *)
(* Bytes are numbers.  The stream keeps no boundaries: the peer writes     *)
(* whole items, and a read returns any part of what is there.  The magic   *)
(* has two bytes here, a length, a message type and a field one each.      *)
(***************************************************************************)
EXTENDS Naturals, Sequences, SequencesExt

CONSTANTS
  Items,     (* what a peer may send, of DOMAIN Bytes                        *)
  MaxItems,  (* bound: items a peer sends                                    *)
  Rare,      (* bound: those of them that count twice                        *)
  MaxFrame,  (* MAX_FRAME                                                    *)
  MaxLine,   (* MAX_CONTROL_LINE                                             *)
  Compact    (* COMPACT_THRESHOLD                                            *)

VARIABLES
  peer,    (* the items it has sent, and whether it has closed its end       *)
  wire,    (* bytes sent and not read                                        *)
  conn,    (* what the task of the connection is at, and its plane           *)
  decoder, (* FrameDecoder; a LineReader uses its buf                        *)
  found,   (* the message at hand, when its Surface has been looked up       *)
  host,    (* the one Surface: its state, and whether the client is attached *)
  answers  (* per message: what was sent for it                              *)

connVars == <<peer, wire, conn, decoder, found, host, answers>>
-----------------------------------------------------------------------------
(* What peers send *)

Brace == 123
Newline == 10
Magic == <<255, 83>>
Major == 1

HELLO == 1
ATTACH == 16
DETACH == 17
INPUT == 18
RESIZE == 19
FETCH_HISTORY == 20
ACK == 21
SET_VIEW_STATE == 22
SNAPSHOT == 256

Framed(type, payload) == <<1 + Len(payload), type>> \o payload
Line(what) == <<Brace>> \o what \o <<Newline>>

(* A line is `{` and what it says: 1 hello, 2 hello of another major, 3 hello *)
(* of a data client, 4 a request.  What ends without a newline is the last    *)
(* thing a peer sends                                                         *)
Bytes == [
  magic   |-> Magic,                     junk    |-> <<255, 7>>,
  hello   |-> Framed(HELLO, <<Major>>),  foreign |-> Framed(HELLO, <<Major + 1>>),
  attach  |-> Framed(ATTACH, <<>>),      detach  |-> Framed(DETACH, <<>>),
  input   |-> Framed(INPUT, <<1>>),      paste   |-> Framed(INPUT, <<9>>),
  resize  |-> Framed(RESIZE, <<2, 2>>),  flat    |-> Framed(RESIZE, <<2, 0>>),
  fetch   |-> Framed(FETCH_HISTORY, <<>>), ack   |-> Framed(ACK, <<>>),
  view    |-> Framed(SET_VIEW_STATE, <<>>),
  reply   |-> Framed(SNAPSHOT, <<>>),    novel   |-> Framed(99, <<1>>),
  cut     |-> Framed(RESIZE, <<2>>),     short   |-> <<0, ATTACH>>,
  huge    |-> <<MaxFrame + 1, INPUT>>,
  greeting |-> Line(<<1>>), outdated |-> Line(<<2>>), misplaced |-> Line(<<3>>),
  request |-> Line(<<4>>),  garbage |-> Line(<<5>>),  blank |-> <<Newline>>,
  unended |-> <<Brace, 4>>,
  endless |-> <<Brace>> \o [i \in 1..MaxLine |-> 4] ]

Spoken == {"greeting", "outdated", "misplaced", "request", "garbage", "blank", "unended", "endless"}
-----------------------------------------------------------------------------
(* The frame decoder: what the next frame is, and the decoder after it *)

Decode(d) ==
  LET rest == Len(d.buf) - d.pos
      len == d.buf[d.pos + 1]
      end == d.pos + 1 + len
  IN CASE d.poisoned                          -> [is |-> "error", next |-> d]
       [] ~d.poisoned /\ rest < 2             -> [is |-> "more", next |-> d]
       [] ~d.poisoned /\ rest >= 2 /\ (len < 1 \/ len > MaxFrame)
                                              -> [is |-> "error", next |-> [d EXCEPT !.poisoned = TRUE]]
       [] ~d.poisoned /\ rest >= 2 /\ len \in 1..MaxFrame /\ rest < 1 + len
                                              -> [is |-> "more", next |-> d]
       [] OTHER -> [is |-> "frame", type |-> d.buf[d.pos + 2],
                    payload |-> SubSeq(d.buf, d.pos + 3, end),
                    next |-> IF end = Len(d.buf) THEN [d EXCEPT !.buf = <<>>, !.pos = 0]
                             ELSE [d EXCEPT !.pos = end]]

Push_KeepsPos(d, bytes) ==
  IF d.pos > Compact THEN [d EXCEPT !.buf = SubSeq(@, d.pos + 1, Len(@)) \o bytes]
  ELSE [d EXCEPT !.buf = @ \o bytes]

Push(d, bytes) ==
  IF d.pos > Compact THEN [d EXCEPT !.buf = SubSeq(@, d.pos + 1, Len(@)) \o bytes, !.pos = 0]
  ELSE [d EXCEPT !.buf = @ \o bytes]

(* from_frame: fields that are missing make a message undecodable, bytes    *)
(* that are left over do not                                                *)
Fields(type) == CASE type \in {HELLO, INPUT} -> 1 [] type = RESIZE -> 2 [] OTHER -> 0
Decodable(f) ==
  /\ f.type \in {HELLO, ATTACH, DETACH, INPUT, RESIZE, FETCH_HISTORY, ACK, SET_VIEW_STATE, SNAPSHOT}
  /\ Len(f.payload) >= Fields(f.type)

(* next_line: the line, if it is complete, and what is kept of the buffer   *)
LineEnd(buf) == IF Contains(buf, Newline) THEN SelectInSeq(buf, LAMBDA b : b = Newline) ELSE 0
TooLong(buf) == (IF LineEnd(buf) = 0 THEN Len(buf) ELSE LineEnd(buf) - 1) > MaxLine
-----------------------------------------------------------------------------
NoMessage == [type |-> 0, payload |-> <<>>]

Init ==
  /\ peer = [sent |-> <<>>, open |-> TRUE] /\ wire = <<>>
  /\ conn = [at |-> "sniff", plane |-> "none"]
  /\ decoder = [buf |-> <<>>, pos |-> 0, poisoned |-> FALSE]
  /\ found = NoMessage /\ host = [is |-> "running", attached |-> FALSE]
  /\ answers = <<>>

(* What a stream begins with tells its plane; on the data plane it is no    *)
(* message.  The peer writes an item, of that plane, or closes its end      *)
Opening == {"magic", "junk"} \cup Spoken

PeerSends == \E item \in Items :
  /\ peer.open /\ Len(peer.sent) + (IF item \in Rare THEN 2 ELSE 1) <= MaxItems
  /\ IF peer.sent = <<>> THEN item \in Opening
     ELSE item \in Spoken \/ item \notin Opening
  /\ \A i \in DOMAIN peer.sent : /\ peer.sent[i] \in Spoken <=> item \in Spoken
                                /\ peer.sent[i] # "unended"
  /\ peer' = [peer EXCEPT !.sent = Append(@, item)] /\ wire' = wire \o Bytes[item]
  /\ UNCHANGED <<conn, decoder, found, host, answers>>

PeerCloses ==
  /\ peer.open /\ peer' = [peer EXCEPT !.open = FALSE]
  /\ UNCHANGED <<wire, conn, decoder, found, host, answers>>

(* The Surface ends, or its Pane is closed, on other threads *)
Exit ==
  /\ host.is = "running" /\ host' = [host EXCEPT !.is = "exited"]
  /\ UNCHANGED <<peer, wire, conn, decoder, found, answers>>

Forget ==
  /\ host.is # "gone" /\ host' = [host EXCEPT !.is = "gone"]
  /\ UNCHANGED <<peer, wire, conn, decoder, found, answers>>
-----------------------------------------------------------------------------
(* The end of the connection: a Surface that is still registered forgets it *)
Unregistered == host' = [host EXCEPT !.attached = @ /\ host.is = "gone"]

Ends(answered) ==
  /\ conn' = [conn EXCEPT !.at = "closed"] /\ answers' = answers \o answered
  /\ found' = NoMessage /\ Unregistered

(* The first bytes: a control line keeps its brace, the magic is consumed   *)
Sniff ==
  /\ conn.at = "sniff" /\ wire # <<>>
  /\ \/ /\ Head(wire) = Brace
        /\ conn' = [at |-> "shake", plane |-> "control"]
        /\ decoder' = [decoder EXCEPT !.buf = <<Brace>>] /\ wire' = Tail(wire)
        /\ UNCHANGED <<found, host, answers>>
     \/ /\ Head(wire) = Magic[1] /\ Len(wire) >= 2
        /\ wire' = SubSeq(wire, 3, Len(wire)) /\ UNCHANGED decoder
        /\ IF wire[2] = Magic[2]
           THEN conn' = [at |-> "shake", plane |-> "data"] /\ UNCHANGED <<found, host, answers>>
           ELSE Ends(<<>>)
     \/ /\ Head(wire) \notin {Brace, Magic[1]}
        /\ Ends(<<>>) /\ wire' = Tail(wire) /\ UNCHANGED decoder
  /\ UNCHANGED peer

(* No hello in time.  The two waits have a budget each *)
Expire ==
  /\ conn.at \in {"sniff", "shake"} /\ Ends(<<>>)
  /\ UNCHANGED <<peer, wire, decoder>>

Talking(plane) == conn.plane = plane /\ conn.at \in {"shake", "serve"} /\ found = NoMessage

(* A read, when there is no message in what has been read *)
Wants ==
  \/ Talking("data") /\ Decode(decoder).is = "more"
  \/ Talking("control") /\ LineEnd(decoder.buf) = 0 /\ ~TooLong(decoder.buf)

Read == \E n \in 1..Len(wire) :
  /\ Wants
  /\ decoder' = Push(decoder, SubSeq(wire, 1, n)) /\ wire' = SubSeq(wire, n + 1, Len(wire))
  /\ UNCHANGED <<peer, conn, found, host, answers>>

(* The end of the stream: what is left of a line counts as one *)
Eof ==
  /\ wire = <<>> /\ ~peer.open
  /\ \/ conn.at = "sniff" \/ Wants
  /\ IF conn.plane = "control" /\ decoder.buf # <<>>
     THEN decoder' = [decoder EXCEPT !.buf = Append(@, Newline)] /\ UNCHANGED <<conn, found, host, answers>>
     ELSE Ends(<<>>) /\ UNCHANGED decoder
  /\ UNCHANGED <<peer, wire>>
-----------------------------------------------------------------------------
(* The data plane *)

Answer(what) == answers' = Append(answers, what) /\ UNCHANGED <<conn, host>>

(* The first message has to be a Hello of our major (serve, greet) *)
Shake ==
  /\ Talking("data") /\ conn.at = "shake"
  /\ LET f == Decode(decoder) IN
     /\ f.is # "more" /\ decoder' = f.next
     /\ IF f.is = "frame" /\ f.type = HELLO /\ Decodable(f) /\ f.payload[1] = Major
        THEN conn' = [conn EXCEPT !.at = "serve"] /\ answers' = Append(answers, "ack") /\ UNCHANGED <<found, host>>
        ELSE Ends(<<"reject">>)
  /\ UNCHANGED <<peer, wire>>

(* handle: a message no client sends, or none at all, is an error of its    *)
(* own and not of the connection; one about a Surface looks it up           *)
Handle ==
  /\ Talking("data") /\ conn.at = "serve"
  /\ LET f == Decode(decoder) IN
     /\ f.is # "more" /\ decoder' = f.next
     /\ \/ f.is = "error" /\ Ends(<<>>)
        \/ /\ f.is = "frame" /\ (~Decodable(f) \/ f.type \in {HELLO, SNAPSHOT})
           /\ Answer("bad request") /\ UNCHANGED found
        \/ /\ f.is = "frame" /\ Decodable(f) /\ f.type \notin {HELLO, SNAPSHOT}
           /\ IF host.is = "gone" THEN Answer("no such surface") /\ UNCHANGED found
              ELSE found' = [type |-> f.type, payload |-> f.payload] /\ UNCHANGED <<conn, host, answers>>
  /\ UNCHANGED <<peer, wire>>

MaxInput == 8

(* A message done, under the lock of a Surface that may have been removed   *)
(* since it was found                                                       *)
Done(type, what) ==
  /\ found.type = type /\ found' = NoMessage
  /\ answers' = Append(answers, what) /\ UNCHANGED <<peer, wire, conn, decoder>>

OnAttach == Done(ATTACH, "none") /\ host' = [host EXCEPT !.attached = TRUE]

OnDetach ==
  /\ Done(DETACH, IF host.attached THEN "detached" ELSE "not attached")
  /\ host' = [host EXCEPT !.attached = FALSE]

OnInput ==
  /\ Done(INPUT, IF found.payload[1] > MaxInput THEN "bad request"
                 ELSE IF host.is = "exited" THEN "exited" ELSE "none")
  /\ UNCHANGED host

OnResize == Done(RESIZE, IF found.payload[2] = 0 THEN "bad request" ELSE "none") /\ UNCHANGED host

OnFetchHistory == Done(FETCH_HISTORY, "history") /\ UNCHANGED host

OnAck == Done(ACK, "none") /\ UNCHANGED host

OnSetViewState == Done(SET_VIEW_STATE, "none") /\ UNCHANGED host

Act == OnAttach \/ OnDetach \/ OnInput \/ OnResize \/ OnFetchHistory \/ OnAck
       \/ OnSetViewState

(* close_client wakes the task only when it waits for a message *)
CloseClient ==
  /\ conn.at = "serve" /\ conn.plane = "data" /\ Wants /\ Ends(<<>>)
  /\ UNCHANGED <<peer, wire, decoder>>
-----------------------------------------------------------------------------
(* The control plane: a line, its trailing CR aside *)
Hear ==
  /\ Talking("control") /\ (LineEnd(decoder.buf) # 0 \/ TooLong(decoder.buf))
  /\ LET line == SubSeq(decoder.buf, 1, LineEnd(decoder.buf) - 1)
         hello == line # <<>> /\ Head(line) = Brace /\ Len(line) > 1 /\ line[2] \in 1..3
     IN /\ decoder' = [decoder EXCEPT !.buf = SubSeq(@, LineEnd(@) + 1, Len(@))]
        /\ CASE TooLong(decoder.buf) -> Ends(<<"reject">>)
             [] ~TooLong(decoder.buf) /\ conn.at = "shake" ->
                  IF hello /\ line[2] = 1
                  THEN conn' = [conn EXCEPT !.at = "serve"] /\ answers' = Append(answers, "ack") /\ UNCHANGED <<found, host>>
                  ELSE Ends(<<"reject">>)
             [] OTHER -> Answer(IF line = <<>> THEN "none" ELSE "response") /\ UNCHANGED found
  /\ UNCHANGED <<peer, wire>>

Task == Sniff \/ Read \/ Eof \/ Shake \/ Handle \/ Act \/ Hear
Next == PeerSends \/ PeerCloses \/ Exit \/ Forget \/ Expire \/ CloseClient \/ Task
-----------------------------------------------------------------------------
ConnTypes ==
  /\ decoder.pos <= Len(decoder.buf) /\ (decoder.poisoned => conn.at = "closed")
  /\ conn.plane = "control" => found = NoMessage /\ decoder.pos = 0

(* What was sent, the magic aside, and what may be answered to each of it   *)
Said == IF peer.sent # <<>> /\ Head(peer.sent) \in {"magic", "junk"} THEN Tail(peer.sent) ELSE peer.sent

Answerable(item, first) ==
  IF first THEN IF item \in {"hello", "greeting"} THEN {"ack"} ELSE {"reject"}
  ELSE CASE item \in {"attach", "resize", "ack", "view"} -> {"none", "no such surface"}
         [] item = "detach" -> {"detached", "not attached", "no such surface"}
         [] item = "input"  -> {"none", "exited", "no such surface"}
         [] item = "fetch"  -> {"history", "no such surface"}
         [] item \in {"paste", "flat"} -> {"bad request", "no such surface"}
         [] item \in {"hello", "foreign", "reply", "novel", "cut"} -> {"bad request"}
         [] item \in {"short", "huge", "magic", "junk"} -> {}
         [] item = "blank"  -> {"none"}
         [] item = "endless" -> {"reject"}
         [] OTHER -> {"response"}

(* Every message is answered once and in order, however the stream is cut   *)
(* into reads: nothing before a hello, nothing after a reject, and what is  *)
(* wrong with a message ends neither the connection nor the order of the    *)
(* frames (FrameDecoder, next_incoming, next_line, handshake)               *)
Answered ==
  \A i \in DOMAIN answers :
    /\ i <= Len(Said) /\ answers[i] \in Answerable(Said[i], i = 1)
    /\ answers[i] = "reject" => i = Len(answers) /\ conn.at = "closed"

(* The client is attached as its last Attach or Detach that was done says *)
Attachment ==
  host.is # "gone" =>
    (host.attached <=>
       /\ conn.at # "closed"
       /\ \E i \in DOMAIN answers :
            /\ Said[i] = "attach" /\ answers[i] = "none"
            /\ \A j \in i + 1..Len(answers) : answers[j] # "detached")

(* A connection whose peer says nothing, or not enough, is closed, and what *)
(* is said is answered (HANDSHAKE_TIMEOUT_SECS)                             *)
Attended == conn.at # "sniff" /\ conn.at # "shake" /\ (conn.at = "serve" => wire = <<>> /\ found = NoMessage)
=============================================================================
