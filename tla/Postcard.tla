------------------------------ MODULE Postcard ------------------------------
(***************************************************************************)
(* The messages of the data plane in bytes (st-proto/src/data.rs, cell.rs, *)
(* frame.rs): postcard writes the fields of a struct one after the other,  *)
(* without names, so both ends must agree on every width and order.        *)
(***************************************************************************)
EXTENDS Integers, Sequences, SequencesExt, FiniteSetsExt, Wire

Fail == <<>>  \* what reading returns when it cannot, else <<value, rest>>

(***************************************************************************)
(* The types                                                               *)
(***************************************************************************)
CellFlags == Flags(8, 0..3)
Attrs == Flags(16, 0..10)
Modes == Flags(16, 0..10)
Color == Enum(<<"Default", "Indexed", "Rgb">>,
              <<Unit, Struct(<<Field("0", Byte)>>), Struct(<<Field("0", Byte), Field("1", Byte), Field("2", Byte)>>)>>)
Style == Struct(<<Field("fg", Color), Field("bg", Color), Field("underline_color", Color), Field("attrs", Attrs)>>)
PackedCell == Struct(<<Field("codepoint", UInt(32)), Field("style_idx", StyleIdx), Field("flags", CellFlags)>>)
Row == Struct(<<Field("cells", List(PackedCell)), Field("extras", List(Text)), Field("wrapped", Bool)>>)

AttachMode == Units(<<"Active", "Passive">>)
Attach == Struct(<<Field("surface_id", SurfaceId), Field("mode", AttachMode), Field("want_snapshot", Bool),
                   Field("known_seq", Seq64)>>)
Detach == Struct(<<Field("surface_id", SurfaceId)>>)
Input == Struct(<<Field("surface_id", SurfaceId), Field("bytes", List(Byte))>>)
Resize == Struct(<<Field("surface_id", SurfaceId), Field("cols", UInt(16)), Field("rows", UInt(16))>>)
FetchHistory == Struct(<<Field("surface_id", SurfaceId), Field("from_line", AbsLine), Field("count", UInt(16))>>)
Ack == Struct(<<Field("surface_id", SurfaceId), Field("seq", Seq64)>>)
SetViewState == Struct(<<Field("surface", SurfaceId), Field("scroll_offset", Opt(AbsLine)),
                         Field("selection", Opt(Selection))>>)
CursorShape == Units(<<"Block", "Underline", "Beam">>)
Cursor == Struct(<<Field("row", UInt(16)), Field("col", UInt(16)), Field("shape", CursorShape), Field("visible", Bool),
                   Field("blink", Bool)>>)
ExitStatus == Struct(<<Field("code", Opt(I32)), Field("signal", Opt(I32))>>)
Snapshot == Struct(<<Field("surface_id", SurfaceId), Field("seq", Seq64), Field("cols", UInt(16)), Field("rows", UInt(16)),
                     Field("styles", List(Style)), Field("grid", List(Row)), Field("cursor", Cursor),
                     Field("modes", Modes), Field("title", Text), Field("history_base", AbsLine),
                     Field("history_len", UInt(64)), Field("view_state", ViewState), Field("exited", Opt(ExitStatus))>>)
DirtyRow == Struct(<<Field("index", UInt(16)), Field("row", Row)>>)
Delta == Struct(<<Field("surface_id", SurfaceId), Field("seq", Seq64), Field("since_seq", Seq64),
                  Field("history_base", AbsLine), Field("history_len", UInt(64)),
                  Field("resized", Opt(Struct(<<Field("0", UInt(16)), Field("1", UInt(16))>>))),
                  Field("new_styles", List(Struct(<<Field("0", StyleIdx), Field("1", Style)>>))),
                  Field("rows", List(DirtyRow)), Field("cursor", Cursor), Field("modes", Modes),
                  Field("title", Opt(Text))>>)
History == Struct(<<Field("surface_id", SurfaceId), Field("from_line", AbsLine), Field("history_base", AbsLine),
                    Field("rows", List(Row))>>)
SurfaceExited == Struct(<<Field("surface_id", SurfaceId), Field("seq", Seq64), Field("status", ExitStatus)>>)
Bell == Struct(<<Field("surface_id", SurfaceId)>>)
DetachReason == Units(<<"Requested", "SurfaceDestroyed", "ServerShutdown">>)
Detached == Struct(<<Field("surface_id", SurfaceId), Field("reason", DetachReason)>>)
DataError == Struct(<<Field("surface_id", Opt(SurfaceId)), Field("code", UInt(16)), Field("message", Text)>>)

DataMsg ==
  [Hello |-> Hello, HelloAck |-> HelloAck, Reject |-> Reject, Attach |-> Attach, Detach |-> Detach, Input |-> Input,
   Resize |-> Resize, FetchHistory |-> FetchHistory, Ack |-> Ack, SetViewState |-> SetViewState,
   Snapshot |-> Snapshot, Delta |-> Delta, History |-> History, SurfaceExited |-> SurfaceExited, Bell |-> Bell,
   Detached |-> Detached, DataError |-> DataError]

(* msg_type: the code of a message in the header of its frame               *)
MsgType ==
  [Hello |-> 1, HelloAck |-> 2, Reject |-> 3, Attach |-> 16, Detach |-> 17, Input |-> 18, Resize |-> 19,
   FetchHistory |-> 20, Ack |-> 21, SetViewState |-> 22, Snapshot |-> 256, Delta |-> 257, History |-> 258,
   SurfaceExited |-> 259, Bell |-> 262, Detached |-> 263, DataError |-> 511]

(***************************************************************************)
(* postcard                                                                *)
(***************************************************************************)
Varint(digits) == [n \in DOMAIN digits |-> IF n < Len(digits) THEN 128 + digits[n] ELSE digits[n]]
Digits(n) == IF n < 128 THEN <<n>> ELSE IF n < 128 * 128 THEN <<n % 128, n \div 128>>
             ELSE <<n % 128, (n \div 128) % 128, n \div (128 * 128)>>
Decoded(digits) == FoldRight(LAMBDA d, n : d + 128 * n, digits, 0)
Bits(set) == SumSet({2 ^ b : b \in set})
Zigzag(i) == IF i < 0 THEN 0 - (2 * i) - 1 ELSE 2 * i
Unzigzag(n) == IF n % 2 = 1 THEN 0 - ((n + 1) \div 2) ELSE n \div 2

RECURSIVE Put(_, _)
Put(kind, v) ==
  CASE kind.k = "int" -> Varint(v)
    [] kind.k = "byte" -> <<v>>
    [] kind.k = "i32" -> Varint(Digits(Zigzag(v)))
    [] kind.k = "bool" -> IF v THEN <<1>> ELSE <<0>>
    [] kind.k = "text" -> Varint(Digits(Len(v))) \o v
    [] kind.k = "opt" -> IF v = <<>> THEN <<0>> ELSE <<1>> \o Put(kind.of, v[1])
    [] kind.k = "list" -> Varint(Digits(Len(v))) \o FlattenSeq([n \in DOMAIN v |-> Put(kind.of, v[n])])
    [] kind.k = "struct" -> FlattenSeq([n \in DOMAIN v |-> Put(kind.fields[n].of, v[n])])
    [] kind.k = "enum" -> Varint(Digits(v[1] - 1)) \o Put(kind.of[v[1]], v[2])
    [] kind.k = "flags" -> IF kind.bits = 8 THEN <<Bits(v)>> ELSE Varint(Digits(Bits(v)))
    [] kind.k = "version" -> Varint(Digits(256 * v[1] + v[2]))

(* A varint ends at the first byte below 128; one wider than its type fails *)
GetVarint(bits, bytes) ==
  LET ends == {n \in DOMAIN bytes : bytes[n] < 128}
      n == Min(ends)
      most == Largest(bits)
  IN IF ends = {} \/ n > Len(most) \/ (n = Len(most) /\ bytes[n] > Last(most)) THEN Fail
     ELSE <<[i \in 1..n |-> bytes[i] % 128], SubSeq(bytes, n + 1, Len(bytes))>>

GetNumber(bits, bytes) ==
  LET r == GetVarint(bits, bytes) IN IF r = Fail THEN Fail ELSE <<Decoded(r[1]), r[2]>>

(* from_bits_truncate: bits this build does not know are dropped            *)
Known(kind, number) == {b \in kind.known : (number \div 2 ^ b) % 2 = 1}

RECURSIVE Get(_, _), GetAll(_, _)
GetAll(kinds, bytes) ==
  IF kinds = <<>> THEN <<<<>>, bytes>>
  ELSE LET first == Get(Head(kinds), bytes)
           others == GetAll(Tail(kinds), first[2])
       IN IF first = Fail \/ others = Fail THEN Fail ELSE <<<<first[1]>> \o others[1], others[2]>>

Get(kind, bytes) ==
  LET byte == IF bytes = <<>> THEN 0 - 1 ELSE bytes[1]
      rest == SubSeq(bytes, 2, Len(bytes))
  IN CASE kind.k = "int" -> GetVarint(kind.bits, bytes)
       [] kind.k = "byte" -> IF byte < 0 THEN Fail ELSE <<byte, rest>>
       [] kind.k = "i32" -> LET r == GetNumber(32, bytes) IN IF r = Fail THEN Fail ELSE <<Unzigzag(r[1]), r[2]>>
       [] kind.k = "bool" -> IF byte \notin {0, 1} THEN Fail ELSE <<byte = 1, rest>>
       [] kind.k \in {"text", "list"} ->
            LET r == GetNumber(64, bytes) IN
            IF r = Fail THEN Fail
            ELSE GetAll([n \in 1..r[1] |-> IF kind.k = "text" THEN Byte ELSE kind.of], r[2])
       [] kind.k = "opt" -> IF byte = 0 THEN <<<<>>, rest>> ELSE IF byte = 1 THEN GetAll(<<kind.of>>, rest) ELSE Fail
       [] kind.k = "struct" -> GetAll([n \in DOMAIN kind.fields |-> kind.fields[n].of], bytes)
       [] kind.k = "enum" ->
            LET r == GetNumber(32, bytes) IN
            IF r = Fail \/ r[1] >= Len(kind.of) THEN Fail
            ELSE LET body == Get(kind.of[r[1] + 1], r[2])
                 IN IF body = Fail THEN Fail ELSE <<<<r[1] + 1, body[1]>>, body[2]>>
       [] kind.k = "flags" ->
            LET r == IF kind.bits = 8 THEN (IF byte < 0 THEN Fail ELSE <<byte, rest>>) ELSE GetNumber(16, bytes)
            IN IF r = Fail THEN Fail ELSE <<Known(kind, r[1]), r[2]>>
       [] kind.k = "version" ->
            LET r == GetNumber(16, bytes) IN IF r = Fail THEN Fail ELSE <<<<r[1] \div 256, r[1] % 256>>, r[2]>>

(***************************************************************************)
(* Messages and frames; a message is <<its type, its fields>>              *)
(***************************************************************************)
ToPayload(m) == Put(DataMsg[m[1]], m[2])

(* from_frame: what follows the last field is not looked at                 *)
FromFrame(code, payload) ==
  LET names == {name \in DOMAIN MsgType : MsgType[name] = code}
      name == CHOOSE name \in names : TRUE
      read == Get(DataMsg[name], payload)
  IN IF names = {} \/ read = Fail THEN <<"error", Fail>> ELSE <<name, read[1]>>

LittleEndian(n, bytes) == [i \in 1..bytes |-> (n \div 256 ^ (i - 1)) % 256]
EncodeFrame(m) ==
  LittleEndian(Len(ToPayload(m)) + 2, 3) \o <<0>> \o LittleEndian(MsgType[m[1]], 2) \o ToPayload(m)

(* next_frame on a whole buffer: the first message and the rest             *)
NextFrame(buffer) ==
  LET len == buffer[1] + 256 * (buffer[2] + 256 * buffer[3])
      code == buffer[5] + 256 * buffer[6]
  IN <<FromFrame(code, SubSeq(buffer, 7, len + 4)), SubSeq(buffer, len + 5, Len(buffer))>>
-----------------------------------------------------------------------------
Messages == UNION {{<<name, Value(DataMsg[name], i)>> : i \in 0..23} : name \in DOMAIN DataMsg}

(* A message is read as it was written, and a part of it is never read as a *)
(* message; two in a row are read one after the other                      *)
Carried(m) ==
  LET payload == ToPayload(m) IN
  /\ FromFrame(MsgType[m[1]], payload) = m
  /\ \A n \in 0 .. Len(payload) - 1 : FromFrame(MsgType[m[1]], SubSeq(payload, 1, n))[1] = "error"
  /\ NextFrame(EncodeFrame(m) \o EncodeFrame(<<"Bell", <<<<7>>>>>>)) = <<m, EncodeFrame(<<"Bell", <<<<7>>>>>>)>>

(* What a newer peer adds within a major version is not misread: mode bits  *)
(* are dropped, variants and types are refused                             *)
NewerIsMasked ==
  /\ \A set \in SUBSET (9..15) : Get(Modes, Put(Modes, set)) = <<set \cap Modes.known, <<>>>>
  /\ \A set \in SUBSET (2..7) : Get(CellFlags, Put(CellFlags, set)) = <<set \cap CellFlags.known, <<>>>>
  /\ Get(DetachReason, <<3>>) = Fail
  /\ FromFrame(264, <<7>>)[1] = "error" /\ FromFrame(260, <<>>)[1] = "error"
=============================================================================
