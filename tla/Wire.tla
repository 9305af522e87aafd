-------------------------------- MODULE Wire --------------------------------
(***************************************************************************)
(* What travels on the wire, as serde sees it (st-proto): a kind describes *)
(* a type, and the codecs of the two planes (Postcard, Json) read and      *)
(* write the values of any kind.  The value of a struct is the sequence of *)
(* its fields, of an enum <<variant, fields>>, of an option <<>> or <<x>>, *)
(* of an integer the sequence of its base-128 digits, least first.         *)
(***************************************************************************)
EXTENDS Naturals, Sequences

UInt(bits) == [k |-> "int", bits |-> bits]
Byte == [k |-> "byte"]
I32 == [k |-> "i32"]
Bool == [k |-> "bool"]
Text == [k |-> "text"]
Opt(kind) == [k |-> "opt", of |-> kind]
List(kind) == [k |-> "list", of |-> kind]
Struct(fields) == [k |-> "struct", fields |-> fields]
Enum(names, bodies) == [k |-> "enum", names |-> names, of |-> bodies]
Flags(bits, known) == [k |-> "flags", bits |-> bits, known |-> known]
Version == [k |-> "version"]

Number == [k |-> "number"]
AnyValue == [k |-> "any"]
Ratio == [k |-> "ratio"]
Dict(kind) == [k |-> "dict", of |-> kind]
Tagged(tag, names, bodies) == [k |-> "tagged", tag |-> tag, names |-> names, of |-> bodies]

Field(name, kind) == [name |-> name, of |-> kind, skip |-> FALSE]
Maybe(name, kind) == [name |-> name, of |-> Opt(kind), skip |-> TRUE]
Unit == Struct(<<>>)
Units(names) == Enum(names, [n \in DOMAIN names |-> Unit])

(* The largest integer of a width, and the digits a varint of it may have   *)
Largest(bits) == CASE bits = 8 -> <<127, 1>>
                   [] bits = 16 -> <<127, 127, 3>>
                   [] bits = 32 -> <<127, 127, 127, 127, 15>>
                   [] bits = 64 -> [n \in 1..10 |-> IF n < 10 THEN 127 ELSE 1]

(***************************************************************************)
(* The types both planes use                                               *)
(***************************************************************************)
SurfaceId == UInt(32)
Seq64 == UInt(64)
AbsLine == UInt(64)
StyleIdx == UInt(16)

ClientKind == Units(<<"control", "data", "tool">>)
RejectReason == Units(<<"major_mismatch", "bad_magic", "line_too_long", "frame_too_large", "not_hello",
                        "shutting_down">>)
Hello == Struct(<<Field("proto_version", Version), Field("client_kind", ClientKind), Field("build_id", Text)>>)
HelloAck == Struct(<<Field("proto_version", Version), Field("server_build_id", Text),
                     Field("workspace_revision", UInt(64)), Field("server_pid", UInt(32))>>)
Reject == Struct(<<Field("reason", RejectReason), Field("message", Text), Field("server_version", Version)>>)

AbsPoint == Struct(<<Field("line", AbsLine), Field("col", UInt(16))>>)
SelectionKind == Units(<<"normal", "block", "lines">>)
Selection == Struct(<<Field("kind", SelectionKind), Field("anchor", AbsPoint), Field("head", AbsPoint)>>)
ViewState == Struct(<<Field("scroll_offset", UInt(32)), Field("selection", Opt(Selection))>>)

(***************************************************************************)
(* Some values of a kind, numbered: the boundaries of integers, options    *)
(* there and not, lists empty and not, every variant                       *)
(***************************************************************************)
Halves(n) == IF n % 4 = 0 THEN 1 ELSE IF n % 4 = 1 THEN 2 ELSE IF n % 4 = 2 THEN 4 ELSE 8

RECURSIVE Value(_, _)
Value(kind, i) ==
  CASE kind.k = "int" -> <<<<0>>, <<1>>, <<127>>, <<0, 1>>, <<127, 127>>, Largest(kind.bits)>>[(i % 6) + 1]
    [] kind.k = "byte" -> <<0, 127, 128, 255>>[(i % 4) + 1]
    [] kind.k = "i32" -> <<0, 1, 0 - 1, 137>>[(i % 4) + 1]
    [] kind.k = "bool" -> i % 2 = 1
    [] kind.k = "text" -> <<<<>>, <<115>>, <<195, 169>>>>[(i % 3) + 1]
    [] kind.k = "opt" -> IF i % 2 = 0 THEN <<>> ELSE <<Value(kind.of, i \div 2)>>
    [] kind.k = "list" -> [n \in 1 .. i % 3 |-> Value(kind.of, (i \div 3) + n)]
    [] kind.k = "struct" -> [n \in DOMAIN kind.fields |-> Value(kind.fields[n].of, i \div Halves(n))]
    [] kind.k \in {"enum", "tagged"} ->
         LET n == (i % Len(kind.of)) + 1 IN <<n, Value(kind.of[n], i \div 2)>>
    [] kind.k = "flags" -> {b \in kind.known : (b + i) % 3 = 0}
    [] kind.k = "version" -> <<i % 3, (i \div 3) % 256>>
    [] kind.k = "tab" -> LET v == Value(kind.of, i) IN
                         IF v[3] # <<>> THEN v ELSE [v EXCEPT ![3] = <<<<1, <<v[2]>>>>>>]
    [] kind.k = "ratio" -> <<0, 100, 500, 1000>>[(i % 4) + 1]
    [] kind.k = "number" -> <<<<0>>, <<1>>, <<127>>>>[(i % 3) + 1]
    [] kind.k = "dict" -> IF i % 2 = 0 THEN <<>> ELSE [name \in {"TERM"} |-> Value(kind.of, i)]
    [] OTHER -> <<"str", <<115>>>>
=============================================================================
