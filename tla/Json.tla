-------------------------------- MODULE Json --------------------------------
(***************************************************************************)
(* The lines of the control plane (st-proto/src/control.rs) as serde_json  *)
(* writes and reads them, and the mirror of its types that the app keeps   *)
(* by hand (protocol-ts/src/control.ts).  A JSON value is a tagged tuple;  *)
(* "word" is a string that names a variant.                                *)
(***************************************************************************)
EXTENDS Naturals, Sequences, Wire, TLC

Null == <<"null">>
Fail == <<>>  \* what reading returns when it cannot, else <<value>>

(***************************************************************************)
(* The types of the workspace                                              *)
(***************************************************************************)
ReqId == UInt(32)
Revision == UInt(64)
SessionId == UInt(32)
TabId == UInt(32)
IfRevision == Maybe("if_revision", Revision)

SplitAxis == Units(<<"row", "column">>)
LayoutDepth == 2
Layout[d \in 0..LayoutDepth] ==
  LET leaf == Struct(<<Field("surface", SurfaceId)>>) IN
  IF d = 0 THEN Tagged("kind", <<"leaf">>, <<leaf>>)
  ELSE Tagged("kind", <<"leaf", "split">>,
              <<leaf, Struct(<<Field("axis", SplitAxis), Field("ratio", Ratio), Field("first", Layout[d - 1]),
                               Field("second", Layout[d - 1])>>)>>)
TabWire == Struct(<<Field("id", TabId), Field("surface", SurfaceId), Field("layout", Opt(Layout[LayoutDepth]))>>)
Tab == [k |-> "tab", of |-> TabWire]
Session == Struct(<<Field("id", SessionId), Field("name", Text), Field("active_tab", Opt(TabId)),
                    Field("tabs", List(Tab))>>)
WorkspaceDoc == Struct(<<Field("revision", Revision), Field("active_session", SessionId),
                         Field("sessions", List(Session))>>)
SurfaceState == Tagged("kind", <<"running", "exited">>,
                       <<Unit, Struct(<<Field("code", Opt(I32)), Field("signal", Opt(Text))>>)>>)
SurfaceMeta == Struct(<<Field("id", SurfaceId), Field("title", Text), Field("user_title", Opt(Text)),
                        Field("cwd", Opt(Text)), Field("cols", UInt(16)), Field("rows", UInt(16)),
                        Field("has_foreground_child", Bool), Field("state", SurfaceState),
                        Field("view_state", ViewState)>>)
WorkspaceSnapshot == Struct(<<Field("workspace", WorkspaceDoc), Field("surfaces", List(SurfaceMeta))>>)
SpawnSpec == Struct(<<Maybe("shell", List(Text)), Maybe("cwd", Text), Maybe("env", Dict(Text)),
                      Maybe("env_allow", List(Text)), Field("cols", UInt(16)), Field("rows", UInt(16))>>)
KillSignal == Units(<<"HUP", "TERM", "KILL">>)

(***************************************************************************)
(* Messages                                                                *)
(***************************************************************************)
SessionReqs == <<
  <<"workspace.get", <<>>>>,
  <<"workspace.subscribe", <<>>>>,
  <<"session.create", <<Field("name", Text), IfRevision>>>>,
  <<"session.rename", <<Field("session", SessionId), Field("name", Text), IfRevision>>>>,
  <<"session.delete", <<Field("session", SessionId), IfRevision>>>>,
  <<"session.list", <<>>>>,
  <<"session.set_active", <<Field("session", SessionId)>>>> >>
TabReqs == <<
  <<"tab.create", <<Field("session", SessionId), Maybe("index", UInt(32)), Maybe("spawn", SpawnSpec),
                    Maybe("surface", SurfaceId), IfRevision>>>>,
  <<"tab.close", <<Field("tab", TabId), IfRevision>>>>,
  <<"tab.reorder", <<Field("tab", TabId), Field("index", UInt(32)), IfRevision>>>>,
  <<"tab.move", <<Field("tab", TabId), Field("to_session", SessionId), Maybe("index", UInt(32)), IfRevision>>>>,
  <<"tab.set_active", <<Field("tab", TabId)>>>> >>
PaneReqs == <<
  <<"tab.split", <<Field("tab", TabId), Field("pane", SurfaceId), Field("axis", SplitAxis),
                   Field("spawn", SpawnSpec), IfRevision>>>>,
  <<"pane.close", <<Field("tab", TabId), Field("pane", SurfaceId), IfRevision>>>>,
  <<"tab.set_ratio", <<Field("tab", TabId), Field("path", List(UInt(8))), Field("ratio", Ratio), IfRevision>>>> >>
SurfaceReqs == <<
  <<"surface.create", <<Field("spawn", SpawnSpec)>>>>,
  <<"surface.kill", <<Field("surface", SurfaceId), Maybe("signal", KillSignal)>>>>,
  <<"surface.screen_text", <<Field("surfaces", List(SurfaceId)), Maybe("max_rows", UInt(16))>>>>,
  <<"surface.rename", <<Field("surface", SurfaceId), Field("user_title", Opt(Text))>>>>,
  <<"view.set", <<Field("surface", SurfaceId), Maybe("scroll_offset", UInt(32)), Maybe("selection", Opt(Selection))>>>> >>
ServerReqs == <<
  <<"server.status", <<>>>>,
  <<"server.shutdown", <<Maybe("force", Bool)>>>> >>
ReqBody == SessionReqs \o TabReqs \o PaneReqs \o SurfaceReqs \o ServerReqs

Req == Tagged("t", [n \in DOMAIN ReqBody |-> ReqBody[n][1]],
              [n \in DOMAIN ReqBody |-> Struct(<<Field("id", ReqId)>> \o ReqBody[n][2])])

ErrorCode == Units(<<"bad_request", "not_found", "conflict", "spawn_failed", "unsupported", "shutting_down",
                     "internal">>)
ErrorBody == Struct(<<Field("code", ErrorCode), Field("message", Text), Maybe("data", AnyValue)>>)
Res(result) == Tagged("t", <<"ok", "err">>,
                      <<Struct(<<Field("id", ReqId), Field("result", result)>>),
                        Struct(<<Field("id", ReqId), Field("error", ErrorBody)>>)>>)
Ev == Tagged("t", <<"ev.workspace", "ev.surface_exited", "ev.server_shutting_down">>,
             <<Struct(<<Field("revision", Revision), Field("workspace", WorkspaceDoc),
                        Field("surfaces", List(SurfaceMeta))>>),
               Struct(<<Field("surface", SurfaceId), Field("code", Opt(I32)), Field("signal", Opt(Text))>>),
               Struct(<<Field("reason", Text)>>)>>)
Handshake == Tagged("t", <<"hello", "hello.ack", "reject">>, <<Hello, HelloAck, Reject>>)

(* What `apply` answers to each request (actor.rs)                          *)
RevisionResult == Struct(<<Field("revision", Revision)>>)
SessionCreated == Struct(<<Field("session", SessionId), Field("revision", Revision)>>)
SessionList == Struct(<<Field("sessions", List(Session))>>)
TabCreated == Struct(<<Field("tab", TabId), Field("surface", SurfaceId), Field("revision", Revision)>>)
SurfaceCreated == Struct(<<Field("surface", SurfaceId)>>)
ScreenText == Struct(<<Field("surface", SurfaceId), Field("lines", List(Text))>>)
ScreenTextResult == Struct(<<Field("screens", List(ScreenText))>>)
ServerStatus == Struct(<<Field("build_id", Text), Field("proto_version", Text), Field("pid", UInt(32)),
                         Field("uptime_s", UInt(64)), Field("surfaces", UInt(32)), Field("control_clients", UInt(32)),
                         Field("data_clients", UInt(32)), Field("workspace_file", Text)>>)
WithStatusExtras == Struct(ServerStatus.fields \o <<Field("metrics", AnyValue), Field("scrollback", AnyValue)>>)
ResultOf(t) ==
  CASE t \in {"workspace.get", "workspace.subscribe"} -> WorkspaceSnapshot
    [] t = "session.create" -> SessionCreated
    [] t = "session.list" -> SessionList
    [] t \in {"tab.create", "tab.split"} -> TabCreated
    [] t = "surface.create" -> SurfaceCreated
    [] t = "surface.screen_text" -> ScreenTextResult
    [] t = "server.status" -> WithStatusExtras
    [] t \in {"surface.kill", "server.shutdown"} -> Unit
    [] OTHER -> RevisionResult

(***************************************************************************)
(* serde_json                                                              *)
(***************************************************************************)

RECURSIVE ToJson(_, _)
Members(fields, v) ==
  LET kept == {n \in DOMAIN fields : ~(fields[n].skip /\ v[n] = <<>>)}
      Named(name) == CHOOSE n \in kept : fields[n].name = name
  IN [name \in {fields[n].name : n \in kept} |-> ToJson(fields[Named(name)].of, v[Named(name)])]

ToJson(kind, v) ==
  CASE kind.k \in {"int", "number"} -> <<"num", v>>
    [] kind.k = "i32" -> <<"signed", v>>
    [] kind.k = "ratio" -> <<"decimal", v>>
    [] kind.k = "bool" -> <<"bool", v>>
    [] kind.k = "text" -> <<"str", v>>
    [] kind.k = "version" -> <<"str", v>>
    [] kind.k = "opt" -> IF v = <<>> THEN Null ELSE ToJson(kind.of, v[1])
    [] kind.k = "list" -> <<"arr", [n \in DOMAIN v |-> ToJson(kind.of, v[n])]>>
    [] kind.k = "dict" -> <<"obj", [name \in DOMAIN v |-> ToJson(kind.of, v[name])]>>
    [] kind.k = "struct" -> <<"obj", Members(kind.fields, v)>>
    [] kind.k = "enum" -> <<"word", kind.names[v[1]]>>
    [] kind.k = "tagged" ->
         <<"obj", (kind.tag :> <<"word", kind.names[v[1]]>>) @@ Members(kind.of[v[1]].fields, v[2])>>
    [] kind.k = "tab" -> ToJson(kind.of, v)
    [] OTHER -> v

Fits(digits, bits) ==
  LET most == Largest(bits) IN
  Len(digits) < Len(most) \/ (Len(digits) = Len(most) /\ digits[Len(digits)] <= most[Len(most)])

RECURSIVE FromJson(_, _)

(* Mutant: `selection: null` is read as if it were not there *)
Present_Flat(kind, j) == FromJson(kind, j)

(* A field that is there; double_option tells null from missing             *)
Present(kind, j) ==
  IF kind.k = "opt" /\ kind.of.k = "opt"
  THEN LET r == FromJson(kind.of, j) IN IF r = Fail THEN Fail ELSE <<r>>
  ELSE FromJson(kind, j)

(* Fields that are not known are not looked at; an option may be missing    *)
ReadFields(fields, members) ==
  LET read == [n \in DOMAIN fields |->
                 IF fields[n].name \in DOMAIN members THEN Present(fields[n].of, members[fields[n].name])
                 ELSE IF fields[n].of.k = "opt" THEN <<<<>>>> ELSE Fail]
  IN IF \E n \in DOMAIN read : read[n] = Fail THEN Fail ELSE <<[n \in DOMAIN read |-> read[n][1]]>>

ReadTagged(kind, members) ==
  LET variants == {n \in DOMAIN kind.names :
                     kind.tag \in DOMAIN members /\ members[kind.tag] = <<"word", kind.names[n]>>}
      n == CHOOSE n \in variants : TRUE
      body == ReadFields(kind.of[n].fields, members)
  IN IF variants = {} \/ body = Fail THEN Fail ELSE <<<<n, body[1]>>>>

(* A Tab of a 1.0 peer has no layout: it is the leaf of its Surface         *)
ReadTab(kind, members) ==
  LET read == ReadFields(kind.of.fields, members) IN
  IF read = Fail \/ read[1][3] # <<>> THEN read ELSE <<[read[1] EXCEPT ![3] = <<<<1, <<read[1][2]>>>>>>]>>

FromJson(kind, j) ==
  CASE kind.k = "opt" ->
         IF j = Null THEN <<<<>>>> ELSE LET r == FromJson(kind.of, j) IN IF r = Fail THEN Fail ELSE <<r>>
    [] kind.k = "int" /\ j[1] = "num" -> IF Fits(j[2], kind.bits) THEN <<j[2]>> ELSE Fail
    [] \/ kind.k = "i32" /\ j[1] = "signed"
       \/ kind.k = "ratio" /\ j[1] = "decimal" /\ j[2] \in 0..1000
       \/ kind.k = "bool" /\ j[1] = "bool"
       \/ kind.k \in {"text", "version"} /\ j[1] = "str" -> <<j[2]>>
    [] kind.k = "list" /\ j[1] = "arr" ->
         LET read == [n \in DOMAIN j[2] |-> FromJson(kind.of, j[2][n])] IN
         IF \E n \in DOMAIN read : read[n] = Fail THEN Fail ELSE <<[n \in DOMAIN read |-> read[n][1]]>>
    [] kind.k = "dict" /\ j[1] = "obj" ->
         LET read == [name \in DOMAIN j[2] |-> FromJson(kind.of, j[2][name])] IN
         IF \E name \in DOMAIN read : read[name] = Fail THEN Fail ELSE <<[name \in DOMAIN read |-> read[name][1]]>>
    [] kind.k = "struct" /\ j[1] = "obj" -> ReadFields(kind.fields, j[2])
    [] kind.k = "enum" /\ j[1] = "word" ->
         LET n == {n \in DOMAIN kind.names : kind.names[n] = j[2]} IN
         IF n = {} THEN Fail ELSE <<<<CHOOSE m \in n : TRUE, <<>>>>>>
    [] kind.k = "tagged" /\ j[1] = "obj" -> ReadTagged(kind, j[2])
    [] kind.k = "tab" /\ j[1] = "obj" -> ReadTab(kind, j[2])
    [] kind.k = "any" -> <<j>>
    [] OTHER -> Fail

(* from_line: the untagged families in turn; no two share a tag             *)
Families == <<Handshake, Req, Res(AnyValue), Ev>>
FromLine(j) ==
  LET reads == [n \in DOMAIN Families |-> FromJson(Families[n], j)]
      some == {n \in DOMAIN reads : reads[n] # Fail}
  IN IF some = {} THEN Fail ELSE <<CHOOSE n \in some : \A m \in some : n <= m, reads[CHOOSE n \in some : TRUE][1]>>

(* parse_request: what is no request is answered with the id it carries     *)
ParseRequest(j) ==
  LET req == FromJson(Req, j)
      id == IF j[1] = "obj" /\ "id" \in DOMAIN j[2] /\ j[2].id[1] = "num" /\ Fits(j[2].id[2], 32)
            THEN j[2].id[2] ELSE <<0>>
  IN IF req # Fail THEN <<"request", req[1]>>
     ELSE <<"answer", ToJson(Res(AnyValue), <<2, <<id, <<<<1, <<>>>>, <<>>, <<>>>>>>>>)>>

(***************************************************************************)
(* The mirror of the app (control.ts); `?` is Maybe, `| null` is Opt       *)
(***************************************************************************)
TsIfRevision == Maybe("if_revision", Number)
TsLayout[d \in 0..LayoutDepth] ==
  LET leaf == Struct(<<Field("surface", Number)>>) IN
  IF d = 0 THEN Tagged("kind", <<"leaf">>, <<leaf>>)
  ELSE Tagged("kind", <<"leaf", "split">>,
              <<leaf, Struct(<<Field("axis", Units(<<"row", "column">>)), Field("ratio", Ratio),
                               Field("first", TsLayout[d - 1]), Field("second", TsLayout[d - 1])>>)>>)
TsTab == Struct(<<Field("id", Number), Field("surface", Number), Maybe("layout", TsLayout[LayoutDepth])>>)
TsSession == Struct(<<Field("id", Number), Field("name", Text), Field("active_tab", Opt(Number)),
                      Field("tabs", List(TsTab))>>)
TsWorkspace == Struct(<<Field("revision", Number), Field("active_session", Number),
                        Field("sessions", List(TsSession))>>)
TsPoint == Struct(<<Field("line", Number), Field("col", Number)>>)
TsSelection == Struct(<<Field("kind", Units(<<"normal", "block", "lines">>)), Field("anchor", TsPoint),
                        Field("head", TsPoint)>>)
TsSurfaceState == Tagged("kind", <<"running", "exited">>,
                         <<Unit, Struct(<<Field("code", Opt(Number)), Field("signal", Opt(Text))>>)>>)
TsSurfaceMeta == Struct(<<Field("id", Number), Field("title", Text), Field("user_title", Opt(Text)),
                          Field("cwd", Opt(Text)), Field("cols", Number), Field("rows", Number),
                          Field("state", TsSurfaceState),
                          Field("view_state", Struct(<<Field("scroll_offset", Number),
                                                       Field("selection", Opt(TsSelection))>>)),
                          Field("has_foreground_child", Bool)>>)
TsSnapshot == Struct(<<Field("workspace", TsWorkspace), Field("surfaces", List(TsSurfaceMeta))>>)
TsSpawnSpec == Struct(<<Maybe("shell", List(Text)), Maybe("cwd", Text), Maybe("env", Dict(Text)),
                        Field("cols", Number), Field("rows", Number)>>)

TsReqBody == <<
  <<"workspace.get", <<>>>>, <<"workspace.subscribe", <<>>>>,
  <<"session.create", <<Field("name", Text), TsIfRevision>>>>,
  <<"session.rename", <<Field("session", Number), Field("name", Text), TsIfRevision>>>>,
  <<"session.delete", <<Field("session", Number), TsIfRevision>>>>,
  <<"session.list", <<>>>>,
  <<"session.set_active", <<Field("session", Number)>>>>,
  <<"tab.create", <<Field("session", Number), Maybe("index", Number), Maybe("spawn", TsSpawnSpec),
                    Maybe("surface", Number), TsIfRevision>>>>,
  <<"tab.close", <<Field("tab", Number), TsIfRevision>>>>,
  <<"tab.reorder", <<Field("tab", Number), Field("index", Number), TsIfRevision>>>>,
  <<"tab.move", <<Field("tab", Number), Field("to_session", Number), Maybe("index", Number), TsIfRevision>>>>,
  <<"tab.set_active", <<Field("tab", Number)>>>>,
  <<"tab.split", <<Field("tab", Number), Field("pane", Number), Field("axis", Units(<<"row", "column">>)),
                   Field("spawn", TsSpawnSpec), TsIfRevision>>>>,
  <<"pane.close", <<Field("tab", Number), Field("pane", Number), TsIfRevision>>>>,
  <<"tab.set_ratio", <<Field("tab", Number), Field("path", List(Number)), Field("ratio", Ratio), TsIfRevision>>>>,
  <<"surface.create", <<Field("spawn", TsSpawnSpec)>>>>,
  <<"surface.kill", <<Field("surface", Number), Maybe("signal", Units(<<"HUP", "TERM", "KILL">>))>>>>,
  <<"surface.rename", <<Field("surface", Number), Field("user_title", Opt(Text))>>>>,
  <<"surface.screen_text", <<Field("surfaces", List(Number)), Maybe("max_rows", Number)>>>>,
  <<"view.set", <<Field("surface", Number), Maybe("scroll_offset", Number), Maybe("selection", Opt(TsSelection))>>>>,
  <<"server.status", <<>>>>, <<"server.shutdown", <<Maybe("force", Bool)>>>> >>
TsReq == Tagged("t", [n \in DOMAIN TsReqBody |-> TsReqBody[n][1]],
                [n \in DOMAIN TsReqBody |-> Struct(<<Field("id", Number)>> \o TsReqBody[n][2])])
TsHello == Tagged("t", <<"hello">>, <<Struct(<<Field("proto_version", Text),
                  Field("client_kind", Units(<<"control", "tool">>)), Field("build_id", Text)>>)>>)

TsErrRes == Struct(<<Field("id", Number),
                     Field("error", Struct(<<Field("code", ErrorCode), Field("message", Text), Maybe("data", AnyValue)>>))>>)
TsRevision == Field("revision", Number)
ResultMap(t) ==
  CASE t \in {"workspace.get", "workspace.subscribe"} -> TsSnapshot
    [] t = "session.create" -> Struct(<<Field("session", Number), TsRevision>>)
    [] t = "session.list" -> Struct(<<Field("sessions", List(TsSession))>>)
    [] t \in {"tab.create", "tab.split"} -> Struct(<<Field("tab", Number), Field("surface", Number), TsRevision>>)
    [] t = "surface.create" -> Struct(<<Field("surface", Number)>>)
    [] t = "surface.screen_text" ->
         Struct(<<Field("screens", List(Struct(<<Field("surface", Number), Field("lines", List(Text))>>)))>>)
    [] t = "server.status" ->
         Struct(<<Field("build_id", Text), Field("proto_version", Text), Field("pid", Number),
                  Field("uptime_s", Number), Field("surfaces", Number), Field("control_clients", Number),
                  Field("data_clients", Number), Field("workspace_file", Text)>>)
    [] t \in {"surface.kill", "server.shutdown"} -> Unit
    [] OTHER -> Struct(<<TsRevision>>)
TsHeard(t) ==
  Tagged("t", <<"ok", "err", "ev.workspace", "ev.surface_exited", "ev.server_shutting_down", "hello.ack", "reject">>,
         <<Struct(<<Field("id", Number), Field("result", ResultMap(t))>>), TsErrRes,
           Struct(<<TsRevision, Field("workspace", TsWorkspace), Field("surfaces", List(TsSurfaceMeta))>>),
           Struct(<<Field("surface", Number), Field("code", Opt(Number)), Field("signal", Opt(Text))>>),
           Struct(<<Field("reason", Text)>>),
           Struct(<<Field("proto_version", Text), Field("server_build_id", Text), Field("workspace_revision", Number),
                    Field("server_pid", Number)>>),
           Struct(<<Field("reason", Text), Field("message", Text), Field("server_version", Text)>>)>>)

(* A value has a type: every field is there but those marked `?`, whatever  *)
(* else is                                                                  *)
RECURSIVE Accepts(_, _)
AcceptsAll(fields, members) ==
  \A n \in DOMAIN fields :
    IF fields[n].name \notin DOMAIN members THEN fields[n].skip
    ELSE Accepts(IF fields[n].skip THEN fields[n].of.of ELSE fields[n].of, members[fields[n].name])
Accepts(kind, j) ==
  CASE kind.k = "opt" -> j = Null \/ Accepts(kind.of, j)
    [] kind.k \in {"number", "ratio"} -> j[1] \in {"num", "signed", "decimal"}
    [] kind.k = "bool" -> j[1] = "bool"
    [] kind.k = "text" -> j[1] \in {"str", "word"}
    [] kind.k = "enum" -> j[1] = "word" /\ \E n \in DOMAIN kind.names : kind.names[n] = j[2]
    [] kind.k = "list" -> j[1] = "arr" /\ \A n \in DOMAIN j[2] : Accepts(kind.of, j[2][n])
    [] kind.k = "dict" -> j[1] = "obj" /\ \A name \in DOMAIN j[2] : Accepts(kind.of, j[2][name])
    [] kind.k = "struct" -> j[1] = "obj" /\ AcceptsAll(kind.fields, j[2])
    [] kind.k = "tagged" ->
         /\ j[1] = "obj" /\ kind.tag \in DOMAIN j[2]
         /\ \E n \in DOMAIN kind.names :
              j[2][kind.tag] = <<"word", kind.names[n]>> /\ AcceptsAll(kind.of[n].fields, j[2])
    [] OTHER -> TRUE
-----------------------------------------------------------------------------
(* The messages checked, as <<family, variant, sample>>                     *)
Samples == 0..23
MessagesOf(n) == {<<n, v, i>> : v \in DOMAIN Families[n].of, i \in Samples}
Lines == UNION {MessagesOf(n) : n \in DOMAIN Families}

Message(x) == LET family == Families[x[1]] IN <<x[2], Value(family.of[x[2]], x[3])>>
With(j, name, member) == <<"obj", j[2] @@ (name :> member)>>

(* A line is read as what was written, also with fields a newer peer adds;  *)
(* one that is no request is answered with its id                          *)
Understood(x) ==
  LET j == ToJson(Families[x[1]], Message(x)) IN
  /\ FromLine(j) = <<x[1], Message(x)>>
  /\ FromLine(With(j, "since_1_2", Null)) = FromLine(j)
  /\ x[1] = 2 => ParseRequest(j) = <<"request", Message(x)>>
  /\ x[1] # 2 => LET answer == ParseRequest(With(j, "id", <<"num", <<7>>>>)) IN
                 /\ answer[1] = "answer"
                 /\ FromLine(answer[2])[1] = 3 /\ answer[2][2].t = <<"word", "err">>
                 /\ answer[2][2].id = IF "id" \in DOMAIN j[2] THEN j[2].id ELSE <<"num", <<7>>>>

(* What the app may write by its types is the request it means, and what    *)
(* the daemon writes is what the app's types say                            *)
Mirrored(x) ==
  LET j == ToJson(Families[x[1]], Message(x))
      t == Req.names[IF x[1] = 2 THEN x[2] ELSE 1]
      asked == <<CHOOSE n \in DOMAIN TsReq.names : TsReq.names[n] = t,
                 Value(TsReq.of[CHOOSE n \in DOMAIN TsReq.names : TsReq.names[n] = t], x[3])>>
      answer == ToJson(Res(ResultOf(t)), <<1, <<<<1>>, Value(ResultOf(t), x[3])>>>>)
  IN IF x[1] = 2
     THEN /\ FromJson(Req, ToJson(TsReq, asked)) # Fail
          /\ ToJson(Req, FromJson(Req, ToJson(TsReq, asked))[1]) = ToJson(TsReq, asked)
          /\ Accepts(TsHeard(t), answer)
     ELSE IF x[1] = 1 /\ x[2] = 1
     THEN FromJson(Handshake, ToJson(TsHello, <<1, Value(TsHello.of[1], x[3])>>)) # Fail
     ELSE <<x[1], x[2]>> # <<3, 1>> => Accepts(TsHeard(t), j)

(* A Tab written by a 1.0 daemon is the leaf of its Surface                 *)
OldPeers ==
  LET old == ToJson(Struct(SubSeq(TabWire.fields, 1, 2)), <<<<5>>, <<9>>>>) IN
  FromJson(Tab, old) = <<<<<<5>>, <<9>>, <<<<1, <<<<9>>>>>>>>>>>>
=============================================================================
