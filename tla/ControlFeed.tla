---------------------------- MODULE ControlFeed ----------------------------
(***************************************************************************)
(* The control plane's feed of the Workspace document: the actor that      *)
(* stamps each change with a revision and publishes it on a bounded        *)
(* broadcast channel (st-server/src/workspace/actor.rs), the three tasks   *)
(* of a control connection - request loop, event pump and writer           *)
(* (st-server/src/control/conn.rs, handlers.rs) - and the projection a     *)
(* client keeps (packages/app/src/control/client.ts, bootstrap.ts,         *)
(* state/reducers.ts).                                                     *)
(*                                                                         *)
(* A document is identified by the life of the daemon it belongs to and    *)
(* its revision; whether the one Surface we follow has exited is the only  *)
(* content kept.  Revisions start again at zero with every daemon.         *)
(***************************************************************************)
EXTENDS Naturals, Sequences, SequencesExt

CONSTANTS
  Clients,      (* the client programs, each with one control connection    *)
  None,         (* no client, no document                                   *)
  EventCap,     (* EVENT_CAPACITY of the broadcast channel                  *)
  OutCap,       (* OUTBOUND_CAPACITY: lines queued for one connection        *)
  MaxRev,       (* bound: revisions of one life of the daemon               *)
  MaxCalls,     (* bound: requests, and connections lost                    *)
  MaxLives      (* bound: lives of the daemon                               *)

ASSUME ControlFeedAssumption ==
  /\ None \notin Clients
  /\ EventCap \in Nat \ {0}
  /\ OutCap \in Nat \ {0}
  /\ MaxRev \in Nat
  /\ MaxCalls \in Nat
  /\ MaxLives \in Nat \ {0}

VARIABLES
  doc,       (* the Workspace document of the actor                          *)
  ring,      (* every EventEnvelope this daemon has published; the broadcast
                channel retains the last EventCap of them                    *)
  calls,     (* requests made and connections lost so far                    *)
  up,        (* the connection is open                                       *)
  inq,       (* the socket, client to server                                 *)
  pos,       (* the next envelope the connection's receiver will take        *)
  from,      (* the revision the pump was armed with, or None                *)
  res,       (* the response the request loop has yet to queue               *)
  pump,      (* the line the pump has yet to queue                           *)
  lagged,    (* the pump was told of a lag and has yet to read the document  *)
  out,       (* the connection's queue and socket, server to client          *)
  status,    (* ControlClient._state                                         *)
  store,     (* the document the projection was built from                   *)
  sent       (* history: the newest revision queued on this connection       *)

server == <<doc, ring, calls>>
conn   == <<up, inq, pos, from, res, pump, lagged, out>>
client == <<status, store>>
vars   == <<server, conn, client, sent>>

Doc == [life: Nat, rev: Nat, exited: BOOLEAN]

(* A line to the client.  Only ev.workspace and the subscribe result carry  *)
(* a document; the other lines hold the one of the moment, which nobody     *)
(* reads.                                                                   *)
Line == [t: {"hello.ack", "ok", "snapshot", "ev.workspace", "ev.surface_exited"}, doc: Doc]
LineOf(t, d) == [t |-> t, doc |-> d]

(* EventEnvelope: ev.surface_exited has no revision, ev.workspace has its   *)
(* document's; a view.set is not echoed to the connection that sent it.     *)
Envelope == [line: Line, suppress: Clients \cup {None}]
EnvelopeOf(t, d, c) == [line |-> LineOf(t, d), suppress |-> c]

Request == {"subscribe", "mutate", "view.set"}

Init ==
  /\ doc = [life |-> 1, rev |-> 0, exited |-> FALSE]
  /\ ring = <<>>
  /\ calls = 0
  /\ up = [c \in Clients |-> FALSE]
  /\ inq = [c \in Clients |-> <<>>]
  /\ pos = [c \in Clients |-> 1]
  /\ from = [c \in Clients |-> None]
  /\ res = [c \in Clients |-> <<>>]
  /\ pump = [c \in Clients |-> <<>>]
  /\ lagged = [c \in Clients |-> FALSE]
  /\ out = [c \in Clients |-> <<>>]
  /\ status = [c \in Clients |-> "connecting"]
  /\ store = [c \in Clients |-> [life |-> 0, rev |-> 0, exited |-> FALSE]]
  /\ sent = [c \in Clients |-> 0]

-----------------------------------------------------------------------------
(* The actor.                                                              *)

Bumped == [doc EXCEPT !.rev = @ + 1]

Published(envelopes) == ring' = ring \o envelopes

(* handle_request of a mutation: one revision, one ev.workspace             *)
Mutated(origin) ==
  /\ doc' = Bumped
  /\ Published(<<EnvelopeOf("ev.workspace", Bumped, origin)>>)

(* handle_surface_event: a new title, directory or size of the Surface      *)
SurfaceChanged ==
  /\ doc.rev < MaxRev
  /\ Mutated(None)
  /\ UNCHANGED <<calls, conn, client, sent>>

(* handle_surface_event: the exit, announced before the document it is in   *)
SurfaceExited ==
  LET d == [Bumped EXCEPT !.exited = TRUE] IN
  /\ doc.rev < MaxRev
  /\ ~doc.exited
  /\ doc' = d
  /\ Published(<<EnvelopeOf("ev.surface_exited", d, None), EnvelopeOf("ev.workspace", d, None)>>)
  /\ UNCHANGED <<calls, conn, client, sent>>

(* The request loop hands the next line to the actor and waits: what the    *)
(* actor answers is not yet on its way to the client.  A mutation that is   *)
(* refused changes nothing.                                                 *)
Handle(c) ==
  /\ up[c]
  /\ inq[c] # <<>>
  /\ res[c] = <<>>
  /\ inq' = [inq EXCEPT ![c] = Tail(@)]
  /\ LET r == Head(inq[c]) IN
       \/ /\ r = "subscribe"
          /\ res' = [res EXCEPT ![c] = <<LineOf("snapshot", doc)>>]
          /\ UNCHANGED <<doc, ring>>
       \/ /\ r \in {"mutate", "view.set"}
          /\ res' = [res EXCEPT ![c] = <<LineOf("ok", doc)>>]
          /\ \/ /\ doc.rev < MaxRev
                /\ Mutated(IF r = "view.set" THEN c ELSE None)
             \/ UNCHANGED <<doc, ring>>
  /\ UNCHANGED <<calls, up, pos, from, pump, lagged, out, client, sent>>

-----------------------------------------------------------------------------
(* The connection.                                                         *)

Higher(a, b) == IF a < b THEN b ELSE a

(* run: the broadcast receiver is created before the handshake              *)
Opened_OneLate(c) == pos' = [pos EXCEPT ![c] = Len(ring) + 2]
Opened(c) == pos' = [pos EXCEPT ![c] = Len(ring) + 1]

Connect(c) ==
  /\ ~up[c]
  /\ status[c] # "connected"
  /\ up' = [up EXCEPT ![c] = TRUE]
  /\ Opened(c)
  /\ inq' = [inq EXCEPT ![c] = <<>>]
  /\ from' = [from EXCEPT ![c] = None]
  /\ res' = [res EXCEPT ![c] = <<>>]
  /\ pump' = [pump EXCEPT ![c] = <<>>]
  /\ lagged' = [lagged EXCEPT ![c] = FALSE]
  /\ out' = [out EXCEPT ![c] = <<LineOf("hello.ack", doc)>>]
  /\ sent' = [sent EXCEPT ![c] = 0]
  /\ UNCHANGED <<server, client>>

(* converse: a first subscribe result arms the pump, before it is queued    *)
Armed(c) == from' = [from EXCEPT ![c] = Head(res[c]).doc.rev]

Arm(c) ==
  /\ up[c]
  /\ res[c] # <<>>
  /\ Head(res[c]).t = "snapshot"
  /\ from[c] = None
  /\ Armed(c)
  /\ UNCHANGED <<server, up, inq, pos, res, pump, lagged, out, client, sent>>

(* send_json waits for room in the queue *)
Room(c) == Len(out[c]) < OutCap

Respond(c) ==
  LET line == Head(res[c]) IN
  /\ up[c]
  /\ res[c] # <<>>
  /\ line.t = "snapshot" => from[c] # None
  /\ Room(c)
  /\ out' = [out EXCEPT ![c] = Append(@, line)]
  /\ res' = [res EXCEPT ![c] = <<>>]
  /\ sent' = [sent EXCEPT ![c] = IF line.t = "snapshot" THEN Higher(@, line.doc.rev) ELSE @]
  /\ UNCHANGED <<server, up, inq, pos, from, pump, lagged, client>>

(* pump_events.  A receiver that has fallen behind what the channel retains *)
(* is told so and goes on with the oldest envelope that is left.            *)
Oldest == IF Len(ring) > EventCap THEN Len(ring) - EventCap + 1 ELSE 1
Lagging(c) == pos[c] < Oldest

Pumping(c) == up[c] /\ from[c] # None /\ pump[c] = <<>> /\ ~lagged[c]

Skipped(c, e) ==
  \/ e.suppress = c
  \/ e.line.t = "ev.workspace" /\ e.line.doc.rev <= from[c]

PumpTake(c) ==
  /\ Pumping(c)
  /\ ~Lagging(c)
  /\ pos[c] <= Len(ring)
  /\ pos' = [pos EXCEPT ![c] = @ + 1]
  /\ pump' = [pump EXCEPT ![c] =
                IF Skipped(c, ring[pos[c]]) THEN <<>> ELSE <<ring[pos[c]].line>>]
  /\ UNCHANGED <<server, up, inq, from, res, lagged, out, client, sent>>

LagTo(c) == pos' = [pos EXCEPT ![c] = Oldest]

PumpLag(c) ==
  /\ Pumping(c)
  /\ Lagging(c)
  /\ LagTo(c)
  /\ lagged' = [lagged EXCEPT ![c] = TRUE]
  /\ UNCHANGED <<server, up, inq, from, res, pump, out, client, sent>>

Reread_Skipped(c) == pump' = [pump EXCEPT ![c] = <<>>]

(* workspace_event_from_snapshot, of the document the actor has by then     *)
Reread(c) == pump' = [pump EXCEPT ![c] = <<LineOf("ev.workspace", doc)>>]

PumpReread(c) ==
  /\ up[c]
  /\ lagged[c]
  /\ Reread(c)
  /\ lagged' = [lagged EXCEPT ![c] = FALSE]
  /\ UNCHANGED <<server, up, inq, pos, from, res, out, client, sent>>

PumpSend(c) ==
  /\ up[c]
  /\ pump[c] # <<>>
  /\ Room(c)
  /\ out' = [out EXCEPT ![c] = Append(@, Head(pump[c]))]
  /\ pump' = [pump EXCEPT ![c] = <<>>]
  /\ sent' = [sent EXCEPT ![c] =
                IF Head(pump[c]).t = "ev.workspace" THEN Higher(@, Head(pump[c]).doc.rev) ELSE @]
  /\ UNCHANGED <<server, up, inq, pos, from, res, lagged, client>>

(* The connection of c ends: run drops the queue and stops the pump, and    *)
(* onTransportClosed fails the requests that were waiting.                  *)
Closed(Gone) ==
  /\ up' = [c \in Clients |-> up[c] /\ c \notin Gone]
  /\ inq' = [c \in Clients |-> IF c \in Gone THEN <<>> ELSE inq[c]]
  /\ out' = [c \in Clients |-> IF c \in Gone THEN <<>> ELSE out[c]]
  /\ res' = [c \in Clients |-> IF c \in Gone THEN <<>> ELSE res[c]]
  /\ pump' = [c \in Clients |-> IF c \in Gone THEN <<>> ELSE pump[c]]
  /\ lagged' = [c \in Clients |-> lagged[c] /\ c \notin Gone]
  /\ from' = [c \in Clients |-> IF c \in Gone THEN None ELSE from[c]]
  /\ status' = [c \in Clients |-> IF c \in Gone THEN "reconnecting" ELSE status[c]]
  /\ UNCHANGED <<pos, store, sent>>

ConnDrop(c) ==
  /\ calls < MaxCalls
  /\ calls' = calls + 1
  /\ up[c]
  /\ Closed({c})
  /\ UNCHANGED <<doc, ring>>

(* The daemon ends and another takes its place: revisions and events start  *)
(* again.                                                                   *)
Restart ==
  /\ doc.life < MaxLives
  /\ doc' = [life |-> doc.life + 1, rev |-> 0, exited |-> FALSE]
  /\ ring' = <<>>
  /\ Closed({c \in Clients : up[c]})
  /\ UNCHANGED calls

-----------------------------------------------------------------------------
(* The client.                                                             *)

(* A user's request, made while connected *)
Ask(c, r) ==
  /\ calls < MaxCalls
  /\ calls' = calls + 1
  /\ up[c]
  /\ status[c] = "connected"
  /\ inq' = [inq EXCEPT ![c] = Append(@, r)]
  /\ UNCHANGED <<doc, ring, up, pos, from, res, pump, lagged, out, client, sent>>

(* applyServerEvent of a pushed event *)
Applied(d, line) ==
  IF line.t = "ev.workspace" THEN IF line.doc.rev < d.rev THEN d ELSE line.doc
  ELSE IF line.t = "ev.surface_exited" THEN [d EXCEPT !.exited = TRUE]
  ELSE d

(* subscribe of bootstrap.ts: the snapshot replaces the projection, however *)
(* old it is by now                                                         *)
Seeded(d, snapshot) == snapshot

(* onData: the lines of the chunk the socket delivered are dispatched.      *)
(* Events go to the store at once; a subscribe result only resolves a       *)
(* promise, whose continuation runs when the chunk has been gone through.   *)
OnData(c) == \E n \in 1..Len(out[c]) :
  LET chunk     == SubSeq(out[c], 1, n)
      pushed    == FoldLeft(Applied, store[c], chunk)
      snapshots == SelectSeq(chunk, LAMBDA line : line.t = "snapshot")
      greeted   == \E i \in 1..n : chunk[i].t = "hello.ack"
  IN
  /\ out' = [out EXCEPT ![c] = SubSeq(@, n + 1, Len(@))]
  /\ store' = [store EXCEPT ![c] =
                 IF snapshots = <<>> THEN pushed ELSE Seeded(pushed, Last(snapshots).doc)]
  /\ status' = [status EXCEPT ![c] = IF greeted THEN "connected" ELSE @]
  /\ inq' = [inq EXCEPT ![c] = IF greeted THEN Append(@, "subscribe") ELSE @]
  /\ UNCHANGED <<server, up, pos, from, res, pump, lagged, sent>>

-----------------------------------------------------------------------------
Next ==
  \/ SurfaceChanged
  \/ SurfaceExited
  \/ Restart
  \/ \E c \in Clients :
       \/ Connect(c)
       \/ ConnDrop(c)
       \/ Handle(c)
       \/ Arm(c)
       \/ Respond(c)
       \/ PumpTake(c)
       \/ PumpLag(c)
       \/ PumpReread(c)
       \/ PumpSend(c)
       \/ \E r \in Request : Ask(c, r)
       \/ OnData(c)

Spec == Init /\ [][Next]_vars

(* Every task of the daemon runs when it can, and the client's timer brings *)
(* it back; whether a client reads its socket is another matter.            *)
ServerFairness ==
  \A c \in Clients :
    /\ WF_vars(Handle(c))
    /\ WF_vars(Arm(c))
    /\ WF_vars(Respond(c))
    /\ WF_vars(PumpTake(c))
    /\ WF_vars(PumpLag(c))
    /\ WF_vars(PumpReread(c))
    /\ WF_vars(PumpSend(c))
    /\ WF_vars(Connect(c))

ClientFairness == \A c \in Clients : WF_vars(OnData(c))

FairSpec == Spec /\ ServerFairness /\ ClientFairness

-----------------------------------------------------------------------------
(* Properties.                                                             *)

TypeOK ==
  /\ doc \in Doc
  /\ ring \in Seq(Envelope)
  /\ calls \in Nat
  /\ up \in [Clients -> BOOLEAN]
  /\ inq \in [Clients -> Seq(Request)]
  /\ pos \in [Clients -> Nat \ {0}]
  /\ from \in [Clients -> Nat \cup {None}]
  /\ res \in [Clients -> Seq(Line)]
  /\ pump \in [Clients -> Seq(Line)]
  /\ lagged \in [Clients -> BOOLEAN]
  /\ out \in [Clients -> Seq(Line)]
  /\ status \in [Clients -> {"connecting", "connected", "reconnecting"}]
  /\ store \in [Clients -> Doc]
  /\ sent \in [Clients -> Nat]

(* No change is missed by a subscriber: once a subscribe result exists, a   *)
(* published document that is not the echo of the connection's own view.set *)
(* is covered by that result or by something sent since, or the pump has it *)
(* in hand, has it before it, or is about to read the whole document again  *)
(* (run creates the receiver before the handshake; converse; pump_events).  *)
Answering(c) == res[c] # <<>> /\ Head(res[c]).t = "snapshot"
Covered(c, n) ==
  \/ n <= sent[c]
  \/ Answering(c) /\ n <= Head(res[c]).doc.rev
  \/ pump[c] # <<>> /\ Head(pump[c]).t = "ev.workspace" /\ n <= Head(pump[c]).doc.rev
  \/ lagged[c]

Subscribed(c) == up[c] /\ (Answering(c) \/ from[c] # None)
Concerns(c, e) == e.line.t = "ev.workspace" /\ e.suppress # c

NothingMissed ==
  \A c \in Clients : Subscribed(c) =>
    \A i \in 1..Len(ring) :
      Concerns(c, ring[i]) => i >= pos[c] \/ Covered(c, ring[i].line.doc.rev)

(* What the projection of a client should have come to: the newest document *)
(* that is not its own view.set.                                            *)
Due(c) == {e.line.doc : e \in {x \in ToSet(ring) : Concerns(c, x)}}
Current(c) ==
  /\ store[c].life = doc.life
  /\ \A d \in Due(c) : d.rev <= store[c].rev
  /\ store[c].exited = doc.exited

(* 03-server.md 3: every mutation is ordered and stamped, so that client    *)
(* projections converge.                                                    *)
ProjectionsConverge == \A c \in Clients : <>[](status[c] = "connected" => Current(c))

(* Whatever is lost, missed or restarted, a client that reads what it is    *)
(* sent gets to see the newest document: it comes to lie in its projection, *)
(* or a snapshot that was overtaken by it has been put over it.             *)
Overtaken(c) == ~Current(c) /\ sent[c] > store[c].rev
EventuallyTold ==
  \A c \in Clients :
    <>[](status[c] = "connected" /\ out[c] = <<>> /\ (Current(c) \/ Overtaken(c)))
=============================================================================
