------------------------------- MODULE Fanout -------------------------------
(***************************************************************************)
(* The data plane of one Surface, end to end: the engine state a PTY feeds *)
(* (st-core/src/surface.rs), the Publisher that decides what each Client   *)
(* is owed (st-core/src/publisher.rs), the emit loop that builds frames    *)
(* under the Surface lock and sends them after releasing it                *)
(* (st-server/src/data/pump.rs), the bounded queue of each connection      *)
(* (supervisor.rs), the connection task (data/conn.rs), and the Replica a  *)
(* Client keeps (st-client-core/src/replica.rs, dataplane.rs).             *)
(*                                                                         *)
(* What a Client sees of a Surface is a "view": the content of the rows,   *)
(* the data every Delta carries (cursor, modes, history bounds: meta) and  *)
(* the title, which a Delta carries only when it changed.  Content is the  *)
(* number of the write that produced it, so two contents are equal only if *)
(* they are the same write: a lost or torn update is never hidden.         *)
(***************************************************************************)
EXTENDS Naturals, Sequences

CONSTANTS
  Clients,          (* the client connections                              *)
  Rows,             (* the visible rows                                    *)
  Chunks,           (* what one chunk of PTY output may change             *)
  NoStall,          (* stalled_since = None                                *)
  AckWindow,        (* PublisherConfig::ack_window                         *)
  SlowAfter,        (* slow_client_snapshot_after, in ticks                *)
  DisconnectAfter,  (* disconnect_after, in ticks                          *)
  OutCap,           (* outbound_capacity: frames queued for one socket     *)
  MaxWrites,        (* bound: chunks of PTY output                         *)
  MaxCalls,         (* bound: attach and detach calls, style overflows     *)
  MaxTicks          (* bound: how far the clock advances                   *)

Modes == {"Active", "Passive"}
Chunk == [rows: SUBSET Rows, meta: BOOLEAN, title: BOOLEAN, bell: BOOLEAN]

ASSUME FanoutAssumption ==
  /\ Chunks \subseteq Chunk
  /\ AckWindow \in Nat \ {0}
  /\ SlowAfter \in Nat \ {0}
  /\ DisconnectAfter \in Nat \ {0}
  /\ OutCap \in Nat \ {0}
  /\ MaxWrites \in Nat
  /\ MaxCalls \in Nat
  /\ MaxTicks \in Nat
  /\ NoStall \notin Nat

VARIABLES
  now,          (* the injected clock, in ticks of the slow pass (seconds)  *)
  calls,        (* attach and detach calls, dropped connections and style
                   overflows so far                                         *)
  log,          (* every state the engine has been in; the last is current *)
  exited,       (* Surface.status is Exited                                *)
  seq,          (* Surface.seq                                             *)
  attached,     (* the keys of Publisher.subs                              *)
  subs,         (* Publisher.subs                                          *)
  reaping,      (* the emit loop is between the two locks of reap          *)
  outbox,       (* frames built and not yet handed to the connection       *)
  chan,         (* the connection's queue and socket, server to client     *)
  inq,          (* the socket, client to server                            *)
  closing,      (* the notification this turn of serve waits on has fired  *)
  up,           (* the connection is registered                            *)
  attachments,  (* the client's attachment map: a mode, or "None"          *)
  replica,      (* the client's Replica                                    *)
  tail,         (* history: the last sequenced frame built for a client    *)
  shown,        (* history: the engine state the last Snapshot or Delta
                   the Replica applied was built from                      *)
  torn,         (* history: SurfaceExited was applied over a missing frame *)
  lost          (* history: this connection has lost a frame               *)

server  == <<now, calls, log, exited, seq, attached, subs, reaping>>
wire    == <<outbox, chan, inq, closing, up>>
client  == <<attachments, replica>>
history == <<tail, shown, torn, lost>>
vars    == <<server, wire, client, history>>

View == [grid: [Rows -> Nat], meta: Nat, title: Nat]

Blank == [grid |-> [r \in Rows |-> 0], meta |-> 0, title |-> 0]

Surface == log[Len(log)]

(* What a client in mode m is shown of the engine state numbered v: a       *)
(* Passive subscription is never sent a row (strip_rows).                   *)
Stripped(view, m) == IF m = "Active" THEN view ELSE [view EXCEPT !.grid = Blank.grid]
Seen(v, m) == Stripped(log[v], m)

(***************************************************************************)
(* Subscription and Coalesced.  meta stands for the flags cursor, modes    *)
(* and history, which make a frame due but never select what it carries.   *)
(***************************************************************************)
Subscription ==
  [mode: Modes, sent: Nat, acked: Nat,
   dirty: SUBSET Rows, meta: BOOLEAN, title: BOOLEAN, bell: BOOLEAN,
   snap: BOOLEAN, stalledSince: Nat \cup {NoStall}, lastAckAt: Nat]

(* A frame.  A Snapshot carries Seen(version, mode), the engine as it was   *)
(* when the frame was built; a Delta carries of it the rows in dirty, the   *)
(* meta, and the title if hasTitle.  since is what a Delta chains on; for   *)
(* the other kinds it is history: the frame built before this one.  Bell,   *)
(* Detached and DataError are outside the sequence.                         *)
Frame ==
  [kind: {"Snapshot", "Delta", "Exited", "Bell", "Detached", "Error"},
   seq: Nat, since: Nat, dirty: SUBSET Rows, hasTitle: BOOLEAN,
   version: Nat \ {0}, mode: Modes, exited: BOOLEAN]

Notice(kind) ==
  [kind |-> kind, seq |-> 0, since |-> 0, dirty |-> {}, hasTitle |-> FALSE,
   version |-> 1, mode |-> "Active", exited |-> FALSE]

Request ==
  [kind: {"Attach"}, mode: Modes, seq: {0}]
    \cup [kind: {"Detach"}, mode: {"Active"}, seq: {0}]
    \cup [kind: {"Ack"}, mode: {"Active"}, seq: Nat]

AttachMsg(m) == [kind |-> "Attach", mode |-> m, seq |-> 0]
DetachMsg    == [kind |-> "Detach", mode |-> "Active", seq |-> 0]
AckMsg(n)    == [kind |-> "Ack", mode |-> "Active", seq |-> n]

-----------------------------------------------------------------------------
(* The Publisher: a state machine over one subscription and the clock.     *)

(* Coalesced::clear *)
Cleared(s) == [s EXCEPT !.dirty = {}, !.meta = FALSE, !.title = FALSE, !.bell = FALSE]

(* The operators named X_Y are X with a plausible mistake Y: README.md says  *)
(* which property each of them breaks.                                      *)

NewSubscription_StartsWithDelta(m) ==
  [mode |-> m, sent |-> 0, acked |-> 0,
   dirty |-> Rows, meta |-> TRUE, title |-> TRUE, bell |-> FALSE,
   snap |-> FALSE, stalledSince |-> NoStall, lastAckAt |-> now]

(* Publisher::attach: everything pending, first frame a Snapshot *)
NewSubscription(m) ==
  [mode |-> m, sent |-> 0, acked |-> 0,
   dirty |-> Rows, meta |-> TRUE, title |-> TRUE, bell |-> FALSE,
   snap |-> TRUE, stalledSince |-> NoStall, lastAckAt |-> now]

Resynced_SnapshotForgotten(s, m) ==
  [Cleared(s) EXCEPT !.mode = m, !.stalledSince = NoStall, !.lastAckAt = now]

(* Publisher::resync *)
Resynced(s, m) ==
  [Cleared(s) EXCEPT !.mode = m, !.snap = TRUE, !.stalledSince = NoStall, !.lastAckAt = now]

(* Subscription::is_window_blocked *)
Blocked(s) == s.sent >= s.acked + AckWindow

Acked_BeyondSent(s, n) ==
  LET t == [s EXCEPT !.acked = IF n <= @ THEN @ ELSE n, !.lastAckAt = now]
  IN  IF Blocked(t) THEN t ELSE [t EXCEPT !.stalledSince = NoStall]

Acked_RestartsStall(s, n) ==
  [s EXCEPT !.acked = IF n <= @ THEN @ ELSE IF n < s.sent THEN n ELSE s.sent,
            !.lastAckAt = now, !.stalledSince = NoStall]

(* Publisher::ack: never beyond what was sent, never backwards *)
Acked(s, n) ==
  LET top == IF n <= s.acked THEN s.acked ELSE IF n < s.sent THEN n ELSE s.sent
      t   == [s EXCEPT !.acked = top, !.lastAckAt = now]
  IN  IF Blocked(t) THEN t ELSE [t EXCEPT !.stalledSince = NoStall]

Damaged_SkipsBlocked(s, k) ==
  IF Blocked(s) THEN s
  ELSE [s EXCEPT !.dirty = @ \cup k.rows, !.meta = @ \/ k.meta,
                 !.title = @ \/ k.title, !.bell = @ \/ k.bell]

(* Publisher::record_damage and the other record_* calls of one feed *)
Damaged(s, k) ==
  [s EXCEPT !.dirty = @ \cup k.rows, !.meta = @ \/ k.meta,
            !.title = @ \/ k.title, !.bell = @ \/ k.bell]

(* Publisher::force_snapshot_all *)
Forced(s) == [s EXCEPT !.snap = TRUE, !.dirty = Rows]

(* Publisher::note_event_sent *)
EventNoted(s, n) == [s EXCEPT !.sent = IF @ < n THEN n ELSE @]

(* Coalesced::is_empty, and the test that opens the loop of flush *)
Pending(s) == s.dirty # {} \/ s.meta \/ s.title \/ s.bell
Owed(s)    == s.snap \/ Pending(s)

(* A window-blocked subscription is held until it has been blocked for     *)
(* SlowAfter; the first flush that finds it blocked starts that clock.     *)
StalledSince(s) == IF s.stalledSince = NoStall THEN now ELSE s.stalledSince
Held(s) == ~s.snap /\ Blocked(s) /\ now < StalledSince(s) + SlowAfter

(* Publisher::flush, the emission for one subscription *)
Emission(s) ==
  IF ~Owed(s) THEN "None"
  ELSE IF Held(s) THEN (IF s.bell THEN "Bell" ELSE "None")
  ELSE IF s.snap \/ Blocked(s) THEN "Snapshot" ELSE "Delta"

(* Publisher::flush, what it leaves behind; n is the seq of this round.  A  *)
(* Snapshot counts as the one frame in flight, so the window reopens.       *)
HeldBack(s) == [s EXCEPT !.bell = FALSE, !.stalledSince = StalledSince(s)]

SnapshotSent_AckedBelowZero(s, n) ==
  [Cleared(s) EXCEPT !.snap = FALSE, !.sent = n, !.acked = s.sent - 1,
                     !.stalledSince = NoStall, !.lastAckAt = now]

SnapshotSent(s, n) ==
  [Cleared(s) EXCEPT !.snap = FALSE, !.sent = n, !.acked = n - 1,
                     !.stalledSince = NoStall, !.lastAckAt = now]

DeltaSent(s, n) == [Cleared(s) EXCEPT !.sent = n, !.stalledSince = NoStall]

Flushed(s, n) ==
  IF ~Owed(s) THEN s
  ELSE IF Held(s) THEN HeldBack(s)
  ELSE IF Emission(s) = "Snapshot" THEN SnapshotSent(s, n) ELSE DeltaSent(s, n)

(* Publisher::silent_clients *)
Silent(s) == s.sent > s.acked /\ now >= s.lastAckAt + DisconnectAfter

-----------------------------------------------------------------------------
(* The Surface builds the frames the emissions call for.                   *)

BuiltFrames_GlobalSince(s, n) ==
  LET e == Emission(s) IN
  IF e \notin {"Snapshot", "Delta"} THEN <<>>
  ELSE <<[kind |-> e, seq |-> n, since |-> n - 1,
          dirty |-> IF s.mode = "Active" /\ e = "Delta" THEN s.dirty ELSE {},
          hasTitle |-> s.title, version |-> Len(log), mode |-> s.mode,
          exited |-> exited]>>

(* Surface::flush: the Bell that precedes the frame, then the frame.  A     *)
(* BellOnly emission is the Bell alone.                                     *)
BuiltFrames(s, n) ==
  LET e    == Emission(s)
      bell == IF e # "None" /\ s.bell THEN <<Notice("Bell")>> ELSE <<>>
  IN  IF e \notin {"Snapshot", "Delta"} THEN bell
      ELSE Append(bell,
             [kind     |-> e,
              seq      |-> n,
              since    |-> s.sent,
              dirty    |-> IF s.mode = "Active" /\ e = "Delta" THEN s.dirty ELSE {},
              hasTitle |-> s.title,
              version  |-> Len(log),
              mode     |-> s.mode,
              exited   |-> exited])

(* SurfaceExited *)
ExitedFrame(c) ==
  [kind |-> "Exited", seq |-> seq, since |-> tail[c].seq, dirty |-> {},
   hasTitle |-> FALSE, version |-> tail[c].version, mode |-> tail[c].mode,
   exited |-> TRUE]

-----------------------------------------------------------------------------
(* The clock and the count of calls *)
Started == now = 0 /\ calls = 0

(* A Surface that has just been spawned, and clients that have just         *)
(* connected                                                                *)
Fresh ==
  /\ log = <<Blank>>
  /\ exited = FALSE
  /\ seq = 0
  /\ attached = {}
  /\ subs = [c \in Clients |-> NewSubscription("Active")]
  /\ reaping = FALSE
  /\ outbox = [c \in Clients |-> <<>>]
  /\ chan = [c \in Clients |-> <<>>]
  /\ inq = [c \in Clients |-> <<>>]
  /\ closing = [c \in Clients |-> FALSE]
  /\ up = [c \in Clients |-> TRUE]
  /\ attachments = [c \in Clients |-> "None"]
  /\ replica = [c \in Clients |-> [seq |-> 0, view |-> Blank, exited |-> FALSE]]
  /\ tail = [c \in Clients |-> [seq |-> 0, version |-> 1, mode |-> "Active"]]
  /\ shown = [c \in Clients |-> [version |-> 1, mode |-> "Active"]]
  /\ torn = [c \in Clients |-> FALSE]
  /\ lost = [c \in Clients |-> FALSE]

Init == Started /\ Fresh

-----------------------------------------------------------------------------
(* The Surface: PTY output, a style table that overflows, the child exit.  *)

(* Surface::feed: the engine takes the chunk, and whatever it changed is    *)
(* ORed into every subscription.  The reader thread may still drain output  *)
(* after the exit has been recorded.                                        *)
Written(view, k, n) ==
  [grid  |-> [r \in Rows |-> IF r \in k.rows THEN n ELSE view.grid[r]],
   meta  |-> IF k.meta THEN n ELSE view.meta,
   title |-> IF k.title THEN n ELSE view.title]

Feed(k) ==
  /\ Len(log) <= MaxWrites
  /\ log' = Append(log, Written(Surface, k, Len(log)))
  /\ subs' = [c \in Clients |-> IF c \in attached THEN Damaged(subs[c], k) ELSE subs[c]]
  /\ UNCHANGED <<now, calls, exited, seq, attached, reaping, wire, client, history>>

(* Surface::history, when packing a page overflows the style table *)
StylesOverflow ==
  /\ calls < MaxCalls
  /\ calls' = calls + 1
  /\ attached # {}
  /\ subs' = [c \in Clients |-> IF c \in attached THEN Forced(subs[c]) ELSE subs[c]]
  /\ UNCHANGED <<now, log, exited, seq, attached, reaping, wire, client, history>>

(* The emit loop has sent everything it built and is at the top of a pass *)
PumpIdle == ~reaping /\ \A c \in Clients : outbox[c] = <<>>

(* pump::reap, first lock: poll_exit and set_exited *)
ReapPoll ==
  /\ PumpIdle
  /\ ~exited
  /\ exited' = TRUE
  /\ seq' = seq + 1
  /\ subs' = [c \in Clients |->
                IF c \in attached THEN EventNoted(subs[c], seq + 1) ELSE subs[c]]
  /\ reaping' = TRUE
  /\ UNCHANGED <<now, calls, log, attached, wire, client, history>>

(* pump::reap, second lock: whoever is attached by now is told *)
ReapFanOut ==
  /\ reaping
  /\ reaping' = FALSE
  /\ outbox' = [c \in Clients |->
                  IF c \in attached THEN Append(outbox[c], ExitedFrame(c)) ELSE outbox[c]]
  /\ tail' = [c \in Clients |-> IF c \in attached THEN [tail[c] EXCEPT !.seq = seq] ELSE tail[c]]
  /\ UNCHANGED <<now, calls, log, exited, seq, attached, subs,
                 chan, inq, closing, up, client, shown, torn, lost>>

(* pump::flush under the lock: Publisher::flush, then the frames.  A round  *)
(* that emits nothing takes no sequence number, one with only a Bell does.  *)
Flush ==
  LET n       == seq + 1
      emits   == {c \in attached : Emission(subs[c]) # "None"}
      framed  == {c \in attached : Emission(subs[c]) \in {"Snapshot", "Delta"}}
  IN
  /\ PumpIdle
  /\ \E c \in attached : Flushed(subs[c], n) # subs[c]
  /\ subs' = [c \in Clients |-> IF c \in attached THEN Flushed(subs[c], n) ELSE subs[c]]
  /\ seq' = IF emits = {} THEN seq ELSE n
  /\ outbox' = [c \in Clients |-> IF c \in attached THEN BuiltFrames(subs[c], n) ELSE <<>>]
  /\ tail' = [c \in Clients |->
                IF c \in framed
                  THEN [seq |-> n, version |-> Len(log), mode |-> subs[c].mode]
                  ELSE tail[c]]
  /\ UNCHANGED <<now, calls, log, exited, attached, reaping,
                 chan, inq, closing, up, client, shown, torn, lost>>

-----------------------------------------------------------------------------
(* The connection: a bounded queue, and a task that serves the socket.     *)

(* SurfaceSupervisor::send_bytes: a full queue, like one that is gone,      *)
(* loses the frame.                                                         *)
Room(c) == up[c] /\ Len(chan[c]) < OutCap

Queued(c, f) ==
  /\ chan' = IF Room(c) THEN [chan EXCEPT ![c] = Append(@, f)] ELSE chan
  /\ lost' = IF Room(c) THEN lost ELSE [lost EXCEPT ![c] = TRUE]

(* Notify::notify_waiters keeps no permit: it reaches the connection task   *)
(* only when the task is waiting in select!, not while it is in a handler.  *)
Notified(c) ==
  \E waiting \in BOOLEAN : closing' = [closing EXCEPT ![c] = @ \/ (waiting /\ up[c])]

(* pump::send of the next frame built for c; a full queue also asks the     *)
(* connection to close                                                      *)
PumpSend(c) ==
  /\ outbox[c] # <<>>
  /\ outbox' = [outbox EXCEPT ![c] = Tail(@)]
  /\ Queued(c, Head(outbox[c]))
  /\ IF Room(c) THEN UNCHANGED closing ELSE Notified(c)
  /\ UNCHANGED <<server, inq, up, client, tail, shown, torn>>

(* pump::disconnect_silent, in the once-a-second pass *)
DisconnectSilent(c) ==
  /\ PumpIdle
  /\ c \in attached
  /\ Silent(subs[c])
  /\ attached' = attached \ {c}
  /\ Notified(c)
  /\ UNCHANGED <<now, calls, log, exited, seq, subs, reaping,
                 outbox, chan, inq, up, client, history>>

(* on_attach: a repeated Attach is a resync *)
OnAttach(c, m) ==
  /\ attached' = attached \cup {c}
  /\ subs' = [subs EXCEPT ![c] = IF c \in attached THEN Resynced(@, m) ELSE NewSubscription(m)]
  /\ UNCHANGED <<chan, lost>>

(* on_detach *)
OnDetach(c) ==
  /\ attached' = attached \ {c}
  /\ Queued(c, Notice(IF c \in attached THEN "Detached" ELSE "Error"))
  /\ UNCHANGED subs

(* on_ack *)
OnAck(c, n) ==
  /\ subs' = IF c \in attached THEN [subs EXCEPT ![c] = Acked(@, n)] ELSE subs
  /\ UNCHANGED <<attached, chan, lost>>

(* serve takes the socket's branch of select! and handles the message; a    *)
(* notification that had fired for this turn is dropped with its future.    *)
ServeMsg(c) ==
  LET m == Head(inq[c]) IN
  /\ inq[c] # <<>>
  /\ inq' = [inq EXCEPT ![c] = Tail(@)]
  /\ closing' = [closing EXCEPT ![c] = FALSE]
  /\ \/ m.kind = "Attach" /\ OnAttach(c, m.mode)
     \/ m.kind = "Detach" /\ OnDetach(c)
     \/ m.kind = "Ack" /\ OnAck(c, m.seq)
  /\ UNCHANGED <<now, calls, log, exited, seq, reaping, outbox, up,
                 client, tail, shown, torn>>

(* serve ends: every subscription of the connection goes, and then the      *)
(* connection; what is queued is still written out.                         *)
Unregistered(c) ==
  /\ attached' = attached \ {c}
  /\ inq' = [inq EXCEPT ![c] = <<>>]
  /\ up' = [up EXCEPT ![c] = FALSE]
  /\ closing' = [closing EXCEPT ![c] = FALSE]

(* serve takes the shutdown branch of select! *)
ServeClose(c) ==
  /\ closing[c]
  /\ Unregistered(c)
  /\ UNCHANGED <<now, calls, log, exited, seq, subs, reaping,
                 outbox, chan, client, history>>

(* The socket breaks: both ends lose what it held.  *)
ConnDrop(c) ==
  /\ up[c]
  /\ calls < MaxCalls
  /\ calls' = calls + 1
  /\ Unregistered(c)
  /\ chan' = [chan EXCEPT ![c] = <<>>]
  /\ lost' = [lost EXCEPT ![c] = TRUE]
  /\ UNCHANGED <<now, log, exited, seq, subs, reaping, outbox, client, tail, shown, torn>>

-----------------------------------------------------------------------------
(* The client.                                                             *)

(* Shared::send: into the socket if there is one *)
Sent(c, m) == inq' = IF up[c] THEN [inq EXCEPT ![c] = Append(@, m)] ELSE inq

(* DataPlaneHandle::attach and detach *)
ClientAttach(c, m) ==
  /\ calls < MaxCalls
  /\ calls' = calls + 1
  /\ attachments' = [attachments EXCEPT ![c] = m]
  /\ Sent(c, AttachMsg(m))
  /\ UNCHANGED <<now, log, exited, seq, attached, subs, reaping,
                 outbox, chan, closing, up, replica, history>>

ClientDetach(c) ==
  /\ calls < MaxCalls
  /\ calls' = calls + 1
  /\ attachments' = [attachments EXCEPT ![c] = "None"]
  /\ Sent(c, DetachMsg)
  /\ UNCHANGED <<now, log, exited, seq, attached, subs, reaping,
                 outbox, chan, closing, up, replica, history>>

(* Replica::apply_delta, on the rows, the meta and the title *)
Patched(view, f) ==
  LET new == Seen(f.version, f.mode) IN
  [grid  |-> [r \in Rows |-> IF r \in f.dirty THEN new.grid[r] ELSE view.grid[r]],
   meta  |-> new.meta,
   title |-> IF f.hasTitle THEN new.title ELSE view.title]

(* DataPlaneCore::dispatch *)
RecvSnapshot(c, f) ==
  /\ f.kind = "Snapshot"
  /\ replica' = [replica EXCEPT ![c] =
                   [seq |-> f.seq, view |-> Seen(f.version, f.mode), exited |-> f.exited]]
  /\ shown' = [shown EXCEPT ![c] = [version |-> f.version, mode |-> f.mode]]
  /\ torn' = [torn EXCEPT ![c] = FALSE]
  /\ Sent(c, AckMsg(f.seq))
  /\ UNCHANGED attachments

RecvDelta_NoGapCheck(c, f) ==
  /\ f.kind = "Delta"
  /\ replica' = [replica EXCEPT ![c] = [@ EXCEPT !.seq = f.seq, !.view = Patched(replica[c].view, f)]]
  /\ shown' = [shown EXCEPT ![c] = [version |-> f.version, mode |-> f.mode]]
  /\ Sent(c, AckMsg(f.seq))
  /\ UNCHANGED <<attachments, torn>>

RecvDelta(c, f) ==
  /\ f.kind = "Delta"
  /\ f.since = replica[c].seq
  /\ replica' = [replica EXCEPT ![c] = [@ EXCEPT !.seq = f.seq, !.view = Patched(replica[c].view, f)]]
  /\ shown' = [shown EXCEPT ![c] = [version |-> f.version, mode |-> f.mode]]
  /\ Sent(c, AckMsg(f.seq))
  /\ UNCHANGED <<attachments, torn>>

RecvGap_Acked(c, f) ==
  /\ f.kind = "Delta"
  /\ f.since # replica[c].seq
  /\ Sent(c, AckMsg(f.seq))
  /\ UNCHANGED <<attachments, replica, shown, torn>>

(* A Gap: the Replica is left alone and a Snapshot is asked for *)
RecvGap(c, f) ==
  /\ f.kind = "Delta"
  /\ f.since # replica[c].seq
  /\ Sent(c, AttachMsg(IF attachments[c] = "None" THEN "Active" ELSE attachments[c]))
  /\ UNCHANGED <<attachments, replica, shown, torn>>

(* apply_exited does not look at what came before *)
RecvExited(c, f) ==
  /\ f.kind = "Exited"
  /\ replica' = [replica EXCEPT ![c] = [@ EXCEPT !.seq = f.seq, !.exited = TRUE]]
  /\ torn' = [torn EXCEPT ![c] = @ \/ (f.since # 0 /\ f.since # replica[c].seq)]
  /\ Sent(c, AckMsg(f.seq))
  /\ UNCHANGED <<attachments, shown>>

RecvNotice(c, f) ==
  /\ f.kind \in {"Bell", "Detached", "Error"}
  /\ attachments' = IF f.kind = "Detached" THEN [attachments EXCEPT ![c] = "None"]
                                            ELSE attachments
  /\ UNCHANGED <<inq, replica, shown, torn>>

ClientRecv(c) ==
  LET f == Head(chan[c]) IN
  /\ chan[c] # <<>>
  /\ chan' = [chan EXCEPT ![c] = Tail(@)]
  /\ \/ RecvSnapshot(c, f)
     \/ RecvDelta(c, f)
     \/ RecvGap(c, f)
     \/ RecvExited(c, f)
     \/ RecvNotice(c, f)
  /\ UNCHANGED <<server, outbox, closing, up, tail, lost>>

Reconnect_SendsNothing(c) ==
  /\ ~up[c]
  /\ chan[c] = <<>>
  /\ outbox[c] = <<>>
  /\ up' = [up EXCEPT ![c] = TRUE]
  /\ lost' = [lost EXCEPT ![c] = FALSE]
  /\ tail' = [tail EXCEPT ![c].seq = 0]
  /\ UNCHANGED <<server, inq, outbox, chan, closing, client, shown, torn>>

(* The I/O thread reads the end of the stream, connects again, and sends    *)
(* one Attach per attachment; the server knows it under a new ClientId.     *)
Reconnect(c) ==
  /\ ~up[c]
  /\ chan[c] = <<>>
  /\ outbox[c] = <<>>
  /\ up' = [up EXCEPT ![c] = TRUE]
  /\ inq' = [inq EXCEPT ![c] = IF attachments[c] = "None" THEN <<>>
                                ELSE <<AttachMsg(attachments[c])>>]
  /\ lost' = [lost EXCEPT ![c] = FALSE]
  /\ tail' = [tail EXCEPT ![c].seq = 0]
  /\ UNCHANGED <<server, outbox, chan, closing, client, shown, torn>>

-----------------------------------------------------------------------------
(* The emit loop passes 120 times a second and its slow pass once: a second *)
(* never goes by over a pass that had something to do.                      *)
Tick ==
  /\ now < MaxTicks
  /\ PumpIdle
  /\ \A c \in attached : Flushed(subs[c], seq + 1) = subs[c] /\ ~Silent(subs[c])
  /\ now' = now + 1
  /\ UNCHANGED <<calls, log, exited, seq, attached, subs, reaping, wire, client, history>>

Next ==
  \/ \E k \in Chunks : Feed(k)
  \/ StylesOverflow
  \/ ReapPoll
  \/ ReapFanOut
  \/ Flush
  \/ \E c \in Clients :
       \/ PumpSend(c)
       \/ DisconnectSilent(c)
       \/ ServeMsg(c)
       \/ ServeClose(c)
       \/ ConnDrop(c)
       \/ \E m \in Modes : ClientAttach(c, m)
       \/ ClientDetach(c)
       \/ ClientRecv(c)
       \/ Reconnect(c)
  \/ Tick

(* The emit loop ticks for ever; a connection task, its writer and the      *)
(* client's I/O thread run whenever they have something to do.  Nothing is  *)
(* asked of the PTY, of the user or of the network.                         *)
Fairness ==
  /\ WF_vars(ReapFanOut)
  /\ WF_vars(Flush)
  /\ \A c \in Clients :
       /\ WF_vars(PumpSend(c))
       /\ WF_vars(ServeMsg(c))
       /\ WF_vars(ServeClose(c))
       /\ WF_vars(ClientRecv(c))
       /\ WF_vars(Reconnect(c))

Spec     == Init /\ [][Next]_vars
FairSpec == Spec /\ Fairness

-----------------------------------------------------------------------------
(* Properties.                                                             *)

TypeOK ==
  /\ now \in Nat
  /\ calls \in Nat
  /\ log \in Seq(View) /\ log # <<>>
  /\ exited \in BOOLEAN
  /\ seq \in Nat
  /\ attached \subseteq Clients
  /\ subs \in [Clients -> Subscription]
  /\ reaping \in BOOLEAN
  /\ outbox \in [Clients -> Seq(Frame)]
  /\ chan \in [Clients -> Seq(Frame)]
  /\ inq \in [Clients -> Seq(Request)]
  /\ closing \in [Clients -> BOOLEAN]
  /\ up \in [Clients -> BOOLEAN]
  /\ attachments \in [Clients -> Modes \cup {"None"}]
  /\ replica \in [Clients -> [seq: Nat, view: View, exited: BOOLEAN]]
  /\ tail \in [Clients -> [seq: Nat, version: Nat \ {0}, mode: Modes]]
  /\ shown \in [Clients -> [version: Nat \ {0}, mode: Modes]]
  /\ torn \in [Clients -> BOOLEAN]
  /\ lost \in [Clients -> BOOLEAN]

(* The ack window never underflows and never opens for frames that were     *)
(* not sent: a subscription has acknowledged at most what it was sent, and  *)
(* was sent at most what the Surface has numbered, whatever Acks arrive     *)
(* late, twice, or for an earlier attachment (Publisher::ack, flush).       *)
SubscriptionOrder ==
  \A c \in attached : subs[c].acked <= subs[c].sent /\ subs[c].sent <= seq

(* Coalescing loses nothing: for a subscription that is not owed a          *)
(* Snapshot, the last frame built for it, repaired with what is pending, is *)
(* the engine as it is now (Publisher::record_*, flush, Surface::flush).    *)
Tracks(s, t) ==
  LET was == Seen(t.version, t.mode)
      is  == Seen(Len(log), s.mode)
  IN  /\ t.mode = s.mode
      /\ \A r \in Rows \ s.dirty : was.grid[r] = is.grid[r]
      /\ ~s.meta => was.meta = is.meta
      /\ ~s.title => was.title = is.title

Coherent == \A c \in attached : ~subs[c].snap => Tracks(subs[c], tail[c])

(* A subscription that skipped flushes, was held by the window, or was sent *)
(* the exit event never looks like a Gap: while no frame of the connection  *)
(* is lost, every Delta chains on the frame the Replica applied last        *)
(* (Emission.since, note_event_sent, Replica::apply_delta).                 *)
NoFalseGap ==
  \A c \in Clients :
    ~lost[c] /\ chan[c] # <<>> /\ Head(chan[c]).kind = "Delta"
      => Head(chan[c]).since = replica[c].seq

(* A Replica is never a mixture: patched by Deltas, over losses, resyncs    *)
(* and reconnections, it is exactly one state the engine was in, unless     *)
(* SurfaceExited was applied over a lost frame (Replica::apply_delta).      *)
Consistent ==
  \A c \in Clients :
    ~torn[c] => replica[c].view = Seen(shown[c].version, shown[c].mode)

(* A screen that is behind is never mistaken for one that is up to date:    *)
(* when a frame was lost, something is still owed or still unacknowledged,  *)
(* so that the next Delta shows a Gap or the silence closes the connection. *)
(* The exit event over the missing frame is the exception (auto_ack).       *)
Behind(c) ==
  /\ outbox[c] = <<>>
  /\ chan[c] = <<>>
  /\ inq[c] = <<>>
  /\ replica[c].view # Seen(Len(log), subs[c].mode)

LossShows ==
  \A c \in attached :
    Behind(c) /\ ~torn[c] => Owed(subs[c]) \/ subs[c].sent > subs[c].acked

(* Once a subscription owes nothing and its frames have arrived, the client *)
(* shows the final state and knows of the exit: no change and no exit falls *)
(* between a feed, a flush, an attach and the two locks of reap.            *)
Quiescent ==
  \A c \in attached :
    ~Owed(subs[c]) /\ ~lost[c] /\ ~reaping /\ outbox[c] = <<>> /\ chan[c] = <<>>
      => /\ replica[c].view = Seen(Len(log), subs[c].mode)
         /\ replica[c].exited = exited
         /\ replica[c].seq = subs[c].sent

(* The one way a client is left behind: disconnect_silent has dropped its   *)
(* subscription, and the notification that was to end the connection found  *)
(* its task in a handler and is gone, so nobody tells the client.           *)
Forgotten(c) == up[c] /\ c \notin attached /\ inq[c] = <<>> /\ Silent(subs[c])

(* Whatever the interleaving of output, attaching, detaching, resyncs,      *)
(* silences and broken connections, a client that stays attached ends up    *)
(* showing the final state of the Surface, unless it is forgotten (the emit *)
(* loop, serve, run and dispatch).                                          *)
Converges ==
  \A c \in Clients :
    <>[](attachments[c] # "None" /\ ~Forgotten(c) =>
           /\ replica[c].view = Seen(Len(log), attachments[c])
           /\ replica[c].exited = exited)
=============================================================================
