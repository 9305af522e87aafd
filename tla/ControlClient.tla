------------------------------- MODULE ControlClient -------------------------------
(* The window's control client (packages/app/src/control/client.ts) with the     *)
(* part of bootstrap.ts that drives it: connection attempts that overlap, the    *)
(* handshake and reconnect timers, requests queued until the handshake is over,  *)
(* and the subscription every fresh connection needs.                            *)
(*                                                                               *)
(* JavaScript runs one callback at a time, so a callback is one step.  It is     *)
(* written as a function of the record `client` (the object's fields); what it   *)
(* writes and which sockets it ends are collected in `out` and `ends` and put    *)
(* into effect by Ran.  Nothing in the class names the attempt a callback is     *)
(* for: the model keeps one connection per attempt, and a callback of an old one *)
(* acts on the fields of the newest.                                             *)
EXTENDS Naturals, Sequences, FiniteSets, SequencesExt

CONSTANTS
    Attempts,   \* bound: calls of connect()
    Requests,   \* bound: calls of request(), subscriptions included
    Failures,   \* bound: refused, broken or slow connections, presses of Reconnect
    Clicks,     \* bound: "Reconnect" pressed by the user
    Quits       \* 0 or 1: whether the window may be closed

VARIABLES
    client,     \* the fields of ControlClient
    link,       \* per attempt: the socket, what comes in on it, the server's end
    spare       \* what is left of the bounds: failures, clicks

controlVars == <<client, link, spare>>

No == 0
Attempt == 1 .. Attempts
Message == [t : {"ack", "refused", "close", "call"}, id : 0 .. Requests]
Plain(t) == [t |-> t, id |-> No]

Init ==
    /\ client = [state |-> "connecting", torndown |-> FALSE, intentional |-> FALSE,
                 socket |-> No, settle |-> No, shake |-> No, shakes |-> {},
                 retry |-> No, retries |-> {}, calls |-> <<>>, pending |-> {},
                 waiters |-> <<>>, out |-> <<>>, ends |-> {}]
    /\ link = [a \in Attempt |-> [step |-> "none", down |-> <<>>,
                                  byUser |-> FALSE, subscribed |-> FALSE]]
    /\ spare = [failures |-> Failures, clicks |-> Clicks]

-----------------------------------------------------------------------------
(* The methods.                                                              *)

ClearShake(c) == [c EXCEPT !.shakes = @ \ {c.shake}, !.shake = No]

Settled(c, ids, how) ==
    [c EXCEPT !.calls = [i \in DOMAIN @ |->
                            IF i \in ids \cap c.pending THEN [@[i] EXCEPT !.is = how] ELSE @[i]],
              !.pending = @ \ ids]

FailPending(c) == Settled(c, c.pending, "failed")

\* `send`: an id whose promise is already settled is written all the same.
Send(c, id) ==
    IF c.socket = No THEN Settled(c, {id}, "failed")
    ELSE [c EXCEPT !.out = Append(@, [t |-> "call", id |-> id]), !.calls[id].written = @ + 1]

\* request(): at once when connected, else when the handshake completes.
Ask(c, kind) ==
    LET id == Len(c.calls) + 1
        asked == [c EXCEPT !.calls = Append(@, [kind |-> kind, is |-> "open", written |-> 0]),
                           !.pending = @ \cup {id}]
    IN IF c.state = "closed" \/ id > Requests THEN c
       ELSE IF c.state = "connected" THEN Send(asked, id)
       ELSE [asked EXCEPT !.waiters = Append(@, id)]

\* wireClientToStore: a reconnect is a fresh connection, so subscribe again.
SetState(c, new) ==
    LET changed == [c EXCEPT !.state = new]
    IN IF c.state = "reconnecting" /\ new = "connected" THEN Ask(changed, "subscribe") ELSE changed

\* What the continuations of the waiters send, in their order, when the callback that
\* resolved them is over.
Times(ids, id) == Cardinality({i \in DOMAIN ids : ids[i] = id})

SendAll(c, ids) ==
    IF c.socket = No THEN Settled(c, Range(ids), "failed")
    ELSE [c EXCEPT !.out = @ \o [i \in DOMAIN ids |-> [t |-> "call", id |-> ids[i]]],
                   !.calls = [id \in DOMAIN c.calls |-> [c.calls[id] EXCEPT !.written = @ + Times(ids, id)]]]

\* The waiters are not taken off the list.
FlushWaiters_Kept(c) == SendAll(c, c.waiters)

FlushWaiters(c) == SendAll([c EXCEPT !.waiters = <<>>], c.waiters)

TransportClosed(c, fromConnect) ==
    LET quiet == ClearShake(c)
        torn == [FailPending(quiet) EXCEPT
                    !.torndown = TRUE, !.socket = No, !.settle = No,
                    !.ends = IF fromConnect THEN @ ELSE @ \cup ({c.socket} \ {No})]
    IN IF c.state = "closed" \/ c.torndown THEN quiet
       ELSE IF c.intentional THEN [torn EXCEPT !.state = "closed", !.waiters = <<>>]
       ELSE LET t == CHOOSE t \in 1 .. Attempts + 1 : t \notin c.retries
            IN [SetState(torn, "reconnecting") EXCEPT !.retry = t, !.retries = @ \cup {t}]

Acked(c, byUser) ==
    LET shaken == FlushWaiters([SetState(ClearShake(c), "connected") EXCEPT !.settle = No])
    IN IF byUser THEN Ask(shaken, "subscribe") ELSE shaken

Refused(c) == TransportClosed([ClearShake(c) EXCEPT !.intentional = TRUE, !.settle = No], FALSE)

Closed(c) ==
    [FailPending(ClearShake(c)) EXCEPT
        !.intentional = TRUE, !.retries = @ \ {c.retry}, !.retry = No, !.socket = No,
        !.ends = {c.socket} \ {No}, !.state = "closed", !.settle = No, !.waiters = <<>>]
-----------------------------------------------------------------------------
(* The callbacks.                                                            *)

\* What `done` wrote goes out on its socket, the sockets it ended are closed.  The
\* server (st-server/src/control/conn.rs) is handed a request as it is written:
\* only its answers are in flight.
Over(a, links) ==
    IF links[a].step \in {"open", "broken"} THEN [links[a] EXCEPT !.step = "over", !.down = <<>>]
    ELSE links[a]

Wrote(a, links, done) ==
    IF a = done.socket /\ links[a].step = "open"
    THEN [links[a] EXCEPT !.down = @ \o done.out,
                          !.subscribed = @ \/ \E m \in Range(done.out) : done.calls[m.id].kind = "subscribe"]
    ELSE links[a]

Ran(done, links) ==
    /\ client' = [done EXCEPT !.out = <<>>, !.ends = {}]
    /\ link' = [a \in Attempt |-> IF a \in done.ends THEN Over(a, links) ELSE Wrote(a, links, done)]

\* connect(), up to its await: by bootstrap, by the user, by the reconnect timer.
Connecting(c, byUser) ==
    LET a == 1 + Cardinality({b \in Attempt : link[b].step # "none"})
    IN /\ a \in Attempt
       /\ Ran([SetState(c, IF c.state = "reconnecting" THEN c.state ELSE "connecting")
                 EXCEPT !.torndown = FALSE, !.settle = a],
              [link EXCEPT ![a] = [@ EXCEPT !.step = "opening", !.byUser = byUser]])

Connect == Connecting(client, TRUE) /\ link[1].step = "none" /\ UNCHANGED spare

\* The command is there while the window is not connected.
Reconnect ==
    /\ spare.clicks > 0 /\ spare.failures > 0 /\ link[1].step # "none"
    /\ client.state \notin {"closed", "connected"}
    /\ spare' = [failures |-> spare.failures - 1, clicks |-> spare.clicks - 1]
    /\ Connecting(client, TRUE)

\* A timer (250 ms, 5 s) outlasts a local connect, unless that one is slow.
Expires ==
    IF \E a \in Attempt : link[a].step = "opening"
    THEN spare.failures > 0 /\ spare' = [spare EXCEPT !.failures = @ - 1]
    ELSE UNCHANGED spare

Retry(t) ==
    /\ t \in client.retries /\ Expires
    /\ LET fired == [client EXCEPT !.retries = @ \ {t}, !.retry = No]
       IN IF client.state = "closed" THEN Ran(fired, link) ELSE Connecting(fired, FALSE)

\* connect(), after its await: nothing looks whether the attempt is still wanted.
Opened(a) ==
    /\ link[a].step = "opening"
    /\ Ran([client EXCEPT !.socket = a, !.shake = a, !.shakes = @ \cup {a}],
           [link EXCEPT ![a].step = "open", ![a].down = <<Plain("ack")>>])
    /\ UNCHANGED spare

\* The transport may report a failed connect once or twice.
ConnectFails(a) ==
    /\ link[a].step = "opening" /\ spare.failures > 0
    /\ \E reported \in BOOLEAN :
          LET first == IF reported THEN TransportClosed(client, FALSE) ELSE client
          IN Ran(TransportClosed([first EXCEPT !.settle = No], TRUE), [link EXCEPT ![a].step = "over"])
    /\ spare' = [spare EXCEPT !.failures = @ - 1]

\* Which promise the acknowledgement resolves: that of the newest connect() call.
Deliver(a) ==
    LET m == Head(link[a].down)
        rest == [link EXCEPT ![a].down = Tail(@), ![a].step = IF m.t = "close" THEN "over" ELSE @]
        byUser == client.settle # No /\ link[client.settle].byUser
        done == CASE m.t = "ack" -> Acked(client, byUser)
                  [] m.t = "refused" -> Refused(client)
                  [] m.t = "close" -> TransportClosed(client, FALSE)
                  [] OTHER -> Settled(client, {m.id}, "ok")
    IN /\ link[a].down # <<>>
       /\ Ran(done, rest)
       /\ UNCHANGED spare

\* The handshake timer: 5 s without an acknowledgement; a timer whose handle was
\* overwritten by a later attempt fires whatever happened since.
ShakeTimeout(a) ==
    /\ a \in client.shakes
    /\ \/ spare.failures > 0 /\ spare' = [spare EXCEPT !.failures = @ - 1]
       \/ a # client.shake /\ Expires
    /\ Ran(TransportClosed([client EXCEPT !.shakes = @ \ {a}], FALSE), link)

UserAsks == Ran(Ask(client, "user"), link) /\ client.state # "closed" /\ UNCHANGED spare
            /\ \A i \in DOMAIN client.calls : client.calls[i].kind # "user"

CallTimeout(id) ==
    /\ id \in client.pending
    /\ Ran(Settled(client, {id}, "failed"), link)
    /\ UNCHANGED spare

Close ==
    /\ Quits > 0 /\ client.state # "closed"
    /\ Ran(Closed(client), link)
    /\ UNCHANGED spare
\* The server goes away with any of what it had to answer, or refuses the version.
Break(a) ==
    /\ link[a].step = "open" /\ spare.failures > 0
    /\ \E n \in 0 .. Len(link[a].down) :
          \E last \in {"close"} \cup IF n = 0 /\ Plain("ack") \in Range(link[a].down) THEN {"refused"} ELSE {} :
             link' = [link EXCEPT ![a].step = "broken", ![a].subscribed = FALSE,
                                  ![a].down = Append(SubSeq(@, 1, n), Plain(last))]
    /\ spare' = [spare EXCEPT !.failures = @ - 1]
    /\ UNCHANGED client

Next ==
    \/ Connect \/ Reconnect \/ UserAsks \/ Close
    \/ \E a \in Attempt : Opened(a) \/ ConnectFails(a) \/ Deliver(a) \/ ShakeTimeout(a) \/ Break(a)
    \/ \E t \in client.retries : Retry(t)
    \/ \E id \in client.pending : CallTimeout(id)

\* What the event loop, the network, the server and the timers go on to do.
Progress ==
    \/ Connect
    \/ \E a \in Attempt : Opened(a) \/ Deliver(a)
    \/ \E t \in client.retries : Retry(t)
Expiry == \E a \in client.shakes \ {client.shake} : ShakeTimeout(a)
-----------------------------------------------------------------------------
ControlTypes ==
    /\ client.state \in {"connecting", "connected", "reconnecting", "closed"}
    /\ client.pending \subseteq DOMAIN client.calls
    /\ {client.socket, client.settle} \subseteq {No} \cup Attempt
    /\ client.out = <<>> /\ client.ends = {}
    /\ \A a \in Attempt : link[a].down \in Seq(Message)

\* A request is written to a socket at most once, though the connection it was
\* queued for may be replaced and its promise settled in between (request, send,
\* flushWaiters): nothing makes the server do it twice.
AtMostOnce == \A id \in DOMAIN client.calls : client.calls[id].written <= 1

\* Unless the client was closed for good, it ends up with a connection on which
\* the server took its subscription: no window stays frozen on an old project
\* (wireClientToStore, onTransportClosed).  The user pressing Reconnect while an
\* attempt is under way is left out: see the README.
Listening == \E a \in Attempt : link[a].step = "open" /\ link[a].subscribed
Heard == client.intentional \/ Listening \/ spare.clicks < Clicks
=============================================================================
