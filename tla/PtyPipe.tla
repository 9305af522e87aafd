------------------------------ MODULE PtyPipe -------------------------------
(***************************************************************************)
(* The bytes of one Surface between its child and its engine: the two      *)
(* buffers of the kernel, the thread that reads, the bounded channel to    *)
(* the task that feeds the engine, what the engine and the clients send    *)
(* back, and the thread that writes it (st-server/src/supervisor.rs,       *)
(* st-core/src/pty.rs).                                                    *)
(*                                                                         *)
(* The child echoes: for what it reads it writes something, and reads on   *)
(* only when that is written.  A chunk is what one read or write moves.    *)
(***************************************************************************)
EXTENDS Naturals, FiniteSets

CONSTANTS
  Room,    (* chunks each buffer of the kernel holds   *)
  Depth,   (* PTY_QUEUE_DEPTH                          *)
  Unasked, (* bound: chunks the child writes unasked   *)
  Queries, (* the chunks the engine has to reply to    *)
  Typed    (* bound: chunks clients send               *)

VARIABLES
  tty,     (* out and in: chunks in the buffers of the kernel                  *)
  shell,   (* the child: alive, what it wrote, the echoes it owes              *)
  holder,  (* a background process that still has the terminal open            *)
  reader,  (* the reader thread runs                                           *)
  chunks,  (* in the channel from the reader thread                            *)
  feed,    (* the feed task: runs, what it has fed                             *)
  hint,    (* exit_hint                                                        *)
  writer,  (* the writer thread runs                                           *)
  typed    (* its queue, without bound, and what clients have sent              *)

pipeVars == <<tty, shell, holder, reader, chunks, feed, hint, writer, typed>>

Init ==
  /\ tty = [out |-> 0, in |-> 0]
  /\ shell = [alive |-> TRUE, wrote |-> 0, owes |-> 0, unasked |-> 0]
  /\ holder \in BOOLEAN
  /\ reader = TRUE /\ chunks = 0 /\ feed = [runs |-> TRUE, fed |-> 0]
  /\ hint = FALSE /\ writer = TRUE /\ typed = [queue |-> 0, sent |-> 0]

Held == shell.alive \/ holder
-----------------------------------------------------------------------------
(* The processes behind the terminal *)
Write ==
  /\ Held /\ tty.out < Room
  /\ \/ shell.alive /\ shell.owes > 0 /\ shell' = [shell EXCEPT !.wrote = @ + 1, !.owes = @ - 1]
     \/ /\ shell.unasked < Unasked
        /\ shell' = [shell EXCEPT !.wrote = @ + 1, !.unasked = @ + 1]
  /\ tty' = [tty EXCEPT !.out = @ + 1]
  /\ UNCHANGED <<holder, reader, chunks, feed, hint, writer, typed>>

ReadInput ==
  /\ shell.alive /\ shell.owes = 0 /\ tty.in > 0
  /\ tty' = [tty EXCEPT !.in = @ - 1] /\ shell' = [shell EXCEPT !.owes = 1]
  /\ UNCHANGED <<holder, reader, chunks, feed, hint, writer, typed>>

Dies ==
  /\ shell.alive /\ shell' = [shell EXCEPT !.alive = FALSE]
  /\ UNCHANGED <<tty, holder, reader, chunks, feed, hint, writer, typed>>

LetsGo ==
  /\ ~shell.alive /\ holder /\ holder' = FALSE
  /\ UNCHANGED <<tty, shell, reader, chunks, feed, hint, writer, typed>>

(* The reader thread: a chunk into the channel, waiting for room in it, and *)
(* the end when the terminal is closed and empty (EIO on Linux)             *)
Read ==
  /\ reader /\ tty.out > 0 /\ chunks < Depth
  /\ tty' = [tty EXCEPT !.out = @ - 1] /\ chunks' = chunks + 1
  /\ UNCHANGED <<shell, holder, reader, feed, hint, writer, typed>>

Eof ==
  /\ reader /\ tty.out = 0 /\ ~Held
  /\ reader' = FALSE
  /\ UNCHANGED <<tty, shell, holder, chunks, feed, hint, writer, typed>>

(* write_pty: put in the queue, unless the writer thread has ended *)
Queued_Bounded(n) == typed.queue + n <= 1 /\ typed' = [typed EXCEPT !.queue = @ + n]

Queued(n) == typed' = IF writer THEN [typed EXCEPT !.queue = @ + n] ELSE typed

(* The feed task takes what is there, up to PTY_READ_CHUNK, feeds it and    *)
(* queues what the engine replies                                          *)
Feed ==
  /\ feed.runs
  /\ \E n \in 1..chunks :
       /\ chunks' = chunks - n /\ feed' = [feed EXCEPT !.fed = @ + n]
       /\ Queued(Cardinality(Queries \cap (feed.fed + 1..feed.fed + n)))
  /\ UNCHANGED <<tty, shell, holder, reader, hint, writer>>

FeedEnds_AtExit ==
  /\ feed.runs /\ ~shell.alive
  /\ feed' = [feed EXCEPT !.runs = FALSE] /\ hint' = TRUE
  /\ UNCHANGED <<tty, shell, holder, reader, chunks, writer, typed>>

FeedEnds ==
  /\ feed.runs /\ ~reader /\ chunks = 0
  /\ feed' = [feed EXCEPT !.runs = FALSE] /\ hint' = TRUE
  /\ UNCHANGED <<tty, shell, holder, reader, chunks, writer, typed>>

(* Input of a client *)
Type ==
  /\ typed.sent < Typed
  /\ typed' = [queue |-> typed.queue + (IF writer THEN 1 ELSE 0), sent |-> typed.sent + 1]
  /\ UNCHANGED <<tty, shell, holder, reader, chunks, feed, hint, writer>>

(* The writer thread: a chunk into the terminal, waiting for room in it;    *)
(* an error when nobody has the terminal open ends it                       *)
Deliver ==
  /\ writer /\ typed.queue > 0
  /\ typed' = [typed EXCEPT !.queue = @ - 1]
  /\ \/ Held /\ tty.in < Room /\ tty' = [tty EXCEPT !.in = @ + 1] /\ UNCHANGED writer
     \/ ~Held /\ writer' = FALSE /\ UNCHANGED tty
  /\ UNCHANGED <<shell, holder, reader, chunks, feed, hint>>

Echo == Write \/ ReadInput
Threads == Read \/ Eof \/ Feed \/ FeedEnds \/ Deliver
Next == Echo \/ Dies \/ LetsGo \/ Threads \/ Type
-----------------------------------------------------------------------------
PipeTypes ==
  /\ tty \in [out : 0..Room, in : 0..Room] /\ chunks \in 0..Depth
  /\ typed.sent <= Typed /\ typed.queue <= typed.sent + Cardinality(Queries)
  /\ feed.fed <= shell.wrote

(* The exit is only hinted when all output is in the engine: a Surface that *)
(* is reaped because its terminal closed has its last words on the screen   *)
(* (feed_loop, spawn_reader_thread)                                         *)
LastWords == hint => feed.fed = shell.wrote

(* All output gets to the engine, however full the buffers are and however  *)
(* much is typed: the threads and the child do not wait for one another     *)
(* (spawn_writer_thread, feed_loop)                                         *)
Fed == feed.fed = shell.wrote /\ (shell.alive => shell.owes = 0 /\ typed.queue = 0)
=============================================================================
