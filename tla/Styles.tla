------------------------------- MODULE Styles -------------------------------
(***************************************************************************)
(* The table of styles of a Surface (st-core style_table.rs, surface.rs,   *)
(* st-proto cell.rs): cells name a style by its index, frames carry what   *)
(* of the table their subscriber has not seen, and a table that is full    *)
(* starts over.  A frame reaches its subscriber as it is built: what a     *)
(* Replica makes of its frames depends on their order alone.  The screen   *)
(* has fewer styles than the table takes.                                  *)
(***************************************************************************)
EXTENDS Naturals, Sequences, SequencesExt

CONSTANTS
  StyleCap,  (* STYLE_TABLE_CAP                                             *)
  MaxWrites, (* bound: what the program writes                              *)
  MaxCalls   (* bound: history pages and repeated attachments               *)

VARIABLES
  colours,  (* the rows of the engine, each of one style                    *)
  past,     (* the line that scrolled off last                              *)
  styles,   (* the SurfaceStyleTable                                        *)
  subs,     (* the subscriptions                                            *)
  replicas, (* what their clients hold                                      *)
  spending  (* writes and calls so far                                      *)

stylesVars == <<colours, past, styles, subs, replicas, spending>>

Default == 0
Style == Default .. StyleCap
Line == 1..2
Subscriber == 1..2

NewTable(generation) == [list |-> <<Default>>, generation |-> generation, overflowed |-> FALSE]
IndexOf(list, style) == CHOOSE i \in DOMAIN list : list[i] = style /\ \A j \in 1 .. i - 1 : list[j] # style

(* SurfaceStyleTable::intern: a full table is reset                         *)
Interned(table, style) ==
  IF style \in ToSet(table.list) THEN table
  ELSE IF Len(table.list) < StyleCap THEN [table EXCEPT !.list = Append(@, style)]
  ELSE [NewTable(table.generation + 1) EXCEPT !.list = Append(@, style), !.overflowed = TRUE]

(* pack_row, of rows or lines in their order                                *)
Pack(table, cells) ==
  FoldLeft(LAMBDA packed, style :
             LET t == Interned(packed.table, style)
             IN [table |-> t, cells |-> Append(packed.cells, IndexOf(t.list, style))],
           [table |-> [table EXCEPT !.overflowed = FALSE], cells |-> <<>>], cells)
Taken(table) == [table EXCEPT !.overflowed = FALSE]

(* A frame is what a Replica makes of it, and the table after it is built   *)
BuildSnapshot(table) ==
  LET once == Pack(table, colours)
      packed == IF once.table.overflowed THEN Pack(once.table, colours) ELSE once
  IN [table |-> Taken(packed.table),
      replica |-> [list |-> packed.table.list, rows |-> packed.cells, cached |-> {}]]

(* StyleTable::set, for the entries from the subscriber's cursor on         *)
Learned(list, table, from) == [i \in 1 .. Len(table.list) |-> IF i > from THEN table.list[i] ELSE list[i]]

(* No Delta when the table is not the subscriber's, or starts over          *)
BuildDelta(table, sub, replica) ==
  LET dirty == SelectSeq(<<1, 2>>, LAMBDA l : l \in sub.dirty)
      packed == Pack(table, [i \in DOMAIN dirty |-> colours[dirty[i]]])
      Row(l) == packed.cells[CHOOSE i \in DOMAIN dirty : dirty[i] = l]
  IN IF table.generation # sub.generation THEN [table |-> table, replica |-> {}]
     ELSE IF packed.table.overflowed THEN [table |-> Taken(packed.table), replica |-> {}]
     ELSE [table |-> packed.table,
           replica |-> {[replica EXCEPT !.list = Learned(@, packed.table, sub.sent),
                                        !.rows = [l \in Line |-> IF l \in sub.dirty THEN Row(l) ELSE @[l]]]}]

Forced(sub) == [sub EXCEPT !.needs = TRUE, !.dirty = Line]
Known(sub, table) == [needs |-> FALSE, dirty |-> {}, generation |-> table.generation, sent |-> Len(table.list)]

(* One subscriber's part of a flush, with the table those before it left    *)
Sent(flush, s, began) ==
  LET sub == IF subs[s].generation # began THEN Forced(subs[s]) ELSE subs[s]
      delta == BuildDelta(flush.table, sub, replicas[s])
      full == BuildSnapshot(IF sub.needs THEN flush.table ELSE delta.table)
      whole == sub.needs \/ delta.replica = {}
      table == IF whole THEN full.table ELSE delta.table
  IN [table |-> table, overflowed |-> flush.overflowed \/ (~sub.needs /\ whole),
      subs |-> [flush.subs EXCEPT ![s] = Known(sub, table)],
      replicas |-> [flush.replicas EXCEPT ![s] = IF whole THEN full.replica
                                                ELSE CHOOSE r \in delta.replica : TRUE]]

(* Publisher::flush and Surface::flush.  A subscriber whose acknowledgements*)
(* are behind is held back, one that needs a Snapshot is not               *)
Flush == \E held \in SUBSET {s \in Subscriber : subs[s].dirty # {} /\ ~subs[s].needs} :
  LET Owed(s) == subs[s].needs \/ subs[s].dirty # {}
      Changed(s) == subs[s].generation # styles.generation
      told == {s \in Subscriber : Changed(s) \/ (Owed(s) /\ s \notin held)}
      done == FoldLeft(LAMBDA f, s : Sent(f, s, styles.generation),
                       [table |-> styles, overflowed |-> FALSE, subs |-> subs, replicas |-> replicas],
                       SelectSeq(<<1, 2>>, LAMBDA s : s \in told))
  IN /\ told # {} /\ \E s \in Subscriber : Owed(s)
     /\ \A s \in held : ~Changed(s)
     /\ styles' = done.table
     /\ replicas' = done.replicas
     /\ subs' = IF done.overflowed THEN [s \in Subscriber |-> Forced(done.subs[s])] ELSE done.subs
     /\ UNCHANGED <<colours, past, spending>>

Touched(lines) == [s \in Subscriber |-> [subs[s] EXCEPT !.dirty = @ \cup lines]]

(* Surface::feed: a row in another style, or a line feed at the bottom      *)
Write == \E l \in Line, style \in Style :
  /\ spending.writes < MaxWrites /\ spending' = [spending EXCEPT !.writes = @ + 1]
  /\ \/ style # colours[l] /\ colours' = [colours EXCEPT ![l] = style] /\ subs' = Touched({l}) /\ UNCHANGED past
     \/ /\ l = 2 /\ past' = colours[1]
        /\ colours' = <<colours[2], style>> /\ subs' = Touched(Line)
  /\ UNCHANGED <<styles, replicas>>

(* Surface::history: the page refers to the table as it is, which the       *)
(* client need not have                                                    *)
History == \E s \in Subscriber :
  LET packed == Pack(styles, <<past>>) IN
  /\ spending.calls < MaxCalls /\ spending' = [spending EXCEPT !.calls = @ + 1]
  /\ styles' = Taken(packed.table)
  /\ subs' = IF packed.table.overflowed THEN [t \in Subscriber |-> Forced(subs[t])] ELSE subs
  /\ replicas' = [replicas EXCEPT ![s].cached = {[cell |-> packed.cells[1], style |-> past]}]
  /\ UNCHANGED <<colours, past>>

(* A first Attach has no cursor, a repeated one keeps it                    *)
NewSubscription == [needs |-> TRUE, dirty |-> Line, generation |-> 0, sent |-> 0]
Attach == \E s \in Subscriber : \E sub \in {NewSubscription, Forced(subs[s])} :
  /\ spending.calls < MaxCalls /\ spending' = [spending EXCEPT !.calls = @ + 1]
  /\ subs' = [subs EXCEPT ![s] = sub]
  /\ UNCHANGED <<colours, past, styles, replicas>>

(* A Surface that has shown as many styles as its table takes               *)
Init ==
  /\ colours = <<Default, Default>> /\ past = Default
  /\ styles = [NewTable(0) EXCEPT !.list = [i \in 1..StyleCap |-> i - 1]]
  /\ subs = [s \in Subscriber |-> NewSubscription]
  /\ replicas = [s \in Subscriber |-> [list |-> <<Default>>, rows |-> <<1, 1>>, cached |-> {}]]
  /\ spending = [writes |-> 0, calls |-> 0]

Next == Flush \/ Write \/ History \/ Attach
-----------------------------------------------------------------------------
(* StyleTable::get_or_default                                               *)
Looks(replica, cell) == IF cell \in DOMAIN replica.list THEN replica.list[cell] ELSE Default

(* A row a client was sent is in its style until it changes and is sent     *)
(* again, however the table was started over in between; a line of history *)
(* is, once the client has been sent the table that its page refers to     *)
Coloured ==
  \A s \in Subscriber :
    /\ \A l \in Line \ subs[s].dirty : Looks(replicas[s], replicas[s].rows[l]) = colours[l]
    /\ \A line \in replicas[s].cached :
         \/ Looks(replicas[s], line.cell) = line.style
         \/ subs[s].generation # styles.generation \/ subs[s].sent < Len(styles.list)
=============================================================================
