------------------------------ MODULE LiveFeed ------------------------------
(***************************************************************************)
(* internal/feed/databento/live.go: a reader goroutine between a gateway's *)
(* socket and Next, a caller of Next with an L2 book, and a Close that may *)
(* come from any goroutine at any time.                                    *)
(*                                                                         *)
(* Connections are numbered in the order they are dialled.  The gateway is *)
(* not ours: it may send, hang up, or stay silent for ever.  Each critical *)
(* section of l.mu is one step, since none of them blocks.                 *)
(***************************************************************************)
EXTENDS Naturals, Sequences

CONSTANTS
    Cap,        \* capacity of l.out (32 in the code)
    MaxDials,   \* bound: connections the gateway accepts
    MaxRows,    \* bound: rows it sends on all of them
    MaxSeq      \* bound: sequence numbers of rows

ASSUME LiveAssumption ==
    /\ Cap \in Nat \ {0} /\ MaxDials \in Nat
    /\ MaxRows \in Nat /\ MaxSeq \in Nat

VARIABLES
    once,       \* LiveConfig.DisableReconnect
    at,         \* where the reader goroutine is
    err,        \* what session returned: "eof" or another error
    held,       \* l.conn, 0 for nil
    cur,        \* the connection the loop dialled last
    open,       \* connections that are not closed
    armed,      \* session's armed
    event,      \* the event about to be sent
    closer,     \* Close: "idle", "closing" once done is closed, "closed"
    out,        \* l.out
    wire,       \* what the gateway has sent on cur and the reader not yet read
    caller,     \* the caller of Next: "idle", "next" inside it, "over" at EOF
    book        \* its orderbook.L2

readerVars == <<at, err, held, cur, armed, event>>
feedVars == <<once, readerVars, open, closer, out, wire, caller, book>>

Level == {"level"}              \* KindQuote and KindBook
Events == [kind : {"trade", "level"}, seq : 0..MaxSeq, snap : BOOLEAN,
           conn : 0..MaxDials]
NoEv == [kind |-> "trade", seq |-> 0, snap |-> FALSE, conn |-> 0]
Messages == [error : {FALSE}, ev : Events] \cup [error : {TRUE}, ev : {NoEv}]
Fresh == [head |-> FALSE, rows |-> <<>>, sent |-> 0, last |-> 0, end |-> "no"]
NoBook == [seq |-> 0, conn |-> 0, have |-> FALSE, gaps |-> 0, lost |-> 0]

done == closer # "idle"
Room == Len(out) < Cap
Ended == at = "end"             \* loop has returned, and closed out

FeedInit ==
    /\ once \in BOOLEAN /\ at = "top" /\ err = "eof" /\ held = 0 /\ cur = 0
    /\ open = {} /\ armed = FALSE /\ event = NoEv /\ closer = "idle"
    /\ out = <<>> /\ wire = Fresh /\ caller = "idle"
    /\ book = NoBook
-----------------------------------------------------------------------------
(* The gateway, external: it acts only on a connection that is open. *)

Header ==
    /\ cur \in open /\ wire.end = "no" /\ ~wire.head
    /\ wire' = [wire EXCEPT !.head = TRUE]
    /\ UNCHANGED <<once, readerVars, open, closer, out, caller, book>>

\* A row is a trade and the quote it produced, or a quote; its sequence number
\* follows the last one, repeats it, or skips.
SendRow(trade, s) ==
    /\ cur \in open /\ wire.end = "no" /\ wire.head
    /\ wire.sent < MaxRows /\ s >= wire.last
    /\ LET e(k) == [kind |-> k, seq |-> s, snap |-> FALSE, conn |-> cur]
       IN wire' = [wire EXCEPT
              !.rows = @ \o (IF trade THEN <<e("trade"), e("level")>> ELSE <<e("level")>>),
              !.sent = @ + 1, !.last = s]
    /\ UNCHANGED <<once, readerVars, open, closer, out, caller, book>>

HangUp(how) ==
    /\ cur \in open /\ wire.end = "no"
    /\ wire' = [wire EXCEPT !.end = how]
    /\ UNCHANGED <<once, readerVars, open, closer, out, caller, book>>
-----------------------------------------------------------------------------
(* The reader goroutine: loop, session, send. *)

Top ==
    /\ at = "top"
    /\ at' = IF done THEN "end" ELSE "dial"
    /\ UNCHANGED <<once, err, held, cur, armed, event, open, closer, out, wire,
                   caller, book>>

Dial ==
    /\ at = "dial"
    /\ \/ /\ cur < MaxDials
          /\ cur' = cur + 1 /\ open' = open \cup {cur + 1}
          /\ wire' = [Fresh EXCEPT !.sent = wire.sent] /\ at' = "assign"
       \/ at' = "sendErr" /\ UNCHANGED <<cur, open, wire>>
    /\ UNCHANGED <<once, err, held, armed, event, closer, out, caller, book>>

SendErr ==
    /\ at = "sendErr"
    /\ \/ done /\ at' = "end" /\ out' = out
       \/ /\ Room
          /\ out' = Append(out, [error |-> TRUE, ev |-> NoEv])
          /\ at' = IF once THEN "end" ELSE "top"
    /\ UNCHANGED <<once, err, held, cur, armed, event, open, closer, wire,
                   caller, book>>

Assign_Defect ==
    /\ at = "assign" /\ at' = "open"
    /\ UNCHANGED <<once, err, held, cur, armed, event, open, closer, out, wire,
                   caller, book>>
Assign ==
    /\ at = "assign" /\ held' = cur /\ at' = "open"
    /\ UNCHANGED <<once, err, cur, armed, event, open, closer, out, wire,
                   caller, book>>

Leave(e) == err' = e /\ at' = "cleanup"

\* The handshake, then the header line.  A stream that ends before it is an
\* "unexpected header", not io.EOF.
Open_Defect ==
    /\ at = "open"
    /\ \/ cur \in open /\ wire.head /\ armed' = (cur = 1) /\ at' = "check" /\ err' = err
       \/ (cur \notin open \/ wire.end # "no") /\ Leave("other") /\ UNCHANGED armed
    /\ UNCHANGED <<once, held, cur, event, open, closer, out, wire, caller, book>>
Open ==
    /\ at = "open"
    /\ \/ cur \in open /\ wire.head /\ armed' = TRUE /\ at' = "check" /\ err' = err
       \/ (cur \notin open \/ wire.end # "no") /\ Leave("other") /\ UNCHANGED armed
    /\ UNCHANGED <<once, held, cur, event, open, closer, out, wire, caller, book>>

Check ==
    /\ at = "check"
    /\ IF done THEN Leave("eof") ELSE at' = "read" /\ err' = err
    /\ UNCHANGED <<once, held, cur, armed, event, open, closer, out, wire,
                   caller, book>>

\* Rows already buffered are read even after the connection is closed.
Read ==
    /\ at = "read"
    /\ \/ /\ wire.rows # <<>>
          /\ LET e == Head(wire.rows)
                 arm == armed /\ e.kind \in Level
             IN event' = [e EXCEPT !.snap = arm] /\ armed' = (armed /\ ~arm)
          /\ wire' = [wire EXCEPT !.rows = Tail(@)]
          /\ at' = "send" /\ err' = err
       \/ /\ \/ wire.rows = <<>> /\ wire.end = "eof" /\ Leave("eof")
             \/ (cur \notin open \/ wire.end = "other") /\ Leave("other")
          /\ UNCHANGED <<event, armed, wire>>
    /\ UNCHANGED <<once, held, cur, open, closer, out, caller, book>>

Send_Defect ==
    /\ at = "send" /\ Room
    /\ out' = Append(out, [error |-> FALSE, ev |-> event]) /\ at' = "check"
    /\ event' = NoEv
    /\ UNCHANGED <<once, err, held, cur, armed, open, closer, wire, caller, book>>
Send ==
    /\ at = "send"
    /\ \/ done /\ Leave("eof") /\ out' = out
       \/ /\ Room
          /\ out' = Append(out, [error |-> FALSE, ev |-> event])
          /\ at' = "check" /\ err' = err
    /\ event' = NoEv
    /\ UNCHANGED <<once, held, cur, armed, open, closer, wire, caller, book>>

\* Lines 124-135: close what l.conn still points to, then stop or dial again.
Cleanup ==
    /\ at = "cleanup"
    /\ open' = open \ {held} /\ held' = 0 /\ err' = "eof"
    /\ at' = IF done \/ (err = "eof" /\ once) THEN "end" ELSE "top"
    /\ UNCHANGED <<once, cur, armed, event, closer, out, wire, caller, book>>

Reader == \/ Top \/ Dial \/ SendErr \/ Assign \/ Open \/ Check \/ Read
          \/ Send \/ Cleanup
-----------------------------------------------------------------------------
(* Close, once, by any goroutine. *)

CloseDone ==
    /\ closer = "idle" /\ closer' = "closing"
    /\ UNCHANGED <<once, readerVars, open, out, wire, caller, book>>

CloseConn ==
    /\ closer = "closing" /\ closer' = "closed"
    /\ open' = open \ {held} /\ held' = 0
    /\ UNCHANGED <<once, at, err, cur, armed, event, out, wire, caller, book>>
-----------------------------------------------------------------------------
(* The caller of Next and its L2 book. *)

CallNext ==
    /\ caller = "idle" /\ caller' = "next"
    /\ UNCHANGED <<once, readerVars, open, closer, out, wire, book>>

\* L2.Apply: a snapshot resets the book, and its sequence is a new baseline.
\* lost counts, for the record, the breaks within one connection.
Applied(b, e) ==
    LET old == IF e.snap THEN [b EXCEPT !.have = FALSE, !.gaps = 0, !.lost = 0] ELSE b
        break == old.have /\ e.seq # old.seq /\ e.seq # old.seq + 1
    IN [seq |-> e.seq, conn |-> e.conn, have |-> TRUE,
        gaps |-> old.gaps + (IF break THEN 1 ELSE 0),
        lost |-> old.lost + (IF break /\ old.conn = e.conn THEN 1 ELSE 0)]

\* A caller may go on after an error, or give up.
Receive ==
    /\ caller = "next" /\ out # <<>>
    /\ LET m == Head(out)
       IN /\ caller' \in (IF m.error THEN {"idle", "over"} ELSE {"idle"})
          /\ book' = IF ~m.error /\ m.ev.kind \in Level THEN Applied(book, m.ev)
                     ELSE book
    /\ out' = Tail(out)
    /\ UNCHANGED <<once, readerVars, open, closer, wire>>

NextEof ==
    /\ caller = "next"
    /\ done \/ (Ended /\ out = <<>>)
    /\ caller' = "over"
    /\ UNCHANGED <<once, readerVars, open, closer, out, wire, book>>

FeedNext ==
    \/ Header
    \/ \E t \in BOOLEAN, s \in 1..MaxSeq : SendRow(t, s)
    \/ \E how \in {"eof", "other"} : HangUp(how)
    \/ Reader
    \/ CloseDone \/ CloseConn
    \/ CallNext \/ Receive \/ NextEof

\* Goroutines that can run do run, and Dial returns; the gateway, the caller
\* and whoever calls Close owe nothing.
FeedFairness ==
    /\ WF_feedVars(Reader)
    /\ WF_feedVars(CloseConn)
    /\ WF_feedVars(Receive \/ NextEof)

FeedSpec == FeedInit /\ [][FeedNext]_feedVars /\ FeedFairness
-----------------------------------------------------------------------------
Places == {"top", "dial", "sendErr", "assign", "open", "check", "read", "send",
           "cleanup", "end"}
Wires == [head : BOOLEAN, rows : Seq(Events), sent : 0..MaxRows,
          last : 0..MaxSeq, end : {"no", "eof", "other"}]
Books == [seq : 0..MaxSeq, conn : 0..MaxDials, have : BOOLEAN, gaps : Nat,
          lost : Nat]

\* Every variable has its type.
FeedTypeOK ==
    /\ once \in BOOLEAN /\ at \in Places /\ err \in {"eof", "other"}
    /\ held \in 0..MaxDials /\ cur \in 0..MaxDials /\ open \subseteq 1..MaxDials
    /\ armed \in BOOLEAN /\ event \in Events
    /\ closer \in {"idle", "closing", "closed"}
    /\ out \in Seq(Messages)
    /\ wire \in Wires /\ caller \in {"idle", "next", "over"} /\ book \in Books

\* The connection dialled last is the only one that can be open, nothing is
\* left open when the goroutine has ended, and once Close has returned no row
\* is waited for on a connection that is open (Close between Dial and the
\* assignment of l.conn must be caught by the check of done).
AfterClose ==
    /\ open \subseteq {cur}
    /\ Ended => open = {}
    /\ closer = "closed" /\ at = "read" => open = {}

\* A gap the book reports is a break in one connection's numbering: the first
\* quote of each new connection is a snapshot, also after a redial.
GapsAreReal == book.gaps = book.lost

\* The one wait Close does not end: the header line of a connection dialled
\* before Close and assigned after it.
LateHeader == at = "open" /\ cur \in open /\ ~wire.head /\ wire.end = "no"

\* After Close nobody waits: the goroutine ends, whatever the caller of Next and
\* the gateway do, but for a gateway that never answers a late handshake; and a
\* call of Next returns even then.
CloseEnds ==
    /\ (<>done) => (<>[]Ended \/ <>[]LateHeader)
    /\ (done /\ caller = "next") ~> (caller # "next")
=============================================================================
