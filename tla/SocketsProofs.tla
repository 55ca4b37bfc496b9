---------------------------- MODULE SocketsProofs ----------------------------
(***************************************************************************)
(* Proofs about the two programs that talk over a socket: LiveFeed.tla, for *)
(* every capacity of the channel, any number of connections and any rows    *)
(* the gateway sends on them; Replay.tla, for every tape and whatever the   *)
(* browser does.                                                            *)
(***************************************************************************)
EXTENDS LiveFeed, Replay, SequenceTheorems, TLAPS


-----------------------------------------------------------------------------
(* The live feed: the inductive invariant. *)

\* Where a connection may be open: nowhere between sessions, and within one
\* only where l.conn points, so that CloseConn or Cleanup closes it.
Connections ==
    /\ open \subseteq {cur}
    /\ at \in {"top", "dial", "sendErr", "end"} => open = {}
    /\ at \in {"open", "check", "read", "send", "cleanup"} => open \subseteq {held}
    /\ closer = "closed" /\ at = "read" => open = {}

IsRow(m) == ~m.error /\ m.ev.kind \in Level

\* Rows reach the book connection by connection.
InOrder ==
    /\ \A i \in DOMAIN wire.rows : wire.rows[i].conn = cur
    /\ at = "send" => event.conn = cur
    /\ book.conn <= cur
    /\ \A i \in DOMAIN out : IsRow(out[i]) =>
           /\ book.conn <= out[i].ev.conn /\ out[i].ev.conn <= cur
           /\ \A j \in 1..i : IsRow(out[j]) => out[j].ev.conn <= out[i].ev.conn

\* Book b has a baseline of connection c, or will by the nth message of s.
Known(b, s, c, n) ==
    \/ b.conn = c
    \/ \E i \in 1..n : IsRow(s[i]) /\ s[i].ev.conn = c

\* A row that is no snapshot follows one of its own connection.
Baseline ==
    /\ \A i \in DOMAIN out :
           IsRow(out[i]) /\ ~out[i].ev.snap => Known(book, out, out[i].ev.conn, i - 1)
    /\ at = "send" /\ event.kind \in Level /\ ~event.snap => Known(book, out, cur, Len(out))
    /\ at = "send" /\ event.snap => event.kind \in Level
    /\ at \in {"check", "read"} /\ ~armed => Known(book, out, cur, Len(out))
    /\ at = "send" /\ ~armed /\ ~event.snap => Known(book, out, cur, Len(out))

FeedInv == FeedTypeOK /\ Connections
BookInv == FeedTypeOK /\ InOrder /\ Baseline /\ GapsAreReal

-----------------------------------------------------------------------------
(* Type correctness. *)

LEMMA NoEvIsEvent == NoEv \in Events
  BY LiveAssumption DEF NoEv, Events

\* The empty channel, a fresh connection and the book before any row.
LEMMA EmptyTypes ==
    /\ <<>> \in Seq(Messages)
    /\ Fresh \in Wires
    /\ \A n \in 0..MaxRows : [Fresh EXCEPT !.sent = n] \in Wires
    /\ NoBook \in Books
<1>1. <<>> \in Seq(Events) /\ 0 \in 0..MaxRows /\ 0 \in 0..MaxSeq /\ 0 \in 0..MaxDials
  BY LiveAssumption
<1>2. Fresh \in Wires
  BY <1>1 DEF Fresh, Wires
<1>3. ASSUME NEW n \in 0..MaxRows PROVE [Fresh EXCEPT !.sent = n] \in Wires
  BY <1>2 DEF Wires
<1>4. NoBook \in Books
  BY <1>1 DEF NoBook, Books
<1>5. <<>> \in Seq(Messages)
  OBVIOUS
<1> QED BY <1>2, <1>3, <1>4, <1>5

LEMMA InitFeedType == FeedInit => FeedTypeOK
<1>1. 0 \in 0..MaxDials
  BY LiveAssumption
<1> QED BY <1>1, EmptyTypes, NoEvIsEvent DEF FeedInit, FeedTypeOK, Places

LEMMA MessageTypes ==
    /\ \A e \in Events : [error |-> FALSE, ev |-> e] \in Messages
    /\ [error |-> TRUE, ev |-> NoEv] \in Messages
    /\ \A m \in Messages : ~m.error => m.ev \in Events
  BY NoEvIsEvent DEF Messages

LEMMA AppendTypes ==
    ASSUME NEW s \in Seq(Messages)
    PROVE  /\ \A e \in Events : Append(s, [error |-> FALSE, ev |-> e]) \in Seq(Messages)
           /\ Append(s, [error |-> TRUE, ev |-> NoEv]) \in Seq(Messages)
<1>1. \A m \in Messages : Append(s, m) \in Seq(Messages)
  OBVIOUS
<1> QED BY <1>1, MessageTypes

\* What the caller keeps of an event is a book.
LEMMA AppliedType ==
    ASSUME NEW b \in Books, NEW e \in Events
    PROVE  /\ Applied(b, e) \in Books
           /\ Applied(b, e).conn = e.conn
           /\ e.snap => Applied(b, e).gaps = 0 /\ Applied(b, e).lost = 0
           /\ ~e.snap /\ b.conn = e.conn /\ b.gaps = b.lost
                  => Applied(b, e).gaps = Applied(b, e).lost
<1> DEFINE old == IF e.snap THEN [b EXCEPT !.have = FALSE, !.gaps = 0, !.lost = 0] ELSE b
           break == old.have /\ e.seq # old.seq /\ e.seq # old.seq + 1
           g == old.gaps + (IF break THEN 1 ELSE 0)
           l == old.lost + (IF break /\ old.conn = e.conn THEN 1 ELSE 0)
<1>1. Applied(b, e) = [seq |-> e.seq, conn |-> e.conn, have |-> TRUE, gaps |-> g, lost |-> l]
  BY DEF Applied
<1>2. old \in Books
  BY DEF Books
<1>3. e.snap => old.gaps = 0 /\ old.lost = 0 /\ ~old.have
  BY DEF Books
<1>4. ~e.snap => old = b
  OBVIOUS
<1>5. e.seq \in 0..MaxSeq /\ e.conn \in 0..MaxDials
  BY DEF Events
<1> HIDE DEF old
<1>6. old.gaps \in Nat /\ old.lost \in Nat
  BY <1>2 DEF Books
<1>7. g \in Nat /\ l \in Nat
  BY <1>6
<1>8. e.snap => g = 0 /\ l = 0
  BY <1>3
<1>9. ~e.snap /\ b.conn = e.conn /\ b.gaps = b.lost => g = l
  BY <1>4
<1> HIDE DEF g, l
<1> QED BY <1>1, <1>5, <1>7, <1>8, <1>9 DEF Books

LEMMA ReaderType == FeedTypeOK /\ Reader => FeedTypeOK'
<1> SUFFICES ASSUME FeedTypeOK, Reader PROVE FeedTypeOK'
  OBVIOUS
<1> USE DEF FeedTypeOK, Places
<1>1. CASE Top
  BY <1>1 DEF Top
<1>2. CASE Dial
  <2>1. wire.sent \in 0..MaxRows
    BY DEF Wires
  <2> QED BY <1>2, <2>1, EmptyTypes, LiveAssumption DEF Dial
<1>3. CASE SendErr
  BY <1>3, AppendTypes DEF SendErr
<1>4. CASE Assign
  BY <1>4 DEF Assign
<1>5. CASE Open
  BY <1>5 DEF Open, Leave
<1>6. CASE Check
  BY <1>6 DEF Check, Leave
<1>7. CASE Read
  <2>1. CASE wire.rows # <<>> /\ at' = "send"
    <3> DEFINE e == Head(wire.rows)
               arm == armed /\ e.kind \in Level
    <3>1. e \in Events /\ Tail(wire.rows) \in Seq(Events)
      BY <2>1 DEF Wires
    <3>2. [e EXCEPT !.snap = arm] \in Events
      BY <3>1 DEF Events
    <3>3. [wire EXCEPT !.rows = Tail(@)] \in Wires
      BY <3>1 DEF Wires
    <3>4. event' = [e EXCEPT !.snap = arm] /\ armed' = (armed /\ ~arm)
          /\ wire' = [wire EXCEPT !.rows = Tail(@)] /\ err' = err
      BY <1>7, <2>1 DEF Read, Leave
    <3> HIDE DEF e, arm
    <3>5. armed' \in BOOLEAN
      BY <3>4
    <3> QED BY <1>7, <2>1, <3>2, <3>3, <3>4, <3>5 DEF Read
  <2>2. CASE UNCHANGED <<event, armed, wire>> /\ at' = "cleanup"
    BY <1>7, <2>2 DEF Read, Leave
  <2> QED BY <1>7, <2>1, <2>2 DEF Read, Leave
<1>8. CASE Send
  BY <1>8, AppendTypes, NoEvIsEvent DEF Send, Leave
<1>9. CASE Cleanup
  BY <1>9, LiveAssumption DEF Cleanup
<1> QED BY <1>1, <1>2, <1>3, <1>4, <1>5, <1>6, <1>7, <1>8, <1>9 DEF Reader

\* The rows a gateway adds are numbered by the connection they come on.
LEMMA RowTypes ==
    ASSUME FeedTypeOK, NEW t \in BOOLEAN, NEW s \in 1..MaxSeq, SendRow(t, s)
    PROVE  /\ wire' \in Wires
           /\ wire'.rows \in Seq(Events) /\ wire.rows \in Seq(Events)
           /\ \A i \in DOMAIN wire'.rows :
                  \/ i \in DOMAIN wire.rows /\ wire'.rows[i] = wire.rows[i]
                  \/ wire'.rows[i].conn = cur
<1> DEFINE e(k) == [kind |-> k, seq |-> s, snap |-> FALSE, conn |-> cur]
           new == IF t THEN <<e("trade"), e("level")>> ELSE <<e("level")>>
<1>1. e("trade") \in Events /\ e("level") \in Events
  BY LiveAssumption DEF Events, FeedTypeOK
<1>2. new \in Seq(Events) /\ \A i \in DOMAIN new : new[i].conn = cur
  BY <1>1
<1>3. wire' = [wire EXCEPT !.rows = @ \o new, !.sent = @ + 1, !.last = s]
  BY DEF SendRow
<1> HIDE DEF new
<1>4. wire \in Wires /\ wire.sent < MaxRows
  BY DEF SendRow, FeedTypeOK
<1>5. wire.sent + 1 \in 0..MaxRows /\ s \in 0..MaxSeq
  BY <1>4, LiveAssumption DEF Wires
<1>6. wire.rows \in Seq(Events)
  BY <1>4 DEF Wires
<1>7. wire.rows \o new \in Seq(Events)
  BY <1>2, <1>6
<1>8. \A i \in DOMAIN (wire.rows \o new) :
          \/ i \in DOMAIN wire.rows /\ (wire.rows \o new)[i] = wire.rows[i]
          \/ (wire.rows \o new)[i].conn = cur
  BY <1>2, <1>6
<1>9. wire'.rows = wire.rows \o new
  BY <1>3, <1>4 DEF Wires
<1> QED BY <1>3, <1>4, <1>5, <1>6, <1>7, <1>8, <1>9 DEF Wires

LEMMA OthersType ==
    ASSUME FeedTypeOK,
           \/ Header \/ CloseDone \/ CloseConn \/ CallNext \/ Receive \/ NextEof
           \/ \E t \in BOOLEAN, s \in 1..MaxSeq : SendRow(t, s)
           \/ \E how \in {"eof", "other"} : HangUp(how)
    PROVE  FeedTypeOK'
<1> USE DEF FeedTypeOK, readerVars
<1>1. CASE Header
  BY <1>1 DEF Header, Wires
<1>2. ASSUME NEW t \in BOOLEAN, NEW s \in 1..MaxSeq, SendRow(t, s) PROVE FeedTypeOK'
  BY <1>2, RowTypes DEF SendRow
<1>3. ASSUME NEW how \in {"eof", "other"}, HangUp(how) PROVE FeedTypeOK'
  BY <1>3 DEF HangUp, Wires
<1>4. CASE CloseDone
  BY <1>4 DEF CloseDone
<1>5. CASE CloseConn
  BY <1>5, LiveAssumption DEF CloseConn
<1>6. CASE CallNext
  BY <1>6 DEF CallNext
<1>7. CASE Receive
  <2>1. out # <<>> /\ Head(out) \in Messages /\ Tail(out) \in Seq(Messages)
    BY <1>7 DEF Receive
  <2> QED BY <1>7, <2>1, MessageTypes, AppliedType DEF Receive
<1>8. CASE NextEof
  BY <1>8 DEF NextEof
<1> QED BY <1>1, <1>2, <1>3, <1>4, <1>5, <1>6, <1>7, <1>8

LEMMA NextFeedType == FeedTypeOK /\ [FeedNext]_feedVars => FeedTypeOK'
<1> SUFFICES ASSUME FeedTypeOK, [FeedNext]_feedVars PROVE FeedTypeOK'
  OBVIOUS
<1>1. CASE UNCHANGED feedVars
  BY <1>1 DEF FeedTypeOK, feedVars, readerVars
<1> QED BY <1>1, ReaderType, OthersType DEF FeedNext

\* Whatever the gateway sends and whenever Close comes, the state of the live
\* feed is well formed.
THEOREM FeedTypeCorrect == FeedSpec => []FeedTypeOK
  BY InitFeedType, NextFeedType, PTL DEF FeedSpec

-----------------------------------------------------------------------------
(* Close reaches every connection. *)

LEMMA NextConnections == FeedInv /\ [FeedNext]_feedVars => Connections'
<1> SUFFICES ASSUME FeedTypeOK, Connections, [FeedNext]_feedVars PROVE Connections'
  BY DEF FeedInv
<1> USE DEF Connections, FeedTypeOK
<1>1. CASE Top
  BY <1>1 DEF Top
<1>2. CASE Dial
  BY <1>2 DEF Dial
<1>3. CASE SendErr
  BY <1>3 DEF SendErr
<1>4. CASE Assign
  BY <1>4 DEF Assign
<1>5. CASE Open
  BY <1>5 DEF Open, Leave
<1>6. CASE Check
  BY <1>6 DEF Check, Leave, done
<1>7. CASE Read
  BY <1>7 DEF Read, Leave
<1>8. CASE Send
  BY <1>8 DEF Send, Leave
<1>9. CASE Cleanup
  BY <1>9 DEF Cleanup
<1>10. CASE CloseDone
  BY <1>10 DEF CloseDone, readerVars
<1>11. CASE CloseConn
  BY <1>11 DEF CloseConn
<1>12. CASE UNCHANGED <<at, held, cur, open, closer>>
  BY <1>12
<1>13. ASSUME NEW t \in BOOLEAN, NEW s \in 1..MaxSeq, SendRow(t, s) PROVE Connections'
  BY <1>12, <1>13 DEF SendRow, readerVars
<1> QED
  BY <1>1, <1>2, <1>3, <1>4, <1>5, <1>6, <1>7, <1>8, <1>9, <1>10, <1>11, <1>12, <1>13
  DEF FeedNext, Reader, Header, HangUp, CallNext, Receive, NextEof, readerVars, feedVars

\* A connection is open only where Close or the goroutine's own cleanup finds
\* it, so none outlives the goroutine and none is waited on after Close, even
\* when Close comes between Dial and the assignment of l.conn.
THEOREM AfterCloseHolds == FeedSpec => []AfterClose
<1>1. FeedInit => FeedInv
  BY InitFeedType DEF FeedInit, FeedInv, Connections
<1>2. FeedInv /\ [FeedNext]_feedVars => FeedInv'
  BY NextFeedType, NextConnections DEF FeedInv
<1>3. FeedInv => AfterClose
  BY DEF FeedInv, Connections, AfterClose, Ended
<1> QED BY <1>1, <1>2, <1>3, PTL DEF FeedSpec

-----------------------------------------------------------------------------
(* What the book reports as a gap is one. *)

LEMMA AppendFacts ==
    ASSUME NEW s \in Seq(Messages), NEW m \in Messages
    PROVE  /\ Len(Append(s, m)) = Len(s) + 1 /\ Len(s) \in Nat
           /\ DOMAIN s = 1..Len(s) /\ DOMAIN Append(s, m) = 1..(Len(s) + 1)
           /\ \A i \in 1..Len(s) : Append(s, m)[i] = s[i]
           /\ Append(s, m)[Len(s) + 1] = m
  OBVIOUS

LEMMA TailFacts ==
    ASSUME NEW s \in Seq(Messages), s # <<>>
    PROVE  /\ Head(s) = s[1] /\ s[1] \in Messages
           /\ DOMAIN s = 1..Len(s) /\ Len(s) \in Nat \ {0} /\ Len(Tail(s)) = Len(s) - 1
           /\ DOMAIN Tail(s) = 1..(Len(s) - 1)
           /\ \A i \in 1..(Len(s) - 1) : Tail(s)[i] = s[i + 1]
  OBVIOUS

LEMMA ConnIsNat ==
    ASSUME FeedTypeOK
    PROVE  /\ cur \in Nat /\ book.conn \in Nat
           /\ \A i \in DOMAIN out : IsRow(out[i]) => out[i].ev \in Events /\ out[i].ev.conn \in Nat
<1>1. \A i \in DOMAIN out : out[i] \in Messages
  BY DEF FeedTypeOK
<1>2. \A e \in Events : e.conn \in Nat
  BY LiveAssumption DEF Events
<1>3. cur \in Nat /\ book.conn \in Nat
  BY LiveAssumption DEF FeedTypeOK, Books
<1> QED BY <1>1, <1>2, <1>3, MessageTypes DEF IsRow

\* A step that leaves the channel and the book alone leaves the baseline.
LEMMA SameBook ==
    ASSUME UNCHANGED <<out, book, cur>>, InOrder, Baseline, GapsAreReal
    PROVE  /\ \A c, n : Known(book', out', c, n) = Known(book, out, c, n)
           /\ GapsAreReal'
           /\ (\A i \in DOMAIN wire'.rows : wire'.rows[i].conn = cur)
                  /\ (at' = "send" => event'.conn = cur) => InOrder'
           /\ (at' = "send" /\ event'.kind \in Level /\ ~event'.snap => Known(book, out, cur, Len(out)))
                  /\ (at' = "send" /\ event'.snap => event'.kind \in Level)
                  /\ (at' \in {"check", "read"} /\ ~armed' => Known(book, out, cur, Len(out)))
                  /\ (at' = "send" /\ ~armed' /\ ~event'.snap => Known(book, out, cur, Len(out)))
              => Baseline'
<1>1. \A m : IsRow(m)' = IsRow(m)
  BY DEF IsRow, Level
<1>2. \A c, n : Known(book', out', c, n) = Known(book, out, c, n)
  BY <1>1 DEF Known
<1>3. GapsAreReal'
  BY DEF GapsAreReal
<1> QED BY <1>1, <1>2, <1>3 DEF InOrder, Baseline, Level

\* Messages behind the ones it knows of change nothing for the book.
LEMMA AppendKnown ==
    ASSUME FeedTypeOK, NEW m \in Messages, out' = Append(out, m), book' = book,
           NEW c, NEW n \in 0..Len(out), Known(book, out, c, n), NEW k \in n..Len(out) + 1
    PROVE  Known(book', out', c, k)
<1>1. CASE book.conn = c
  BY <1>1 DEF Known
<1>2. ASSUME NEW i \in 1..n, IsRow(out[i]), out[i].ev.conn = c PROVE Known(book', out', c, k)
  <2>1. i \in 1..k /\ out'[i] = out[i]
    BY <1>2, AppendFacts DEF FeedTypeOK
  <2> QED BY <1>2, <2>1 DEF Known, IsRow, Level
<1> QED BY <1>1, <1>2 DEF Known

LEMMA SendErrBook ==
    ASSUME FeedTypeOK, InOrder, Baseline, GapsAreReal, SendErr
    PROVE  InOrder' /\ Baseline' /\ GapsAreReal'
<1>1. CASE out' = out
  BY <1>1, SameBook DEF SendErr, InOrder
<1>2. CASE Room /\ out' = Append(out, [error |-> TRUE, ev |-> NoEv])
  <2> DEFINE m == [error |-> TRUE, ev |-> NoEv]
  <2>1. m \in Messages /\ ~IsRow(m)
    BY MessageTypes DEF IsRow
  <2> HIDE DEF m
  <2>2. /\ out \in Seq(Messages) /\ out' = Append(out, m)
        /\ UNCHANGED <<cur, book, wire, event>> /\ at' \in {"end", "top"}
    BY <1>2 DEF SendErr, FeedTypeOK, m
  <2>3. /\ DOMAIN out = 1..Len(out) /\ DOMAIN out' = 1..(Len(out) + 1) /\ Len(out) \in Nat
        /\ \A i \in 1..Len(out) : out'[i] = out[i]
        /\ out'[Len(out) + 1] = m
    BY <2>1, <2>2, AppendFacts
  <2>4. \A i \in DOMAIN out' : IsRow(out'[i]) => i \in DOMAIN out /\ out'[i] = out[i]
    BY <2>1, <2>3
  <2>5. InOrder'
    BY <2>2, <2>3, <2>4 DEF InOrder, IsRow, Level
  <2>6. ASSUME NEW i \in DOMAIN out', IsRow(out'[i]), ~out'[i].ev.snap
        PROVE  Known(book', out', out'[i].ev.conn, i - 1)
    <3>1. i \in 1..Len(out) /\ Known(book, out, out[i].ev.conn, i - 1) /\ out'[i] = out[i]
      BY <2>3, <2>4, <2>6 DEF Baseline
    <3>2. i - 1 \in 0..Len(out) /\ i - 1 \in (i - 1)..Len(out) + 1
      BY <3>1, <2>3
    <3> QED BY <2>1, <2>2, <3>1, <3>2, AppendKnown
  <2>7. Baseline'
    BY <2>2, <2>6 DEF Baseline, IsRow, Level
  <2> QED BY <2>2, <2>5, <2>7 DEF GapsAreReal
<1> QED BY <1>1, <1>2 DEF SendErr

LEMMA SendBook ==
    ASSUME FeedTypeOK, InOrder, Baseline, GapsAreReal, Send
    PROVE  InOrder' /\ Baseline' /\ GapsAreReal'
<1>1. CASE Leave("eof") /\ out' = out
  BY <1>1, SameBook DEF Send, InOrder, Leave
<1>2. CASE Room /\ out' = Append(out, [error |-> FALSE, ev |-> event])
  <2> DEFINE m == [error |-> FALSE, ev |-> event]
  <2>1. m \in Messages /\ m.ev = event /\ IsRow(m) = (event.kind \in Level)
    BY MessageTypes DEF IsRow, FeedTypeOK
  <2> HIDE DEF m
  <2>2. /\ out \in Seq(Messages) /\ out' = Append(out, m) /\ at = "send"
        /\ UNCHANGED <<cur, book, wire, armed>> /\ at' = "check"
    BY <1>2 DEF Send, FeedTypeOK, Leave, m
  <2>3. /\ DOMAIN out = 1..Len(out) /\ DOMAIN out' = 1..(Len(out) + 1) /\ Len(out) \in Nat
        /\ \A i \in 1..Len(out) : out'[i] = out[i]
        /\ out'[Len(out) + 1] = m /\ Len(out') = Len(out) + 1
    BY <2>1, <2>2, AppendFacts
  <2>4. m.ev.conn = cur /\ cur \in Nat /\ book.conn <= cur
    BY <2>1, <2>2, ConnIsNat DEF InOrder
  <2>5. ASSUME NEW i \in DOMAIN out', IsRow(out'[i])
        PROVE  /\ book.conn <= out'[i].ev.conn /\ out'[i].ev.conn <= cur
               /\ \A j \in 1..i : IsRow(out'[j]) => out'[j].ev.conn <= out'[i].ev.conn
    <3>1. CASE i \in DOMAIN out
      BY <2>3, <2>5, <3>1 DEF InOrder
    <3>2. CASE i = Len(out) + 1
      BY <2>3, <2>4, <2>5, <3>2 DEF InOrder
    <3> QED BY <2>3, <3>1, <3>2
  <2>6. InOrder'
    BY <2>2, <2>4, <2>5 DEF InOrder, IsRow, Level
  <2>7. ASSUME NEW i \in DOMAIN out', IsRow(out'[i]), ~out'[i].ev.snap
        PROVE  Known(book', out', out'[i].ev.conn, i - 1)
    <3>1. CASE i \in DOMAIN out
      <4>1. i \in 1..Len(out) /\ Known(book, out, out[i].ev.conn, i - 1) /\ out'[i] = out[i]
        BY <2>3, <2>7, <3>1 DEF Baseline
      <4>2. i - 1 \in 0..Len(out) /\ i - 1 \in (i - 1)..Len(out) + 1
        BY <4>1, <2>3
      <4> QED BY <2>1, <2>2, <4>1, <4>2, AppendKnown
    <3>2. CASE i = Len(out) + 1
      <4>1. out'[i] = m /\ event.kind \in Level /\ ~event.snap
        BY <2>1, <2>3, <2>7, <3>2
      <4>2. Known(book, out, cur, Len(out))
        BY <2>2, <4>1 DEF Baseline
      <4>3. Known(book', out', cur, Len(out))
        <5>1. Len(out) \in 0..Len(out) /\ Len(out) \in Len(out)..Len(out) + 1
          BY <2>3
        <5> QED BY <2>1, <2>2, <4>2, <5>1, AppendKnown
      <4> QED BY <2>3, <2>4, <3>2, <4>1, <4>3
    <3> QED BY <2>3, <3>1, <3>2
  <2>8. ASSUME ~armed PROVE Known(book', out', cur, Len(out) + 1)
    <3>1. CASE event.snap
      <4>1. IsRow(m) /\ Len(out) + 1 \in 1..Len(out) + 1
        <5>1. event.kind \in Level
          BY <2>2, <3>1 DEF Baseline
        <5>2. Len(out) + 1 \in 1..Len(out) + 1
          BY <2>3
        <5>3. IsRow(m)
          BY ONLY <2>1, <5>1
        <5> QED BY <5>2, <5>3
      <4>2. IsRow(out'[Len(out) + 1]) /\ out'[Len(out) + 1].ev.conn = cur
        BY <2>3, <2>4, <4>1
      <4> QED BY <4>1, <4>2 DEF Known, IsRow, Level
    <3>2. CASE ~event.snap
      <4>1. Known(book, out, cur, Len(out))
        BY <2>2, <2>8, <3>2 DEF Baseline
      <4>2. Len(out) \in 0..Len(out) /\ Len(out) + 1 \in Len(out)..Len(out) + 1
        BY <2>3
      <4> QED BY <2>1, <2>2, <4>1, <4>2, AppendKnown
    <3> QED BY <3>1, <3>2
  <2>9. Baseline'
    BY <2>2, <2>3, <2>7, <2>8 DEF Baseline, IsRow, Level
  <2> QED BY <2>2, <2>6, <2>9 DEF GapsAreReal
<1> QED BY <1>1, <1>2 DEF Send

LEMMA ReceiveBook ==
    ASSUME FeedTypeOK, InOrder, Baseline, GapsAreReal, Receive
    PROVE  InOrder' /\ Baseline' /\ GapsAreReal'
<1> DEFINE m == out[1]
<1>1. /\ out \in Seq(Messages) /\ out # <<>> /\ out' = Tail(out)
      /\ UNCHANGED <<at, cur, armed, event, wire>>
  BY DEF Receive, FeedTypeOK, readerVars
<1>2. /\ Head(out) = m /\ m \in Messages /\ 1 \in DOMAIN out
      /\ DOMAIN out = 1..Len(out) /\ Len(out) \in Nat \ {0} /\ Len(out') = Len(out) - 1
      /\ DOMAIN out' = 1..(Len(out) - 1)
      /\ \A i \in 1..(Len(out) - 1) : out'[i] = out[i + 1] /\ i + 1 \in DOMAIN out
  BY <1>1, TailFacts
<1>3. book' = IF IsRow(m) THEN Applied(book, m.ev) ELSE book
  BY <1>2 DEF Receive, IsRow
<1>4. IsRow(m) => m.ev \in Events /\ m.ev.conn \in Nat /\ book.conn <= m.ev.conn
  BY <1>2, ConnIsNat DEF InOrder
<1>5. cur \in Nat /\ book.conn \in Nat /\ book \in Books
  BY ConnIsNat DEF FeedTypeOK
<1>6. book'.conn = IF IsRow(m) THEN m.ev.conn ELSE book.conn
  BY <1>3, <1>4, <1>5, AppliedType
<1>7. \A i \in DOMAIN out' : IsRow(out'[i]) /\ IsRow(m) => m.ev.conn <= out'[i].ev.conn
  <2>1. ASSUME NEW i \in DOMAIN out', IsRow(out'[i]), IsRow(m)
        PROVE  m.ev.conn <= out'[i].ev.conn
    <3>1. i + 1 \in DOMAIN out /\ out'[i] = out[i + 1] /\ 1 \in 1..(i + 1)
      BY <1>2
    <3> QED BY <2>1, <3>1 DEF InOrder
  <2> QED BY <2>1
<1>8. InOrder'
  <2>1. ASSUME NEW i \in DOMAIN out', IsRow(out'[i])
        PROVE  /\ book'.conn <= out'[i].ev.conn /\ out'[i].ev.conn <= cur
               /\ \A j \in 1..i : IsRow(out'[j]) => out'[j].ev.conn <= out'[i].ev.conn
    <3>1. i + 1 \in DOMAIN out /\ out'[i] = out[i + 1]
      BY <1>2
    <3>2. \A j \in 1..i : out'[j] = out[j + 1] /\ j + 1 \in 1..(i + 1)
      BY <1>2, <3>1
    <3> QED BY <1>6, <1>7, <2>1, <3>1, <3>2 DEF InOrder
  <2>2. book'.conn <= cur
    BY <1>2, <1>6 DEF InOrder
  <2> QED BY <1>1, <2>1, <2>2 DEF InOrder, IsRow, Level
<1>9. ASSUME NEW c \in Nat, NEW n \in 1..Len(out), Known(book, out, c, n), IsRow(m) => m.ev.conn <= c
      PROVE  Known(book', out', c, n - 1)
  <2>1. CASE book.conn = c
    <3>1. book'.conn = c
      BY <1>4, <1>5, <1>6, <1>9, <2>1
    <3> QED BY <3>1 DEF Known
  <2>2. ASSUME NEW i \in 1..n, IsRow(out[i]), out[i].ev.conn = c PROVE Known(book', out', c, n - 1)
    <3>1. CASE i = 1
      BY <1>6, <2>2, <3>1 DEF Known
    <3>2. CASE i # 1
      <4>1. i - 1 \in 1..(n - 1) /\ out'[i - 1] = out[i]
        <5>1. i - 1 \in 1..(n - 1) /\ i - 1 \in 1..(Len(out) - 1)
          BY <1>2, <3>2
        <5>2. out'[i - 1] = out[(i - 1) + 1] /\ (i - 1) + 1 = i
          BY <1>2, <5>1
        <5> QED BY <5>1, <5>2
      <4> QED BY <2>2, <4>1 DEF Known, IsRow, Level
    <3> QED BY <3>1, <3>2
  <2> QED BY <1>9, <2>1, <2>2 DEF Known
<1>10. ASSUME Known(book, out, cur, Len(out)) PROVE Known(book', out', cur, Len(out) - 1)
  <2>1. IsRow(m) => m.ev.conn <= cur
    BY <1>2 DEF InOrder
  <2>2. Len(out) \in 1..Len(out)
    BY <1>2
  <2> QED BY <1>5, <1>9, <1>10, <2>1, <2>2
<1>11. ASSUME NEW i \in DOMAIN out', IsRow(out'[i]), ~out'[i].ev.snap
       PROVE  Known(book', out', out'[i].ev.conn, i - 1)
  <2> DEFINE c == out[i + 1].ev.conn
  <2>1. /\ i + 1 \in DOMAIN out /\ out'[i] = out[i + 1] /\ (i + 1) - 1 = i
        /\ i \in 1..Len(out) /\ c \in Nat
    BY <1>2, <1>11, ConnIsNat
  <2>2. Known(book, out, c, i)
    BY <1>11, <2>1 DEF Baseline
  <2>3. IsRow(m) => m.ev.conn <= c
    BY <1>7, <1>11, <2>1
  <2> HIDE DEF c
  <2>4. Known(book', out', c, i - 1)
    BY <1>9, <2>1, <2>2, <2>3
  <2> QED BY <2>1, <2>4 DEF c
<1>12. Baseline'
  BY <1>1, <1>2, <1>10, <1>11 DEF Baseline, IsRow, Level
<1>13. GapsAreReal'
  <2>1. CASE ~IsRow(m)
    BY <1>3, <2>1 DEF GapsAreReal
  <2>2. CASE IsRow(m) /\ m.ev.snap
    BY <1>3, <1>4, <1>5, <2>2, AppliedType DEF GapsAreReal
  <2>3. CASE IsRow(m) /\ ~m.ev.snap
    <3>1. Known(book, out, m.ev.conn, 1 - 1)
      BY <1>2, <2>3 DEF Baseline
    <3>2. book.conn = m.ev.conn
      BY <3>1 DEF Known
    <3> QED BY <1>3, <1>4, <1>5, <2>3, <3>2, AppliedType DEF GapsAreReal
  <2> QED BY <2>1, <2>2, <2>3
<1> QED BY <1>8, <1>12, <1>13

LEMMA ReadBook ==
    ASSUME FeedTypeOK, InOrder, Baseline, GapsAreReal, Read
    PROVE  InOrder' /\ Baseline' /\ GapsAreReal'
<1>1. CASE UNCHANGED <<event, armed, wire>> /\ at' = "cleanup"
  BY <1>1, SameBook DEF Read, InOrder, Leave
<1>2. CASE wire.rows # <<>> /\ at' = "send"
  <2> DEFINE e == Head(wire.rows)
             arm == armed /\ e.kind \in Level
  <2>1. wire \in Wires /\ wire.rows \in Seq(Events)
    BY DEF FeedTypeOK, Wires
  <2>2. e \in Events /\ e = wire.rows[1] /\ 1 \in DOMAIN wire.rows
    BY <1>2, <2>1
  <2>3. e.conn = cur
    BY <2>2 DEF InOrder
  <2>4. \A i \in DOMAIN Tail(wire.rows) :
            i + 1 \in DOMAIN wire.rows /\ Tail(wire.rows)[i] = wire.rows[i + 1]
    BY <1>2, <2>1
  <2>5. /\ event' = [e EXCEPT !.snap = arm] /\ armed' = (armed /\ ~arm)
        /\ wire' = [wire EXCEPT !.rows = Tail(@)]
        /\ UNCHANGED <<out, book, cur>> /\ at = "read"
    BY <1>2 DEF Read, Leave
  <2>6. wire'.rows = Tail(wire.rows)
    BY <2>1, <2>5 DEF Wires
  <2>7. event'.kind = e.kind /\ event'.conn = cur /\ event'.snap = arm
    BY <2>2, <2>3, <2>5 DEF Events
  <2>8. \A i \in DOMAIN wire'.rows : wire'.rows[i].conn = cur
    BY <2>4, <2>6 DEF InOrder
  <2>9. ~armed => Known(book, out, cur, Len(out))
    BY <2>5 DEF Baseline
  <2>10. armed \in BOOLEAN
    BY DEF FeedTypeOK
  <2>11. InOrder' /\ GapsAreReal'
    BY <2>5, <2>7, <2>8, SameBook
  <2>12. arm => e.kind \in Level
    OBVIOUS
  <2>13. ~arm /\ e.kind \in Level => ~armed
    OBVIOUS
  <2>14. ~arm /\ ~armed' => ~armed
    BY <2>5
  <2> HIDE DEF e, arm
  <2>15. Baseline'
    BY <1>2, <2>5, <2>7, <2>9, <2>12, <2>13, <2>14, SameBook
  <2> QED BY <2>11, <2>15
<1> QED BY <1>1, <1>2 DEF Read, Leave

LEMMA NextBook == BookInv /\ [FeedNext]_feedVars => BookInv'
<1> SUFFICES ASSUME BookInv, [FeedNext]_feedVars
             PROVE  InOrder' /\ Baseline' /\ GapsAreReal'
  BY NextFeedType DEF BookInv
<1>1. FeedTypeOK /\ InOrder /\ Baseline /\ GapsAreReal
  BY DEF BookInv
<1>2. CASE Top
  BY <1>1, <1>2, SameBook DEF Top, InOrder
<1>3. CASE Dial
  <2>1. CASE UNCHANGED <<cur, open, wire>>
    BY <1>1, <1>3, <2>1, SameBook DEF Dial, InOrder
  <2>2. CASE cur' = cur + 1 /\ at' = "assign" /\ wire' = [Fresh EXCEPT !.sent = wire.sent]
    <3>1. wire'.rows = <<>> /\ UNCHANGED <<out, book>>
      BY <1>3, <2>2 DEF Dial, Fresh
    <3>2. \A i \in DOMAIN out : IsRow(out[i]) => out[i].ev.conn <= cur + 1
      BY <1>1, ConnIsNat DEF InOrder
    <3>3. book.conn <= cur + 1
      BY <1>1, ConnIsNat DEF InOrder
    <3>4. InOrder'
      BY <1>1, <2>2, <3>1, <3>2, <3>3 DEF InOrder
    <3>5. Baseline' /\ GapsAreReal'
      BY <1>1, <2>2, <3>1 DEF Baseline, GapsAreReal
    <3> QED BY <3>4, <3>5
  <2> QED BY <1>3, <2>1, <2>2 DEF Dial
<1>4. CASE SendErr
  BY <1>1, <1>4, SendErrBook
<1>5. CASE Assign
  BY <1>1, <1>5, SameBook DEF Assign, InOrder
<1>6. CASE Open
  BY <1>1, <1>6, SameBook DEF Open, Leave, InOrder
<1>7. CASE Check
  BY <1>1, <1>7, SameBook DEF Check, Leave, InOrder, Baseline
<1>8. CASE Read
  BY <1>1, <1>8, ReadBook
<1>9. CASE Send
  BY <1>1, <1>9, SendBook
<1>10. CASE Cleanup
  BY <1>1, <1>10, SameBook DEF Cleanup, InOrder
<1>11. CASE Receive
  BY <1>1, <1>11, ReceiveBook
<1>12. ASSUME UNCHANGED <<at, armed, event, out, book, cur>>,
              \A i \in DOMAIN wire'.rows : wire'.rows[i].conn = cur
       PROVE  InOrder' /\ Baseline' /\ GapsAreReal'
  BY <1>1, <1>12, SameBook DEF InOrder, Baseline
<1>13. ASSUME NEW t \in BOOLEAN, NEW s \in 1..MaxSeq, SendRow(t, s)
       PROVE  InOrder' /\ Baseline' /\ GapsAreReal'
  <2>1. \A i \in DOMAIN wire'.rows : wire'.rows[i].conn = cur
    BY <1>1, <1>13, RowTypes DEF InOrder
  <2>2. UNCHANGED <<at, armed, event, out, book, cur>>
    BY <1>13 DEF SendRow, readerVars
  <2> QED BY <1>12, <2>1, <2>2
<1>14. ASSUME wire'.rows = wire.rows, UNCHANGED <<at, armed, event, out, book, cur>>
       PROVE  InOrder' /\ Baseline' /\ GapsAreReal'
  BY <1>1, <1>12, <1>14 DEF InOrder
<1>15. CASE Header
  <2>1. wire'.rows = wire.rows
    BY <1>1, <1>15 DEF Header, FeedTypeOK, Wires
  <2> QED BY <1>14, <1>15, <2>1 DEF Header, readerVars
<1>16. ASSUME NEW how \in {"eof", "other"}, HangUp(how)
       PROVE  InOrder' /\ Baseline' /\ GapsAreReal'
  <2>1. wire'.rows = wire.rows
    BY <1>1, <1>16 DEF HangUp, FeedTypeOK, Wires
  <2> QED BY <1>14, <1>16, <2>1 DEF HangUp, readerVars
<1>17. CASE CloseDone \/ CloseConn \/ CallNext \/ NextEof \/ UNCHANGED feedVars
  BY <1>14, <1>17 DEF CloseDone, CloseConn, CallNext, NextEof, feedVars, readerVars
<1> QED
  BY <1>2, <1>3, <1>4, <1>5, <1>6, <1>7, <1>8, <1>9, <1>10, <1>11, <1>13, <1>15, <1>16, <1>17
  DEF FeedNext, Reader

\* The first quote of each connection is a snapshot and rows keep their order,
\* so a gap the caller's book counts is a break in one connection's numbers,
\* across any number of redials.
THEOREM GapsHold == FeedSpec => []GapsAreReal
<1>1. FeedInit => BookInv
  <2> SUFFICES ASSUME FeedInit PROVE BookInv
    OBVIOUS
  <2>1. DOMAIN out = {} /\ DOMAIN wire.rows = {} /\ at = "top" /\ cur = 0
    BY DEF FeedInit, Fresh
  <2>2. book.conn = 0 /\ book.gaps = 0 /\ book.lost = 0
    BY DEF FeedInit, NoBook
  <2> QED BY <2>1, <2>2, InitFeedType DEF BookInv, InOrder, Baseline, GapsAreReal
<1>2. BookInv => GapsAreReal
  BY DEF BookInv
<1> QED BY <1>1, <1>2, NextBook, PTL DEF FeedSpec


-----------------------------------------------------------------------------
(* The replay: the inductive invariant. *)

\* Between Await and the end of its delivery the engine has a print in hand.
InHand == en \in {"deliver", "bar", "barring"}

Started == en \in {"hold", "held"} \/ InHand => pos > 0

\* A pause that finds no print in hand lets none through.
Paused ==
    /\ ~play => since <= 1
    /\ ~play /\ InHand => since = 0
    /\ pos = 0 => since = 0
    /\ Started

\* The ith frame of a conversation about this tape.
Frame(i) == IF i = 1 THEN <<"hello">>
            ELSE IF tape = <<>> THEN <<"error">>
            ELSE IF i <= Len(tape) + 1 THEN Bar(i - 1) ELSE <<"done">>

Prefix == /\ Len(log) <= Len(tape) + 2
          /\ \A i \in 1..Len(log) : log[i] = Frame(i)

\* Where the goroutines are says how far the conversation has come, for as long
\* as the socket is up; a cancelled engine may skip the bar in hand and no more.
Reading ==
    /\ rd = "hello" => log = <<>> /\ en = "idle"
    /\ rd = "none" => tape = <<>> /\ Len(log) = 1 /\ en = "idle"
    /\ rd \in {"read", "start", "pong", "ponging", "free", "cancel"} => tape # <<>>
    /\ rd \in {"read", "start", "pong", "ponging", "free", "cancel"} /\ en = "idle"
           => Len(log) = 1
    /\ en # "idle" => tape # <<>>
    /\ en = "idle" => pos = 0

Sent ==
    sock = "up" =>
        /\ en \in {"bar", "barring"} => Len(log) = pos
        /\ en \in {"deliver", "hold", "held"} /\ ~cancelled => Len(log) = pos
        /\ en \in {"between", "sleep", "ctx"} /\ ~cancelled => Len(log) = pos + 1
        /\ en = "returned" /\ ~cancelled => Len(log) = Len(tape) + 1
        /\ en \in {"done", "doing"} => Len(log) = Len(tape) + 1

Told == Started /\ Reading /\ Sent /\ Prefix

PauseInv == ServeTypeOK /\ Paused
ToldInv == ServeTypeOK /\ Told

-----------------------------------------------------------------------------
(* Type correctness. *)

LEMMA FrameTypes ==
    /\ <<"hello">> \in Frames /\ <<"error">> \in Frames /\ <<"done">> \in Frames
    /\ \A i \in Nat : Bar(i) \in Frames
  BY DEF Frames, Bar

LEMMA WroteType ==
    ASSUME log \in Seq(Frames), NEW f \in Frames, Wrote(f)
    PROVE  log' \in Seq(Frames)
  BY DEF Wrote

LEMMA SetPlayFacts ==
    ASSUME ServeTypeOK, NEW on \in BOOLEAN, SetPlay(on)
    PROVE  /\ play' = on /\ asleep' = FALSE /\ speed' = speed /\ since' \in Nat
           /\ since' = since \/ since' = 0
           /\ play /\ ~on => since' = 0
  BY DEF ServeTypeOK, SetPlay

LEMMA CtlFacts ==
    ASSUME ServeTypeOK, NEW f \in {"play", "pause", "ping", "close"}, Ctl(f)
    PROVE  /\ rd = "read" /\ ctls' \in Nat /\ since' \in Nat
           /\ rd' \in {"start", "read", "pong", "free"}
           /\ play' \in BOOLEAN /\ speed' = speed /\ asleep' \in BOOLEAN
           /\ since' = since \/ since' = 0
           /\ play /\ ~play' => since' = 0
           /\ UNCHANGED <<tape, reading, pos, clock, wait, slept, sock, mu, log, en, cancelled>>
<1>1. ctls' \in Nat /\ rd = "read"
      /\ UNCHANGED <<tape, reading, pos, clock, wait, slept, sock, mu, log, en, cancelled>>
  BY DEF Ctl, ServeTypeOK, engVars, sockVars
<1>2. CASE SetPlay(TRUE) /\ rd' = "start"
  BY <1>1, <1>2, SetPlayFacts
<1>3. CASE SetPlay(FALSE) /\ rd' = "read"
  BY <1>1, <1>3, SetPlayFacts
<1>4. CASE UNCHANGED gateVars /\ rd' \in {"pong", "free"}
  <2>1. UNCHANGED <<play, speed, asleep, since>>
    BY <1>4 DEF gateVars
  <2>2. play \in BOOLEAN /\ asleep \in BOOLEAN /\ since \in Nat
    BY DEF ServeTypeOK
  <2> QED BY <1>1, <1>4, <2>1, <2>2
<1> QED BY <1>2, <1>3, <1>4 DEF Ctl

LEMMA InitServeType == ServeInit => ServeTypeOK
<1> SUFFICES ASSUME ServeInit PROVE ServeTypeOK
  OBVIOUS
<1>1. tape \in Seq(TapeTrade) /\ <<>> \in Seq(Frames)
  BY ServeAssumption DEF ServeInit
<1>2. 0 \in 0..Len(tape)
  BY <1>1
<1> QED BY <1>1, <1>2 DEF ServeInit, ServeTypeOK

LEMMA ClientType ==
    ASSUME ServeTypeOK,
           \/ StopReading \/ Vanish
           \/ \E f \in {"play", "pause", "ping", "close"} : Ctl(f)
           \/ \E s \in Speeds : SetSpeed(s)
    PROVE  ServeTypeOK'
<1> USE DEF ServeTypeOK, ctlVars, gateVars, engVars, sockVars
<1>1. CASE StopReading
  BY <1>1 DEF StopReading
<1>2. CASE Vanish
  BY <1>2 DEF Vanish
<1>3. ASSUME NEW f \in {"play", "pause", "ping", "close"}, Ctl(f) PROVE ServeTypeOK'
  BY <1>3, CtlFacts
<1>4. ASSUME NEW s \in Speeds, SetSpeed(s) PROVE ServeTypeOK'
  BY <1>4, ServeAssumption DEF SetSpeed
<1> QED BY <1>1, <1>2, <1>3, <1>4

LEMMA ControlType == ServeTypeOK /\ Control => ServeTypeOK'
<1> SUFFICES ASSUME ServeTypeOK, Control PROVE ServeTypeOK'
  OBVIOUS
<1> USE DEF ServeTypeOK, ctlVars, gateVars, engVars, sockVars
<1>1. CASE Hello
  BY <1>1, FrameTypes, WroteType DEF Hello
<1>2. CASE NoTrades
  BY <1>2, FrameTypes, WroteType DEF NoTrades
<1>3. CASE ReadFails
  BY <1>3 DEF ReadFails
<1>4. CASE Start
  BY <1>4 DEF Start
<1>5. CASE LockPong
  BY <1>5 DEF LockPong
<1>6. CASE Pong
  BY <1>6 DEF Pong
<1>7. CASE Free
  BY <1>7 DEF Free, SetPlay
<1>8. CASE Cancel
  BY <1>8 DEF Cancel
<1>9. CASE CloseSocket
  BY <1>9 DEF CloseSocket
<1> QED BY <1>1, <1>2, <1>3, <1>4, <1>5, <1>6, <1>7, <1>8, <1>9 DEF Control

LEMMA EngineType ==
    ASSUME ServeTypeOK, Engine \/ Timer, Started
    PROVE  ServeTypeOK'
<1> USE DEF ServeTypeOK, ctlVars, gateVars, engVars, sockVars
<1>1. CASE Poll
  BY <1>1 DEF Poll
<1>2. CASE Hold
  BY <1>2 DEF Hold
<1>3. CASE Deliver
  <2>1. pos \in 1..Len(tape)
    BY <1>3 DEF Deliver, Started, InHand
  <2>2. tape[pos] \in TapeTrade
    BY <2>1
  <2>3. tape[pos].ts \in Nat
    BY <2>2 DEF TapeTrade
  <2> DEFINE to == IF tape[pos].bad \/ tape[pos].ts <= clock THEN clock ELSE tape[pos].ts
  <2>4. to \in Nat /\ to - clock \in Nat
    BY <2>3
  <2>5. clock' = to /\ wait' = to - clock
    BY <1>3 DEF Deliver
  <2> HIDE DEF to
  <2> QED BY <1>3, <2>4, <2>5 DEF Deliver
<1>4. CASE LockFrame
  BY <1>4 DEF LockFrame
<1>5. CASE WriteBar
  <2>1. Bar(pos) \in Frames
    BY FrameTypes
  <2> QED BY <1>5, <2>1, WroteType DEF WriteBar
<1>6. CASE Between
  BY <1>6 DEF Between
<1>7. CASE Timer
  BY <1>7 DEF Timer
<1>8. CASE Finish
  BY <1>8 DEF Finish
<1>9. CASE WriteDone
  BY <1>9, FrameTypes, WroteType DEF WriteDone
<1> QED BY <1>1, <1>2, <1>3, <1>4, <1>5, <1>6, <1>7, <1>8, <1>9 DEF Engine, SleepCancelled

-----------------------------------------------------------------------------
(* A pause lets at most the print in hand through. *)

LEMMA NextServeType ==
    ServeTypeOK /\ Started /\ [ServeNext]_serveVars => ServeTypeOK'
<1>1. CASE UNCHANGED serveVars
  BY <1>1 DEF serveVars, ServeTypeOK, ctlVars, gateVars, engVars, sockVars
<1> QED BY <1>1, ClientType, ControlType, EngineType DEF ServeNext

LEMMA NextPause == PauseInv /\ [ServeNext]_serveVars => PauseInv'
<1> SUFFICES ASSUME ServeTypeOK, Paused, [ServeNext]_serveVars PROVE Paused'
  BY NextServeType DEF PauseInv, Paused
<1> USE DEF Paused, Started, InHand, ctlVars, gateVars, engVars, sockVars
<1>1. since \in Nat /\ pos \in Nat /\ play \in BOOLEAN
  BY DEF ServeTypeOK
<1>2. CASE UNCHANGED <<play, since, pos, en>>
  BY <1>2
<1>3. ASSUME NEW f \in {"play", "pause", "ping", "close"}, Ctl(f) PROVE Paused'
  BY <1>1, <1>3, CtlFacts
<1>4. ASSUME NEW s \in Speeds, SetSpeed(s) PROVE Paused'
  BY <1>2, <1>4 DEF SetSpeed
<1>5. CASE Control
  <2>1. CASE Free
    BY <1>1, <2>1 DEF Free, SetPlay
  <2>2. CASE Start
    BY <1>1, <2>2 DEF Start
  <2> QED BY <1>2, <1>5, <2>1, <2>2
          DEF Control, Hello, NoTrades, ReadFails, LockPong, Pong, Cancel, CloseSocket
<1>6. CASE Engine \/ Timer
  <2>1. CASE Poll
    BY <1>1, <2>1 DEF Poll
  <2>2. CASE Hold
    BY <1>1, <2>2 DEF Hold
  <2>3. CASE WriteBar
    BY <1>1, <2>3 DEF WriteBar
  <2> QED BY <1>1, <1>6, <2>1, <2>2, <2>3
          DEF Engine, Timer, SleepCancelled, Deliver, LockFrame, Between, Finish, WriteDone
<1> QED BY <1>2, <1>3, <1>4, <1>5, <1>6
        DEF ServeNext, StopReading, Vanish, serveVars

\* Whatever the browser sends, the state of a replay is well formed.
THEOREM ServeTypeCorrect == ServeSpec => []ServeTypeOK
<1>1. ServeInit => PauseInv
  BY InitServeType DEF ServeInit, PauseInv, Paused, Started, InHand
<1>2. PauseInv => ServeTypeOK
  BY DEF PauseInv
<1> QED BY <1>1, <1>2, NextPause, PTL DEF ServeSpec

\* After a pause at most one bar, the one in hand, reaches the browser before
\* the next play, however the two goroutines interleave.
THEOREM PauseHolds == ServeSpec => []PauseBites
<1>1. ServeInit => PauseInv
  BY InitServeType DEF ServeInit, PauseInv, Paused, Started, InHand
<1>2. PauseInv => PauseBites
  BY DEF PauseInv, Paused, PauseBites
<1> QED BY <1>1, <1>2, NextPause, PTL DEF ServeSpec

-----------------------------------------------------------------------------
(* The conversation. *)

\* The next frame of a conversation keeps it one.
LEMMA NextFrame ==
    ASSUME ServeTypeOK, Prefix, Len(log) <= Len(tape) + 1, tape' = tape,
           NEW f \in Frames, f = Frame(Len(log) + 1), Wrote(f)
    PROVE  /\ Prefix'
           /\ sock = "up" => Len(log') = Len(log) + 1
           /\ sock # "up" => log' = log
<1>1. log \in Seq(Frames) /\ tape \in Seq(TapeTrade)
  BY DEF ServeTypeOK
<1>2. Len(log) \in Nat /\ Len(tape) \in Nat
  BY <1>1
<1>3. CASE sock # "up"
  BY <1>3 DEF Wrote, Prefix, Frame
<1>4. CASE sock = "up"
  <2>1. /\ Len(log') = Len(log) + 1 /\ log'[Len(log) + 1] = f
        /\ \A i \in 1..Len(log) : log'[i] = log[i]
    BY <1>1, <1>4, AppendProperties DEF Wrote
  <2>2. \A i : Frame(i)' = Frame(i)
    BY DEF Frame
  <2>3. \A i \in 1..Len(log') : log'[i] = Frame(i)
    BY <1>2, <2>1 DEF Prefix
  <2>4. Prefix'
    BY <1>2, <2>1, <2>2, <2>3 DEF Prefix
  <2> QED BY <1>4, <2>1, <2>4
<1> QED BY <1>3, <1>4

\* A step that writes nothing.
LEMMA SilentPrefix == UNCHANGED <<log, tape>> /\ Prefix => Prefix'
  BY DEF Prefix, Frame

\* A step that leaves the engine, the socket and the log alone.
LEMMA SilentTold ==
    ASSUME ServeTypeOK, Told,
           UNCHANGED <<tape, pos, en, sock, log, cancelled>>,
           \/ rd' = rd
           \/ /\ rd \in {"read", "start", "pong", "ponging"}
              /\ rd' \in {"read", "start", "pong", "ponging", "free"}
    PROVE  Told'
<1>1. Prefix'
  BY SilentPrefix DEF Told
<1>2. Started' /\ Sent'
  BY DEF Told, Started, Sent, InHand
<1>3. Reading'
  BY DEF Told, Reading
<1> QED BY <1>1, <1>2, <1>3 DEF Told

LEMMA ControlTold ==
    ASSUME ServeTypeOK, Told, Control
    PROVE  Told'
<1> USE DEF ctlVars, gateVars, engVars, sockVars
<1>1. log \in Seq(Frames) /\ Len(log) \in Nat /\ Len(tape) \in Nat
      /\ (tape = <<>> <=> Len(tape) = 0) /\ pos \in 0..Len(tape)
  BY DEF ServeTypeOK
<1>2. Started /\ Reading /\ Sent /\ Prefix
  BY DEF Told
<1>3. CASE Hello
  <2>1. log = <<>> /\ en = "idle" /\ Len(log) = 0 /\ rd = "hello"
    BY <1>2, <1>3 DEF Hello, Reading
  <2>2. UNCHANGED <<tape, pos, en, sock, cancelled>> /\ Wrote(<<"hello">>)
        /\ rd' = IF sock # "up" THEN "close" ELSE IF tape = <<>> THEN "none" ELSE "read"
    BY <1>3 DEF Hello
  <2>3. <<"hello">> = Frame(Len(log) + 1) /\ <<"hello">> \in Frames
    BY <2>1, FrameTypes DEF Frame
  <2>4. Prefix' /\ (sock = "up" => Len(log') = 1)
    BY <1>1, <1>2, <2>1, <2>2, <2>3, NextFrame
  <2>5. Started' /\ Sent'
    BY <2>1, <2>2 DEF Started, Sent, InHand
  <2>6. pos = 0
    BY <1>2, <2>1 DEF Reading
  <2>7. Reading'
    BY <2>1, <2>2, <2>4, <2>6 DEF Reading
  <2> QED BY <2>4, <2>5, <2>7 DEF Told
<1>4. CASE NoTrades
  <2>1. tape = <<>> /\ Len(log) = 1 /\ en = "idle" /\ pos = 0
    BY <1>2, <1>4 DEF NoTrades, Reading
  <2>2. UNCHANGED <<tape, pos, en, sock, cancelled>> /\ Wrote(<<"error">>) /\ rd' = "close"
    BY <1>4 DEF NoTrades
  <2>3. <<"error">> = Frame(Len(log) + 1) /\ <<"error">> \in Frames
    BY <2>1, FrameTypes DEF Frame
  <2>4. Prefix'
    BY <1>1, <1>2, <2>1, <2>2, <2>3, NextFrame
  <2>5. Started' /\ Sent' /\ Reading'
    BY <2>1, <2>2 DEF Started, Sent, InHand, Reading
  <2> QED BY <2>4, <2>5 DEF Told
<1>5. CASE Start
  <2>1. UNCHANGED <<tape, pos, log, sock, cancelled>> /\ rd = "start" /\ rd' = "read"
        /\ en' = IF en = "idle" THEN "ctx" ELSE en
    BY <1>5 DEF Start
  <2>2. tape # <<>> /\ (en = "idle" => Len(log) = 1 /\ pos = 0)
    BY <1>2, <2>1 DEF Reading
  <2>3. Started'
    BY <1>2, <2>1 DEF Started, InHand
  <2>4. Reading'
    BY <2>1, <2>2 DEF Reading
  <2>5. Sent'
    <3>1. CASE en = "idle"
      BY <2>1, <2>2, <3>1 DEF Sent
    <3>2. CASE en # "idle"
      BY <1>2, <2>1, <3>2 DEF Sent
    <3> QED BY <3>1, <3>2
  <2>6. Prefix'
    BY <1>2, <2>1, SilentPrefix
  <2> QED BY <2>3, <2>4, <2>5, <2>6 DEF Told
<1>6. CASE ReadFails \/ LockPong \/ Pong
  BY <1>6, SilentTold DEF ReadFails, LockPong, Pong
<1>7. CASE Free \/ Cancel \/ CloseSocket
  <2>1. /\ UNCHANGED <<tape, pos, log, en>>
        /\ cancelled' = cancelled \/ cancelled' = TRUE
        /\ sock' = sock \/ sock' = "closed"
        /\ \/ rd = "free" /\ rd' = "cancel"
           \/ rd' \in {"close", "end"}
    BY <1>7 DEF Free, Cancel, CloseSocket
  <2>2. Started' /\ Prefix'
    BY <1>2, <2>1, SilentPrefix DEF Started, InHand
  <2>3. Reading'
    BY <1>2, <2>1 DEF Reading
  <2>4. Sent'
    BY <1>2, <2>1 DEF Sent
  <2> QED BY <2>2, <2>3, <2>4 DEF Told
<1> QED BY <1>3, <1>4, <1>5, <1>6, <1>7 DEF Control

LEMMA ClientTold ==
    ASSUME ServeTypeOK, Told,
           \/ StopReading \/ Vanish
           \/ \E f \in {"play", "pause", "ping", "close"} : Ctl(f)
           \/ \E s \in Speeds : SetSpeed(s)
    PROVE  Told'
<1> USE DEF ctlVars, gateVars, engVars, sockVars
<1>1. CASE StopReading
  BY <1>1, SilentTold DEF StopReading
<1>2. CASE Vanish
  <2>1. UNCHANGED <<tape, rd, en, pos, log, cancelled>> /\ sock' = "gone"
    BY <1>2 DEF Vanish
  <2>2. Started' /\ Reading' /\ Sent' /\ Prefix'
    BY <2>1, SilentPrefix DEF Told, Started, Reading, Sent, InHand
  <2> QED BY <2>2 DEF Told
<1>3. ASSUME NEW f \in {"play", "pause", "ping", "close"}, Ctl(f) PROVE Told'
  BY <1>3, CtlFacts, SilentTold
<1>4. ASSUME NEW s \in Speeds, SetSpeed(s) PROVE Told'
  BY <1>4, SilentTold DEF SetSpeed
<1> QED BY <1>1, <1>2, <1>3, <1>4

\* An engine step that writes nothing keeps what the reader knows.
LEMMA EngineReading ==
    ASSUME Reading, en # "idle", en' # "idle", UNCHANGED <<tape, rd>>
    PROVE  Reading'
  BY DEF Reading

LEMMA EngineTold ==
    ASSUME ServeTypeOK, Told, Engine \/ Timer
    PROVE  Told'
<1> USE DEF ctlVars, gateVars, engVars, sockVars
<1>1. log \in Seq(Frames) /\ Len(log) \in Nat /\ Len(tape) \in Nat /\ pos \in 0..Len(tape)
      /\ (tape = <<>> <=> Len(tape) = 0) /\ cancelled \in BOOLEAN
  BY DEF ServeTypeOK
<1>2. Started /\ Reading /\ Sent /\ Prefix
  BY DEF Told
<1>3. en # "idle" /\ en' # "idle" /\ UNCHANGED <<tape, rd, sock, cancelled>>
  BY DEF Engine, Timer, SleepCancelled, Poll, Hold, Deliver, LockFrame, WriteBar, Between,
         Finish, WriteDone
<1>4. Reading' /\ tape # <<>>
  BY <1>2, <1>3, EngineReading DEF Reading
<1>5. CASE Poll
  <2>1. UNCHANGED <<log, tape, sock, cancelled>> /\ en = "ctx"
        /\ \/ en' = "returned" /\ pos' = pos /\ (cancelled \/ pos = Len(tape))
           \/ en' \in {"deliver", "hold"} /\ pos' = pos + 1
    BY <1>5 DEF Poll
  <2>2. Started' /\ Prefix'
    BY <1>1, <1>2, <2>1, SilentPrefix DEF Started, InHand
  <2>3. Sent'
    BY <1>1, <1>2, <2>1 DEF Sent
  <2> QED BY <1>4, <2>2, <2>3 DEF Told
<1>6. CASE WriteBar
  <2>1. /\ en = "barring" /\ en' = "between" /\ Wrote(Bar(pos))
        /\ UNCHANGED <<pos, tape, sock, cancelled>>
    BY <1>6 DEF WriteBar
  <2>2. pos > 0
    BY <1>2, <2>1 DEF Started, InHand
  <2>3. CASE sock = "up"
    <3>1. Len(log) = pos
      BY <1>2, <2>1, <2>3 DEF Sent
    <3>2. Bar(pos) = Frame(Len(log) + 1) /\ Bar(pos) \in Frames
      BY <1>1, <1>4, <2>2, <3>1, FrameTypes DEF Frame
    <3>3. Prefix' /\ Len(log') = pos + 1
      BY <1>1, <1>2, <2>1, <2>3, <3>1, <3>2, NextFrame
    <3>4. Started' /\ Sent'
      BY <2>1, <3>3 DEF Started, InHand, Sent
    <3> QED BY <1>4, <3>3, <3>4 DEF Told
  <2>4. CASE sock # "up"
    <3>1. UNCHANGED <<log, tape>>
      BY <2>1, <2>4 DEF Wrote
    <3>2. Prefix' /\ Started' /\ Sent'
      BY <1>2, <2>1, <2>4, <3>1, SilentPrefix DEF Started, InHand, Sent
    <3> QED BY <1>4, <3>2 DEF Told
  <2> QED BY <2>3, <2>4
<1>7. CASE WriteDone
  <2>1. /\ en = "doing" /\ en' = "end" /\ Wrote(<<"done">>)
        /\ UNCHANGED <<pos, tape, sock, cancelled>>
    BY <1>7 DEF WriteDone
  <2>2. Started' /\ Sent'
    BY <2>1 DEF Started, InHand, Sent
  <2>3. CASE sock = "up"
    <3>1. Len(log) = Len(tape) + 1
      BY <1>2, <2>1, <2>3 DEF Sent
    <3>2. <<"done">> = Frame(Len(log) + 1) /\ <<"done">> \in Frames
      BY <1>1, <1>4, <3>1, FrameTypes DEF Frame
    <3>3. Prefix'
      BY <1>1, <1>2, <2>1, <2>3, <3>1, <3>2, NextFrame
    <3> QED BY <1>4, <2>2, <3>3 DEF Told
  <2>4. CASE sock # "up"
    <3>1. UNCHANGED <<log, tape>>
      BY <2>1, <2>4 DEF Wrote
    <3> QED BY <1>2, <1>4, <2>2, <3>1, SilentPrefix DEF Told
  <2> QED BY <2>3, <2>4
<1>8. CASE Hold \/ Deliver \/ LockFrame
  <2>1. /\ UNCHANGED <<pos, tape, log, sock, cancelled>>
        /\ \/ en \in {"hold", "held"} /\ en' \in {"deliver", "held"}
           \/ en = "deliver" /\ en' = IF cancelled THEN "between" ELSE "bar"
           \/ en = "bar" /\ en' = "barring"
           \/ en = "done" /\ en' = "doing"
    BY <1>8 DEF Hold, Deliver, LockFrame
  <2>2. Started' /\ Prefix'
    BY <1>2, <2>1, SilentPrefix DEF Started, InHand
  <2>3. Sent'
    BY <1>2, <2>1 DEF Sent
  <2> QED BY <1>4, <2>2, <2>3 DEF Told
<1>9. CASE Between \/ Timer \/ Finish
  <2>1. /\ UNCHANGED <<pos, tape, log, sock, cancelled>>
        /\ \/ en = "between" /\ en' \in {"sleep", "ctx"}
           \/ en = "sleep" /\ en' = "ctx"
           \/ en = "returned" /\ en' = IF cancelled THEN "end" ELSE "done"
    BY <1>9 DEF Between, Timer, Finish
  <2>2. Started' /\ Prefix'
    BY <1>2, <2>1, SilentPrefix DEF Started, InHand
  <2>3. Sent'
    BY <1>2, <2>1 DEF Sent
  <2> QED BY <1>4, <2>2, <2>3 DEF Told
<1> QED BY <1>5, <1>6, <1>7, <1>8, <1>9 DEF Engine, SleepCancelled

LEMMA NextTold == ToldInv /\ [ServeNext]_serveVars => ToldInv'
<1> SUFFICES ASSUME ServeTypeOK, Told, [ServeNext]_serveVars PROVE Told'
  BY NextServeType DEF ToldInv, Told
<1>1. CASE UNCHANGED serveVars
  BY <1>1, SilentTold DEF serveVars, ctlVars, engVars, sockVars
<1> QED BY <1>1, ClientTold, ControlTold, EngineTold DEF ServeNext

\* A log whose frames are those of the conversation is a prefix of it.
LEMMA ToldIsPrefix == ToldInv => Conversation
<1> SUFFICES ASSUME ServeTypeOK, Told PROVE Conversation
  BY DEF ToldInv
<1> DEFINE bars == [i \in 1..Len(tape) |-> Bar(i)]
           all == IF tape = <<>> THEN << <<"hello">>, <<"error">> >>
                  ELSE << <<"hello">> >> \o bars \o << <<"done">> >>
<1>1. log \in Seq(Frames) /\ Len(log) \in Nat /\ Len(tape) \in Nat
      /\ (tape = <<>> <=> Len(tape) = 0)
  BY DEF ServeTypeOK
<1>2. /\ all \in Seq(Frames) /\ Len(all) = Len(tape) + 2
      /\ \A i \in 1..(Len(tape) + 2) : all[i] = Frame(i)
  <2>1. CASE tape = <<>>
    BY <1>1, <2>1, FrameTypes DEF Frame
  <2>2. CASE tape # <<>>
    <3> DEFINE front == << <<"hello">> >> \o bars
    <3>1. bars \in Seq(Frames) /\ Len(bars) = Len(tape)
      BY <1>1, FrameTypes
    <3>2. /\ << <<"hello">> >> \in Seq(Frames) /\ Len(<< <<"hello">> >>) = 1
          /\ << <<"done">> >> \in Seq(Frames) /\ Len(<< <<"done">> >>) = 1
      BY FrameTypes
    <3> HIDE DEF bars
    <3>3. /\ front \in Seq(Frames) /\ Len(front) = Len(tape) + 1
          /\ front[1] = <<"hello">>
          /\ \A i \in 1..Len(tape) : front[i + 1] = bars[i]
      BY <1>1, <3>1, <3>2, ConcatProperties
    <3> HIDE DEF front
    <3>4. /\ front \o << <<"done">> >> \in Seq(Frames)
          /\ Len(front \o << <<"done">> >>) = Len(tape) + 2
          /\ \A i \in 1..(Len(tape) + 1) : (front \o << <<"done">> >>)[i] = front[i]
          /\ (front \o << <<"done">> >>)[Len(tape) + 2] = <<"done">>
      BY <1>1, <3>2, <3>3, ConcatProperties
    <3>5. all = front \o << <<"done">> >>
      BY <2>2 DEF front
    <3>6. \A i \in 1..Len(tape) : bars[i] = Bar(i)
      BY DEF bars
    <3>7. ASSUME NEW i \in 1..(Len(tape) + 2) PROVE all[i] = Frame(i)
      <4>1. CASE i = 1
        BY <1>1, <3>3, <3>4, <3>5, <4>1 DEF Frame
      <4>2. CASE i = Len(tape) + 2
        BY <1>1, <2>2, <3>4, <3>5, <4>2 DEF Frame
      <4>3. CASE i # 1 /\ i # Len(tape) + 2
        <5>1. i - 1 \in 1..Len(tape) /\ i \in 1..(Len(tape) + 1) /\ (i - 1) + 1 = i
          BY <1>1, <4>3
        <5>2. all[i] = Bar(i - 1)
          BY <3>3, <3>4, <3>5, <3>6, <5>1
        <5>3. Frame(i) = Bar(i - 1)
          BY <1>1, <2>2, <4>3 DEF Frame
        <5> HIDE DEF all
        <5> QED BY <5>2, <5>3
      <4> QED BY <4>1, <4>2, <4>3
    <3> QED BY <3>4, <3>5, <3>7
  <2> QED BY <2>1, <2>2
<1> HIDE DEF all
<1>3. Len(log) <= Len(tape) + 2 /\ \A i \in 1..Len(log) : log[i] = Frame(i)
  BY DEF Told, Prefix
<1>4. log = SubSeq(all, 1, Len(log))
  <2>1. /\ SubSeq(all, 1, Len(log)) \in Seq(Frames)
        /\ Len(SubSeq(all, 1, Len(log))) = Len(log)
        /\ \A i \in 1..Len(log) : SubSeq(all, 1, Len(log))[i] = all[i]
    BY <1>1, <1>2, <1>3, SubSeqProperties
  <2>2. \A i \in 1..Len(log) : SubSeq(all, 1, Len(log))[i] = log[i]
    BY <1>1, <1>2, <1>3, <2>1
  <2> QED BY <1>1, <2>1, <2>2, SeqEqual
<1> QED BY <1>1, <1>2, <1>3, <1>4 DEF Conversation, all

\* What a browser has been sent is at every moment a prefix of hello, each bar
\* of the tape once and in order, done: whatever it sends and wherever the
\* control reader and the engine are.
THEOREM ConversationHolds == ServeSpec => []Conversation
<1>1. ServeInit => ToldInv
  <2> SUFFICES ASSUME ServeInit PROVE Told
    BY InitServeType DEF ToldInv
  <2>1. tape \in Seq(TapeTrade)
    BY InitServeType DEF ServeTypeOK
  <2> QED BY <2>1 DEF ServeInit, Told, Started, Reading, Sent, Prefix, InHand
<1> QED BY <1>1, NextTold, ToldIsPrefix, PTL DEF ServeSpec
=============================================================================
