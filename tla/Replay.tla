------------------------------- MODULE Replay -------------------------------
(***************************************************************************)
(* cmd/serve/live.go with ws.go and internal/replay: one browser replaying *)
(* a tape over a WebSocket.  The control reader serves the client's frames *)
(* (play, pause, speed) through the gate; the goroutine runLive runs the   *)
(* replay engine, whose pacer waits at the gate and sleeps between prints. *)
(* Both write to the socket, under wsConn.mu.                              *)
(*                                                                         *)
(* The client is not ours: it sends frames, stops reading, or goes.  A     *)
(* section under gate.mu never blocks but in cond.Wait, and is one step.   *)
(***************************************************************************)
EXTENDS Integers, Sequences

CONSTANTS
    Tapes,      \* the tapes to replay: sequences of [ts, bad]
    Speeds,     \* the speeds a client asks for
    MaxCtl      \* bound: frames the client sends

TapeTrade == [ts : Nat, bad : BOOLEAN]      \* TsRecv, FlagBadTsRecv

ASSUME ServeAssumption ==
    /\ Tapes \subseteq Seq(TapeTrade)
    /\ Speeds \subseteq Int /\ MaxCtl \in Nat

VARIABLES
    tape,       \* the trades kept for the session asked for
    rd,         \* where serveReplay, the control reader, is
    en,         \* where runLive, the engine's goroutine, is
    play,       \* gate.play
    speed,      \* gate.speed
    asleep,     \* the engine is inside cond.Wait
    cancelled,  \* ctx is done
    sock,       \* "up", "gone" once the client is away, "closed" by us
    reading,    \* the client reads what we write
    mu,         \* who holds wsConn.mu
    pos,        \* sliceSrc.i
    clock,      \* Engine.clock
    wait,       \* what Between was asked to sleep
    ctls,       \* client frames so far
    log,        \* history: the frames the client was sent, but for pongs
    since,      \* history: bars sent since the last pause
    slept       \* history: what the pacer slept in all, at speed 1

ctlVars == <<tape, reading, ctls>>
gateVars == <<play, speed, asleep, since>>
engVars == <<pos, clock, wait, slept>>
sockVars == <<sock, mu, log>>
serveVars == <<ctlVars, gateVars, engVars, sockVars, rd, en, cancelled>>

ServeInit ==
    /\ tape \in Tapes /\ rd = "hello" /\ en = "idle"
    /\ play = FALSE /\ speed = 0 /\ asleep = FALSE /\ cancelled = FALSE
    /\ sock = "up" /\ reading = TRUE /\ mu = "free"
    /\ pos = 0 /\ clock = 0 /\ wait = 0 /\ ctls = 0
    /\ log = <<>> /\ since = 0 /\ slept = 0

Bar(i) == <<"bar", i>>
\* A write ends when the client takes it, or with an error once the socket is
\* not up; while the client does not read it waits, holding wsConn.mu.
Writable == sock # "up" \/ reading
Wrote(f) == log' = IF sock = "up" THEN Append(log, f) ELSE log
-----------------------------------------------------------------------------
(* The client, external. *)

StopReading ==
    /\ sock = "up" /\ reading /\ reading' = FALSE
    /\ UNCHANGED <<tape, ctls, gateVars, engVars, sockVars, rd, en, cancelled>>

Vanish ==
    /\ sock = "up" /\ sock' = "gone"
    /\ UNCHANGED <<ctlVars, gateVars, engVars, mu, log, rd, en, cancelled>>
-----------------------------------------------------------------------------
(* The control reader. *)

Hello ==
    /\ rd = "hello" /\ Writable /\ Wrote(<<"hello">>)
    /\ rd' = IF sock # "up" THEN "close" ELSE IF tape = <<>> THEN "none" ELSE "read"
    /\ UNCHANGED <<ctlVars, gateVars, engVars, sock, mu, en, cancelled>>

NoTrades ==
    /\ rd = "none" /\ Writable /\ Wrote(<<"error">>)
    /\ rd' = "close"
    /\ UNCHANGED <<ctlVars, gateVars, engVars, sock, mu, en, cancelled>>

\* gate.SetPlay: Broadcast wakes the engine, which looks at play again.
SetPlay_Silent(on) ==
    /\ play' = on /\ asleep' = asleep /\ speed' = speed
    /\ since' = IF play # on THEN 0 ELSE since
SetPlay(on) ==
    /\ play' = on /\ asleep' = FALSE /\ speed' = speed
    /\ since' = IF play # on THEN 0 ELSE since

\* A text frame ReadFrame refuses, and one of another type, change nothing.
Ctl(f) ==
    /\ rd = "read" /\ sock = "up" /\ ctls < MaxCtl
    /\ ctls' = ctls + 1
    /\ \/ f = "play" /\ SetPlay(TRUE) /\ rd' = "start"
       \/ f = "pause" /\ SetPlay(FALSE) /\ rd' = "read"
       \/ f = "ping" /\ rd' = "pong" /\ UNCHANGED gateVars
       \/ f = "close" /\ rd' = "free" /\ UNCHANGED gateVars
    /\ UNCHANGED <<tape, reading, engVars, sockVars, en, cancelled>>

SetSpeed(s) ==
    /\ rd = "read" /\ sock = "up" /\ ctls < MaxCtl
    /\ ctls' = ctls + 1 /\ speed' = IF s < 0 THEN 0 ELSE s
    /\ UNCHANGED <<tape, reading, play, asleep, since, engVars, sockVars, rd,
                   en, cancelled>>

ReadFails ==
    /\ rd = "read" /\ sock = "gone" /\ rd' = "free"
    /\ UNCHANGED <<ctlVars, gateVars, engVars, sockVars, en, cancelled>>

\* startOnce
Start ==
    /\ rd = "start" /\ rd' = "read"
    /\ en' = IF en = "idle" THEN "ctx" ELSE en
    /\ UNCHANGED <<ctlVars, gateVars, engVars, sockVars, cancelled>>

LockPong ==
    /\ rd = "pong" /\ mu = "free" /\ mu' = "reader" /\ rd' = "ponging"
    /\ UNCHANGED <<ctlVars, gateVars, engVars, sock, log, en, cancelled>>

Pong ==
    /\ rd = "ponging" /\ Writable /\ mu' = "free"
    /\ rd' = IF sock = "up" THEN "read" ELSE "free"
    /\ UNCHANGED <<ctlVars, gateVars, engVars, sock, log, en, cancelled>>

\* The deferred calls, last first: SetPlay(true), cancel, Close.
Free_Defect ==
    /\ rd = "free" /\ rd' = "cancel"
    /\ UNCHANGED <<ctlVars, gateVars, engVars, sockVars, en, cancelled>>
Free ==
    /\ rd = "free" /\ SetPlay(TRUE) /\ rd' = "cancel"
    /\ UNCHANGED <<ctlVars, engVars, sockVars, en, cancelled>>

Cancel ==
    /\ rd = "cancel" /\ cancelled' = TRUE /\ rd' = "close"
    /\ UNCHANGED <<ctlVars, gateVars, engVars, sockVars, en>>

CloseSocket ==
    /\ rd = "close" /\ sock' = "closed" /\ rd' = "end"
    /\ UNCHANGED <<ctlVars, gateVars, engVars, mu, log, en, cancelled>>

Control == \/ Hello \/ NoTrades \/ ReadFails \/ Start \/ LockPong \/ Pong
           \/ Free \/ Cancel \/ CloseSocket
-----------------------------------------------------------------------------
(* The engine: Engine.Run with the pacer and the handler of runLive. *)

\* Run polls ctx and takes the next trade; the first does not wait.
Poll ==
    /\ en = "ctx"
    /\ IF cancelled \/ pos = Len(tape) THEN en' = "returned" /\ pos' = pos
       ELSE /\ pos' = pos + 1
            /\ en' = IF pos = 0 THEN "deliver" ELSE "hold"
    /\ UNCHANGED <<ctlVars, gateVars, clock, wait, slept, sockVars, rd, cancelled>>

\* gate.Hold: for !play { cond.Wait() }
Hold_Once ==
    /\ en \in {"hold", "held"} /\ ~asleep
    /\ IF play \/ en = "held" THEN en' = "deliver" /\ asleep' = FALSE
       ELSE en' = "held" /\ asleep' = TRUE
    /\ UNCHANGED <<ctlVars, play, speed, since, engVars, sockVars, rd, cancelled>>
Hold ==
    /\ en \in {"hold", "held"} /\ ~asleep
    /\ IF play THEN en' = "deliver" /\ asleep' = FALSE
       ELSE en' = "held" /\ asleep' = TRUE
    /\ UNCHANGED <<ctlVars, play, speed, since, engVars, sockVars, rd, cancelled>>

\* Advance the clock unless the stamp is bad, then call the handler, which does
\* nothing once ctx is done.
Deliver ==
    /\ en = "deliver"
    /\ LET t == tape[pos]
           to == IF t.bad \/ t.ts <= clock THEN clock ELSE t.ts
       IN clock' = to /\ wait' = to - clock
    /\ en' = IF cancelled THEN "between" ELSE "bar"
    /\ UNCHANGED <<ctlVars, gateVars, pos, slept, sockVars, rd, cancelled>>

\* writeFrame: runLive ignores its error.
LockFrame ==
    /\ en \in {"bar", "done"} /\ mu = "free" /\ mu' = "engine"
    /\ en' = IF en = "bar" THEN "barring" ELSE "doing"
    /\ UNCHANGED <<ctlVars, gateVars, engVars, sock, log, rd, cancelled>>

WriteBar ==
    /\ en = "barring" /\ Writable /\ Wrote(Bar(pos)) /\ mu' = "free"
    /\ en' = "between"
    /\ since' = IF sock = "up" THEN since + 1 ELSE since
    /\ UNCHANGED <<ctlVars, play, speed, asleep, engVars, sock, rd, cancelled>>

\* Pacer.Between and the Sleep of runLive.
Between ==
    /\ en = "between"
    /\ IF wait > 0 /\ ~cancelled /\ speed > 0
       THEN en' = "sleep" /\ slept' = slept + wait
       ELSE en' = "ctx" /\ slept' = slept
    /\ UNCHANGED <<ctlVars, gateVars, pos, clock, wait, sockVars, rd, cancelled>>

Timer ==
    /\ en = "sleep" /\ en' = "ctx"
    /\ UNCHANGED <<ctlVars, gateVars, engVars, sockVars, rd, cancelled>>

SleepCancelled == cancelled /\ Timer

\* FrameDone, unless the client has gone.
Finish_Defect ==
    /\ en = "returned" /\ en' = "done"
    /\ UNCHANGED <<ctlVars, gateVars, engVars, sockVars, rd, cancelled>>
Finish ==
    /\ en = "returned" /\ en' = IF cancelled THEN "end" ELSE "done"
    /\ UNCHANGED <<ctlVars, gateVars, engVars, sockVars, rd, cancelled>>

WriteDone ==
    /\ en = "doing" /\ Writable /\ Wrote(<<"done">>) /\ mu' = "free"
    /\ en' = "end"
    /\ UNCHANGED <<ctlVars, gateVars, engVars, sock, rd, cancelled>>

Engine == \/ Poll \/ Hold \/ Deliver \/ LockFrame \/ WriteBar \/ Between
          \/ SleepCancelled \/ Finish \/ WriteDone

ServeNext ==
    \/ StopReading \/ Vanish
    \/ \E f \in {"play", "pause", "ping", "close"} : Ctl(f)
    \/ \E s \in Speeds : SetSpeed(s)
    \/ Control \/ Engine \/ Timer

\* Both goroutines run when they can.  A timer owes nothing: it may be set to
\* any length.  Nor does the client.
ServeFairness == WF_serveVars(Control) /\ WF_serveVars(Engine)

ServeSpec == ServeInit /\ [][ServeNext]_serveVars /\ ServeFairness
-----------------------------------------------------------------------------
Frames == {<<"hello">>, <<"error">>, <<"done">>} \cup ({"bar"} \X Nat)

\* Every variable has its type.
ServeTypeOK ==
    /\ tape \in Seq(TapeTrade)
    /\ rd \in {"hello", "none", "read", "start", "pong", "ponging", "free", "cancel",
               "close", "end"}
    /\ en \in {"idle", "ctx", "hold", "held", "deliver", "bar", "barring", "between",
               "sleep", "returned", "done", "doing", "end"}
    /\ play \in BOOLEAN /\ speed \in Nat /\ asleep \in BOOLEAN
    /\ cancelled \in BOOLEAN /\ sock \in {"up", "gone", "closed"}
    /\ reading \in BOOLEAN /\ mu \in {"free", "reader", "engine"}
    /\ pos \in 0..Len(tape) /\ clock \in Nat /\ wait \in Nat /\ ctls \in Nat
    /\ log \in Seq(Frames) /\ since \in Nat /\ slept \in Nat

\* After a pause at most the bar in hand is sent until the next play.
PauseBites == ~play => since <= 1

\* What the client is sent is a prefix of: hello, every trade's bar in order,
\* done; whatever it does with play, pause and speed, a done follows the last
\* bar, and none follows a cancelled run.
Conversation ==
    LET all == IF tape = <<>> THEN << <<"hello">>, <<"error">> >>
               ELSE << <<"hello">> >> \o [i \in 1..Len(tape) |-> Bar(i)] \o << <<"done">> >>
    IN Len(log) <= Len(all) /\ log = SubSeq(all, 1, Len(log))

\* When the client has gone, or closed, both goroutines end: also an engine
\* that waits at the gate, sleeps, or is stuck in a write.
GoneEnds ==
    (rd \in {"free", "close"} \/ sock = "gone") ~> (rd = "end" /\ en \in {"idle", "end"})

\* A client that keeps playing and reading gets to the end of the tape.
Playing == /\ en # "idle" /\ play /\ reading /\ sock = "up" /\ en # "sleep"
           /\ rd = "read"
PlayFinishes == (<>[]Playing) => <>(log # <<>> /\ log[Len(log)] = <<"done">>)

\* pacer.go: "Speed 1 is one wall second per TsRecv second".
SleepsTapeTime == slept > 0 => slept <= clock - tape[1].ts
=============================================================================
