------------------------------- MODULE MCLoops -------------------------------
(* Small instances of what has to come to an end: the two pairs of           *)
(* goroutines around a socket, LiveFeed and Replay, and the loop of a run,   *)
(* RunLoop.  No code shares them: each behaviour has one of the three, and   *)
(* the others have already ended.                                            *)
EXTENDS LiveFeed, Replay, RunLoop

FeedGone ==
    /\ once = TRUE /\ at = "end" /\ err = "eof" /\ held = 0 /\ cur = 0
    /\ open = {} /\ armed = FALSE /\ event = NoEv /\ closer = "closed"
    /\ out = <<>> /\ wire = Fresh /\ caller = "over"
    /\ book = NoBook

ServeGone ==
    /\ tape = <<>> /\ rd = "end" /\ en = "idle"
    /\ play = TRUE /\ speed = 0 /\ asleep = FALSE /\ cancelled = TRUE
    /\ sock = "closed" /\ reading = TRUE /\ mu = "free"
    /\ pos = 0 /\ clock = 0 /\ wait = 0 /\ ctls = 0
    /\ log = <<>> /\ since = 0 /\ slept = 0

RunGone ==
    /\ pc = "over" /\ ret = "start" /\ iter = 0 /\ refill = FALSE
    /\ left = 0 /\ events = 0

LoopsNext == \/ FeedNext /\ UNCHANGED <<serveVars, loopVars>>
             \/ ServeNext /\ UNCHANGED <<feedVars, loopVars>>
             \/ LoopNext /\ UNCHANGED <<feedVars, serveVars>>

LoopsSpec ==
    /\ \/ FeedInit /\ ServeGone /\ RunGone
       \/ FeedGone /\ ServeInit /\ RunGone
       \/ FeedGone /\ ServeGone /\ LoopInit
    /\ [][LoopsNext]_<<feedVars, serveVars, loopVars>>
    /\ FeedFairness /\ ServeFairness /\ LoopFairness

At(t, b) == [ts |-> t, bad |-> b]
\* No trade, and tapes of three with a stamp that repeats, is bad, or jumps.
ShortTapes ==
    {<<>>, <<At(5, FALSE), At(6, FALSE), At(7, TRUE)>>,
     <<At(5, FALSE), At(5, FALSE), At(8, FALSE)>>}
==============================================================================
