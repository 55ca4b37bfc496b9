------------------------------- MODULE RunLoop -------------------------------
(***************************************************************************)
(* The control of Run in internal/strategy/strategy.go and nothing else:   *)
(* where the goroutine is, how many turns the loop it is in has taken, and *)
(* how many of the events handed to apply are still to be applied.  The    *)
(* venue hands back any number of events at every call, fills or not, so   *)
(* the strategy may answer each of its fills with another order for ever.  *)
(* Runtime implements it.                                                  *)
(***************************************************************************)
EXTENDS Naturals

CONSTANTS
    MaxCascade,     \* maxCascade
    MaxEvents,      \* bound: market events on the tapes of all runs
    Sizes           \* how many order events a call of the venue may return

ASSUME LoopAssumption ==
    /\ MaxCascade \in Nat \ {0} /\ MaxEvents \in Nat
    /\ Sizes \subseteq Nat

VARIABLES
    pc,         \* where Run is
    ret,        \* what apply returns to
    iter,       \* loop counter of cascade or drain
    refill,     \* anyFill of the events being applied
    left,       \* order events apply has still to apply
    events      \* market events read so far

loopVars == <<pc, ret, iter, refill, left, events>>

LoopInit ==
    /\ pc = "boot" /\ ret = "start" /\ iter = 0 /\ refill = FALSE
    /\ left = 0 /\ events = 0

Inside == {"start", "event", "order", "stop"}

\* A call of the venue: what it returns goes to apply, which comes back for r.
Ask(r) == left' \in Sizes /\ ret' = r
-----------------------------------------------------------------------------
Begin ==
    /\ pc = "boot" /\ pc' = "start"
    /\ UNCHANGED <<ret, iter, refill, left, events>>

\* A callback returns to drain, to the settle of cascade, or to apply.
ComesBack ==
    /\ pc \in Inside
    /\ pc' = CASE pc \in {"start", "stop"} -> "drain"
               [] pc = "event" -> "settle"
               [] pc = "order" -> "apply"
    /\ IF pc \in {"start", "stop"} THEN ret' = pc /\ iter' = 0
                                   ELSE UNCHANGED <<ret, iter>>
    /\ UNCHANGED <<refill, left, events>>

\* A callback, or the source, returns an error.
Breaks ==
    /\ pc \in Inside \cup {"next"} /\ pc' = "failed"
    /\ UNCHANGED <<ret, iter, refill, left, events>>

\* A turn of drain, and the error after the last.
DrainTurn ==
    /\ pc = "drain" /\ iter < MaxCascade
    /\ Ask(ret) /\ iter' = iter + 1
    /\ pc' = IF left' > 0 THEN "apply" ELSE IF ret = "start" THEN "next" ELSE "flush"
    /\ UNCHANGED <<refill, events>>
DrainExceeded ==
    /\ pc = "drain" /\ iter = MaxCascade /\ pc' = "failed"
    /\ UNCHANGED <<ret, iter, refill, left, events>>

\* Next, Observe and MatchResting; then the first turn of cascade.
Reads ==
    /\ pc = "next" /\ events < MaxEvents /\ pc' = "match"
    /\ events' = events + 1
    /\ UNCHANGED <<ret, iter, refill, left>>
Match ==
    /\ pc = "match" /\ Ask("match") /\ iter' = 0
    /\ pc' = IF left' > 0 THEN "apply" ELSE "event"
    /\ UNCHANGED <<refill, events>>

\* The settle of a turn of cascade.
Settles ==
    /\ pc = "settle" /\ Ask("cascade")
    /\ refill' \in BOOLEAN /\ (refill' => left' > 0)
    /\ pc' = IF left' > 0 THEN "apply" ELSE "next"
    /\ UNCHANGED <<iter, events>>

TapeEnds ==
    /\ pc = "next" /\ pc' = "stop"
    /\ UNCHANGED <<ret, iter, refill, left, events>>
Flushes ==
    /\ pc = "flush" /\ pc' = "apply" /\ Ask("flush")
    /\ UNCHANGED <<iter, refill, events>>

ApplyOne ==
    /\ pc = "apply" /\ left > 0 /\ pc' = "order" /\ left' = left - 1
    /\ UNCHANGED <<ret, iter, refill, events>>

TurnOver_Uncounted ==
    /\ pc = "apply" /\ left = 0
    /\ pc' = CASE ret \in {"start", "stop"} -> "drain"
               [] ret = "match" -> "event"
               [] ret = "flush" -> "done"
               [] ret = "cascade" -> IF refill THEN "event" ELSE "next"
    /\ UNCHANGED <<iter, ret, refill, left, events>>

\* apply returns to its caller.  After a fill cascade gives the strategy the same
\* event again, unless this was its last turn.
TurnOver ==
    /\ pc = "apply" /\ left = 0
    /\ iter' = IF ret = "cascade" THEN iter + 1 ELSE iter
    /\ pc' = CASE ret \in {"start", "stop"} -> "drain"
               [] ret = "match" -> "event"
               [] ret = "flush" -> "done"
               [] ret = "cascade" /\ ~refill -> "next"
               [] ret = "cascade" /\ refill /\ iter' < MaxCascade -> "event"
               [] OTHER -> "failed"
    /\ UNCHANGED <<ret, refill, left, events>>

\* A new process over the same store.
BootAgain ==
    /\ pc \in {"done", "failed"} /\ pc' = "boot"
    /\ ret' = "start" /\ iter' = 0 /\ refill' = FALSE /\ left' = 0
    /\ UNCHANGED events
-----------------------------------------------------------------------------
\* What Run does whatever the strategy wants.
LoopStep ==
    \/ Begin \/ ComesBack \/ DrainTurn \/ DrainExceeded
    \/ Reads \/ Match \/ Settles \/ TapeEnds \/ Flushes \/ ApplyOne \/ TurnOver

LoopNext == LoopStep \/ Breaks \/ BootAgain

LoopMoves == LoopInit /\ [][LoopNext]_loopVars

\* Callbacks return, and a file or a socket that is read ends.
LoopFairness == WF_loopVars(LoopStep)
LoopSpec == LoopMoves /\ LoopFairness
-----------------------------------------------------------------------------
\* A run ends once its source does, also when every fill is answered with an
\* order that fills: at one timestamp cascade takes MaxCascade turns, drain as
\* many, and apply comes to the end of each batch.
RunEnds == pc = "start" ~> pc \in {"done", "failed"}
==============================================================================
