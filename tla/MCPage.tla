------------------------------- MODULE MCPage -------------------------------
(***************************************************************************)
(* Pages of a Tuesday that ends a month, with its halt, of the Thursday    *)
(* after a holiday, and of a Friday that ends a month and closes early, in *)
(* bars shorter and longer than a session and as long as a day; and every  *)
(* other kind of bar spec.                                                 *)
(***************************************************************************)
EXTENDS Page

Time(interval, anchor, sessions) ==
    [kind |-> "time", interval |-> interval, count |-> 0, band |-> 0,
     anchor |-> anchor, sessions |-> sessions]
Other(kind, n) ==
    [kind |-> kind, interval |-> 0, count |-> n, band |-> n,
     anchor |-> "sessionOpen", sessions |-> {}]

Pages == {Time(2, "rthOpen", {"RTH"}), Time(3, "sessionOpen", {"ETH"}),
          Time(40, "sessionOpen", {"ETH"}), Time(96, "rthOpen", {"RTH"})}
OtherSpecs == {Time(3, "rthOpen", {}), Time(5, "utcEpoch", {}), Time(6, "midnight", {}),
               Time(4, "sessionOpen", {}), Other("tick", 2), Other("volume", 2),
               Other("range", 1)}
AllSpecs == Pages \cup OtherSpecs

\* 17:00, and 08:30 .. 15:45 around the edges of the three kinds of day
AllClocks == {-28, 34, 60, 61, 62, 63}
\* The middle price is the POC of a tape of all three, and each neighbour can be the
\* larger one.
AllPrints == {[px |-> 8, qty |-> 1, side |-> "ask"], [px |-> 8, qty |-> 2, side |-> "none"],
              [px |-> 11, qty |-> 2, side |-> "bid"], [px |-> 9, qty |-> 4, side |-> "bid"]}
=============================================================================
