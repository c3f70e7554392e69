------------------------------ MODULE Fetchers ------------------------------
(***************************************************************************)
(* How a source becomes a leg (source-registry.ts, defillama.ts): the      *)
(* series of a pool, through its prices or the yields it reports, and the  *)
(* protocol's own interface, which has reported yields in its latest row.  *)
(*                                                                         *)
(* Time is counted in TICKS to a day. A leg also names the points of time  *)
(* its value was taken from. Left out: the window a leg claims (nothing    *)
(* compares windows), and fractions of 1/SCALE bps.                        *)
(***************************************************************************)
EXTENDS Reconciler

CONSTANTS
    TICKS,                 \* of a day
    Times, NOW,            \* of points, and of the judgement
    SharePrices,           \* a pool's pricePerShare
    Rates,                 \* a reported yield, in units of 1/SCALE bps
    MAX_POINTS,            \* bound: the length of a series
    requestedWindowDays

ASSUME FetchersAssumption ==
    /\ TICKS \in Nat \ {0} /\ requestedWindowDays \in Nat \ {0}
    /\ NOW \in Nat /\ Times \subseteq 0..NOW /\ MAX_POINTS \in Nat
    /\ SharePrices \subseteq Nat \ {0} /\ Rates \subseteq Nat

NoTime == -1      \* a timestamp that cannot be parsed
NoPrice == 0
NoRate == -1

Point == [t : Times \cup {NoTime}, pricePerShare : SharePrices \cup {NoPrice},
          apy : Rates \cup {NoRate}]

\* In whatever order the interface serves them, but no two of one time.
Series == {points \in UNION {[1..n -> Point] : n \in 0..MAX_POINTS} :
             \A i, j \in DOMAIN points :
               points[i].t = points[j].t /\ points[i].t # NoTime => i = j}

\* The protocol's latest row; the yield of another window stands in for a missing one.
Row == [t : Times \cup {NoTime}, apy : Rates \cup {NoRate}]

AgeDays(t) == (NOW - t + TICKS - 1) \div TICKS
Stamp(t) == IF t = NoTime THEN NoStamp ELSE AgeDays(t)

\* Fault: the first yield of the series and not the latest.
FirstReportedApyBps(points) ==
    LET reported == {i \in DOMAIN points : points[i].apy # NoRate}
    IN IF reported = {} THEN Failed
       ELSE [valueBps |-> points[Min(reported)].apy,
             last |-> points[Min(reported)].t, past |-> points[Min(reported)].t]

latestReportedApyBps(points) ==
    LET reported == {i \in DOMAIN points : points[i].apy # NoRate}
    IN IF reported = {} THEN Failed
       ELSE [valueBps |-> points[Max(reported)].apy,
             last |-> points[Max(reported)].t, past |-> points[Max(reported)].t]

\* No two of them have one time, so that a time tells the place of a point among them.
withPps(points) == {p \in Range(points) : p.pricePerShare # NoPrice /\ p.t # NoTime}

Latest(priced) == CHOOSE p \in priced : \A q \in priced : q.t <= p.t
Oldest(priced) == CHOOSE p \in priced : \A q \in priced : p.t <= q.t

\* The return of a day, as a fraction, in bps of a year.
PER_YEAR == 365 * 10000

\* Whole days, halves rounded up.
actualWindowDays(past, last) == Max({1, (2 * (last - past) + TICKS) \div (2 * TICKS)})

\* From the latest price back to the last one a window or more before it, or to the
\* oldest one there is.
windowedAnnualizedYieldBps(points) ==
    LET priced == withPps(points)
        last == Latest(priced)
        reaching == {p \in priced : p.t <= last.t - requestedWindowDays * TICKS}
        past == IF reaching = {} THEN Oldest(priced) ELSE Latest(reaching)
    IN IF Cardinality(priced) < 2 THEN Failed
       ELSE [valueBps |-> ((last.pricePerShare - past.pricePerShare) * PER_YEAR * SCALE)
                            \div (past.pricePerShare * actualWindowDays(past.t, last.t)),
             last |-> last.t, past |-> past.t]

\* A pool without a history of prices is read through what it reports; whatever the
\* value is taken from, the leg has the date of the last point.
defillama(points, kind) ==
    LET returned == windowedAnnualizedYieldBps(points)
        value == IF kind = "pricePerShare" /\ ~Failing(returned)
                 THEN returned ELSE latestReportedApyBps(points)
    IN IF Failing(value) THEN Failed
       ELSE [valueBps |-> value.valueBps, last |-> value.last, past |-> value.past,
             age |-> Stamp(Last(points).t)]

mantleMethApi(row) ==
    IF row.apy = NoRate THEN Failed
    ELSE [valueBps |-> row.apy, last |-> row.t, past |-> row.t, age |-> Stamp(row.t)]

=============================================================================
