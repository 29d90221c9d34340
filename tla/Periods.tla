------------------------------ MODULE Periods ------------------------------
(***************************************************************************)
(* The windows of the reports: which stretch of time a period alias names, *)
(* which one it is compared with, and what a report makes of the figures   *)
(* of both.  Time is a number of ticks since midnight of a Monday; a tick  *)
(* is the resolution of a timestamp.                                       *)
(***************************************************************************)
EXTENDS Integers, FiniteSets, FiniteSetsExt

CONSTANTS
    TicksPerSecond,   \* microseconds of a second
    TicksPerDay,      \* microseconds of a day
    MonthStarts,      \* the days on which a month starts
    YearStarts,       \* the days on which a year starts
    Horizon           \* the times at which a report may be asked for

ASSUME ClockAssumption ==
    /\ TicksPerSecond \in Nat \ {0}
    /\ TicksPerDay \in Nat \ {0}
    /\ TicksPerDay % TicksPerSecond = 0
ASSUME CalendarAssumption ==
    /\ YearStarts \subseteq MonthStarts
    /\ MonthStarts \subseteq Nat
    /\ \A t \in Horizon : \E m \in MonthStarts : m * TicksPerDay > t

Day(t) == t \div TicksPerDay
Midnight(d) == d * TicksPerDay

(* The month or the year that day d is in, and the next one. *)
StartIn(starts, d) == Max({s \in starts : s <= d})
StartAfter(starts, d) == Min({s \in starts : s > d})

-----------------------------------------------------------------------------

(* Mutation: the day ends with its last whole second. *)
EndOfDaySecond(t) == Midnight(Day(t) + 1) - TicksPerSecond

StartOfDay(t) == Midnight(Day(t))
EndOfDay(t) == Midnight(Day(t) + 1) - 1

StartOfWeek(t) == Midnight(Day(t) - (Day(t) % 7))
EndOfWeek(t) == StartOfWeek(t) + 7 * TicksPerDay - 1

StartOfMonth(t) == Midnight(StartIn(MonthStarts, Day(t)))

(* replace(month=..., day=1) keeps the time of day; one tick earlier, the    *)
(* fraction of that second is filled up.                                     *)
EndOfMonth(t) ==
    LET nextFirst == Midnight(StartAfter(MonthStarts, Day(t))) + (t % TicksPerDay)
        last == nextFirst - 1
    IN  last - (last % TicksPerSecond) + TicksPerSecond - 1

StartOfYear(t) == Midnight(StartIn(YearStarts, Day(t)))
EndOfYear(t) == Midnight(StartAfter(YearStarts, Day(t))) - 1

-----------------------------------------------------------------------------

Alias == {"today", "this_week", "this_month", "this_year"}

(* The window of an alias around a time. *)
Around(alias, t) ==
    CASE alias = "today"      -> [from |-> StartOfDay(t), to |-> EndOfDay(t)]
      [] alias = "this_week"  -> [from |-> StartOfWeek(t), to |-> EndOfWeek(t)]
      [] alias = "this_month" -> [from |-> StartOfMonth(t), to |-> EndOfMonth(t)]
      [] alias = "this_year"  -> [from |-> StartOfYear(t), to |-> EndOfYear(t)]

(* A query is [period, from, to, compareAlias, comparePair, now]; "from",   *)
(* "to" and "comparePair" hold at most one time or window, none when the    *)
(* parameter is not given.  A query that is not accepted is answered 400.   *)
PeriodAccepted(q) ==
    \/ q.period \in Alias
    \/ q.period = "custom" /\ q.from # {} /\ q.to # {}
    \/ q.period = "none" /\ (q.from = {} <=> q.to = {})

(* resolve_period: an alias wins over explicit bounds, the month is the default. *)
Window(q) ==
    IF q.period \in Alias THEN Around(q.period, q.now)
    ELSE IF q.from # {} THEN [from |-> CHOOSE t \in q.from : TRUE,
                              to |-> CHOOSE t \in q.to : TRUE]
    ELSE Around("this_month", q.now)

(* An explicit pair is a window, an alias a string; a window that ends      *)
(* before it starts cannot be compared with anything.                       *)
ComparisonAccepted(q) ==
    q.compareAlias \in Alias \/ q.comparePair # {} => Window(q).from <= Window(q).to

(* resolve_compare_to: the alias around the last tick before the window, or *)
(* the pair as it is; no window when compare_to is not given.               *)
Compared(q) ==
    IF q.compareAlias \in Alias THEN {Around(q.compareAlias, Window(q).from - 1)}
    ELSE q.comparePair

(* Both bounds are inclusive in every query. *)
Within(t, w) == w.from <= t /\ t <= w.to

-----------------------------------------------------------------------------

AtLeastZero(n) == IF n < 0 THEN 0 ELSE n

(* The relative change: absent when both figures are 0, 0 when only the     *)
(* earlier one is, and otherwise the fraction <<difference, earlier>>.      *)
Change(current, previous) ==
    IF previous # 0 THEN <<current - previous, previous>>
    ELSE IF current = 0 THEN <<>>
    ELSE <<0>>

Comparison(current, previous) ==
    [delta     |-> [k \in DOMAIN current |-> current[k] - previous[k]],
     delta_pct |-> [k \in DOMAIN current |-> Change(current[k], previous[k])]]

(* make_pagination: the pages a client is told of. *)
TotalPages(total, size) == (total + size - 1) \div size

(* LIMIT size OFFSET (page - 1) * size over the rows, Before being their order. *)
PageOf(rows, Before(_, _), page, size) ==
    {r \in rows :
        LET position == Cardinality({o \in rows : Before(o, r)})
        IN  (page - 1) * size <= position /\ position < page * size}

(* The reports without page parameters always answer with the first page. *)
DefaultSize == 50

=============================================================================
