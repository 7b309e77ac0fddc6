------------------------------- MODULE MCCron -------------------------------
(***************************************************************************)
(* Cron for TLC: a year of two months of three and four days, a day of     *)
(* four hours of two minutes, and a week of three days.                    *)
(***************************************************************************)
EXTENDS Cron

MCDaysBefore == <<0, 3, 7>>

Value(v) == [form |-> "value", lo |-> v, hi |-> v, step |-> 1, stepped |-> FALSE]
ValueStep(v, n) == [form |-> "value", lo |-> v, hi |-> v, step |-> n, stepped |-> TRUE]
StarStep(n) == [form |-> "star", lo |-> 0, hi |-> 0, step |-> n, stepped |-> TRUE]
RangeOf(l, h) == [form |-> "range", lo |-> l, hi |-> h, step |-> 1, stepped |-> FALSE]
RangeStep(l, h, n) == [form |-> "range", lo |-> l, hi |-> h, step |-> n, stepped |-> TRUE]

Every1 == [minute |-> <<Star>>, hour |-> <<Star>>, dom |-> <<Star>>, month |-> <<Star>>, dow |-> <<Star>>]
At1(h) == [Every1 EXCEPT !.minute = <<Value(0)>>, !.hour = h]

MCExprs ==
  { [Every1 EXCEPT !.minute = <<Value(1)>>],
    [Every1 EXCEPT !.hour = <<StarStep(2)>>],
    At1(<<Value(3)>>),
    [At1(<<ValueStep(1, 2)>>) EXCEPT !.minute = <<Value(1)>>],
    At1(<<Value(0)>>),
    [At1(<<Value(2)>>) EXCEPT !.month = <<Value(2)>>],
    [At1(<<Value(0), Value(3)>>) EXCEPT !.dow = <<Value(3)>>],
    [At1(<<RangeStep(1, 3, 2)>>) EXCEPT !.dom = <<Value(3)>>, !.dow = <<RangeOf(1, 2)>>],
    [At1(<<Value(2)>>) EXCEPT !.dom = <<Value(4)>>, !.month = <<Value(1)>>],
    [At1(<<Value(2)>>) EXCEPT !.dom = <<Value(1)>>],
    At1(<<Value(4)>>), At1(<<RangeOf(3, 2)>>), At1(<<StarStep(0)>>) }

\* No change; a change in the night, forward or back, east and west of
\* Greenwich; and back at midnight.  A change is after the second hour.
Fixed == [before |-> 2, after |-> 2, at |-> 0]
EastForward == [before |-> 2, after |-> 4, at |-> 16]
EastBack == [before |-> 4, after |-> 2, at |-> 16]
EastMidnightBack == [before |-> 4, after |-> 2, at |-> 12]
WestForward == [before |-> -4, after |-> -2, at |-> 22]

\* West of Greenwich: back in the night, back over midnight, and forward at
\* midnight.
WestBack == [before |-> -2, after |-> -4, at |-> 22]
WestOverMidnight == [before |-> -2, after |-> -4, at |-> 20]
WestMidnightForward == [before |-> -4, after |-> -2, at |-> 20]

Options == [ kind : {"every", "at"}, immediate : BOOLEAN, jitter : BOOLEAN, timeout : BOOLEAN,
             stopOnError : BOOLEAN, handler : BOOLEAN ]
Plain == [ kind |-> "at", immediate |-> FALSE, jitter |-> FALSE, timeout |-> FALSE,
           stopOnError |-> FALSE, handler |-> FALSE ]

Scheduled(zones) == [conf : {Plain}, expr : MCExprs, zone : zones]

\* Every expression at every location, and every choice of the options.
MCSetups ==
  Scheduled({Fixed, EastForward, EastBack, EastMidnightBack, WestForward})
  \cup [conf : Options, expr : {At1(<<StarStep(2)>>)}, zone : {EastBack}]

WestSetups == Scheduled({WestBack, WestOverMidnight, WestMidnightForward})

\* The services of the run cron are those the theorems of CronProofs speak
\* of.  Of the locations of the run cron_west, two are among those where
\* Next's answers are right, and none among those where it always answers.
ASSUME RunsAndTheorems ==
  /\ Setups = MCSetups => Searchable /\ Terminating
  /\ \A x \in WestSetups : /\ ~Regular(x.zone)
                            /\ WholeHour(x.zone) <=> x.zone # WestMidnightForward
=============================================================================
