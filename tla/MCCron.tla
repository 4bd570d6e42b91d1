------------------------------- MODULE MCCron -------------------------------
EXTENDS Cron, TLC

CONSTANTS e1, e2, bad

MCExprs == {e1, e2, bad}

\* Two schedules with one occurrence in common; both go on after MaxTime.
MCOccurs == (e1 :> {1, 2, 9}) @@ (e2 :> {2, 8}) @@ (bad :> {})

\* One schedule, so that the only edits are to pause it and to resume it.
MCOccursDaily == e1 :> {1, 2, 9}
=============================================================================
