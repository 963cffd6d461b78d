---------------------------- MODULE MCScheduler ----------------------------
\* Small instances of Scheduler for TLC.
EXTENDS Scheduler

CONSTANTS w1

Wakeup(new, at) == [ws |-> w1, newSession |-> new, fireAt |-> at]
Routine(new, again, cron) ==
    [ws |-> w1, newSession |-> new, recurring |-> again, cron |-> cron]

\* One-shots: a wakeup due at once, a later one in a new session, a run-once cron.
MCWakeups == {Wakeup(FALSE, 0), Wakeup(TRUE, 2)}
MCOneShots == {Routine(FALSE, FALSE, {1, 3})}
\* Recurring routines, with a new session per fire.
MCPlainLoop == {Routine(FALSE, TRUE, {1, 3})}
MCLateWakeup == {Wakeup(FALSE, 2)}
MCLoops == {Routine(TRUE, TRUE, {1, 3})}
MCRoutines == MCOneShots \cup MCLoops
=============================================================================
