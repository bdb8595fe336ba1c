----------------------------- MODULE MCScheduler -----------------------------
\* Frequencies that give each handler one slot, and the default ones, which have
\* no task queue.
EXTENDS Scheduler

EvenTable == {<<1, 1, 1, 1, 1>>}
DefaultTable == {<<16, 1, 16, 64>>}
=============================================================================
