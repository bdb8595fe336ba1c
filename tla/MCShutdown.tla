----------------------------- MODULE MCShutdown -----------------------------
\* Seven processes, so that the broadcast tree of PE 0 has a second level, two of
\* which call CmiExit.
EXTENDS Shutdown

TwoExits == {[nodes |-> 7, ranks |-> 1, mode |-> "exit", callers |-> {<<0, 0>>, <<1, 0>>},
              workers |-> {}, phases |-> 0, early |-> FALSE]}
=============================================================================
