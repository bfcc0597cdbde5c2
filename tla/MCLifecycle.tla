---------------------------- MODULE MCLifecycle ----------------------------
\* Instances of Lifecycle for TLC.
EXTENDS Lifecycle

NoFolders == [k \in Keys |-> 0]
OneRule == {<<[enabled |-> TRUE, prefix |-> 0, days |-> 1, abortDays |-> 1]>>}

Suspending == {<<"Enabled", "Suspended">>, <<"Suspended", "Enabled">>}
Enabling == {<<"", "Enabled">>}
=============================================================================
