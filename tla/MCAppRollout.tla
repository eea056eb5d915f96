---------------------------- MODULE MCAppRollout ----------------------------
(* Contents of the objects for the runs of AppRollout. *)
EXTENDS AppRollout

\* An App for robots, and a later version that has a cloud component too.
App1 == [cloud |-> FALSE, robot |-> TRUE, version |-> 1]
TwoApps == {App1, [cloud |-> TRUE, robot |-> TRUE, version |-> 2]}

\* Labelled robots only; and two entries that overlap on every labelled robot.
Spec1 == <<"labelled">>
SomeSpecs == {Spec1, <<"labelled", "any">>, <<"any", "never">>, <<"empty">>}

\* The chart for the cloud has no readiness to report.
SomeOutcomes == [n \in Names |-> IF n = Cloud THEN {"Settled"} ELSE {"Ready"}]
=============================================================================
