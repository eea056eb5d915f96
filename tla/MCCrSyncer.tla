----------------------------- MODULE MCCrSyncer -----------------------------
\* The kinds of CRD that the runs of CrSyncer look at, as <<remote, sub, legacy, writes>>.
EXTENDS CrSyncer

\* The spec comes from the cloud; or from the robot, where an older cr-syncer has been
\* at work.  The status is a subresource.
BothSources == {<<"up", TRUE, {}, 1>>, <<"down", TRUE, {"up", "down"}, 2>>}

\* The spec comes from the robot; the status is no subresource.
PlainStatus == {<<"down", FALSE, {"up"}, 1>>}
=============================================================================
