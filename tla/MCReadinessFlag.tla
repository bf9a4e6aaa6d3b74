-------------------------- MODULE MCReadinessFlag --------------------------
(* Instances of ReadinessFlag for TLC.                                      *)
EXTENDS ReadinessFlag, TLC

CONSTANTS s1, s2, w1, w2

MCSubscribers == {s1, s2}
MCWaiters == {w1, w2}
MCOneSubscriber == {s1}
MCOneWaiter == {w1}
=============================================================================
