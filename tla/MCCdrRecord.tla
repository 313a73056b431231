---------------------------- MODULE MCCdrRecord ----------------------------
(* Small instances of CdrRecord: one call is served, one times out.          *)
EXTENDS CdrRecord

CONSTANTS t1, t2, c1, c2

TwoThreads == {t1, t2}
TwoCalls == {c1, c2}
OneOkCall == {c1}
OneTimeoutCall == {c2}
=============================================================================
