-------------------------- MODULE MCTimerScheduler --------------------------
(***************************************************************************)
(* Two timers of a tenant whose workers are replaced once.                 *)
(***************************************************************************)
EXTENDS TimerScheduler

CONSTANTS t1, t2

MCTokens == {t1, t2}
=============================================================================
