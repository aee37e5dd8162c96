------------------------------- MODULE Ticks -------------------------------
(***************************************************************************)
(* Dates as the scheduler and the QUIC loss detection handle them          *)
(* (include/common/ticks.h).  A tick is a number of milliseconds; 0 is     *)
(* TICK_ETERNITY and means "not set".  The wrap of the 32-bit counter is   *)
(* abstracted: models use dates far from 2^31.                             *)
(***************************************************************************)
EXTENDS Integers

TICK_ETERNITY == 0

tick_isset(t) == t # TICK_ETERNITY

\* An addition that falls on the magic value is pushed one tick further.
tick_add(now, timeout) ==
  IF now + timeout = TICK_ETERNITY THEN 1 ELSE now + timeout

tick_is_lt(t1, t2) == t1 - t2 < 0

tick_is_le(t1, t2) == t1 - t2 <= 0

tick_is_expired(timer, now) == tick_isset(timer) /\ timer - now <= 0

tick_first(t1, t2) ==
  CASE ~tick_isset(t1) -> t2
    [] tick_isset(t1) /\ ~tick_isset(t2) -> t1
    [] OTHER -> IF tick_is_le(t1, t2) THEN t1 ELSE t2

\* The variant for callers that know <t2> to be set.
tick_first_2nz(t1, t2) ==
  IF tick_isset(t1) /\ tick_is_le(t1, t2) THEN t1 ELSE t2
=============================================================================
