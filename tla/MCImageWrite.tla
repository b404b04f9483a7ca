----------------------------- MODULE MCImageWrite -----------------------------
(***************************************************************************)
(* ImageWrite as TLC checks it.  Time is counted in units of RetryBase.    *)
(* The delays 1 and 2 fit in the window of 3; the next one would double to *)
(* 4, is capped at 3 and no longer fits.  The clock outlives the window.   *)
(***************************************************************************)
EXTENDS ImageWrite

RetryWindow == 3
ClockStops  == RetryWindow + 1
===============================================================================
