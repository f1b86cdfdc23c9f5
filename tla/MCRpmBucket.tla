---------------------------- MODULE MCRpmBucket ----------------------------
(***************************************************************************)
(* RpmBucket for TLC: a "minute" of a few ticks that the limits do not     *)
(* divide, so that rounding occurs, over three minutes.                    *)
(***************************************************************************)
EXTENDS RpmBucket
=============================================================================
