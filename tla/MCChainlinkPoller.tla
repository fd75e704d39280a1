--------------------------- MODULE MCChainlinkPoller ---------------------------
(* The instance of ChainlinkPoller for TLC: bytes of 16 values in place of   *)
(* 2^64.  The answers are two prices, the first that is too large, zero, the *)
(* two negative ones at the ends of the plausible range, and one beyond the  *)
(* bytes that decodes as the price 5.                                       *)
EXTENDS ChainlinkPoller

MCAnswers == {5, 9, 10, 0, -1, -6, 21}

=============================================================================
