------------------------------- MODULE MCExport -------------------------------
(* The exporter for TLC: without retries, with retries for ever, and with  *)
(* retries for a time.                                                     *)
EXTENDS Export

MCConfigs ==
  {[enabled |-> FALSE, maxElapsed |-> 0], [enabled |-> TRUE, maxElapsed |-> 0],
   [enabled |-> TRUE, maxElapsed |-> 3]}
=============================================================================
