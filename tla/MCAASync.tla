------------------------------- MODULE MCAASync -------------------------------
(* AASync for TLC: small clusters with the retries of the source.           *)
EXTENDS AASync, TLC
===============================================================================
