------------------------------- MODULE MCMux -------------------------------
(* OneStream carries a payload each way.  The last of TwoStreams may find  *)
(* the accept queue full, and mixes its frames with the first's, which     *)
(* brings an answer of two payloads.                                       *)
EXTENDS Mux

OneStream == [side \in Sides |-> <<1>>]
TwoStreams == [relay |-> <<0, 0>>, tunnel |-> <<2, 0>>]
=============================================================================
