--------------------------- MODULE MCSessionTable ---------------------------
(* Two sessions that may live at once, and two calls of the same tool with *)
(* the same arguments, the case claims have to keep in order.              *)
EXTENDS SessionTable

CONSTANTS s1, s2, c1, c2

MCSessions == {s1, s2}
MCCalls == {c1, c2}
MCSignatureOf == [c \in MCCalls |-> "read"]
=============================================================================
