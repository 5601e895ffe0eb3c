---------------------------- MODULE MCToolRelay ----------------------------
EXTENDS ToolRelay, TLC

CONSTANTS s1, s2, c1, c2, r1, r2, r3

MCSessions == {s1}
MCCalls == {c1, c2}
MCRequests == {r1, r2, r3}
MCSignatureOf == [c \in MCCalls |-> "read"]
Symmetric == Permutations(MCCalls) \union Permutations(MCSessions) \union Permutations(MCRequests)
=============================================================================
