---------------------------- MODULE MCSessions -----------------------------
\* Sessions up to permutations of the sockets and of the keys.
EXTENDS Sessions, TLC

Permuted == Permutations(Socket) \cup Permutations(Key)
=============================================================================
