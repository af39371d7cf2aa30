----------------------------- MODULE MCSamples -----------------------------
EXTENDS Samples

\* Of two addresses each has the bytes of the other in reverse; a single one is a
\* palindrome.
MCip_to_int == [ip \in IP |-> CHOOSE reversed \in IP : IP = {ip, reversed}]
=============================================================================
