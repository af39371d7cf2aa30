----------------------------- MODULE MCConsole -----------------------------
EXTENDS Console

CONSTANTS ApiThread

MCThread == {SocketThread, ApiThread} \cup Refresh
=============================================================================
