-------------------------- MODULE MCServerShutdown --------------------------
EXTENDS ServerShutdown
=============================================================================
