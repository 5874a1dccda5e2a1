--------------------------- MODULE MCRicShutdown ---------------------------
EXTENDS RicShutdown
=============================================================================
