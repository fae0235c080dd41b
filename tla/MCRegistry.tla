----------------------------- MODULE MCRegistry -----------------------------
EXTENDS ServerRegistry
=============================================================================
