------------------------------ MODULE MCStream ------------------------------
EXTENDS TerminalStream
=============================================================================
