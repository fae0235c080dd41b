------------------------------ MODULE MCScreen ------------------------------
EXTENDS TerminalScreen
=============================================================================
