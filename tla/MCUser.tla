------------------------------- MODULE MCUser -------------------------------
EXTENDS TerminalUser
=============================================================================
