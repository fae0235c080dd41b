------------------------------- MODULE MCLog --------------------------------
EXTENDS LogStream
=============================================================================
