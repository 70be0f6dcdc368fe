------------------------------ MODULE MCJournal ------------------------------
\* Journal with its constants given in MCJournal.cfg
EXTENDS Journal
=============================================================================
