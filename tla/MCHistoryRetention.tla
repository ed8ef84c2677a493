------------------------ MODULE MCHistoryRetention ------------------------
\* A small instance of HistoryRetention for TLC.
EXTENDS HistoryRetention
=============================================================================
