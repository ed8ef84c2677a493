------------------------- MODULE MCMemoryMigration -------------------------
\* A small instance of MemoryMigration for TLC.
EXTENDS MemoryMigration
=============================================================================
