--------------------------- MODULE MCArchiveStore ---------------------------
EXTENDS ArchiveStore
=============================================================================
