--------------------------- MODULE MCPagedRunner ---------------------------
EXTENDS PagedRunner

MCExperts == {1, 2}
MCVramCaps == {0, 2}
=============================================================================
