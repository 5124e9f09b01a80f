-------------------------- MODULE MCDocumentStorage --------------------------
EXTENDS DocumentStorage

CONSTANTS f0, f1

MCFilters == {f0, f1}
=============================================================================
