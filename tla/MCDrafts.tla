------------------------------ MODULE MCDrafts ------------------------------
EXTENDS Drafts
=============================================================================
