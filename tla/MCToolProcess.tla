---------------------------- MODULE MCToolProcess ----------------------------
\* One fault anywhere; the abort of an unanchored launch may fail with it.
EXTENDS ToolProcess

=============================================================================
