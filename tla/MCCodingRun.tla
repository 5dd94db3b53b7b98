---------------------------- MODULE MCCodingRun ----------------------------
\* Two contents; fewer edits in snapshot mode than file calls.
EXTENDS CodingRun
CONSTANTS v1, v2, none
=============================================================================
