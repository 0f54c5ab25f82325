---------------------------- MODULE MCProcessor ----------------------------
\* Instances of Processor for TLC.
EXTENDS Processor

CONSTANTS c1, c2

\* Two calls side by side, then a second attempt that uses one of the ids again.
TwoThenOne == <<{c1, c2}, {c1}>>
=============================================================================
