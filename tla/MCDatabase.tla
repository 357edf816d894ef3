---------------------------- MODULE MCDatabase ----------------------------
EXTENDS Database

CONSTANTS a, b

\* The first release, the next one, and one whose first migration was edited after it may
\* have been applied.
Deployed == {<<a, NoText>>, <<a, b>>, <<b, NoText>>}
=============================================================================
