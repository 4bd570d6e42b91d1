----------------------------- MODULE MCTransfer -----------------------------
EXTENDS Transfer

CONSTANTS bucket, pic, table, name, note, memo

\* A file in its bucket; a table with a column and two rows without an id, read
\* without an order: at the second place either row may come.
MCParent == pic :> bucket @@ [r \in {name, note, memo} |-> table]
MCPages == <<<<{bucket}>>, <<{pic}>>, <<{table}>>, <<{name}>>,
             <<{note}, {note, memo}>>>>
=============================================================================
