------------------------------ MODULE MCMerging ------------------------------
EXTENDS Merging

CONSTANTS mine, twin, theirs

\* Three repositories of which the viewer may write to one; a pull request of
\* another has the number of his.
MCNumber == [p \in {mine, twin, theirs} |-> IF p = theirs THEN 8 ELSE 7]
MCOptions == <<"squash", "merge">>

\* The messages counted for each question are messages of the model.
ASSUME Leading \in [Question -> SUBSET Message]
=============================================================================
