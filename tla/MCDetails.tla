------------------------------ MODULE MCDetails ------------------------------
EXTENDS Details

\* Two lists of the three: the code treats them alike.
MCLists == <<"comments", "reviews">>
=============================================================================
