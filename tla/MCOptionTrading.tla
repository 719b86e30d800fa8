--------------------------- MODULE MCOptionTrading ---------------------------
EXTENDS OptionTrading, TLC
CONSTANTS m1, m2, ann, bob, cid
UsersAlike == Permutations({ann, bob, cid})
YesNo == {<<"yes", "no">>}
YesTieOrNoYes == {<<"yes", "tie">>, <<"no", "yes">>}
=============================================================================
