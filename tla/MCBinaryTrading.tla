--------------------------- MODULE MCBinaryTrading ---------------------------
EXTENDS BinaryTrading, TLC
CONSTANTS m1, m2, ann, bob, cid
UsersAlike == Permutations({ann, bob, cid})
=============================================================================
