---------------------------- MODULE MCWalletHost ----------------------------
EXTENDS WalletHost, TLC
CONSTANTS s1, p1, p2, c1, c2
CardsSymmetric == Permutations({c1, c2})
=============================================================================
