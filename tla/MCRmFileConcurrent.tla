------------------------- MODULE MCRmFileConcurrent -------------------------
EXTENDS RmFileConcurrent, TLC

CONSTANTS t1, t2

MCThreads == {t1, t2}
MCOneThread == {t1}
MCNoPage == -1
MCSymmetry == Permutations(MCThreads)
=============================================================================
