---------------------------- MODULE MCFileServerMap ----------------------------
EXTENDS FileServerMap

CONSTANTS t1, t2, t3, h1, h2

MCCallers == {t1, t2, t3}
MCHosts == {h1, h2}

CallerSymmetry == Permutations(MCCallers)
====
