----------------------------- MODULE MCSemWrapper -----------------------------
(* Small instances of sem_wrapper.                                           *)
EXTENDS SemWrapper, TLC

CONSTANTS t1, t2, t3, s1, s2

MCThreads == {t1, t2, t3}
MCSems == {s1, s2}
MCOneSem == {s1}
MCValues == {0, 1}
MCPlainKinds == {"wait", "post", "getvalue"}
MCRare == {"cond_fails"}
ASSUME CallsAssumption == FewPosts

MCSymmetry == Permutations(MCThreads)
===============================================================================
