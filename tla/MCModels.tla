------------------------------ MODULE MCModels ------------------------------
EXTENDS Models, TLC
CONSTANTS fetch, other, t1, t2
OneCommand == {fetch}
TwoCommands == {fetch, other}
TwoThreads == {t1, t2}
KeepsSilero == {SILERO}
Same == Permutations(TwoThreads)
=============================================================================
