------------------------------ MODULE MCAdministrands ------------------------------
EXTENDS Administrands, TLC

CONSTANTS i1, i2, t1, t2, m1, m2

MCItems == {i1, i2}
MCTests == {t1, t2}
Symmetry == Permutations(MCItems) \union Permutations(MCTests)

===============================================================================
