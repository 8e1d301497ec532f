--------------------------- MODULE MCDispatchLoop ---------------------------
\* Instances of DispatchLoop: which transactions depend on which.
EXTENDS DispatchLoop
CONSTANTS t1, t2, t3, t4

NoDependencies == {}
\* t2 spends a state that t1 creates.
OneSpends == {<<t2, t1>>}
\* t3 depends on t2, which depends on t1.
ChainSpends == {<<t2, t1>>, <<t3, t2>>}
\* t3 was submitted as dependent on t1.
LastChained == {<<t3, t1>>}
\* t2 was submitted as dependent on t1, and t3 spends a state that t2 creates.
MidChained == {<<t2, t1>>}
LastSpends == {<<t3, t2>>}
\* Each was submitted as dependent on the one before it.
ChainOfFour == {<<t2, t1>>, <<t3, t2>>, <<t4, t3>>}
=============================================================================
