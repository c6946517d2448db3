------------------------------- MODULE MCScc -------------------------------
EXTENDS Scc
CONSTANTS t1, t2

Thread2 == {t1, t2}
Window12 == {1, 2}
=============================================================================
