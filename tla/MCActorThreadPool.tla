------------------------- MODULE MCActorThreadPool -------------------------
EXTENDS ActorThreadPool, TLC

CONSTANTS a1, a2, a3, t1, t2

MCActors == {a1, a2, a3}
MCThreads == {t1, t2}
=============================================================================
