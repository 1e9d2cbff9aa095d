--------------------------- MODULE MCCriticalSection ---------------------------
(* CriticalSection for TLC: two locks of each level.                        *)
EXTENDS CriticalSection

LocksMC == {"irqA", "irqB", "fiqA", "fiqB"}

TargetMC == [l \in LocksMC |-> IF l \in {"irqA", "irqB"} THEN 1 ELSE 2]
=============================================================================
