--------------------------- MODULE MC_StorageLock ---------------------------
(* An instance of StorageLock for TLC. *)
EXTENDS StorageLock, TLC

CONSTANTS t1, t2, t3

ThreeTasks == {t1, t2, t3}
OneUpgrades == {t1}
=============================================================================
