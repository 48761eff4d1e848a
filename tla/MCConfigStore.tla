---------------------------- MODULE MCConfigStore ----------------------------
(***************************************************************************)
(* Three builds: f2 knows an option that f1 does not and that lies in    *)
(* front of one that both have; f3 has the schema of f2 and a longer list *)
(* in that place, as the lists of BSB_LAN_config.h may be.                   *)
(***************************************************************************)
EXTENDS ConfigStore, TLC

CONSTANTS f1, f2, f3

MCFirmwares == {f1, f2, f3}

MCVersion ==
    [f \in MCFirmwares |-> [o \in 3..5 |-> IF o = 4 THEN (IF f = f1 THEN 0 ELSE 2) ELSE 1]]

MCSize == [f \in MCFirmwares |-> [o \in 3..5 |-> IF f = f3 /\ o = 4 THEN 2 ELSE 1]]

MCSchema == [f \in MCFirmwares |-> IF f = f1 THEN 1 ELSE 2]

MCStart ==
    [f \in MCFirmwares |-> [v \in 0..3 |->
        LET at[o \in 3..6] ==
                IF o = 3 THEN 0
                ELSE at[o - 1] + IF MCVersion[f][o - 1] \in 1..v
                                 THEN MCSize[f][o - 1] ELSE 0
        IN  at]]

ValuesAlike == Permutations(Values)
=============================================================================
