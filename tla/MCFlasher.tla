------------------------------- MODULE MCFlasher -------------------------------
(***************************************************************************)
(* Three cells, so that the R2J240 tool reads two and then one; a file     *)
(* with two equal cells next to each other and one without.                *)
(***************************************************************************)
EXTENDS Flasher

MCImages ==
  {[c \in Cells |-> IF c = 0 THEN "a" ELSE "b"],
   [c \in Cells |-> IF c = 1 THEN "a" ELSE "b"]}

AllRuns ==
  {r \in [target : Targets, driver : {"fx2lp", "i2cdev"},
          op : {"dump", "write", "erase"}, file : {"good", "bad"},
          confirm : BOOLEAN, verify : BOOLEAN, pec : BOOLEAN, execute : BOOLEAN] :
     RunOK(r)}

\* Every tool with the drivers it can work with.
MCRuns ==
  {r \in AllRuns :
     /\ r.target \in {"bq_program", "bq_eeprom"} /\ r.op = "write" => r.driver = "fx2lp"
     /\ r.target = "r2j240" => r.driver = "i2cdev"}

ASSUME DriversAssumption == DriversFit

MCEeprom == {r \in MCRuns : r.target = "bq_eeprom"}

MCFaults == FaultKinds
=============================================================================
