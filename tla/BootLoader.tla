----------------------------- MODULE BootLoader -----------------------------
(***************************************************************************)
(* project/bootloader/main.c: choose the sequence to run.  The image_cfg_t *)
(* in flash names the sequence to try first; a sequence whose application  *)
(* section does not load is passed over for the next one, and the choice   *)
(* is written back when it is not the configured one.                      *)
(***************************************************************************)
EXTENDS OtaFlash

\* The jump to the entry point: the application starts with its memory cleared.
EnterApp == mode' = "app" /\ pc' = "idle" /\ RamCleared

\* main, bl_load_bin: the image header names no OTA area, only sequence 0 exists.
BlNoOta ==
  /\ mode = "boot" /\ pc = "start" /\ ~otaOn
  /\ running' = 0
  /\ \/ /\ AppOk(0)
        /\ EnterApp
     \/ /\ ~AppOk(0) \/ "load" \in Faults
        /\ mode' = "upgrade" /\ pc' = "start"
        /\ UNCHANGED <<bootVars, otaVars>>
  /\ UNCHANGED flashVars

\* bl_load_bin: image_init cannot read the image header, so that no sequence is
\* tried, with an OTA area or without.
BlInitFails ==
  /\ mode = "boot" /\ pc = "start" /\ "load" \in Faults
  /\ mode' = "upgrade" /\ pc' = "start"
  /\ UNCHANGED <<flashVars, running, bootVars, otaVars>>

\* bl_load_bin from image_get_cfg to the loop: which sequence the configuration names, if it
\* can be read.
BlReadCfg ==
  /\ mode = "boot" /\ pc = "start" /\ otaOn
  /\ cfgSeq' = cfg \/ ("load" \in Faults /\ cfgSeq' = N)
  /\ loadSeq' = IF cfgSeq' = N THEN 0 ELSE cfgSeq'
  /\ tries' = 0
  /\ pc' = "try"
  /\ UNCHANGED <<flashVars, mode, running, otaVars>>

\* The loop body when the application section of load_seq is loaded.
BlLoaded ==
  /\ mode = "boot" /\ pc = "try" /\ tries < N /\ AppOk(loadSeq)
  /\ running' = loadSeq
  /\ \/ /\ loadSeq # cfgSeq
        /\ pc' = "set_cfg"
        /\ UNCHANGED <<mode, bootVars, otaVars>>
     \/ /\ loadSeq = cfgSeq
        /\ EnterApp
  /\ UNCHANGED flashVars

\* The loop body when it is not: the next sequence, modulo IMAGE_SEQ_NUM.
BlNotLoaded ==
  /\ mode = "boot" /\ pc = "try" /\ tries < N
  /\ ~AppOk(loadSeq) \/ "load" \in Faults
  /\ running' = loadSeq
  /\ loadSeq' = (loadSeq + 1) % N
  /\ tries' = tries + 1
  /\ UNCHANGED <<flashVars, mode, pc, cfgSeq, otaVars>>

\* image_set_cfg, called by bl_load_bin: the old record is erased ...
BlEraseCfg ==
  /\ mode = "boot" /\ pc = "set_cfg"
  /\ cfg' = N
  /\ pc' = "write_cfg"
  /\ UNCHANGED <<slot, otaOn, mode, running, bootVars, otaVars>>

\* ... and the new one written.
BlWriteCfg ==
  /\ mode = "boot" /\ pc = "write_cfg"
  /\ cfg' = loadSeq
  /\ EnterApp
  /\ UNCHANGED <<slot, otaOn, running>>

\* A failure of image_set_cfg is only logged: the application is entered.
BlCfgFails ==
  /\ mode = "boot" /\ pc \in {"set_cfg", "write_cfg"} /\ "set_cfg" \in Faults
  /\ EnterApp
  /\ UNCHANGED <<flashVars, running>>

\* Mutant: the loop ends one sequence early.
BlUpgradeEarly ==
  /\ mode = "boot" /\ pc = "try" /\ tries = N - 1
  /\ mode' = "upgrade" /\ pc' = "start"
  /\ UNCHANGED <<flashVars, running, bootVars, otaVars>>

\* No sequence loads: bl_upgrade sets the SYS_UPDATE boot flag and reboots.
BlUpgrade ==
  /\ mode = "boot" /\ pc = "try" /\ tries = N
  /\ mode' = "upgrade" /\ pc' = "start"
  /\ UNCHANGED <<flashVars, running, bootVars, otaVars>>

BootNext == \/ BlInitFails \/ BlNoOta \/ BlReadCfg \/ BlLoaded \/ BlNotLoaded
            \/ BlEraseCfg \/ BlWriteCfg \/ BlCfgFails \/ BlUpgrade
=============================================================================
