------------------------------ MODULE OtaFlash ------------------------------
(***************************************************************************)
(* The flash the updater (src/ota) and the bootloader (project/bootloader) *)
(* share, and the RAM each of them keeps: constants, variables and the     *)
(* predicates the image library answers.                                   *)
(*                                                                         *)
(* A slot (image sequence) is a function from units to contents.  A unit   *)
(* is the grain at which flash is erased and programmed.  The content of a *)
(* unit is relative to the image being installed:                          *)
(*   "erased"  all ones;                                                   *)
(*   "good"    the bytes the image's author put there;                     *)
(*   "weak"    damaged, but the 16-bit section checksum still matches;     *)
(*   "bad"     damaged, and the checksum tells.                            *)
(* Units 1..AppLen hold the application section, 1..SecLen all sections,   *)
(* unit SecLen+1 the verify data (ota_verify_data_t).                      *)
(***************************************************************************)
EXTENDS Integers, Sequences

CONSTANTS
  N,          \* IMAGE_SEQ_NUM
  BlSize,     \* iop->bl_size, in units
  BufSize,    \* OTA_BUF_SIZE, in units
  MaxSize,    \* iop->img_max_size, in units
  AppLen,     \* units of the IMAGE_APP_ID section
  SecLen,     \* units of all sections
  Files,      \* the downloads offered: records [proto, len], len in units
  Damage,     \* contents a transfer may turn a unit into
  Faults,     \* the faults the environment may inject
  OtaAreas    \* whether the image header names an OTA area (iop->ota_addr)

FaultKinds == {"power", "erase", "init", "get", "close", "select", "open",
               "write", "page", "vread", "read", "set_cfg", "load"}

ASSUME SizesAssumption ==
  /\ N \in {2, 3}
  /\ BlSize \in Nat \ {0} /\ BufSize \in Nat \ {0} /\ MaxSize \in Nat
  /\ AppLen \in Nat \ {0} /\ SecLen \in Nat
  /\ AppLen <= SecLen /\ SecLen < MaxSize

ASSUME EnvironmentAssumption ==
  /\ Files \subseteq [proto : {"file", "length", "chunked"}, len : Nat \ {0}]
  /\ Damage \subseteq {"weak", "bad"}
  /\ Faults \subseteq FaultKinds
  /\ OtaAreas \subseteq BOOLEAN

VARIABLES
  slot,       \* flash: the image area of each sequence
  cfg,        \* flash: sequence the VERIFIED image_cfg_t names, N if none is readable
  otaOn,      \* flash: the image header names an OTA area
  mode,       \* "boot": bootloader, "app": application, "upgrade": ROM upgrade mode
  pc,         \* where the program of this mode is
  running,    \* iop->running_seq
  cfgSeq, loadSeq, tries,        \* locals of bl_load_bin
  src,        \* the download: protocol and length
  getSize,    \* ota_priv.get_size
  pos,        \* addr - iop->addr[seq] of ota_update_image_process
  left,       \* img_max_size of ota_update_image_process
  buf,        \* ota_buf: what the last get_cb received
  eof,        \* eof_flag
  ret,        \* ret = OTA_STATUS_OK
  vtype       \* verify_type of cmd_ota

flashVars == <<slot, cfg, otaOn>>
bootVars  == <<cfgSeq, loadSeq, tries>>
otaVars   == <<src, getSize, pos, left, buf, eof, ret, vtype>>
vars      == <<flashVars, mode, pc, running, bootVars, otaVars>>

Seqs     == 0 .. N - 1
Units    == 1 .. MaxSize
Contents == {"erased", "good", "weak", "bad"}

\* Mutant: the table "0, 1", or "1, 2, 2".
PolicySlip == IF N = 2 THEN [s \in Seqs |-> s]
                       ELSE [s \in Seqs |-> IF s = 0 THEN 1 ELSE 2]

\* The policy table of ota.c: the sequence an update of the running one goes to.
UpdatePolicy == IF N = 2 THEN [s \in Seqs |-> 1 - s]
                         ELSE [s \in Seqs |-> IF s = 1 THEN 2 ELSE 1]

Target == UpdatePolicy[running]

\* image_check_header and image_check_data: the 16-bit checksums match.
Passes(s, n) == \A u \in 1 .. n : slot[s][u] \in {"good", "weak"}

\* What the bootloader loads and checks: the application section only.
AppOk(s) == Passes(s, AppLen)

\* image_check_sections: every section of the image.
SectionsOk(s) == Passes(s, SecLen)

\* The sections are the author's bytes.
Exact(s) == \A u \in 1 .. SecLen : slot[s][u] = "good"

VerifyData(s) == slot[s][SecLen + 1]

\* The static and stack memory of both programs after a reset.
RamCleared ==
  /\ cfgSeq' = N /\ loadSeq' = 0 /\ tries' = 0
  /\ src' = [proto |-> "file", len |-> 1]
  /\ getSize' = 0 /\ pos' = 0 /\ left' = 0
  /\ buf' = <<>> /\ eof' = FALSE /\ ret' = FALSE /\ vtype' = "none"

\* HAL_WDG_Reboot, or the power coming back: the bootloader runs from its start.
Reset == mode' = "boot" /\ pc' = "start" /\ running' = 0 /\ RamCleared
=============================================================================
