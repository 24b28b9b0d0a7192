----------------------------- MODULE OtaSystem ------------------------------
(***************************************************************************)
(* The device: the bootloader, the application that updates it over the    *)
(* air, and the power that may fail at any instant.                        *)
(***************************************************************************)
EXTENDS BootLoader, OtaUpdate

FactorySlot == [u \in Units |-> IF u <= SecLen THEN "good" ELSE "erased"]
BlankSlot   == [u \in Units |-> "erased"]

\* A device as produced: an image in sequence 0, nothing else, no image_cfg_t.
Init ==
  /\ slot = [s \in Seqs |-> IF s = 0 THEN FactorySlot ELSE BlankSlot]
  /\ cfg = N
  /\ otaOn \in OtaAreas
  /\ mode = "boot" /\ pc = "start" /\ running = 0
  /\ cfgSeq = N /\ loadSeq = 0 /\ tries = 0
  /\ src = [proto |-> "file", len |-> 1]
  /\ getSize = 0 /\ pos = 0 /\ left = 0
  /\ buf = <<>> /\ eof = FALSE /\ ret = FALSE /\ vtype = "none"

\* The power fails and comes back.  A program operation under way is torn.
PowerCycle ==
  /\ "power" \in Faults
  /\ Reset
  /\ \/ UNCHANGED slot
     \/ /\ InApp("write")
        /\ \E k \in 1 .. Len(buf) : slot' = [slot EXCEPT ![Target] = Torn(k)]
  /\ UNCHANGED <<cfg, otaOn>>

Next == BootNext \/ OtaNext \/ PowerCycle

Spec == Init /\ [][Next]_vars

(***************************************************************************)
(* Fairness: the bootloader is the only program running until it jumps,    *)
(* and cmd_ota runs to its end once started, without the help of a fault;  *)
(* nothing obliges a user to start an update or the power to fail.         *)
(***************************************************************************)
Fairness == WF_vars(BootNext) /\ WF_vars(OtaWork)

FairSpec == Spec /\ Fairness

-----------------------------------------------------------------------------
(***************************************************************************)
(* Properties                                                              *)
(***************************************************************************)
BootPcs == {"start", "try", "set_cfg", "write_cfg"}
AppPcs  == {"idle", "erase", "init", "skip", "get", "write", "loaded",
            "verify_data", "verify", "set_cfg", "write_cfg", "reboot"}

\* Every variable of the two programs and of the flash has its type; no more is
\* received than the download holds nor written than img_max_size.
TypeOK ==
  /\ slot \in [Seqs -> [Units -> Contents]]
  /\ cfg \in 0 .. N /\ otaOn \in BOOLEAN
  /\ \/ mode = "boot" /\ pc \in BootPcs
     \/ mode = "app" /\ pc \in AppPcs
     \/ mode = "upgrade" /\ pc = "start"
  /\ running \in Seqs /\ cfgSeq \in 0 .. N /\ loadSeq \in Seqs /\ tries \in 0 .. N
  /\ src \in Files \cup {[proto |-> "file", len |-> 1]}
  /\ getSize \in 0 .. src.len /\ pos \in 0 .. MaxSize /\ left \in 0 .. MaxSize
  /\ buf \in Seq(Contents \ {"erased"}) /\ Len(buf) <= BufSize
  /\ eof \in BOOLEAN /\ ret \in BOOLEAN /\ vtype \in {"none", "digest"}

\* The sequence the bootloader would start if the power failed at this instant.
BootTarget ==
  LET first == IF cfg = N THEN 0 ELSE cfg
      order == [i \in Seqs |-> (first + i) % N]
      ok    == {i \in Seqs : AppOk(order[i])}
  IN  order[CHOOSE i \in ok : \A j \in ok : i <= j]

\* All sections pass their checksums, and if the verify data came through
\* intact and was read, the sections are the author's bytes.
Trusted(s) ==
  /\ SectionsOk(s)
  /\ "vread" \notin Faults /\ VerifyData(s) = "good" => Exact(s)

\* The faults under which an image that is not Trusted can be started.
CfgFaults == {"set_cfg", "load"}

\* Whatever fails, and however often, an update never destroys the last
\* application bl_load_bin can load.
SomeAppLoads == \E s \in Seqs : AppOk(s)

\* At every instant, in the middle of an erase, a download, a write or an
\* update of the image_cfg_t, a power failure makes the bootloader start a
\* complete image, although it checks the application section only.
BootsTrusted == AppOk(BootTarget) /\ Trusted(BootTarget)

\* An update never erases or programs the sequence the application runs from,
\* nor the one the bootloader would start (ota_update_seq_policy).
BootTargetUntouched ==
  [][/\ mode = "app" => slot'[running] = slot[running]
     /\ otaOn => slot'[BootTarget] = slot[BootTarget]]_vars

\* The promise of SafeUpdate, with the bootloader's choice as its next slot.
Promise ==
  INSTANCE SafeUpdate WITH
    Slots <- Seqs, Off <- N,
    sound <- {s \in Seqs : Trusted(s)},
    next  <- BootTarget,
    run   <- IF mode = "app" THEN running ELSE N

KeepsPromise == Promise!Spec

\* The sequences the loop of bl_load_bin has left behind.
Tried == {(loadSeq + N - i) % N : i \in 1 .. tries}

\* A read of the flash failed on a sequence that loads, and it was passed over,
\* or on the image header, and none was tried.
PassedOver ==
  /\ "load" \in Faults
  /\ \/ mode = "boot" /\ pc = "try" /\ \E s \in Tried : AppOk(s)
     \/ mode = "upgrade" /\ ~otaOn /\ AppOk(running)
     \/ mode = "upgrade" /\ otaOn /\ (tries = 0 \/ \E s \in Tried : AppOk(s))

\* Once the power stays on, the bootloader starts an application, whichever
\* slot it begins with, unless a read fails on a sequence that would load.
BootStarts ==
  <>[][~PowerCycle]_vars => (mode = "boot" ~> mode = "app" \/ PassedOver)

\* An update that is started ends: with an error, or with a reset.
UpdateEnds == InApp("erase") ~> (InApp("idle") \/ mode = "boot")

\* An update that meets no fault takes effect: the device comes up with the
\* sequence the update went to.
UpdateTakesEffect ==
  \A s \in Seqs : (InApp("erase") /\ Target = s) ~> (mode = "app" /\ running = s)

\* A complete image, with its verify data or without, whose end is noticed: it
\* carries its length, fills img_max_size, or ends with a short read.
Whole(f) ==
  LET size == f.len - BlSize
  IN  /\ size \in {SecLen, SecLen + 1}
      /\ \/ f.proto = "length"
         \/ size = MaxSize
         \/ f.proto = "file" /\ \A i \in 0 .. size : size # i * BufSize

\* A sound image file is not given up (ota_get_image "OTA_STATUS_OK on success").
SoundFileAccepted == [][mode = "app" /\ pc # "idle" => pc' # "idle"]_vars
=============================================================================
