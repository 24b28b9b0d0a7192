----------------------------- MODULE OtaUpdate ------------------------------
(***************************************************************************)
(* src/ota and its caller project/common/cmd/cmd_ota.c: one update, from   *)
(* the console command to the reboot.  ota_get_image erases the target     *)
(* sequence, downloads over it and checks the sections; the verify data    *)
(* behind the last section selects the digest ota_verify_image checks;     *)
(* image_set_cfg then makes the bootloader try the new sequence first.     *)
(***************************************************************************)
EXTENDS OtaFlash

InApp(at) == mode = "app" /\ pc = at

\* The command gives up; ota_priv keeps what it has.
GiveUp ==
  /\ pc' = "idle"
  /\ left' = 0 /\ buf' = <<>> /\ eof' = FALSE /\ ret' = FALSE /\ pos' = 0
  /\ vtype' = "none"
  /\ UNCHANGED <<src, getSize>>

Smaller(a, b) == IF a < b THEN a ELSE b

\* ota_get_image, ota_init, ota_get_update_seq: with no OTA area the update
\* sequence is invalid and the command ends at once.
StartUpdate ==
  /\ InApp("idle") /\ otaOn
  /\ src' \in Files
  /\ getSize' = 0
  /\ pos' = 0
  /\ left' = MaxSize
  /\ pc' = "erase"
  /\ UNCHANGED <<flashVars, mode, running, bootVars, buf, eof, ret, vtype>>

\* flash_erase(flash, addr, img_max_size), unit by unit: a unit being erased
\* holds neither its old bytes nor ones.
EraseUnit ==
  /\ InApp("erase")
  /\ \E u \in Units :
       /\ slot[Target][u] # "erased"
       /\ slot' = [slot EXCEPT ![Target][u] =
                     IF @ = "bad" THEN "erased" ELSE "bad"]
  /\ UNCHANGED <<cfg, otaOn, mode, pc, running, bootVars, otaVars>>

EraseDone ==
  /\ InApp("erase") /\ \A u \in Units : slot[Target][u] = "erased"
  /\ pc' = "init"
  /\ UNCHANGED <<flashVars, mode, running, bootVars, otaVars>>

EraseFails ==
  /\ InApp("erase") /\ "erase" \in Faults
  /\ GiveUp
  /\ UNCHANGED <<flashVars, mode, running, bootVars>>

\* ota_malloc and init_cb (ota_update_file_init, ota_update_http_init).
InitSource ==
  /\ InApp("init")
  /\ \/ pc' = "skip" /\ getSize' = 0
        /\ UNCHANGED <<src, pos, left, buf, eof, ret, vtype>>
     \/ "init" \in Faults /\ GiveUp
  /\ UNCHANGED <<flashVars, mode, running, bootVars>>

(***************************************************************************)
(* What one get_cb for at most n units returns: <<recv_size, eof_flag>>.   *)
(* A file read is short only at the end of the file, and only a short read *)
(* is the end.  A HTTP body with a Content-Length ends with the read that  *)
(* completes it, a chunked one with a further read of nothing.             *)
(***************************************************************************)
FileRead(n) == LET k == Smaller(n, src.len - getSize) IN {<<k, k < n>>}

HttpRead(n) ==
  LET rest == src.len - getSize
  IN  {r \in (0 .. Smaller(n, rest)) \X BOOLEAN :
         /\ src.proto = "length"  => r[1] > 0 /\ r[2] = (r[1] = rest)
         /\ src.proto = "chunked" => (r[1] = 0 <=> rest = 0) /\ r[2] = (rest = 0)}

Received(n) == IF src.proto = "file" THEN FileRead(n) ELSE HttpRead(n)

\* The peer closing early is an end with nothing; a select error is nothing at all.
Interrupted ==
  {r \in {0} \X BOOLEAN : /\ src.proto # "file"
                          /\ (IF r[2] THEN "close" ELSE "select") \in Faults}

\* Mutant: the end of the file is not noticed while skipping.
SkipIgnoresEof ==
  /\ InApp("skip") /\ getSize < BlSize
  /\ \E r \in Received(Smaller(BlSize - getSize, BufSize)) \cup Interrupted :
       getSize' = getSize + r[1]
  /\ UNCHANGED <<flashVars, mode, running, bootVars, pc, src, pos, left, buf, eof, ret, vtype>>

\* One turn of the loop that skips the bootloader of the image file.
SkipBootloader ==
  /\ InApp("skip") /\ getSize < BlSize
  /\ \E r \in Received(Smaller(BlSize - getSize, BufSize)) \cup Interrupted :
       \/ /\ ~r[2]
          /\ getSize' = getSize + r[1]
          /\ UNCHANGED <<pc, src, pos, left, buf, eof, ret, vtype>>
       \/ r[2] /\ GiveUp
  /\ UNCHANGED <<flashVars, mode, running, bootVars>>

\* The loop ends and HAL_Flash_Open opens the target's flash.
OpenTarget ==
  /\ InApp("skip") /\ getSize >= BlSize
  /\ \/ pc' = "get" /\ UNCHANGED otaVars
     \/ "open" \in Faults /\ GiveUp
  /\ UNCHANGED <<flashVars, mode, running, bootVars>>

\* A turn of the loop that loads the image: get_cb into ota_buf.
GetData ==
  /\ InApp("get") /\ left > 0
  /\ \E r \in Received(Smaller(left, BufSize)) \cup Interrupted :
       /\ buf' \in [1 .. r[1] -> {"good"} \cup Damage]
       /\ eof' = r[2]
       /\ left' = left - r[1]
       /\ getSize' = getSize + r[1]
  /\ pc' = "write"
  /\ UNCHANGED <<flashVars, mode, running, bootVars, src, pos, ret, vtype>>

\* get_cb fails: while skipping the command ends, while loading the loop breaks.
GetFails ==
  /\ "get" \in Faults
  /\ \/ InApp("skip") /\ getSize < BlSize /\ GiveUp
     \/ InApp("get") /\ left > 0 /\ pc' = "loaded" /\ UNCHANGED otaVars
  /\ UNCHANGED <<flashVars, mode, running, bootVars>>

(***************************************************************************)
(* The target after the first k units of ota_buf are programmed at addr.   *)
(* Programming clears bits only, so a unit that is not erased is damaged,  *)
(* as is one that gets the bytes of another place of the image.            *)
(***************************************************************************)
Programmed(k) ==
  [u \in Units |->
     IF u \notin pos + 1 .. pos + k THEN slot[Target][u]
     ELSE IF slot[Target][u] = "erased" /\ getSize - BlSize - Len(buf) = pos
          THEN buf[u - pos] ELSE "bad"]

\* The same, the last of the k units torn.
Torn(k) == [Programmed(k) EXCEPT ![pos + k] = "bad"]

\* Mutant: addr advances by the buffer size, not by what was received.
WriteAdvancesTooFar ==
  /\ InApp("write") /\ Len(buf) > 0
  /\ slot' = [slot EXCEPT ![Target] = Programmed(Len(buf))]
  /\ pos' = pos + BufSize
  /\ ret' = eof
  /\ pc' = IF eof \/ left = 0 THEN "loaded" ELSE "get"
  /\ UNCHANGED <<cfg, otaOn, mode, running, bootVars, src, getSize, left, buf, eof, vtype>>

\* HAL_Flash_Write accepts the buffer.  The error of a page that is not the
\* last is overwritten by the next page's status ("page").
WriteData ==
  /\ InApp("write") /\ Len(buf) > 0
  /\ \/ slot' = [slot EXCEPT ![Target] = Programmed(Len(buf))]
     \/ /\ "page" \in Faults
        /\ \E u \in pos + 1 .. pos + Len(buf) :
             slot' = [slot EXCEPT ![Target] = [Programmed(Len(buf)) EXCEPT ![u] = "bad"]]
  /\ pos' = pos + Len(buf)
  /\ ret' = eof
  /\ pc' = IF eof \/ left = 0 THEN "loaded" ELSE "get"
  /\ UNCHANGED <<cfg, otaOn, mode, running, bootVars, src, getSize, left, buf, eof, vtype>>

\* HAL_Flash_Write refuses a size of 0, or stops at a page it cannot program.
WriteFails ==
  /\ InApp("write")
  /\ \/ Len(buf) = 0 /\ UNCHANGED slot
     \/ /\ "write" \in Faults
        /\ \E k \in 1 .. Len(buf) : slot' = [slot EXCEPT ![Target] = Torn(k)]
  /\ pc' = "loaded"
  /\ UNCHANGED <<cfg, otaOn, mode, running, bootVars, otaVars>>

\* Mutant: what was downloaded is used without image_check_sections.
CheckNothing ==
  /\ InApp("loaded")
  /\ pc' = "verify_data"
  /\ buf' = <<>> /\ eof' = FALSE /\ ret' = FALSE /\ left' = 0 /\ pos' = 0
  /\ UNCHANGED <<src, getSize, vtype, flashVars, mode, running, bootVars>>

\* After the loop: a failed download is given up unless img_max_size is used
\* up; image_check_sections decides about the rest.
CheckImage ==
  /\ InApp("loaded")
  /\ \/ /\ ret \/ left = 0
        /\ SectionsOk(Target)
        /\ pc' = "verify_data"
        /\ buf' = <<>> /\ eof' = FALSE /\ ret' = FALSE /\ left' = 0 /\ pos' = 0
        /\ UNCHANGED <<src, getSize, vtype>>
     \/ ~((ret \/ left = 0) /\ SectionsOk(Target)) /\ GiveUp
  /\ UNCHANGED <<flashVars, mode, running, bootVars>>

\* ota_get_verify_data; when it finds no verify data or cannot read it, cmd_ota
\* verifies with OTA_VERIFY_NONE, which a damaged ov_type may also say.
GetVerifyData ==
  /\ InApp("verify_data")
  /\ \/ vtype' = "digest" /\ VerifyData(Target) \in {"good", "weak"}
     \/ vtype' = "none" /\ (VerifyData(Target) # "good" \/ "vread" \in Faults)
  /\ pc' = "verify"
  /\ UNCHANGED <<flashVars, mode, running, bootVars, src, getSize, pos, left, buf, eof, ret>>

\* Mutant: the size of the verify data is not taken off.
DigestOverVerifyData ==
  /\ getSize - BlSize = SecLen
  /\ Exact(Target)
  /\ VerifyData(Target) = "good"

\* The digest over get_size - bl_size - sizeof(ota_verify_data_t) bytes of the
\* target equals the one in the verify data.
DigestMatches ==
  /\ getSize - BlSize - 1 = SecLen
  /\ Exact(Target)
  /\ VerifyData(Target) = "good"

\* Mutant: the digests are not compared.
VerifyAnything ==
  /\ InApp("verify") /\ getSize # 0
  /\ pc' = "set_cfg"
  /\ UNCHANGED <<flashVars, mode, running, bootVars, otaVars>>

\* ota_verify_image up to image_set_cfg.
VerifyImage ==
  /\ InApp("verify") /\ getSize # 0
  /\ \/ vtype = "none" \/ DigestMatches
  /\ pc' = "set_cfg"
  /\ UNCHANGED <<flashVars, mode, running, bootVars, otaVars>>

VerifyFails ==
  /\ InApp("verify")
  /\ getSize = 0 \/ (vtype = "digest" /\ (~DigestMatches \/ "read" \in Faults))
  /\ GiveUp
  /\ UNCHANGED <<flashVars, mode, running, bootVars>>

\* image_set_cfg, called by ota_verify_image: erase the record, then write it.
EraseCfg ==
  /\ InApp("set_cfg")
  /\ cfg' = N
  /\ pc' = "write_cfg"
  /\ UNCHANGED <<slot, otaOn, mode, running, bootVars, otaVars>>

\* Mutant: the running sequence is configured instead of the updated one.
WriteCfgRunning ==
  /\ InApp("write_cfg")
  /\ cfg' = running
  /\ pc' = "reboot"
  /\ UNCHANGED <<slot, otaOn, mode, running, bootVars, otaVars>>

WriteCfg ==
  /\ InApp("write_cfg")
  /\ cfg' = Target
  /\ pc' = "reboot"
  /\ UNCHANGED <<slot, otaOn, mode, running, bootVars, otaVars>>

CfgFails ==
  /\ mode = "app" /\ pc \in {"set_cfg", "write_cfg"} /\ "set_cfg" \in Faults
  /\ GiveUp
  /\ UNCHANGED <<flashVars, mode, running, bootVars>>

\* ota_reboot.
Reboot ==
  /\ InApp("reboot")
  /\ Reset
  /\ UNCHANGED flashVars

\* The steps of an update, and those that only a fault allows.
OtaWork == \/ EraseUnit \/ EraseDone \/ InitSource
           \/ SkipBootloader \/ OpenTarget \/ GetData
           \/ WriteData \/ WriteFails \/ CheckImage \/ GetVerifyData
           \/ VerifyImage \/ VerifyFails \/ EraseCfg \/ WriteCfg \/ Reboot

OtaFault == EraseFails \/ GetFails \/ CfgFails

OtaStep == OtaWork \/ OtaFault

OtaNext == StartUpdate \/ OtaStep
=============================================================================
