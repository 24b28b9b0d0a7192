--------------------------- MODULE OtaUpdate_proofs ---------------------------
(***************************************************************************)
(* Theorems about one update, for every size and every download: a sound   *)
(* one is never given up, each one ends after a bounded number of steps,   *)
(* and what was accepted is what the bootloader starts.                    *)
(***************************************************************************)
EXTENDS OtaSystem_proofs, FiniteSets, FiniteSetTheorems

-----------------------------------------------------------------------------
(***************************************************************************)
(* What an update with a sound download knows at each of its steps.        *)
(***************************************************************************)
Size == src.len - BlSize

\* The target holds the first k units of the image and is erased behind them.
Filled(k) == \A u \in Units : slot[Target][u] = IF u <= k THEN "good" ELSE "erased"

\* A file has been read in whole buffers so far.
Aligned(k) == src.proto = "file" => \E i \in 0 .. k : k = i * BufSize

Downloading ==
  mode = "app" =>
    /\ pc # "idle" => src \in Files
    /\ pc \in {"erase", "init"} => getSize = 0
    /\ pc = "init" => Filled(0)
    /\ pc = "skip" => Filled(0) /\ getSize <= BlSize
    /\ pc = "get" => /\ getSize = BlSize + pos /\ Filled(pos)
                     /\ pos < Size /\ left > 0 /\ Aligned(pos)
    /\ pc = "write" =>
         /\ Len(buf) > 0 /\ \A i \in 1 .. Len(buf) : buf[i] = "good"
         /\ getSize = BlSize + pos + Len(buf) /\ Filled(pos)
         /\ eof \/ left = 0 => pos + Len(buf) = Size
         /\ ~eof /\ left # 0 => pos + Len(buf) < Size /\ Aligned(pos + Len(buf))
    /\ pc = "loaded" => ret \/ left = 0
    /\ pc \in {"loaded", "verify_data", "verify"} => Filled(Size) /\ getSize = src.len
    /\ pc = "verify" /\ vtype = "digest" => Size = SecLen + 1
    /\ pc \in {"set_cfg", "write_cfg", "reboot"} => Exact(Target)

DInv == TInv /\ Downloading
\* The assumption: of the faults only those that end no update by themselves (the
\* power, a read of the bootloader, a read of the verify data) happen, nothing is
\* damaged on the way, and every download is whole.
Undisturbed ==
  /\ Faults \subseteq {"power", "load", "vread"}
  /\ Damage = {}
  /\ \A f \in Files : Whole(f)

-----------------------------------------------------------------------------
(* One read *)

\* A download is longer than the bootloader in front of it.
LEMMA SizeIs ==
  ASSUME Undisturbed, src \in Files
  PROVE  /\ src.len \in Nat /\ src.proto \in {"file", "length", "chunked"}
         /\ Size \in {SecLen, SecLen + 1} /\ Size \in Nat /\ Size > 0 /\ Size <= MaxSize
         /\ src.len = BlSize + Size
         /\ src.proto = "chunked" => Size = MaxSize
         /\ src.proto = "file" => Size = MaxSize \/ \A i \in 0 .. Size : Size # i * BufSize
<1>1. src.len \in Nat /\ src.proto \in {"file", "length", "chunked"} /\ Whole(src)
  BY EnvironmentAssumption DEF Undisturbed
<1> QED BY <1>1, SizesAssumption DEF Whole, Size

LEMMA NoInterruption == Undisturbed => Interrupted = {}
BY DEF Undisturbed, Interrupted

\* A read that leaves more than it asks for is neither short nor the last.
LEMMA FullRead ==
  ASSUME TInv, Undisturbed, src \in Files, NEW n \in Nat \ {0}, n < src.len - getSize,
         NEW r \in Received(n)
  PROVE  ~r[2] /\ r[1] \in 0 .. n /\ (src.proto = "file" => r[1] = n)
                      /\ r[1] > 0
<1>0. src.len \in Nat /\ getSize \in Nat /\ src.proto \in {"file", "length", "chunked"}
  BY SizeIs DEF TInv, TypeOK
<1>1. Smaller(n, src.len - getSize) = n
  BY <1>0 DEF Smaller
<1>2. CASE src.proto = "file"
  <2>1. r = <<n, n < n>>
    BY <1>1, <1>2 DEF Received, FileRead
  <2>2. r[1] = n /\ r[2] = (n < n)
    BY <2>1
  <2>3. ~(n < n) /\ n > 0
    OBVIOUS
  <2>4. ~r[2]
    BY <2>2, <2>3, Zenon
  <2>5. r[1] = n /\ r[1] \in 0 .. n /\ r[1] > 0
    BY <2>2, <2>3
  <2> QED BY <2>4, <2>5
<1>3. CASE src.proto # "file"
  <2>1. /\ r[1] \in 0 .. n /\ r[2] \in BOOLEAN
        /\ src.proto = "length" => r[1] > 0 /\ r[2] = (r[1] = src.len - getSize)
        /\ src.proto = "chunked" => (r[1] = 0 <=> src.len - getSize = 0)
                                    /\ r[2] = (src.len - getSize = 0)
    BY <1>1, <1>3 DEF Received, HttpRead
  <2> QED BY <1>0, <1>3, <2>1
<1> QED BY <1>2, <1>3

\* A read into ota_buf: it receives something, and its end is the end of the
\* image or of img_max_size.
LEMMA DataRead ==
  ASSUME DInv, Undisturbed, InApp("get"),
         NEW r \in Received(Smaller(left, BufSize))
  PROVE  /\ r[1] \in 1 .. Smaller(left, BufSize) /\ r[2] \in BOOLEAN
         /\ pos + r[1] <= Size
         /\ r[2] \/ left - r[1] = 0 => pos + r[1] = Size
         /\ ~r[2] /\ left - r[1] # 0 => pos + r[1] < Size /\ Aligned(pos + r[1])
<1> DEFINE n == Smaller(left, BufSize)
           rest == src.len - getSize
<1>0. /\ src \in Files /\ getSize = BlSize + pos /\ pos < Size /\ left > 0 /\ Aligned(pos)
      /\ pos + left = MaxSize
  BY DEF DInv, Downloading, TInv, Counters, InApp
<1>1. /\ pos \in Nat /\ left \in Nat /\ getSize \in Nat /\ rest = Size - pos /\ rest \in Nat \ {0}
      /\ rest <= left /\ BufSize \in Nat \ {0} /\ BlSize \in Nat
  BY <1>0, SizeIs, SizesAssumption DEF DInv, TInv, TypeOK
<1>2. n \in Nat \ {0} /\ n <= left /\ n <= BufSize /\ (n = left \/ n = BufSize)
  BY <1>0, <1>1 DEF Smaller
<1>3. Smaller(n, rest) \in 1 .. n /\ Smaller(n, rest) <= rest
      /\ (Smaller(n, rest) = n \/ Smaller(n, rest) = rest)
  BY <1>1, <1>2 DEF Smaller
<1>4. src.proto \in {"file", "length", "chunked"} /\ Size \in Nat
      /\ (src.proto = "chunked" => Size = MaxSize)
      /\ (src.proto = "file" => Size = MaxSize \/ \A i \in 0 .. Size : Size # i * BufSize)
  BY <1>0, SizeIs
<1> HIDE DEF n, rest
<1>5. CASE src.proto = "file"
  <2> DEFINE k == Smaller(n, rest)
  <2>1. r = <<k, k < n>>
    BY <1>5 DEF Received, FileRead, n, rest
  <2> HIDE DEF k
  <2>2. r[1] = k /\ r[2] = (k < n) /\ k \in 1 .. n /\ k <= rest /\ (k = n \/ k = rest)
    BY <2>1, <1>3 DEF k
  <2>3. pos + k <= Size /\ (k < n => pos + k = Size) /\ (left - k = 0 => pos + k = Size)
    BY <1>1, <1>2, <1>4, <2>2
  <2>4. ASSUME ~(k < n), left - k # 0 PROVE pos + k < Size /\ Aligned(pos + k)
    <3>1. k = BufSize
      BY <1>1, <1>2, <2>2, <2>4
    <3>2. PICK i \in 0 .. pos : pos = i * BufSize
      BY <1>0, <1>5 DEF Aligned
    <3>3. pos + k = (i + 1) * BufSize /\ i + 1 \in 0 .. pos + k
      BY <1>1, <3>1, <3>2
    <3>4. Aligned(pos + k)
      BY <3>3 DEF Aligned
    <3>5. pos + k # Size
      <4>1. CASE Size = MaxSize
        BY <1>0, <1>1, <2>2, <2>4, <4>1
      <4>2. CASE \A j \in 0 .. Size : Size # j * BufSize
        BY <3>3, <4>2
      <4> QED BY <1>4, <1>5, <4>1, <4>2
    <3> QED BY <1>1, <1>4, <2>2, <2>3, <3>4, <3>5
  <2>5. r[1] \in 1 .. n /\ (r[2] => pos + r[1] = Size)
    BY <2>2, <2>3
  <2>8. (k < n) \in BOOLEAN
    OBVIOUS
  <2>9. r[2] \in BOOLEAN
    BY <2>2, <2>8, Zenon
  <2>6. ~r[2] /\ left - r[1] # 0 => pos + r[1] < Size /\ Aligned(pos + r[1])
    BY <2>2, <2>4
  <2>7. pos + r[1] <= Size /\ (left - r[1] = 0 => pos + r[1] = Size)
    BY <2>2, <2>3
  <2> QED BY <2>5, <2>6, <2>7, <2>9 DEF n
<1>6. CASE src.proto # "file"
  <2>1. /\ r[1] \in 0 .. Smaller(n, rest) /\ r[2] \in BOOLEAN
        /\ src.proto = "length" => r[1] > 0 /\ r[2] = (r[1] = rest)
        /\ src.proto = "chunked" => (r[1] = 0 <=> rest = 0) /\ r[2] = (rest = 0)
    BY <1>6 DEF Received, HttpRead, n, rest
  <2>2. r[1] \in 1 .. n /\ r[1] <= rest
    BY <1>1, <1>2, <1>3, <1>4, <1>6, <2>1
  <2>3. Aligned(pos + r[1])
    BY <1>6 DEF Aligned
  <2> QED BY <1>0, <1>1, <1>2, <1>4, <1>6, <2>1, <2>2, <2>3 DEF n
<1> QED BY <1>5, <1>6

-----------------------------------------------------------------------------
(* A sound download is not given up *)

\* A device starts in the bootloader.
LEMMA DInvInit == Init => DInv
BY TInvInit DEF DInv, Downloading, Init

\* Where the flash and the running sequence stay, so does what the target holds.
LEMMA TargetKept ==
  ASSUME UNCHANGED <<slot, running>>
  PROVE  Target' = Target /\ slot'[Target'] = slot[Target]
BY DEF Target

\* Programming the buffer behind the units there are extends the image by it.
LEMMA WriteFills ==
  ASSUME DInv, Undisturbed, WriteData
  PROVE  Filled(pos)' /\ pos' = pos + Len(buf)
<1> DEFINE k == Len(buf)
<1>0. /\ Filled(pos) /\ getSize - BlSize - k = pos /\ \A i \in 1 .. k : buf[i] = "good"
      /\ pos \in Nat /\ k \in Nat /\ pos' = pos + k /\ running' = running
  BY SizesAssumption DEF DInv, Downloading, TInv, TypeOK, InApp, WriteData
<1>1. slot \in [Seqs -> [Units -> Contents]] /\ Target \in Seqs /\ Target' = Target
  BY <1>0, PolicyType DEF DInv, TInv, TypeOK, Target
<1>2. slot' = [slot EXCEPT ![Target] = Programmed(k)]
  BY DEF WriteData, Undisturbed
<1>3. slot'[Target'] = Programmed(k)
  BY <1>1, <1>2
<1>4. ASSUME NEW u \in Units
      PROVE  Programmed(k)[u] = IF u <= pos + k THEN "good" ELSE "erased"
  <2>0. u \in Nat \ {0} /\ slot[Target][u] = IF u <= pos THEN "good" ELSE "erased"
    BY <1>0 DEF Units, Filled
  <2>1. CASE u <= pos
    BY <1>0, <2>0, <2>1 DEF Programmed
  <2>2. CASE u > pos /\ u <= pos + k
    <3>1. u \in pos + 1 .. pos + k /\ u - pos \in 1 .. k /\ slot[Target][u] = "erased"
      BY <1>0, <2>0, <2>2
    <3>2. Programmed(k)[u] = buf[u - pos]
      BY <1>0, <3>1 DEF Programmed
    <3> QED BY <1>0, <2>2, <3>1, <3>2
  <2>3. CASE u > pos + k
    BY <1>0, <2>0, <2>3 DEF Programmed
  <2> QED BY <1>0, <2>0, <2>1, <2>2, <2>3
<1> QED BY <1>0, <1>3, <1>4 DEF Filled

\* The image, once complete in the target, passes its checksums and is the author's.
LEMMA FilledIs ==
  ASSUME Undisturbed, src \in Files, Filled(Size)
  PROVE  /\ SectionsOk(Target) /\ Exact(Target)
         /\ VerifyData(Target) \in {"good", "weak"} => Size = SecLen + 1
         /\ Size = SecLen + 1 => VerifyData(Target) = "good"
<1>1. /\ Size \in {SecLen, SecLen + 1} /\ SecLen \in Nat /\ SecLen + 1 \in Units
      /\ 1 .. SecLen \subseteq Units
  BY SizeIs, SizesAssumption DEF Units
<1>2. \A u \in 1 .. SecLen : slot[Target][u] = "good"
  BY <1>1 DEF Filled
<1>3. slot[Target][SecLen + 1] = IF SecLen + 1 <= Size THEN "good" ELSE "erased"
  BY <1>1 DEF Filled
<1> QED BY <1>1, <1>2, <1>3 DEF SectionsOk, Passes, Exact, VerifyData

\* No step of an update gives up a sound download, nor loses what is known of it.
LEMMA DownloadStep ==
  ASSUME Undisturbed, DInv, OtaStep
  PROVE  Downloading' /\ pc' # "idle"
<1> USE DEF InApp
<1>0. /\ mode = "app" /\ pc # "idle" /\ src \in Files /\ Downloading
      /\ \A f \in FaultKinds : f \notin {"power", "load", "vread"} => f \notin Faults
  BY DEF DInv, Downloading, Undisturbed, OtaStep, OtaWork, OtaFault, EraseUnit, EraseDone,
         InitSource, SkipBootloader, OpenTarget, GetData, WriteData, WriteFails, CheckImage,
         GetVerifyData, VerifyImage, VerifyFails, EraseCfg, WriteCfg, Reboot, EraseFails,
         GetFails, CfgFails
<1>1. /\ src.len \in Nat /\ Size \in Nat /\ Size > 0 /\ src.len = BlSize + Size
      /\ BlSize \in Nat \ {0} /\ BufSize \in Nat \ {0} /\ MaxSize \in Nat
      /\ getSize \in Nat /\ pos \in Nat /\ left \in Nat
  BY <1>0, SizeIs, SizesAssumption DEF DInv, TInv, TypeOK
<1>2. CASE EraseUnit
  BY <1>0, <1>2 DEF EraseUnit, Downloading, otaVars
<1>3. CASE EraseDone
  <2>1. Filled(0)'
    BY <1>3, TargetKept DEF EraseDone, Filled, Units, flashVars
  <2> QED BY <1>0, <1>3, <2>1 DEF EraseDone, Downloading, otaVars
<1>4. CASE InitSource
  <2>1. pc = "init" /\ pc' = "skip" /\ getSize' = 0 /\ src' = src /\ UNCHANGED <<slot, running>>
    BY <1>0, <1>4 DEF InitSource, FaultKinds, flashVars
  <2>2. Filled(0)'
    BY <1>0, <2>1, TargetKept DEF Downloading, Filled
  <2> QED BY <1>0, <1>1, <2>1, <2>2 DEF Downloading
<1>5. CASE SkipBootloader
  <2> DEFINE n == Smaller(BlSize - getSize, BufSize)
  <2>0. getSize < BlSize /\ pc = "skip" /\ UNCHANGED <<slot, running, mode>> /\ Filled(0)
    BY <1>0, <1>5 DEF SkipBootloader, Downloading, flashVars
  <2>1. n \in Nat \ {0} /\ n <= BlSize - getSize /\ n < src.len - getSize
    BY <1>1, <2>0 DEF Smaller
  <2> HIDE DEF n
  <2>2. PICK r \in Received(n) : /\ r[2] \/ (getSize' = getSize + r[1] /\ UNCHANGED <<pc, src>>)
    BY <1>5, NoInterruption DEF SkipBootloader, n
  <2>3. ~r[2] /\ r[1] \in 0 .. n
    BY <1>0, <2>1, <2>2, FullRead DEF DInv
  <2>4. getSize' \in Nat /\ getSize' <= BlSize /\ pc' = "skip" /\ src' = src
    BY <1>1, <2>0, <2>1, <2>2, <2>3
  <2>5. Filled(0)'
    BY <2>0, TargetKept DEF Filled
  <2> QED BY <1>0, <2>4, <2>5 DEF Downloading
<1>6. CASE OpenTarget
  <2>1. pc = "skip" /\ pc' = "get" /\ getSize >= BlSize /\ UNCHANGED otaVars /\ UNCHANGED <<slot, running>>
    BY <1>0, <1>6 DEF OpenTarget, FaultKinds, flashVars
  <2>2. getSize <= BlSize /\ Filled(0) /\ pos = 0 /\ left = MaxSize
    BY <1>0, <2>1 DEF Downloading, DInv, TInv, Counters
  <2>3. Filled(pos)'
    BY <2>1, <2>2, TargetKept DEF Filled, otaVars
  <2>4. pos < Size /\ left > 0 /\ Aligned(pos)
    BY <1>1, <2>2, SizesAssumption DEF Aligned
  <2> QED BY <1>0, <1>1, <2>1, <2>2, <2>3, <2>4 DEF Downloading, otaVars, Size, Aligned
<1>7. CASE GetData
  <2>0. pc = "get" /\ pc' = "write" /\ UNCHANGED <<slot, running, mode, src, pos>>
    BY <1>7 DEF GetData, flashVars
  <2>1. /\ getSize = BlSize + pos /\ Filled(pos)
    BY <1>0, <2>0 DEF Downloading
  <2>2. PICK r \in Received(Smaller(left, BufSize)) :
           /\ buf' \in [1 .. r[1] -> {"good"} \cup Damage]
           /\ eof' = r[2] /\ left' = left - r[1] /\ getSize' = getSize + r[1]
    BY <1>7, NoInterruption DEF GetData
  <2>3. /\ r[1] \in 1 .. Smaller(left, BufSize) /\ r[2] \in BOOLEAN
        /\ r[2] \/ left - r[1] = 0 => pos + r[1] = Size
        /\ ~r[2] /\ left - r[1] # 0 => pos + r[1] < Size /\ Aligned(pos + r[1])
    BY <1>0, <2>0, DataRead
  <2>4. r[1] \in Nat \ {0}
    BY <1>1, <2>3 DEF Smaller
  <2>5. Len(buf') = r[1] /\ \A i \in 1 .. Len(buf') : buf'[i] = "good"
    <3>1. buf' \in [1 .. r[1] -> {"good"}]
      BY <2>2 DEF Undisturbed
    <3> QED BY <2>4, <3>1, BufType
  <2>6. Filled(pos)'
    BY <2>0, <2>1, TargetKept DEF Filled
  <2>7. Size' = Size /\ \A k \in Nat : Aligned(k)' <=> Aligned(k)
    BY <2>0 DEF Size, Aligned
  <2>8. getSize' = BlSize + pos' + Len(buf') /\ Len(buf') > 0
    BY <1>1, <2>0, <2>1, <2>2, <2>4, <2>5
  <2>9. eof' \/ left' = 0 => pos' + Len(buf') = Size'
    BY <2>0, <2>2, <2>3, <2>5, <2>7
  <2>10. ~eof' /\ left' # 0 => pos' + Len(buf') < Size' /\ Aligned(pos + Len(buf))'
    BY <2>0, <2>2, <2>3, <2>5, <2>7 DEF Aligned
  <2> QED BY <1>0, <2>0, <2>5, <2>6, <2>8, <2>9, <2>10 DEF Downloading
<1>8. CASE WriteData
  <2>0. /\ pc = "write" /\ pc' = (IF eof \/ left = 0 THEN "loaded" ELSE "get") /\ ret' = eof
        /\ UNCHANGED <<src, getSize, left, buf, running>>
    BY <1>8 DEF WriteData
  <2>1. /\ getSize = BlSize + pos + Len(buf)
        /\ eof \/ left = 0 => pos + Len(buf) = Size
        /\ ~eof /\ left # 0 => pos + Len(buf) < Size /\ Aligned(pos + Len(buf))
    BY <1>0, <2>0 DEF Downloading
  <2>2. Filled(pos)' /\ pos' = pos + Len(buf) /\ Size' = Size /\ Len(buf) \in Nat
    BY <1>8, <2>0, WriteFills DEF Size, DInv, TInv, TypeOK
  <2>3. CASE eof \/ left = 0
    <3>1. pc' = "loaded" /\ pos' = Size' /\ (ret' \/ left' = 0) /\ getSize' = src'.len
      BY <1>1, <2>0, <2>1, <2>2, <2>3
    <3>2. Filled(Size)'
      BY <2>2, <3>1 DEF Filled
    <3> QED BY <1>0, <2>0, <3>1, <3>2 DEF Downloading
  <2>4. CASE ~(eof \/ left = 0)
    <3>1. pc' = "get" /\ pos' < Size' /\ left' > 0 /\ getSize' = BlSize + pos'
      BY <1>1, <2>0, <2>1, <2>2, <2>4
    <3>2. Aligned(pos)'
      BY <2>0, <2>1, <2>2, <2>4 DEF Aligned
    <3> QED BY <1>0, <2>0, <2>2, <3>1, <3>2 DEF Downloading
  <2> QED BY <2>3, <2>4
<1>9. CASE WriteFails
  <2>1. pc = "write" /\ (Len(buf) = 0 \/ "write" \in Faults)
    BY <1>9 DEF WriteFails
  <2> QED BY <1>0, <2>1 DEF Downloading, FaultKinds
<1>10. CASE CheckImage
  <2>1. pc = "loaded" /\ (ret \/ left = 0) /\ Filled(Size) /\ getSize = src.len
    BY <1>0, <1>10 DEF CheckImage, Downloading
  <2>2. SectionsOk(Target)
    BY <1>0, <2>1, FilledIs
  <2>3. pc' = "verify_data" /\ UNCHANGED <<src, getSize, slot, running>>
    BY <1>10, <2>1, <2>2 DEF CheckImage, flashVars
  <2>4. Filled(Size)'
    BY <2>1, <2>3, TargetKept DEF Filled, Size
  <2> QED BY <1>0, <2>1, <2>3, <2>4 DEF Downloading
<1>11. CASE GetVerifyData
  <2>1. /\ pc = "verify_data" /\ pc' = "verify" /\ Filled(Size) /\ getSize = src.len
        /\ vtype' = "digest" => VerifyData(Target) \in {"good", "weak"}
        /\ UNCHANGED <<src, getSize, slot, running>>
    BY <1>0, <1>11 DEF GetVerifyData, Downloading, flashVars
  <2>2. vtype' = "digest" => Size = SecLen + 1
    BY <1>0, <2>1, FilledIs
  <2>3. Filled(Size)' /\ Size' = Size
    BY <2>1, TargetKept DEF Filled, Size
  <2> QED BY <1>0, <2>1, <2>2, <2>3 DEF Downloading
<1>12. CASE VerifyImage
  <2>1. pc = "verify" /\ pc' = "set_cfg" /\ Filled(Size) /\ UNCHANGED <<src, slot, running>>
    BY <1>0, <1>12 DEF VerifyImage, Downloading, flashVars, otaVars
  <2>2. Exact(Target)
    BY <1>0, <2>1, FilledIs
  <2>3. Exact(Target)'
    BY <2>1, <2>2, TargetKept DEF Exact
  <2> QED BY <1>0, <2>1, <2>3 DEF Downloading
<1>13. CASE VerifyFails
  <2>1. /\ pc = "verify" /\ Filled(Size) /\ getSize = src.len
        /\ vtype = "digest" => Size = SecLen + 1
        /\ getSize = 0 \/ (vtype = "digest" /\ (~DigestMatches \/ "read" \in Faults))
    BY <1>0, <1>13 DEF VerifyFails, Downloading
  <2>2. "read" \notin Faults /\ getSize # 0
    BY <1>0, <1>1, <2>1 DEF FaultKinds
  <2>3. Exact(Target) /\ (Size = SecLen + 1 => VerifyData(Target) = "good")
    BY <1>0, <2>1, FilledIs
  <2>4. Size = SecLen + 1 => getSize - BlSize - 1 = SecLen
    BY <1>1, <2>1, SizesAssumption
  <2> QED BY <2>1, <2>2, <2>3, <2>4 DEF DigestMatches
<1>14. CASE EraseCfg
  <2>1. pc = "set_cfg" /\ pc' = "write_cfg" /\ Exact(Target) /\ UNCHANGED <<src, slot, running>>
    BY <1>0, <1>14 DEF EraseCfg, Downloading, otaVars
  <2>2. Exact(Target)'
    BY <2>1, TargetKept DEF Exact
  <2> QED BY <1>0, <2>1, <2>2 DEF Downloading
<1>15. CASE WriteCfg
  <2>1. pc = "write_cfg" /\ pc' = "reboot" /\ Exact(Target) /\ UNCHANGED <<src, slot, running>>
    BY <1>0, <1>15 DEF WriteCfg, Downloading, otaVars
  <2>2. Exact(Target)'
    BY <2>1, TargetKept DEF Exact
  <2> QED BY <1>0, <2>1, <2>2 DEF Downloading
<1>16. CASE Reboot
  BY <1>16 DEF Reboot, Reset, Downloading
<1>17. CASE OtaFault
  BY <1>0, <1>17 DEF OtaFault, EraseFails, GetFails, CfgFails, FaultKinds
<1> QED
  BY <1>2, <1>3, <1>4, <1>5, <1>6, <1>7, <1>8, <1>9, <1>10, <1>11, <1>12, <1>13, <1>14,
     <1>15, <1>16, <1>17 DEF OtaStep, OtaWork

\* The bootloader, the power and the start of an update leave nothing to know.
LEMMA DInvNext ==
  ASSUME Undisturbed
  PROVE  DInv /\ [Next]_vars => DInv' /\ (mode = "app" /\ pc # "idle" => pc' # "idle")
<1> SUFFICES ASSUME DInv, [Next]_vars
             PROVE  DInv' /\ (mode = "app" /\ pc # "idle" => pc' # "idle")
  OBVIOUS
<1>0. TInv'
  BY TInvNext DEF DInv
<1>1. CASE BootNext
  <2>1. mode # "app" /\ (mode' = "app" => pc' = "idle")
    BY <1>1 DEF BootNext, BlInitFails, BlNoOta, BlReadCfg, BlLoaded, BlNotLoaded, BlEraseCfg, BlWriteCfg,
                BlCfgFails, BlUpgrade, EnterApp
  <2> QED BY <1>0, <2>1 DEF DInv, Downloading
<1>2. CASE StartUpdate
  <2>1. /\ mode = "app" /\ pc = "idle" /\ mode' = "app" /\ pc' = "erase"
        /\ src' \in Files /\ getSize' = 0
    BY <1>2 DEF StartUpdate, InApp
  <2> QED BY <1>0, <2>1 DEF DInv, Downloading
<1>3. CASE OtaStep
  BY <1>0, <1>3, DownloadStep DEF DInv
<1>4. CASE PowerCycle
  BY <1>0, <1>4 DEF PowerCycle, Reset, DInv, Downloading
<1>5. CASE UNCHANGED vars
  <2>1. UNCHANGED <<slot, running, mode, pc>> /\ UNCHANGED otaVars
    BY <1>5 DEF vars, flashVars
  <2>2. Downloading' <=> Downloading
    BY <2>1, TargetKept DEF Downloading, Filled, Aligned, Size, Exact, otaVars
  <2> QED BY <1>0, <2>1, <2>2 DEF DInv
<1> QED BY <1>1, <1>2, <1>3, <1>4, <1>5 DEF Next, OtaNext

\* When nothing disturbs it, an update whose download is a whole image is never
\* given up, whatever the sizes of image, buffer and bootloader and however often
\* the power fails: ota_get_image and ota_verify_image return OTA_STATUS_OK.
THEOREM SoundDownloadAccepted ==
  ASSUME Undisturbed
  PROVE  Spec => SoundFileAccepted
<1>1. DInv /\ [Next]_vars => DInv' /\ (mode = "app" /\ pc # "idle" => pc' # "idle")
  BY DInvNext
<1> QED BY DInvInit, <1>1, PTL DEF Spec, SoundFileAccepted

-----------------------------------------------------------------------------
(***************************************************************************)
(* How far an update and a start of the bootloader are from their ends.    *)
(***************************************************************************)

\* The units flash_erase has not set to ones, and those it has not touched.
ToErase == {u \in Units : slot[Target][u] # "erased"}
ToTouch == {u \in ToErase : slot[Target][u] # "bad"}

\* Steps an update still takes at most.
UpdateRank ==
  CASE pc = "reboot" -> 1
    [] pc = "write_cfg" -> 2
    [] pc = "set_cfg" -> 3
    [] pc = "verify" -> 4
    [] pc = "verify_data" -> 5
    [] pc = "loaded" -> 6
    [] pc = "write" -> IF Len(buf) = 0 THEN 7 ELSE 2 * left + 8
    [] pc = "get" -> 2 * left + 7
    [] pc = "skip" -> 2 * MaxSize + 8 + BlSize - Smaller(getSize, BlSize)
    [] pc = "init" -> 2 * MaxSize + 9 + BlSize
    [] pc = "erase" -> 2 * MaxSize + 10 + BlSize + Cardinality(ToErase) + Cardinality(ToTouch)

MaxSteps == 4 * MaxSize + BlSize + 10

\* Steps the bootloader still takes at most.
BootRank ==
  CASE pc = "write_cfg" -> 1
    [] pc = "set_cfg" -> 2
    [] pc = "try" -> 3 + N - tries
    [] pc = "start" -> 4 + N

UpdateShrinks ==
  [][mode = "app" /\ pc # "idle" => mode' = "boot" \/ pc' = "idle" \/ UpdateRank' < UpdateRank]_vars

BootShrinks == [][mode = "boot" => PowerCycle \/ mode' # "boot" \/ BootRank' < BootRank]_vars

\* The units to erase are finitely many.
LEMMA ErasingType ==
  /\ IsFiniteSet(ToErase) /\ Cardinality(ToErase) \in 0 .. MaxSize
  /\ IsFiniteSet(ToTouch) /\ Cardinality(ToTouch) \in 0 .. MaxSize
<1>1. IsFiniteSet(Units) /\ Cardinality(Units) = MaxSize
  BY FS_Interval, SizesAssumption DEF Units
<1>2. ToErase \subseteq Units /\ ToTouch \subseteq Units
  BY DEF ToErase, ToTouch
<1>3. \A S \in SUBSET Units : IsFiniteSet(S) /\ Cardinality(S) \in 0 .. MaxSize
  BY <1>1, FS_Subset, FS_CardinalityType, SizesAssumption
<1> QED BY <1>2, <1>3

\* The rank is a number of steps.
LEMMA RankType ==
  ASSUME TInv, mode = "app", pc # "idle"
  PROVE  UpdateRank \in 1 .. MaxSteps
<1>1. /\ pc \in AppPcs \ {"idle"} /\ left \in 0 .. MaxSize /\ getSize \in Nat
      /\ MaxSize \in Nat \ {0} /\ BlSize \in Nat \ {0}
      /\ pc = "write" => Len(buf) \in Nat /\ Len(buf) + left <= MaxSize
      /\ pc = "get" => left <= MaxSize
  BY SizesAssumption DEF TInv, TypeOK, BootPcs, Counters
<1>2. BlSize - Smaller(getSize, BlSize) \in 0 .. BlSize
  BY <1>1 DEF Smaller
<1>3. CASE pc \in {"reboot", "write_cfg", "set_cfg", "verify", "verify_data", "loaded"}
  <2>1. UpdateRank \in 1 .. 6
    BY <1>3 DEF UpdateRank
  <2> QED BY <1>1, <2>1 DEF MaxSteps
<1>4. CASE pc = "write"
  <2>1. UpdateRank = IF Len(buf) = 0 THEN 7 ELSE 2 * left + 8
    BY <1>4 DEF UpdateRank
  <2> QED BY <1>1, <1>4, <2>1 DEF MaxSteps
<1>5. CASE pc = "get"
  <2>1. UpdateRank = 2 * left + 7
    BY <1>5 DEF UpdateRank
  <2> QED BY <1>1, <2>1 DEF MaxSteps
<1>6. CASE pc = "skip"
  <2>1. UpdateRank = 2 * MaxSize + 8 + BlSize - Smaller(getSize, BlSize)
    BY <1>6 DEF UpdateRank
  <2> QED BY <1>1, <1>2, <2>1 DEF MaxSteps, Smaller
<1>7. CASE pc = "init"
  <2>1. UpdateRank = 2 * MaxSize + 9 + BlSize
    BY <1>7 DEF UpdateRank
  <2> QED BY <1>1, <2>1 DEF MaxSteps
<1>8. CASE pc = "erase"
  <2>1. UpdateRank = 2 * MaxSize + 10 + BlSize + Cardinality(ToErase) + Cardinality(ToTouch)
    BY <1>8 DEF UpdateRank
  <2> QED BY <1>1, <2>1, ErasingType DEF MaxSteps
<1> QED BY <1>1, <1>3, <1>4, <1>5, <1>6, <1>7, <1>8 DEF AppPcs

\* Erasing a unit touches one more of them, or leaves one less to erase.
LEMMA EraseShrinks ==
  ASSUME TInv, EraseUnit
  PROVE  UpdateRank' < UpdateRank
<1>0. /\ slot \in [Seqs -> [Units -> Contents]] /\ Target \in Seqs /\ Target' = Target
      /\ pc = "erase" /\ pc' = "erase" /\ MaxSize \in Nat /\ BlSize \in Nat
  BY PolicyType, SizesAssumption DEF TInv, TypeOK, Target, EraseUnit, InApp
<1>1. PICK u \in Units :
        /\ slot[Target][u] # "erased"
        /\ slot' = [slot EXCEPT ![Target][u] = IF @ = "bad" THEN "erased" ELSE "bad"]
  BY DEF EraseUnit
<1>2. \A v \in Units : slot'[Target'][v] =
         IF v = u THEN IF slot[Target][u] = "bad" THEN "erased" ELSE "bad"
         ELSE slot[Target][v]
  BY <1>0, <1>1
<1>3. CASE slot[Target][u] = "bad"
  <2>1. ToErase' = ToErase \ {u} /\ u \in ToErase /\ ToTouch' = ToTouch
    BY <1>1, <1>2, <1>3 DEF ToErase, ToTouch
  <2>2. Cardinality(ToErase') = Cardinality(ToErase) - 1
    BY <2>1, ErasingType, FS_RemoveElement
  <2> QED BY <1>0, <2>1, <2>2, ErasingType DEF UpdateRank
<1>4. CASE slot[Target][u] # "bad"
  <2>1. ToErase' = ToErase /\ ToTouch' = ToTouch \ {u} /\ u \in ToTouch
    BY <1>1, <1>2, <1>4 DEF ToErase, ToTouch
  <2>2. Cardinality(ToTouch') = Cardinality(ToTouch) - 1
    BY <2>1, ErasingType, FS_RemoveElement
  <2> QED BY <1>0, <2>1, <2>2, ErasingType DEF UpdateRank
<1> QED BY <1>3, <1>4

\* A step of an update gives it up, resets the device, changes nothing, or
\* leaves fewer steps.
LEMMA StepShrinks ==
  ASSUME TInv, OtaStep
  PROVE  mode' = "boot" \/ pc' = "idle" \/ UpdateRank' < UpdateRank \/ UNCHANGED vars
<1> USE DEF InApp
<1>0. /\ MaxSize \in Nat \ {0} /\ BlSize \in Nat \ {0} /\ BufSize \in Nat \ {0}
      /\ left \in Nat /\ getSize \in Nat /\ Len(buf) \in Nat
      /\ TypeOK
  BY SizesAssumption DEF TInv, TypeOK
<1>1. CASE EraseUnit
  BY <1>1, EraseShrinks
<1>2. CASE EraseDone
  BY <1>0, <1>2, ErasingType DEF EraseDone, UpdateRank
<1>3. CASE InitSource
  <2>1. pc = "init" /\ (pc' = "idle" \/ (pc' = "skip" /\ getSize' = 0))
    BY <1>3 DEF InitSource, GiveUp
  <2> QED BY <1>0, <2>1 DEF UpdateRank, Smaller
<1>4. CASE SkipBootloader
  <2> DEFINE n == Smaller(BlSize - getSize, BufSize)
  <2>0. n \in Nat /\ n <= BlSize - getSize /\ getSize < BlSize /\ pc = "skip"
    BY <1>0, <1>4 DEF SkipBootloader, Smaller
  <2> HIDE DEF n
  <2>1. PICK r \in Received(n) \cup Interrupted :
          \/ pc' = "idle"
          \/ /\ getSize' = getSize + r[1]
             /\ UNCHANGED <<pc, src, pos, left, buf, eof, ret, vtype>>
    BY <1>4 DEF SkipBootloader, GiveUp, n
  <2>2. r[1] \in 0 .. n
    BY <1>0, <2>0, ReceivedType
  <2>3. CASE r[1] = 0
    <3>1. pc' = "idle" \/ (UNCHANGED otaVars /\ pc' = pc)
      BY <1>0, <2>1, <2>3 DEF otaVars
    <3> QED BY <1>4, <3>1 DEF SkipBootloader, vars
  <2>4. CASE r[1] > 0
    <3>1. pc' = "idle" \/ (pc' = "skip" /\ getSize' > getSize /\ getSize' <= BlSize
                           /\ getSize' \in Nat)
      BY <1>0, <2>0, <2>1, <2>2, <2>4
    <3> QED BY <1>0, <2>0, <3>1 DEF UpdateRank, Smaller
  <2> QED BY <2>0, <2>2, <2>3, <2>4
<1>5. CASE OpenTarget
  <2>1. /\ pc = "skip" /\ getSize >= BlSize /\ left = MaxSize
        /\ pc' = "idle" \/ (pc' = "get" /\ left' = left)
    BY <1>5 DEF OpenTarget, GiveUp, otaVars, TInv, Counters
  <2> QED BY <1>0, <2>1 DEF UpdateRank, Smaller
<1>6. CASE GetData
  <2>0. pc = "get" /\ pc' = "write" /\ left > 0 /\ Smaller(left, BufSize) \in Nat
        /\ Smaller(left, BufSize) <= left
    BY <1>0, <1>6 DEF GetData, Smaller
  <2>1. PICK r \in Received(Smaller(left, BufSize)) \cup Interrupted :
          buf' \in [1 .. r[1] -> {"good"} \cup Damage] /\ left' = left - r[1]
    BY <1>6 DEF GetData
  <2>2. r[1] \in 0 .. Smaller(left, BufSize)
    BY <1>0, <2>0, <2>1, ReceivedType
  <2>3. r[1] \in Nat /\ r[1] <= left
    BY <1>0, <2>0, <2>2
  <2>4. Len(buf') = r[1]
    BY <2>1, <2>3, BufType
  <2>5. /\ UpdateRank = 2 * left + 7
        /\ UpdateRank' = IF Len(buf') = 0 THEN 7 ELSE 2 * left' + 8
    BY <2>0 DEF UpdateRank
  <2> QED BY <1>0, <2>0, <2>1, <2>3, <2>4, <2>5
<1>7. CASE WriteData
  <2>1. pc = "write" /\ Len(buf) > 0 /\ pc' \in {"loaded", "get"} /\ left' = left
    BY <1>7 DEF WriteData
  <2> QED BY <1>0, <2>1 DEF UpdateRank
<1>8. CASE WriteFails
  <2>1. pc = "write" /\ pc' = "loaded"
    BY <1>8 DEF WriteFails
  <2> QED BY <1>0, <2>1 DEF UpdateRank
<1>9. CASE CheckImage \/ GetVerifyData \/ VerifyImage \/ VerifyFails \/ EraseCfg \/ WriteCfg
  <2>1. \/ pc' = "idle"
        \/ pc = "loaded" /\ pc' = "verify_data"
        \/ pc = "verify_data" /\ pc' = "verify"
        \/ pc = "verify" /\ pc' = "set_cfg"
        \/ pc = "set_cfg" /\ pc' = "write_cfg"
        \/ pc = "write_cfg" /\ pc' = "reboot"
    BY <1>9 DEF CheckImage, GetVerifyData, VerifyImage, VerifyFails, EraseCfg, WriteCfg, GiveUp
  <2> QED BY <2>1 DEF UpdateRank
<1>10. CASE Reboot
  BY <1>10 DEF Reboot, Reset
<1>11. CASE OtaFault
  <2>1. pc' = "idle" \/ (pc = "get" /\ pc' = "loaded" /\ left > 0)
    BY <1>11 DEF OtaFault, EraseFails, GetFails, CfgFails, GiveUp
  <2> QED BY <1>0, <2>1 DEF UpdateRank
<1> QED
  BY <1>1, <1>2, <1>3, <1>4, <1>5, <1>6, <1>7, <1>8, <1>9, <1>10, <1>11 DEF OtaStep, OtaWork

\* Whatever fails, an update takes at most MaxSteps steps that change anything; the
\* only turn that changes nothing is one of a select error while the bootloader is
\* skipped.  UpdateEnds rests on it, and on some step being possible.
THEOREM UpdateIsBounded ==
  Spec => [](mode = "app" /\ pc # "idle" => UpdateRank \in 1 .. MaxSteps) /\ UpdateShrinks
<1>1. TInv => (mode = "app" /\ pc # "idle" => UpdateRank \in 1 .. MaxSteps)
  BY RankType
<1> DEFINE Shrinks ==
      mode = "app" /\ pc # "idle" => mode' = "boot" \/ pc' = "idle" \/ UpdateRank' < UpdateRank
<1>2. TInv /\ [Next]_vars => [Shrinks]_vars
  <2> SUFFICES ASSUME TInv, Next, mode = "app", pc # "idle"
               PROVE  Shrinks \/ UNCHANGED vars
    OBVIOUS
  <2>1. CASE BootNext
    BY <2>1 DEF BootNext, BlInitFails, BlNoOta, BlReadCfg, BlLoaded, BlNotLoaded, BlEraseCfg, BlWriteCfg,
                BlCfgFails, BlUpgrade
  <2>2. CASE OtaStep
    BY <2>2, StepShrinks
  <2>3. CASE PowerCycle
    BY <2>3 DEF PowerCycle, Reset
  <2> QED BY <2>1, <2>2, <2>3 DEF Next, OtaNext, StartUpdate, InApp
<1> QED BY TInvInit, TInvNext, <1>1, <1>2, PTL DEF Spec, UpdateShrinks

\* Between two failures of the power the bootloader takes at most N + 4 steps to
\* an application or to the upgrade mode: the loop of bl_load_bin visits each
\* sequence once, whatever it reads.  It is what BootStarts rests on.
THEOREM BootIsBounded ==
  Spec => [](mode = "boot" => BootRank \in 1 .. N + 4) /\ BootShrinks
<1>0. N \in Nat
  BY SizesAssumption
<1>1. TInv => (mode = "boot" => BootRank \in 1 .. N + 4)
  BY <1>0 DEF TInv, TypeOK, BootPcs, BootRank
<1> DEFINE Shrinks == mode = "boot" => PowerCycle \/ mode' # "boot" \/ BootRank' < BootRank
<1>2. TInv /\ [Next]_vars => [Shrinks]_vars
  <2> SUFFICES ASSUME TInv, Next, mode = "boot" PROVE Shrinks
    OBVIOUS
  <2>0. tries \in 0 .. N
    BY DEF TInv, TypeOK
  <2>1. CASE BlReadCfg
    BY <1>0, <2>1 DEF BlReadCfg, BootRank
  <2>2. CASE BlLoaded
    BY <1>0, <2>0, <2>2 DEF BlLoaded, EnterApp, BootRank
  <2>3. CASE BlNotLoaded
    BY <1>0, <2>0, <2>3 DEF BlNotLoaded, BootRank
  <2>4. CASE BlEraseCfg
    BY <2>4 DEF BlEraseCfg, BootRank
  <2>5. CASE BlInitFails \/ BlNoOta \/ BlWriteCfg \/ BlCfgFails \/ BlUpgrade
    BY <2>5 DEF BlInitFails, BlNoOta, BlWriteCfg, BlCfgFails, BlUpgrade, EnterApp
  <2>6. CASE OtaNext
    BY <2>6 DEF OtaNext, StartUpdate, OtaStep, OtaWork, OtaFault, EraseUnit, EraseDone,
                InitSource, SkipBootloader, OpenTarget, GetData, WriteData, WriteFails,
                CheckImage, GetVerifyData, VerifyImage, VerifyFails, EraseCfg, WriteCfg,
                Reboot, EraseFails, GetFails, CfgFails, InApp
  <2> QED BY <2>1, <2>2, <2>3, <2>4, <2>5, <2>6 DEF Next, BootNext
<1> QED BY TInvInit, TInvNext, <1>1, <1>2, PTL DEF Spec, BootShrinks

-----------------------------------------------------------------------------
(***************************************************************************)
(* The accepted update takes effect.                                       *)
(***************************************************************************)

\* Until it enters an application the bootloader sticks to one choice, a power
\* failure included, and it is the application it enters.
StartsBootTarget ==
  [][mode = "boot" => IF mode' = "app" THEN running' = BootTarget
                      ELSE mode' = "boot" /\ BootTarget' = BootTarget]_vars


\* What the configuration names loads, and the application runs it or nothing is
\* configured: a record that image_set_cfg fails to write is erased or as it was.
Configured ==
  /\ CfgLoads
  /\ mode = "app" =>
       /\ pc # "reboot" => cfg \in {N, running}
       /\ pc \in {"verify_data", "verify", "set_cfg", "write_cfg"} => SectionsOk(Target)

BInv == TInv /\ LoadInv /\ NoOta /\ Booting /\ Configured

LEMMA BInvInit == Init => BInv
<1> SUFFICES ASSUME Init PROVE BInv
  OBVIOUS
<1>1. SafeInv
  BY SafeInvInit
<1>2. LoadInv
  BY <1>1, SafeLoads DEF Init, LoadInv
<1>3. Configured
  BY <1>1, SafeLoads DEF Init, Configured
<1> QED BY <1>1, <1>2, <1>3 DEF BInv, SafeInv

\* One sequence loads, so that the search ends there.
LEMMA SearchSucceeds == BInv => ~BlUpgrade
<1> SUFFICES ASSUME BInv, BlUpgrade PROVE FALSE
  OBVIOUS
<1>1. mode = "boot" /\ pc = "try" /\ tries = N /\ N \in {2, 3}
  BY SizesAssumption DEF BlUpgrade
<1>2. cfg = N /\ \A s \in Seqs : s < N => ~AppOk(s)
  BY <1>1 DEF BInv, NoOta, Booting
<1>3. \E s \in Seqs : s < N /\ AppOk(s)
  BY <1>1 DEF BInv, LoadInv, SomeAppLoads, Seqs
<1> QED BY <1>2, <1>3

\* The bootloader finds the configured sequence or the first one that loads.
LEMMA BInvBoot ==
  ASSUME "load" \notin Faults, BInv, BootNext
  PROVE  NoOta' /\ Booting' /\ Configured'
<1> USE DEF BInv
<1>0. /\ cfg \in 0 .. N /\ loadSeq \in Seqs /\ tries \in 0 .. N /\ 0 \in Seqs
      /\ N \in {2, 3} /\ N \notin Seqs /\ mode = "boot" /\ slot' = slot
  BY SizesAssumption
  DEF TInv, TypeOK, Seqs, BootNext, BlInitFails, BlNoOta, BlReadCfg, BlLoaded, BlNotLoaded, BlEraseCfg,
      BlWriteCfg, BlCfgFails, BlUpgrade, flashVars
<1>1. \A s : AppOk(s)' <=> AppOk(s)
  BY <1>0, SlotKept
<1>2. CASE BlEraseCfg \/ BlWriteCfg
  BY <1>0, <1>1, <1>2
  DEF BlEraseCfg, BlWriteCfg, EnterApp, bootVars, NoOta, Booting, Configured, CfgLoads
<1>3. CASE UNCHANGED <<cfg, otaOn>>
  <2>1. CfgLoads'
    BY <1>0, <1>3 DEF Configured, CfgLoads, AppOk, Passes
  <2>2. CASE BlNoOta
    <3>1. AppOk(0) /\ AppOk(0)' /\ ~otaOn /\ ~otaOn' /\ cfg = N /\ cfg' = N
      BY <1>1, <1>3, <2>2 DEF BlNoOta, NoOta
    <3>2. mode' = "app" /\ pc' = "idle" /\ running' = 0
      BY <2>2, <3>1 DEF BlNoOta, EnterApp
    <3> QED BY <2>1, <3>1, <3>2 DEF NoOta, Booting, Configured
  <2>3. CASE BlReadCfg
    <3>1. /\ otaOn /\ cfgSeq' = cfg /\ tries' = 0 /\ loadSeq' = (IF cfg = N THEN 0 ELSE cfg)
          /\ pc' = "try" /\ mode' = "boot"
      BY <1>0, <2>3 DEF BlReadCfg
    <3>2. \A s \in Seqs : ~(s < 0)
      BY <1>0 DEF Seqs
    <3>3. Booting'
      BY <1>3, <3>1, <3>2 DEF Booting
    <3> QED BY <1>3, <2>1, <3>1, <3>3 DEF NoOta, Configured
  <2>4. CASE BlLoaded
    <3>1. /\ otaOn /\ cfgSeq = cfg /\ running' = loadSeq /\ AppOk(loadSeq) /\ tries < N
          /\ cfg # N => loadSeq = cfg
          /\ cfg = N => loadSeq = tries /\ \A s \in Seqs : s < tries => ~AppOk(s)
      BY <1>0, <2>4 DEF BlLoaded, NoOta, Booting
    <3>2. CASE loadSeq # cfg
      <4>1. cfg = N /\ loadSeq' = loadSeq /\ mode' = "boot" /\ pc' = "set_cfg"
        BY <1>0, <2>4, <3>1, <3>2 DEF BlLoaded, EnterApp, bootVars
      <4>2. Booting'
        BY <1>1, <1>3, <3>1, <4>1 DEF Booting
      <4> QED BY <1>3, <2>1, <3>1, <4>1, <4>2 DEF NoOta, Configured
    <3>3. CASE loadSeq = cfg
      <4>1. mode' = "app" /\ pc' = "idle"
        BY <2>4, <3>1, <3>3 DEF BlLoaded, EnterApp
      <4> QED BY <1>3, <2>1, <3>1, <3>3, <4>1 DEF NoOta, Booting, Configured
    <3> QED BY <3>2, <3>3
  <2>5. CASE BlNotLoaded
    <3>1. /\ ~AppOk(loadSeq) /\ cfg = N /\ loadSeq = tries /\ otaOn /\ tries < N
          /\ \A s \in Seqs : s < tries => ~AppOk(s)
      BY <1>0, <2>5 DEF BlNotLoaded, NoOta, Booting, Configured, CfgLoads
    <3>2. /\ loadSeq' = (tries + 1) % N /\ tries' = tries + 1 /\ pc' = pc /\ pc = "try"
          /\ mode' = mode /\ cfgSeq' = cfgSeq
      BY <2>5, <3>1 DEF BlNotLoaded
    <3>3. \A s \in Seqs : s < tries' => ~AppOk(s)'
      BY <1>0, <1>1, <3>1, <3>2 DEF Seqs
    <3>4. tries' < N => loadSeq' = tries'
      BY <1>0, <3>2
    <3>5. Booting'
      BY <1>0, <1>3, <3>1, <3>2, <3>3, <3>4 DEF Booting
    <3> QED BY <1>0, <1>3, <2>1, <3>1, <3>2, <3>5, <2>5 DEF NoOta, Configured
  <2>6. CASE BlCfgFails
    <3>1. otaOn /\ cfg = N /\ mode' = "app" /\ pc' = "idle" /\ running' = running
      BY <2>6 DEF BlCfgFails, EnterApp, NoOta, Booting
    <3> QED BY <1>3, <2>1, <3>1 DEF NoOta, Booting, Configured
  <2> QED
    BY <1>2, <2>2, <2>3, <2>4, <2>5, <2>6, SearchSucceeds DEF BootNext, BlInitFails
<1>4. BootNext => UNCHANGED <<cfg, otaOn>> \/ BlEraseCfg \/ BlWriteCfg
  BY DEF BootNext, BlInitFails, BlNoOta, BlReadCfg, BlLoaded, BlNotLoaded, BlCfgFails, BlUpgrade, flashVars
<1> QED BY <1>2, <1>3, <1>4

\* The updater and the power.
LEMMA BInvRest ==
  ASSUME BInv, OtaNext \/ PowerCycle
  PROVE  NoOta' /\ Booting' /\ Configured'
<1> USE DEF BInv
<1>0. /\ running \in Seqs /\ Target \in Seqs \ {running} /\ cfg \in Seqs \cup {N}
      /\ N \notin Seqs /\ 0 \in Seqs
  BY PolicyType, SizesAssumption DEF TInv, TypeOK, Target, Seqs
<1>1. CASE OtaQuiet
  <2>1. /\ mode = "app" /\ mode' = "app" /\ UNCHANGED <<slot, cfg, otaOn, running>> /\ otaOn
        /\ pc' \notin {"write_cfg", "reboot"} /\ pc \notin {"write_cfg", "reboot"}
    BY <1>1, QuietPc DEF flashVars, NoOta
  <2>2. CfgLoads'
    BY <2>1 DEF Configured, CfgLoads, AppOk, Passes
  <2>3. SectionsOk(Target)' <=> SectionsOk(Target)
    BY <2>1 DEF SectionsOk, Passes, Target
  <2>4. pc' \in {"verify_data", "verify", "set_cfg"} => SectionsOk(Target)
    BY <1>1, <2>1, QuietPc DEF GetVerifyData, VerifyImage, InApp, Configured
  <2> QED BY <2>1, <2>2, <2>3, <2>4 DEF NoOta, Booting, Configured
<1>2. CASE EraseUnit \/ WriteData \/ WriteFails \/ PowerCycle
  <2>1. /\ UNCHANGED <<cfg, otaOn>>
        /\ \/ mode' = "boot" /\ pc' = "start"
           \/ mode = "app" /\ mode' = "app" /\ running' = running /\ pc' \in {"erase", "get", "loaded"}
                           /\ pc \in {"erase", "write"}
    BY <1>2 DEF EraseUnit, WriteData, WriteFails, PowerCycle, Reset, InApp
  <2>2. \/ slot' = slot
        \/ mode = "app" /\ pc \in {"erase", "write"} /\ \A s \in Seqs \ {Target} : slot'[s] = slot[s]
    BY <1>2, SlotFrame DEF Next, OtaNext, OtaStep, OtaWork, OtaFault
  <2>3. otaOn \/ slot' = slot
    BY <2>2 DEF NoOta
  <2>4. AppOk(0) /\ slot' = slot => AppOk(0)'
    BY DEF AppOk, Passes
  <2>5. CfgLoads'
    <3> SUFFICES ASSUME cfg # N PROVE AppOk(cfg)'
      BY <2>1 DEF CfgLoads
    <3>1. AppOk(cfg) /\ slot'[cfg] = slot[cfg]
      BY <1>0, <2>2 DEF Configured, CfgLoads
    <3> QED BY <2>1, <3>1 DEF AppOk, Passes
  <2> QED BY <2>1, <2>3, <2>4, <2>5 DEF NoOta, Booting, Configured
<1>3. CASE EraseCfg \/ WriteCfg \/ CfgFails \/ Reboot
  <2>1. UNCHANGED <<slot, otaOn>> /\ mode = "app" /\ otaOn
    BY <1>3 DEF EraseCfg, WriteCfg, CfgFails, Reboot, Reset, InApp, flashVars, NoOta
  <2>2. CfgLoads /\ \A t : SectionsOk(t) => AppOk(t)
    BY SizesAssumption DEF Configured, SectionsOk, AppOk, Passes
  <2>3. \A t : (AppOk(t)' <=> AppOk(t)) /\ (SectionsOk(t)' <=> SectionsOk(t))
    BY <2>1 DEF SectionsOk, AppOk, Passes
  <2>4. CASE EraseCfg
    <3>1. cfg' = N /\ pc = "set_cfg" /\ pc' = "write_cfg" /\ UNCHANGED <<mode, running>>
      BY <2>4 DEF EraseCfg, InApp
    <3>2. SectionsOk(Target)'
      BY <2>1, <3>1 DEF Configured, SectionsOk, Passes, Target
    <3> QED BY <2>1, <3>1, <3>2 DEF NoOta, Booting, Configured, CfgLoads
  <2>5. CASE WriteCfg
    <3>1. cfg' = Target /\ pc = "write_cfg" /\ pc' = "reboot" /\ UNCHANGED <<mode, running>>
      BY <2>5 DEF WriteCfg, InApp
    <3>2. AppOk(Target)
      BY <2>1, <2>2, <3>1 DEF Configured
    <3>3. AppOk(cfg)'
      BY <2>1, <3>1, <3>2 DEF AppOk, Passes
    <3> QED BY <2>1, <3>1, <3>3 DEF NoOta, Booting, Configured, CfgLoads
  <2>6. CASE CfgFails \/ Reboot
    <3>1. /\ cfg' = cfg
          /\ \/ mode' = mode /\ running' = running /\ pc' = "idle" /\ pc \in {"set_cfg", "write_cfg"}
             \/ mode' = "boot" /\ pc' = "start"
      BY <2>6 DEF CfgFails, GiveUp, Reboot, Reset, flashVars
    <3>2. CfgLoads'
      BY <2>1, <2>2, <3>1 DEF CfgLoads, AppOk, Passes
    <3> QED BY <2>1, <3>1, <3>2 DEF NoOta, Booting, Configured
  <2> QED BY <1>3, <2>4, <2>5, <2>6
<1> QED BY <1>1, <1>2, <1>3 DEF OtaNext, OtaStep, OtaWork, OtaFault, OtaQuiet

LEMMA BInvNext ==
  ASSUME "load" \notin Faults
  PROVE  BInv /\ [Next]_vars => BInv'
<1> SUFFICES ASSUME BInv, [Next]_vars PROVE BInv'
  OBVIOUS
<1>1. TInv' /\ LoadInv'
  BY TInvNext, LoadInvNext DEF BInv
<1>2. CASE UNCHANGED vars
  BY <1>1, <1>2
  DEF vars, flashVars, bootVars, otaVars, BInv, NoOta, Booting, Configured, CfgLoads, AppOk,
      SectionsOk, Passes, Target
<1> QED BY <1>1, <1>2, BInvBoot, BInvRest DEF Next, BInv

\* The choice depends on the flash alone.
LEMMA TargetStays ==
  ASSUME UNCHANGED <<slot, cfg>>
  PROVE  BootTarget' = BootTarget
BY DEF BootTarget, AppOk, Passes

\* The step of StartsBootTarget.
LEMMA ChoiceStarts ==
  ASSUME "load" \notin Faults, BInv, [Next]_vars, mode = "boot"
  PROVE  IF mode' = "app" THEN running' = BootTarget
         ELSE mode' = "boot" /\ BootTarget' = BootTarget
<1> USE DEF BInv
<1>0. loadSeq \in Seqs /\ 0 \in Seqs /\ N \notin Seqs
  BY SizesAssumption DEF TInv, TypeOK, Seqs
<1>1. /\ cfg # N => BootTarget = cfg
      /\ cfg = N => \A s \in Seqs : AppOk(s) /\ (\A r \in Seqs : r < s => ~AppOk(r)) => BootTarget = s
  BY BootTargetIs DEF LoadInv, Configured
<1>2. CASE BlNoOta
  <2>1. cfg = N /\ AppOk(0) /\ mode' = "app" /\ running' = 0
    BY <1>2 DEF BlNoOta, EnterApp, NoOta
  <2> QED BY <1>0, <1>1, <2>1 DEF Seqs
<1>3. CASE BlLoaded
  <2>1. mode' = "app" => running' = loadSeq /\ loadSeq = cfg /\ cfg # N
    BY <1>0, <1>3 DEF BlLoaded, Booting, NoOta
  <2>2. mode' \in {"app", "boot"} /\ UNCHANGED <<slot, cfg>>
    BY <1>3 DEF BlLoaded, EnterApp, flashVars
  <2> QED BY <1>1, <2>1, <2>2, TargetStays
<1>4. CASE BlEraseCfg \/ BlReadCfg \/ BlNotLoaded \/ PowerCycle \/ UNCHANGED vars
  <2>1. mode' = "boot" /\ UNCHANGED <<slot, cfg>>
    BY <1>4 DEF BlEraseCfg, Booting, NoOta, BlReadCfg, BlNotLoaded, PowerCycle, Reset, InApp,
                vars, flashVars
  <2> QED BY <2>1, TargetStays
<1>5. CASE BlWriteCfg \/ BlCfgFails
  <2>1. /\ cfg = N /\ running = loadSeq /\ AppOk(loadSeq)
        /\ \A s \in Seqs : s < loadSeq => ~AppOk(s)
    BY <1>5 DEF BlWriteCfg, BlCfgFails, Booting, NoOta
  <2>2. mode' = "app" /\ running' = running
    BY <1>5 DEF BlWriteCfg, BlCfgFails, EnterApp
  <2> QED BY <1>0, <1>1, <2>1, <2>2
<1>6. ~BlUpgrade /\ ~BlInitFails
  BY SearchSucceeds DEF BlInitFails
<1>7. ~OtaNext
  BY DEF OtaNext, StartUpdate, OtaStep, OtaWork, OtaFault, EraseUnit, EraseDone,
         InitSource, SkipBootloader, OpenTarget, GetData, WriteData, WriteFails,
         CheckImage, GetVerifyData, VerifyImage, VerifyFails, EraseCfg, WriteCfg,
         Reboot, EraseFails, GetFails, CfgFails, InApp
<1> QED BY <1>2, <1>3, <1>4, <1>5, <1>6, <1>7 DEF Next, BootNext

\* However often the power fails while the bootloader runs, also between the two
\* halves of its image_set_cfg, and even if that fails: the application it enters
\* is the one its first look at the flash chose (bl_load_bin).
THEOREM BootStartsItsTarget ==
  ASSUME "load" \notin Faults
  PROVE  Spec => StartsBootTarget
<1>1. BInv /\ [Next]_vars => BInv'
  BY BInvNext
<1> QED BY BInvInit, <1>1, ChoiceStarts, PTL DEF Spec, StartsBootTarget

\* After a reboot from cmd_ota the record names the target.
LEMMA RebootsConfigured ==
  ASSUME TInv, [Next]_vars, InApp("reboot") => cfg = Target
  PROVE  InApp("reboot")' => cfg' = Target'
<1>1. CASE BootNext
  BY <1>1 DEF BootNext, BlInitFails, BlNoOta, BlReadCfg, BlLoaded, BlNotLoaded, BlEraseCfg, BlWriteCfg,
              BlCfgFails, BlUpgrade, EnterApp, InApp
<1>2. CASE OtaQuiet
  BY <1>2, QuietPc DEF InApp
<1>3. CASE WriteCfg
  BY <1>3 DEF WriteCfg, InApp, Target
<1>4. CASE EraseUnit \/ WriteData \/ WriteFails \/ EraseCfg \/ CfgFails \/ Reboot \/ PowerCycle
  BY <1>4 DEF EraseUnit, WriteData, WriteFails, EraseCfg, CfgFails, GiveUp, Reboot, PowerCycle,
              Reset, InApp
<1>5. CASE UNCHANGED vars
  BY <1>5 DEF vars, flashVars, InApp, Target
<1> QED BY <1>1, <1>2, <1>3, <1>4, <1>5 DEF Next, OtaNext, OtaStep, OtaWork, OtaFault, OtaQuiet

\* When cmd_ota calls ota_reboot, the author's image is in the target and the
\* bootloader's choice: with SoundDownloadAccepted, UpdateIsBounded, BootIsBounded
\* and BootStartsItsTarget, all that UpdateTakesEffect says but that steps happen.
THEOREM AcceptedIsInstalled ==
  ASSUME Undisturbed
  PROVE  Spec => [](InApp("reboot") => BootTarget = Target /\ Exact(Target))
<1> DEFINE Recorded == InApp("reboot") => cfg = Target
<1>1. DInv /\ Recorded /\ [Next]_vars => DInv' /\ Recorded'
  BY DInvNext, RebootsConfigured DEF DInv
<1>2. DInv /\ Recorded => (InApp("reboot") => BootTarget = Target /\ Exact(Target))
  <2> SUFFICES ASSUME DInv, Recorded, InApp("reboot")
               PROVE  BootTarget = Target /\ Exact(Target)
    OBVIOUS
  <2>1. TInv /\ cfg = Target /\ Exact(Target)
    BY DEF DInv, Downloading, InApp
  <2>2. AppOk(Target)
    BY <2>1, SizesAssumption DEF Exact, AppOk, Passes
  <2>3. Target \in Seqs /\ N \notin Seqs
    BY <2>1, PolicyType, SizesAssumption DEF TInv, TypeOK, Target, Seqs
  <2> QED BY <2>1, <2>2, <2>3, BootTargetConfigured
<1>3. Init => Recorded
  BY DEF Init, InApp
<1> QED BY DInvInit, <1>1, <1>2, <1>3, PTL DEF Spec
=============================================================================
