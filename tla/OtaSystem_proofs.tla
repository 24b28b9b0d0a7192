-------------------------- MODULE OtaSystem_proofs --------------------------
(***************************************************************************)
(* Proofs about OtaSystem, for every number of units, every set of         *)
(* downloads and every set of faults.                                      *)
(***************************************************************************)
EXTENDS OtaSystem, TLAPS

-----------------------------------------------------------------------------
(***************************************************************************)
(* The inductive invariants.                                               *)
(***************************************************************************)

\* The counters of the download: addr has advanced by what img_max_size lost,
\* except for what is in ota_buf and not written yet.
Counters ==
  mode = "app" =>
    /\ pc \in {"erase", "init", "skip"} => pos = 0 /\ left = MaxSize
    /\ pc = "get" => pos + left = MaxSize
    /\ pc = "write" => pos + Len(buf) + left = MaxSize

TInv == TypeOK /\ Counters

\* Without an OTA area only the produced image in sequence 0 exists.
NoOta ==
  ~otaOn => /\ AppOk(0) /\ cfg = N
            /\ mode = "app" => pc = "idle" /\ running = 0
            /\ mode = "boot" => pc = "start"

\* A readable configuration names a trusted image, and the sequences no update
\* from there is writing are trusted as far as they load.
CfgTrusted ==
  cfg # N => /\ Trusted(cfg)
             /\ \A s \in Seqs \ {cfg, UpdatePolicy[cfg]} : AppOk(s) => Trusted(s)

\* While no configuration is readable, everything that loads is trusted.
NoCfg ==
  cfg = N => /\ \E s \in Seqs : AppOk(s)
             /\ \A s \in Seqs : AppOk(s) => Trusted(s)

\* The bootloader's locals: it tries the configured sequence, or with none 0, 1, ...
Booting ==
  mode = "boot" /\ otaOn =>
    /\ pc = "try" =>
         /\ cfgSeq = cfg
         /\ cfg # N => loadSeq = cfg /\ tries = 0
         /\ cfg = N => /\ tries < N => loadSeq = tries
                       /\ \A s \in Seqs : s < tries => ~AppOk(s)
    /\ pc \in {"set_cfg", "write_cfg"} =>
         /\ cfg = N /\ running = loadSeq /\ AppOk(loadSeq)
         /\ \A s \in Seqs : s < loadSeq => ~AppOk(s)

\* The application's update: which sequence is configured at which point, and
\* what has been checked of the target by then.
Updating ==
  mode = "app" =>
    /\ Trusted(running)
    /\ otaOn /\ pc \notin {"write_cfg", "reboot"} => cfg = running
    /\ pc \in {"verify_data", "verify"} => SectionsOk(Target)
    /\ pc = "verify" /\ "vread" \notin Faults /\ VerifyData(Target) = "good"
         => vtype = "digest"
    /\ pc \in {"set_cfg", "write_cfg", "reboot"} => Trusted(Target)
    /\ pc = "write_cfg" => cfg = N
    /\ pc = "reboot" => cfg = Target

NoUpgrade == mode # "upgrade"

SafeInv == TInv /\ NoOta /\ CfgTrusted /\ NoCfg /\ Booting /\ Updating /\ NoUpgrade

-----------------------------------------------------------------------------
(***************************************************************************)
(* Types and counters.                                                     *)
(***************************************************************************)

\* The table never sends an update to the running sequence.
LEMMA PolicyType ==
  \A s \in Seqs : UpdatePolicy[s] \in Seqs /\ UpdatePolicy[s] # s
BY SizesAssumption DEF UpdatePolicy, Seqs

\* One get_cb for at most n units receives at most n, and no more than there is.
LEMMA ReceivedType ==
  ASSUME TypeOK, NEW n \in Nat, NEW r \in Received(n) \cup Interrupted
  PROVE  /\ r[1] \in 0 .. n
         /\ r[1] <= src.len - getSize
         /\ r[2] \in BOOLEAN
<1>1. /\ src.len \in Nat /\ getSize \in 0 .. src.len
      /\ src.proto \in {"file", "length", "chunked"}
  BY EnvironmentAssumption DEF TypeOK
<1>2. CASE r \in Interrupted
  BY <1>1, <1>2 DEF Interrupted
<1>3. CASE r \in Received(n)
  <2>1. Smaller(n, src.len - getSize) \in 0 .. n /\ Smaller(n, src.len - getSize) <= src.len - getSize
    BY <1>1 DEF Smaller
  <2>2. CASE src.proto = "file"
    <3> DEFINE k == Smaller(n, src.len - getSize)
    <3>1. r = <<k, k < n>>
      BY <1>3, <2>2 DEF Received, FileRead
    <3> HIDE DEF k
    <3>2. r[1] = k /\ r[2] = (k < n)
      BY <3>1
    <3>3. QED BY <1>1, <2>1, <3>2 DEF k
  <2>3. CASE src.proto # "file"
    BY <1>1, <1>3, <2>1, <2>3 DEF Received, HttpRead
  <2>4. QED BY <2>2, <2>3
<1>4. QED BY <1>2, <1>3

\* A reset leaves the program memory well typed.
LEMMA ResetType ==
  ASSUME RamCleared
  PROVE  /\ cfgSeq' \in 0 .. N /\ loadSeq' \in Seqs /\ tries' \in 0 .. N
         /\ src' \in Files \cup {[proto |-> "file", len |-> 1]}
         /\ getSize' \in 0 .. src'.len /\ pos' \in 0 .. MaxSize /\ left' \in 0 .. MaxSize
         /\ buf' \in Seq(Contents \ {"erased"}) /\ Len(buf') <= BufSize
         /\ eof' \in BOOLEAN /\ ret' \in BOOLEAN /\ vtype' \in {"none", "digest"}
<1>1. /\ cfgSeq' \in 0 .. N /\ loadSeq' \in Seqs /\ tries' \in 0 .. N
      /\ pos' \in 0 .. MaxSize /\ left' \in 0 .. MaxSize
  BY SizesAssumption DEF RamCleared, Seqs
<1>2. src'.len = 1 /\ getSize' = 0 /\ src' = [proto |-> "file", len |-> 1]
  BY DEF RamCleared
<1>3. buf' \in Seq(Contents \ {"erased"}) /\ Len(buf') <= BufSize
  BY SizesAssumption DEF RamCleared
<1>4. eof' \in BOOLEAN /\ ret' \in BOOLEAN /\ vtype' \in {"none", "digest"}
  BY DEF RamCleared
<1>5. QED BY <1>1, <1>2, <1>3, <1>4

\* What the buffer of one read is: a sequence as long as what was received.
LEMMA BufType ==
  ASSUME NEW k \in Nat, NEW S, NEW b \in [1 .. k -> S]
  PROVE  b \in Seq(S) /\ Len(b) = k
OBVIOUS

\* A device as produced is well typed.
LEMMA TInvInit == Init => TInv
<1> SUFFICES ASSUME Init PROVE TInv
  OBVIOUS
<1>1. slot \in [Seqs -> [Units -> Contents]]
  BY SizesAssumption DEF Init, FactorySlot, BlankSlot, Contents
<1>2. src.len = 1 /\ src \in {[proto |-> "file", len |-> 1]} /\ getSize = 0
  BY DEF Init
<1>3. buf \in Seq(Contents \ {"erased"}) /\ Len(buf) <= BufSize
  BY SizesAssumption DEF Init
<1>4. /\ cfg \in 0 .. N /\ running \in Seqs
      /\ cfgSeq \in 0 .. N /\ loadSeq \in Seqs /\ tries \in 0 .. N
      /\ pos \in 0 .. MaxSize /\ left \in 0 .. MaxSize
  BY SizesAssumption DEF Init, Seqs
<1>5. /\ mode = "boot" /\ pc \in BootPcs /\ otaOn \in BOOLEAN
      /\ eof \in BOOLEAN /\ ret \in BOOLEAN /\ vtype \in {"none", "digest"}
  BY EnvironmentAssumption DEF Init, BootPcs
<1>6. TypeOK
  BY <1>1, <1>2, <1>3, <1>4, <1>5 DEF TypeOK
<1>7. Counters
  BY <1>5 DEF Counters
<1>8. QED BY <1>6, <1>7 DEF TInv

\* Giving an update up leaves everything well typed.
LEMMA GiveUpType ==
  ASSUME TInv, mode = "app", GiveUp, UNCHANGED <<flashVars, mode, running, bootVars>>
  PROVE  TInv'
<1>1. src' = src /\ getSize' = getSize /\ pc' = "idle" /\ pos' = 0 /\ left' = 0
  BY DEF GiveUp
<1>2. buf' \in Seq(Contents \ {"erased"}) /\ Len(buf') <= BufSize
  BY SizesAssumption DEF GiveUp
<1>3. pos' \in 0 .. MaxSize /\ left' \in 0 .. MaxSize
  BY <1>1, SizesAssumption
<1>4. eof' \in BOOLEAN /\ ret' \in BOOLEAN /\ vtype' \in {"none", "digest"}
  BY DEF GiveUp
<1>5. TypeOK'
  BY <1>1, <1>2, <1>3, <1>4
  DEF TInv, TypeOK, AppPcs, flashVars, bootVars
<1>6. Counters'
  BY <1>1 DEF Counters
<1>7. QED BY <1>5, <1>6 DEF TInv

\* Writing a typed image over one slot leaves the flash well typed.
LEMMA SlotType ==
  ASSUME TypeOK, NEW s \in Seqs, NEW im \in [Units -> Contents],
         slot' = [slot EXCEPT ![s] = im]
  PROVE  slot' \in [Seqs -> [Units -> Contents]]
BY DEF TypeOK

\* The target after a program operation, whole or torn, is typed.
LEMMA ProgrammedType ==
  ASSUME TInv, InApp("write"), NEW k \in 1 .. Len(buf)
  PROVE  /\ Programmed(k) \in [Units -> Contents]
         /\ Torn(k) \in [Units -> Contents]
<1>1. Target \in Seqs
  BY PolicyType DEF TInv, TypeOK, Target
<1>2. pos \in Nat /\ Len(buf) \in Nat
  BY DEF TInv, TypeOK
<1>3. \A u \in pos + 1 .. pos + k : u - pos \in 1 .. Len(buf)
  BY <1>2
<1>4. \A i \in 1 .. Len(buf) : buf[i] \in Contents
  BY DEF TInv, TypeOK
<1>5. \A u \in Units : slot[Target][u] \in Contents
  BY <1>1 DEF TInv, TypeOK
<1>6. Programmed(k) \in [Units -> Contents]
  BY <1>3, <1>4, <1>5 DEF Programmed, Contents
<1>7. QED BY <1>6 DEF Torn, Contents

\* Every step keeps the types and the counters.
LEMMA TInvNext == TInv /\ [Next]_vars => TInv'
<1> SUFFICES ASSUME TInv, [Next]_vars PROVE TInv'
  OBVIOUS
<1> USE SizesAssumption, EnvironmentAssumption DEF TInv
<1>0. Target \in Seqs
  BY PolicyType DEF TypeOK, Target
<1>a. CASE BlInitFails
  BY <1>a DEF BlInitFails, TypeOK, Counters, flashVars, bootVars, otaVars
<1>1. CASE BlNoOta
  BY <1>1, ResetType
  DEF BlNoOta, TypeOK, Counters, BootPcs, AppPcs, flashVars, bootVars, otaVars, EnterApp, Seqs
<1>2. CASE BlReadCfg
  <2>1. cfgSeq' \in 0 .. N
    BY <1>2 DEF BlReadCfg, TypeOK
  <2>2. loadSeq' \in Seqs
    BY <1>2, <2>1 DEF BlReadCfg, Seqs
  <2>3. QED
    BY <1>2, <2>1, <2>2 DEF BlReadCfg, TypeOK, Counters, BootPcs, flashVars, otaVars, Seqs
<1>3. CASE BlLoaded
  BY <1>3, ResetType
  DEF BlLoaded, TypeOK, Counters, BootPcs, AppPcs, flashVars, bootVars, otaVars, EnterApp, Seqs
<1>4. CASE BlNotLoaded
  BY <1>4, ResetType
  DEF BlNotLoaded, TypeOK, Counters, BootPcs, AppPcs, flashVars, bootVars, otaVars, EnterApp, Seqs
<1>5. CASE BlEraseCfg
  BY <1>5, ResetType
  DEF BlEraseCfg, TypeOK, Counters, BootPcs, AppPcs, flashVars, bootVars, otaVars, EnterApp, Seqs
<1>6. CASE BlWriteCfg
  BY <1>6, ResetType
  DEF BlWriteCfg, TypeOK, Counters, BootPcs, AppPcs, flashVars, bootVars, otaVars, EnterApp, Seqs
<1>7. CASE BlCfgFails
  BY <1>7, ResetType
  DEF BlCfgFails, TypeOK, Counters, BootPcs, AppPcs, flashVars, bootVars, otaVars, EnterApp, Seqs
<1>8. CASE BlUpgrade
  BY <1>8, ResetType
  DEF BlUpgrade, TypeOK, Counters, BootPcs, AppPcs, flashVars, bootVars, otaVars, EnterApp, Seqs
<1>9. CASE StartUpdate
  BY <1>9, <1>0
  DEF StartUpdate, TypeOK, Counters, BootPcs, AppPcs, flashVars, bootVars, otaVars, GiveUp, InApp
<1>10. CASE EraseUnit
  <2>1. PICK u \in Units : slot' = [slot EXCEPT ![Target][u] = IF @ = "bad" THEN "erased" ELSE "bad"]
    BY <1>10 DEF EraseUnit
  <2>2. slot' \in [Seqs -> [Units -> Contents]]
    BY <1>0, <2>1 DEF TypeOK, Contents
  <2>3. QED
    BY <1>10, <2>2 DEF EraseUnit, TypeOK, Counters, bootVars, otaVars
<1>11. CASE EraseDone
  BY <1>11, <1>0
  DEF EraseDone, TypeOK, Counters, BootPcs, AppPcs, flashVars, bootVars, otaVars, GiveUp, InApp
<1>12. CASE EraseFails
  BY <1>12, GiveUpType DEF EraseFails, InApp
<1>13. CASE InitSource
  <2>1. CASE GiveUp
    BY <1>13, <2>1, GiveUpType DEF InitSource, InApp
  <2>2. CASE ~GiveUp
    <3>1. InApp("init") /\ pc' = "skip" /\ getSize' = 0
      BY <1>13, <2>2 DEF InitSource
    <3>2. UNCHANGED <<src, pos, left, buf, eof, ret, vtype>> /\ UNCHANGED <<flashVars, mode, running, bootVars>>
      BY <1>13, <2>2 DEF InitSource
    <3>3. getSize' \in 0 .. src'.len
      BY <3>1, <3>2 DEF TypeOK
    <3>4. TypeOK'
      BY <3>1, <3>2, <3>3 DEF TypeOK, InApp, AppPcs, flashVars, bootVars
    <3>5. QED
      BY <3>1, <3>2, <3>4 DEF Counters, InApp
  <2>3. QED BY <2>1, <2>2
<1>14. CASE SkipBootloader
  <2>0. /\ InApp("skip") /\ getSize < BlSize /\ getSize \in Nat
        /\ UNCHANGED <<flashVars, mode, running, bootVars>>
    BY <1>14 DEF SkipBootloader, TypeOK
  <2>1. Smaller(BlSize - getSize, BufSize) \in Nat
    BY <2>0 DEF Smaller
  <2>2. PICK r \in Received(Smaller(BlSize - getSize, BufSize)) \cup Interrupted :
          \/ /\ ~r[2]
             /\ getSize' = getSize + r[1]
             /\ UNCHANGED <<pc, src, pos, left, buf, eof, ret, vtype>>
          \/ r[2] /\ GiveUp
    BY <1>14 DEF SkipBootloader
  <2>3. CASE GiveUp
    BY <2>0, <2>3, GiveUpType DEF InApp
  <2>4. CASE ~GiveUp
    <3>1. getSize' = getSize + r[1] /\ UNCHANGED <<pc, src, pos, left, buf, eof, ret, vtype>>
      BY <2>2, <2>4
    <3>2. r[1] \in Nat /\ r[1] <= src.len - getSize
      BY <2>1, ReceivedType
    <3>3. src.len \in Nat
      BY DEF TypeOK
    <3>4. getSize' \in 0 .. src'.len
      BY <2>0, <3>1, <3>2, <3>3
    <3>5. TypeOK'
      BY <2>0, <3>1, <3>4 DEF TypeOK, flashVars, bootVars
    <3>6. QED BY <2>0, <3>1, <3>5 DEF Counters, InApp
  <2>5. QED BY <2>3, <2>4
<1>15. CASE OpenTarget
  <2>1. CASE GiveUp
    BY <1>15, <2>1, GiveUpType DEF OpenTarget, InApp
  <2>2. CASE ~GiveUp
    BY <1>15, <2>2 DEF OpenTarget, TypeOK, Counters, InApp, AppPcs, flashVars, bootVars, otaVars
  <2>3. QED BY <2>1, <2>2
<1>16. CASE GetData
  <2>0. /\ InApp("get") /\ left > 0 /\ pc' = "write"
        /\ UNCHANGED <<flashVars, mode, running, bootVars, src, pos, ret, vtype>>
    BY <1>16 DEF GetData
  <2>1. Smaller(left, BufSize) \in Nat /\ Smaller(left, BufSize) <= left /\ Smaller(left, BufSize) <= BufSize
    BY <2>0 DEF Smaller, TypeOK
  <2>2. PICK r \in Received(Smaller(left, BufSize)) \cup Interrupted :
          /\ buf' \in [1 .. r[1] -> {"good"} \cup Damage]
          /\ eof' = r[2]
          /\ left' = left - r[1]
          /\ getSize' = getSize + r[1]
    BY <1>16 DEF GetData
  <2>3. r[1] \in 0 .. Smaller(left, BufSize) /\ r[1] <= src.len - getSize /\ r[2] \in BOOLEAN
    BY <2>1, ReceivedType
  <2>4. buf' \in Seq({"good"} \cup Damage) /\ Len(buf') = r[1]
    BY <2>1, <2>2, <2>3, BufType
  <2>5. buf' \in [1 .. r[1] -> Contents \ {"erased"}]
    BY <2>2 DEF Contents
  <2>6. buf' \in Seq(Contents \ {"erased"}) /\ Len(buf') <= BufSize
    BY <2>1, <2>3, <2>4, <2>5, BufType
  <2>7. src.len \in Nat /\ getSize \in Nat /\ left \in 0 .. MaxSize /\ pos \in Nat
    BY DEF TypeOK
  <2>8. getSize' \in 0 .. src'.len
    BY <2>0, <2>2, <2>3, <2>7
  <2>9. left' \in 0 .. MaxSize
    BY <2>1, <2>2, <2>3, <2>7
  <2>10. eof' \in BOOLEAN
    BY <2>2, <2>3
  <2>11. TypeOK'
    BY <2>0, <2>6, <2>8, <2>9, <2>10 DEF TypeOK, InApp, AppPcs, flashVars, bootVars
  <2>12. pos' + Len(buf') + left' = MaxSize
    <3>1. pos + left = MaxSize
      BY <2>0 DEF Counters, InApp
    <3>2. r[1] \in Nat /\ Len(buf') = r[1] /\ left' = left - r[1] /\ pos' = pos
      BY <2>0, <2>1, <2>2, <2>3, <2>4
    <3>3. QED BY <2>7, <3>1, <3>2
  <2>13. QED BY <2>0, <2>11, <2>12 DEF Counters
<1>17. CASE GetFails
  <2>1. CASE GiveUp
    BY <1>17, <2>1, GiveUpType DEF GetFails, InApp
  <2>2. CASE ~GiveUp
    BY <1>17, <2>2 DEF GetFails, TypeOK, Counters, InApp, AppPcs, flashVars, bootVars, otaVars
  <2>3. QED BY <2>1, <2>2
<1>18. CASE WriteData
  <2>0. /\ InApp("write") /\ Len(buf) > 0 /\ pos' = pos + Len(buf) /\ ret' = eof
        /\ pc' = IF eof \/ left = 0 THEN "loaded" ELSE "get"
        /\ UNCHANGED <<cfg, otaOn, mode, running, bootVars, src, getSize, left, buf, eof, vtype>>
    BY <1>18 DEF WriteData
  <2>1. Len(buf) \in 1 .. Len(buf) /\ pos \in Nat /\ left \in Nat /\ Len(buf) \in Nat
    BY <2>0 DEF TypeOK
  <2>2. PICK im \in [Units -> Contents] : slot' = [slot EXCEPT ![Target] = im]
    <3>1. Programmed(Len(buf)) \in [Units -> Contents]
      BY <2>0, <2>1, ProgrammedType
    <3>2. \A u : [Programmed(Len(buf)) EXCEPT ![u] = "bad"] \in [Units -> Contents]
      BY <3>1 DEF Contents
    <3>3. QED BY <1>18, <3>1, <3>2 DEF WriteData
  <2>3. slot' \in [Seqs -> [Units -> Contents]]
    BY <1>0, <2>2, SlotType
  <2>4. pos + Len(buf) + left = MaxSize
    BY <2>0 DEF Counters, InApp
  <2>5. pos' \in 0 .. MaxSize /\ pos' + left' = MaxSize
    BY <2>0, <2>1, <2>4
  <2>6. ret' \in BOOLEAN
    BY <2>0 DEF TypeOK
  <2>7. TypeOK'
    BY <2>0, <2>3, <2>5, <2>6 DEF TypeOK, InApp, AppPcs, bootVars
  <2>8. QED BY <2>0, <2>5, <2>7 DEF Counters
<1>19. CASE WriteFails
  <2>0. /\ InApp("write") /\ pc' = "loaded"
        /\ UNCHANGED <<cfg, otaOn, mode, running, bootVars, otaVars>>
    BY <1>19 DEF WriteFails
  <2>1. slot' \in [Seqs -> [Units -> Contents]]
    <3>1. CASE UNCHANGED slot
      BY <3>1 DEF TypeOK
    <3>2. CASE \E k \in 1 .. Len(buf) : slot' = [slot EXCEPT ![Target] = Torn(k)]
      BY <1>0, <2>0, <3>2, ProgrammedType, SlotType
    <3>3. QED BY <1>19, <3>1, <3>2 DEF WriteFails
  <2>2. QED
    BY <2>0, <2>1 DEF TypeOK, Counters, InApp, AppPcs, bootVars, otaVars
<1>20. CASE CheckImage
  <2>1. CASE GiveUp
    BY <1>20, <2>1, GiveUpType DEF CheckImage, InApp
  <2>2. CASE ~GiveUp
    <3>1. /\ InApp("loaded") /\ pc' = "verify_data" /\ left' = 0 /\ pos' = 0
          /\ eof' = FALSE /\ ret' = FALSE
          /\ UNCHANGED <<src, getSize, vtype>>
          /\ UNCHANGED <<flashVars, mode, running, bootVars>>
      BY <1>20, <2>2 DEF CheckImage
    <3>2. buf' = <<>>
      BY <1>20, <2>2 DEF CheckImage
    <3>3. buf' \in Seq(Contents \ {"erased"}) /\ Len(buf') <= BufSize
      BY <3>2
    <3>4. pos' \in 0 .. MaxSize /\ left' \in 0 .. MaxSize
      BY <3>1
    <3>5. TypeOK'
      BY <3>1, <3>3, <3>4 DEF TypeOK, InApp, AppPcs, flashVars, bootVars
    <3>6. QED
      BY <3>1, <3>5 DEF Counters
  <2>3. QED BY <2>1, <2>2
<1>21. CASE GetVerifyData
  BY <1>21, <1>0
  DEF GetVerifyData, TypeOK, Counters, BootPcs, AppPcs, flashVars, bootVars, otaVars, GiveUp, InApp
<1>22. CASE VerifyImage
  BY <1>22, <1>0
  DEF VerifyImage, TypeOK, Counters, BootPcs, AppPcs, flashVars, bootVars, otaVars, GiveUp, InApp
<1>23. CASE VerifyFails
  BY <1>23, GiveUpType DEF VerifyFails, InApp
<1>24. CASE EraseCfg
  BY <1>24, <1>0
  DEF EraseCfg, TypeOK, Counters, BootPcs, AppPcs, flashVars, bootVars, otaVars, GiveUp, InApp
<1>25. CASE WriteCfg
  <2>1. cfg' \in 0 .. N
    BY <1>25, <1>0 DEF WriteCfg, Seqs
  <2>2. QED
    BY <1>25, <2>1 DEF WriteCfg, TypeOK, Counters, InApp, AppPcs, bootVars, otaVars
<1>26. CASE CfgFails
  BY <1>26, GiveUpType DEF CfgFails
<1>27. CASE Reboot
  BY <1>27, <1>0, ResetType
  DEF Reboot, TypeOK, Counters, BootPcs, AppPcs, flashVars, bootVars, otaVars, GiveUp, InApp, Reset, Seqs
<1>28. CASE PowerCycle
  <2>1. slot' \in [Seqs -> [Units -> Contents]]
    <3>1. CASE UNCHANGED slot
      BY <3>1 DEF TypeOK
    <3>2. CASE InApp("write") /\ \E k \in 1 .. Len(buf) : slot' = [slot EXCEPT ![Target] = Torn(k)]
      BY <1>0, <3>2, ProgrammedType, SlotType
    <3>3. QED BY <1>28, <3>1, <3>2 DEF PowerCycle
  <2>2. mode' = "boot" /\ pc' \in BootPcs /\ running' \in Seqs /\ UNCHANGED <<cfg, otaOn>>
    BY <1>28 DEF PowerCycle, Reset, BootPcs, Seqs
  <2>3. RamCleared
    BY <1>28 DEF PowerCycle, Reset
  <2>4. TypeOK'
    BY <2>1, <2>2, <2>3, ResetType DEF TypeOK
  <2>5. QED BY <2>2, <2>4 DEF Counters
<1>29. CASE UNCHANGED vars
  BY <1>29 DEF vars, flashVars, bootVars, otaVars, TypeOK, Counters
<1>30. QED
  BY <1>a, <1>1, <1>2, <1>3, <1>4, <1>5, <1>6, <1>7, <1>8, <1>9, <1>10, <1>11, <1>12, <1>13, <1>14, <1>15, <1>16, <1>17, <1>18, <1>19, <1>20, <1>21, <1>22, <1>23, <1>24, <1>25, <1>26, <1>27, <1>28, <1>29
  DEF Next, BootNext, OtaNext, OtaStep, OtaWork, OtaFault

\* The specification keeps its types and the counters of a download agree, for
\* every size, every set of downloads and every set of faults.
THEOREM TypeCorrect == Spec => []TypeOK
<1>1. Spec => []TInv
  BY TInvInit, TInvNext, PTL DEF Spec
<1>2. TInv => TypeOK
  BY DEF TInv
<1>3. QED BY <1>1, <1>2, PTL

-----------------------------------------------------------------------------
(***************************************************************************)
(* Which slots a step may write.                                           *)
(***************************************************************************)

\* Only an erase or a write of the update changes the flash, and only the target.
LEMMA SlotFrame ==
  ASSUME TInv, [Next]_vars
  PROVE  \/ UNCHANGED slot
         \/ /\ mode = "app" /\ pc \in {"erase", "write"}
            /\ \A s \in Seqs \ {Target} : slot'[s] = slot[s]
<1>0. slot \in [Seqs -> [Units -> Contents]] /\ Target \in Seqs
  BY PolicyType DEF TInv, TypeOK, Target
<1>1. CASE BootNext
  BY <1>1 DEF BootNext, BlInitFails, BlNoOta, BlReadCfg, BlLoaded, BlNotLoaded, BlEraseCfg,
              BlWriteCfg, BlCfgFails, BlUpgrade, flashVars
<1>2. CASE EraseUnit
  BY <1>0, <1>2 DEF EraseUnit, InApp
<1>3. CASE WriteData
  BY <1>0, <1>3 DEF WriteData, InApp
<1>4. CASE WriteFails
  BY <1>0, <1>4 DEF WriteFails, InApp
<1>5. CASE PowerCycle
  BY <1>0, <1>5 DEF PowerCycle, InApp
<1>6. CASE OtaNext /\ ~EraseUnit /\ ~WriteData /\ ~WriteFails
  BY <1>6 DEF OtaNext, OtaStep, OtaWork, OtaFault, StartUpdate, EraseDone, EraseFails, InitSource,
              SkipBootloader, OpenTarget, GetData, GetFails, CheckImage,
              GetVerifyData, VerifyImage, VerifyFails, EraseCfg, WriteCfg,
              CfgFails, Reboot, flashVars
<1>7. CASE UNCHANGED vars
  BY <1>7 DEF vars, flashVars
<1>8. QED BY <1>1, <1>2, <1>3, <1>4, <1>5, <1>6, <1>7 DEF Next

\* What is known of a slot that is not written stays known.
LEMMA SlotKept ==
  ASSUME NEW s, slot'[s] = slot[s]
  PROVE  /\ AppOk(s)' <=> AppOk(s)
         /\ SectionsOk(s)' <=> SectionsOk(s)
         /\ Trusted(s)' <=> Trusted(s)
         /\ VerifyData(s)' = VerifyData(s)
BY DEF AppOk, SectionsOk, Trusted, Exact, VerifyData, Passes

-----------------------------------------------------------------------------
(***************************************************************************)
(* No fault costs the device its last application.                         *)
(***************************************************************************)

\* What runs, or is about to, has an application that loads.
LoadInv ==
  /\ mode = "app" => AppOk(running)
  /\ mode = "boot" /\ pc \in {"set_cfg", "write_cfg"} => AppOk(running)
  /\ SomeAppLoads

\* The image a device is produced with is complete.
LEMMA FactoryLoads == Init => AppOk(0) /\ SectionsOk(0) /\ Exact(0)
<1> SUFFICES ASSUME Init PROVE AppOk(0) /\ SectionsOk(0) /\ Exact(0)
  OBVIOUS
<1>1. slot[0] = FactorySlot
  BY SizesAssumption DEF Init, Seqs
<1>2. \A u \in 1 .. SecLen : u \in Units /\ slot[0][u] = "good"
  BY <1>1, SizesAssumption DEF FactorySlot, Units
<1>3. \A u \in 1 .. AppLen : u \in 1 .. SecLen
  BY SizesAssumption
<1>4. QED BY <1>2, <1>3 DEF AppOk, SectionsOk, Exact, Passes

\* The application runs from one sequence until a reset.
LEMMA AppStep ==
  ASSUME [Next]_vars, mode = "app"
  PROVE  \/ mode' = "app" /\ running' = running
         \/ mode' = "boot" /\ pc' = "start"
<1>1. CASE BootNext
  BY <1>1 DEF BootNext, BlInitFails, BlNoOta, BlReadCfg, BlLoaded, BlNotLoaded, BlEraseCfg,
              BlWriteCfg, BlCfgFails, BlUpgrade
<1>2. CASE OtaNext
  BY <1>2 DEF OtaNext, OtaStep, OtaWork, OtaFault, StartUpdate, EraseUnit, EraseDone, EraseFails,
              InitSource, SkipBootloader, OpenTarget, GetData, GetFails, WriteData,
              WriteFails, CheckImage, GetVerifyData, VerifyImage, VerifyFails,
              EraseCfg, WriteCfg, CfgFails, Reboot, Reset
<1>3. CASE PowerCycle
  BY <1>3 DEF PowerCycle, Reset
<1>4. CASE UNCHANGED vars
  BY <1>4 DEF vars
<1>5. QED BY <1>1, <1>2, <1>3, <1>4 DEF Next

\* Every step leaves an application that loads.
LEMMA LoadInvNext == TInv /\ LoadInv /\ [Next]_vars => LoadInv'
<1> SUFFICES ASSUME TInv, LoadInv, [Next]_vars PROVE LoadInv'
  OBVIOUS
<1>0. running \in Seqs /\ loadSeq \in Seqs /\ Target \in Seqs \ {running} /\ 0 \in Seqs
  BY PolicyType, SizesAssumption DEF TInv, TypeOK, Target, Seqs
<1>1. CASE mode = "app"
  <2>1. AppOk(running) /\ slot'[running] = slot[running]
    BY <1>0, <1>1, SlotFrame DEF LoadInv
  <2>2. \A u \in 1 .. AppLen : slot'[running][u] \in {"good", "weak"}
    BY <2>1 DEF AppOk, Passes
  <2>3. SomeAppLoads'
    BY <1>0, <2>2 DEF SomeAppLoads, AppOk, Passes
  <2>4. CASE mode' = "app" /\ running' = running
    BY <2>2, <2>3, <2>4 DEF LoadInv, AppOk, Passes
  <2>5. CASE mode' = "boot" /\ pc' = "start"
    BY <2>3, <2>5 DEF LoadInv
  <2>6. QED BY <1>1, <2>4, <2>5, AppStep
<1>2. CASE mode # "app"
  <2>1. slot' = slot
    BY <1>2, SlotFrame
  <2>2. SomeAppLoads' /\ \A s : AppOk(s)' <=> AppOk(s)
    BY <2>1 DEF LoadInv, SomeAppLoads, AppOk, Passes
  <2>3. CASE BlInitFails \/ BlNoOta \/ BlReadCfg \/ BlLoaded \/ BlNotLoaded \/ BlUpgrade
    BY <2>2, <2>3, <2>1
    DEF BlInitFails, BlNoOta, BlReadCfg, BlLoaded, BlNotLoaded, BlUpgrade, EnterApp, LoadInv,
        AppOk, Passes
  <2>4. CASE BlEraseCfg \/ BlWriteCfg \/ BlCfgFails
    BY <2>2, <2>4, <2>1
    DEF BlEraseCfg, BlWriteCfg, BlCfgFails, EnterApp, LoadInv, AppOk, Passes
  <2>5. CASE PowerCycle
    BY <2>2, <2>5 DEF PowerCycle, Reset, LoadInv
  <2>6. CASE UNCHANGED vars
    BY <2>2, <2>6, <2>1 DEF vars, LoadInv, AppOk, Passes
  <2>7. ~OtaNext
    BY <1>2 DEF OtaNext, OtaStep, OtaWork, OtaFault, StartUpdate, EraseUnit, EraseDone, EraseFails,
                InitSource, SkipBootloader, OpenTarget, GetData, GetFails, WriteData,
                WriteFails, CheckImage, GetVerifyData, VerifyImage, VerifyFails,
                EraseCfg, WriteCfg, CfgFails, Reboot, InApp
  <2>8. QED BY <2>3, <2>4, <2>5, <2>6, <2>7 DEF Next, BootNext
<1>3. QED BY <1>1, <1>2

\* Whatever fails, flash_erase, the transfer, a write, image_set_cfg, the power,
\* and however often: some sequence keeps an application bl_load_bin can load.
THEOREM SomeAppAlwaysLoads == Spec => []SomeAppLoads
<1>1. Init => LoadInv
  BY FactoryLoads, SizesAssumption DEF Init, LoadInv, SomeAppLoads, Seqs
<1>2. LoadInv => SomeAppLoads
  BY DEF LoadInv
<1>3. QED
  BY TInvInit, TInvNext, LoadInvNext, <1>1, <1>2, PTL DEF Spec

-----------------------------------------------------------------------------
(***************************************************************************)
(* Every reset finds a trusted image, when image_set_cfg does not fail and *)
(* the bootloader can read what it loads.                                  *)
(***************************************************************************)

\* The application section is one of the sections, so a trusted image loads.
LEMMA TrustedLoads == \A s : Trusted(s) => AppOk(s)
BY SizesAssumption DEF Trusted, SectionsOk, AppOk, Passes

\* A device as produced satisfies the invariant.
LEMMA SafeInvInit == Init => SafeInv
<1> SUFFICES ASSUME Init PROVE SafeInv
  OBVIOUS
<1>1. TInv
  BY TInvInit
<1>2. AppOk(0) /\ Trusted(0) /\ 0 \in Seqs
  BY FactoryLoads, SizesAssumption DEF Trusted, Seqs
<1>3. \A s \in Seqs : AppOk(s) => s = 0
  <2>1. \A s \in Seqs : s # 0 => slot[s][1] = "erased"
    BY SizesAssumption DEF Init, BlankSlot, Units
  <2>2. 1 \in 1 .. AppLen
    BY SizesAssumption
  <2>3. QED BY <2>1, <2>2 DEF AppOk, Passes
<1>4. NoCfg /\ CfgTrusted
  BY <1>2, <1>3 DEF Init, NoCfg, CfgTrusted
<1>5. NoOta /\ Booting /\ Updating /\ NoUpgrade
  BY <1>2 DEF Init, NoOta, Booting, Updating, NoUpgrade
<1>6. QED BY <1>1, <1>4, <1>5 DEF SafeInv

\* The part about the flash, when neither the slots nor the image_cfg_t change.
LEMMA FlashKept ==
  ASSUME CfgTrusted, NoCfg, UNCHANGED <<slot, cfg>>
  PROVE  CfgTrusted' /\ NoCfg'
<1>1. \A s : (AppOk(s)' <=> AppOk(s)) /\ (Trusted(s)' <=> Trusted(s))
  BY SlotKept
<1>2. QED BY <1>1 DEF CfgTrusted, NoCfg

\* While the target is erased or written, the configuration names the running
\* sequence, which an update never writes.
LEMMA TargetWritten ==
  ASSUME SafeInv, mode = "app", pc \in {"erase", "write"}, cfg' = cfg,
         \A s \in Seqs \ {Target} : slot'[s] = slot[s]
  PROVE  /\ CfgTrusted' /\ NoCfg'
         /\ running' = running => Trusted(running)'
         /\ cfg = running /\ otaOn
<1>1. cfg = running /\ otaOn
  BY DEF SafeInv, NoOta, Updating, TInv, TypeOK
<1>2. running \in Seqs /\ Target \in Seqs /\ Target = UpdatePolicy[running] /\ Target # running
  BY PolicyType DEF SafeInv, TInv, TypeOK, Target
<1>3. \A s \in Seqs \ {Target} : (AppOk(s)' <=> AppOk(s)) /\ (Trusted(s)' <=> Trusted(s))
  BY SlotKept
<1>4. cfg # N
  BY <1>1, <1>2, SizesAssumption DEF Seqs
<1>5. CfgTrusted' /\ NoCfg'
  BY <1>1, <1>2, <1>3, <1>4 DEF SafeInv, CfgTrusted, NoCfg
<1>6. slot'[running] = slot[running] /\ Trusted(running)
  BY <1>2 DEF SafeInv, Updating
<1>7. running' = running => Trusted(running)'
  BY <1>6 DEF Trusted, SectionsOk, VerifyData, Exact, Passes
<1>8. QED BY <1>1, <1>5, <1>7

\* The bootloader's steps.
LEMMA SafeBoot ==
  ASSUME Faults \cap CfgFaults = {}, SafeInv, BootNext
  PROVE  NoOta' /\ CfgTrusted' /\ NoCfg' /\ Booting' /\ Updating' /\ NoUpgrade'
<1> USE DEF SafeInv
<1>0. /\ cfg \in 0 .. N /\ loadSeq \in Seqs /\ tries \in 0 .. N /\ 0 \in Seqs
      /\ N \in {2, 3}
  BY SizesAssumption DEF TInv, TypeOK, Seqs
<1>1. "set_cfg" \notin Faults /\ "load" \notin Faults
  BY DEF CfgFaults
<1>2. UNCHANGED slot /\ mode = "boot"
  BY DEF BootNext, BlInitFails, BlNoOta, BlReadCfg, BlLoaded, BlNotLoaded, BlEraseCfg,
         BlWriteCfg, BlCfgFails, BlUpgrade, flashVars
<1>3. \A s : (AppOk(s)' <=> AppOk(s)) /\ (Trusted(s)' <=> Trusted(s))
  BY <1>2, SlotKept
<1>4. CASE BlNoOta
  <2>1. AppOk(0) /\ Trusted(0)
    BY <1>0, <1>4 DEF BlNoOta, NoOta, NoCfg
  <2>2. EnterApp /\ running' = 0 /\ UNCHANGED flashVars /\ ~otaOn
    BY <1>1, <1>4, <2>1 DEF BlNoOta
  <2>3. Trusted(running)'
    BY <1>2, <2>1, <2>2 DEF Trusted, SectionsOk, VerifyData, Exact, Passes
  <2>4. QED
    BY <1>3, <2>1, <2>2, <2>3, FlashKept
    DEF EnterApp, NoOta, Booting, Updating, NoUpgrade, flashVars
<1>5. CASE BlReadCfg
  <2>1. CfgTrusted' /\ NoCfg'
    BY <1>5, FlashKept DEF BlReadCfg, flashVars
  <2>2. Booting'
    BY <1>0, <1>1, <1>5 DEF BlReadCfg, Booting, flashVars, Seqs
  <2>3. QED
    BY <1>3, <1>5, <2>1, <2>2 DEF BlReadCfg, NoOta, Updating, NoUpgrade, flashVars
<1>6. CASE BlLoaded
  <2>1. CfgTrusted' /\ NoCfg' /\ UNCHANGED <<slot, cfg, otaOn>>
    BY <1>6, FlashKept DEF BlLoaded, flashVars
  <2>2. otaOn /\ cfgSeq = cfg /\ AppOk(loadSeq) /\ running' = loadSeq /\ tries < N
    BY <1>6, <1>2 DEF BlLoaded, Booting, NoOta
  <2>3. Trusted(loadSeq)
    <3>1. CASE cfg = N
      BY <1>0, <2>2, <3>1 DEF NoCfg
    <3>2. CASE cfg # N
      <4>1. loadSeq = cfg
        BY <1>2, <1>6, <2>2, <3>2 DEF BlLoaded, Booting
      <4>2. QED BY <3>2, <4>1 DEF CfgTrusted
    <3>3. QED BY <3>1, <3>2
  <2>4. CASE loadSeq # cfgSeq
    <3>1. cfg = N /\ loadSeq = tries
      BY <1>6, <2>2, <2>4 DEF BlLoaded, Booting
    <3>2. \A s \in Seqs : s < loadSeq => ~AppOk(s)
      BY <1>6, <2>2, <3>1 DEF BlLoaded, Booting
    <3>3. mode' = "boot" /\ pc' = "set_cfg" /\ loadSeq' = loadSeq
      BY <1>6, <2>4 DEF BlLoaded, bootVars
    <3>4. AppOk(loadSeq)' /\ \A s \in Seqs : s < loadSeq' => ~AppOk(s)'
      BY <1>2, <2>2, <3>2, <3>3 DEF AppOk, Passes
    <3>5. Booting'
      BY <2>1, <2>2, <3>1, <3>3, <3>4 DEF Booting
    <3>6. QED
      BY <2>1, <2>2, <3>3, <3>5 DEF NoOta, Updating, NoUpgrade
  <2>5. CASE loadSeq = cfgSeq
    <3>1. mode' = "app" /\ pc' = "idle"
      BY <1>6, <2>5 DEF BlLoaded, EnterApp
    <3>2. Trusted(running)'
      BY <1>2, <2>2, <2>3 DEF Trusted, SectionsOk, VerifyData, Exact, Passes
    <3>3. cfg' = running'
      BY <2>1, <2>2, <2>5
    <3>4. Updating'
      BY <3>1, <3>2, <3>3 DEF Updating
    <3>5. QED
      BY <2>1, <2>2, <3>1, <3>4 DEF NoOta, Booting, NoUpgrade
  <2>6. QED BY <2>4, <2>5
<1>7. CASE BlNotLoaded
  <2>1. CfgTrusted' /\ NoCfg' /\ UNCHANGED <<slot, cfg, otaOn, mode, pc, cfgSeq>>
    BY <1>7, FlashKept DEF BlNotLoaded, flashVars
  <2>2. /\ otaOn /\ ~AppOk(loadSeq) /\ tries < N /\ pc = "try"
        /\ loadSeq' = (loadSeq + 1) % N /\ tries' = tries + 1
    BY <1>1, <1>2, <1>7 DEF BlNotLoaded, NoOta
  <2>3. cfg = N /\ loadSeq = tries /\ cfgSeq = cfg /\ \A s \in Seqs : s < tries => ~AppOk(s)
    BY <1>2, <2>2, TrustedLoads DEF Booting, CfgTrusted
  <2>4. \A s \in Seqs : s < tries' => ~AppOk(s)
    BY <1>0, <2>2, <2>3 DEF Seqs
  <2>5. tries' < N => loadSeq' = tries'
    BY <1>0, <2>2, <2>3
  <2>6. \A s \in Seqs : s < tries' => ~AppOk(s)'
    BY <1>3, <2>4
  <2>7. Booting'
    BY <2>1, <2>2, <2>3, <2>5, <2>6 DEF Booting
  <2>8. QED
    BY <1>2, <2>1, <2>2, <2>7 DEF NoOta, Updating, NoUpgrade
<1>8. CASE BlEraseCfg \/ BlWriteCfg
  <2>1. /\ otaOn /\ cfg = N /\ running = loadSeq /\ AppOk(loadSeq)
        /\ \A s \in Seqs : s < loadSeq => ~AppOk(s)
    BY <1>2, <1>8 DEF BlEraseCfg, BlWriteCfg, Booting, NoOta
  <2>2. Trusted(loadSeq)
    BY <1>0, <2>1 DEF NoCfg
  <2>3. CASE BlEraseCfg
    <3>1. UNCHANGED <<slot, cfg, otaOn, mode, running, loadSeq>> /\ pc' = "write_cfg"
      BY <2>1, <2>3 DEF BlEraseCfg, bootVars
    <3>2. AppOk(loadSeq)' /\ \A s \in Seqs : s < loadSeq' => ~AppOk(s)'
      BY <2>1, <3>1 DEF AppOk, Passes
    <3>3. CfgTrusted' /\ NoCfg'
      BY <3>1, FlashKept
    <3>4. Booting'
      BY <2>1, <3>1, <3>2 DEF Booting
    <3>5. QED
      BY <1>2, <2>1, <3>1, <3>3, <3>4 DEF NoOta, Updating, NoUpgrade
  <2>4. CASE BlWriteCfg
    <3>1. /\ cfg' = loadSeq /\ mode' = "app" /\ pc' = "idle"
          /\ UNCHANGED <<slot, otaOn, running>>
      BY <2>4 DEF BlWriteCfg, EnterApp
    <3>2. Trusted(running)' /\ Trusted(cfg)'
      BY <2>1, <2>2, <3>1 DEF Trusted, SectionsOk, VerifyData, Exact, Passes
    <3>3. \A s \in Seqs : AppOk(s)' => Trusted(s)'
      BY <1>3, <2>1 DEF NoCfg
    <3>4. CfgTrusted' /\ NoCfg'
      BY <1>0, <3>1, <3>2, <3>3, SizesAssumption DEF CfgTrusted, NoCfg, Seqs
    <3>5. Updating'
      BY <2>1, <3>1, <3>2 DEF Updating
    <3>6. QED
      BY <2>1, <3>1, <3>4, <3>5 DEF NoOta, Booting, NoUpgrade
  <2>5. QED BY <1>8, <2>3, <2>4
<1>9. ~BlCfgFails /\ ~BlInitFails
  BY <1>1 DEF BlCfgFails, BlInitFails
<1>10. ~BlUpgrade
  <2>1. SUFFICES ASSUME BlUpgrade PROVE FALSE
    OBVIOUS
  <2>2. pc = "try" /\ tries = N /\ otaOn
    BY <1>2, <2>1 DEF BlUpgrade, NoOta
  <2>3. cfg = N /\ \A s \in Seqs : s < N => ~AppOk(s)
    BY <1>0, <1>2, <2>2 DEF Booting
  <2>4. \A s \in Seqs : s < N
    BY <1>0 DEF Seqs
  <2>5. QED BY <2>3, <2>4 DEF NoCfg
<1>11. QED
  BY <1>4, <1>5, <1>6, <1>7, <1>8, <1>9, <1>10 DEF BootNext

\* The steps of the update that write neither the target nor the image_cfg_t.
OtaQuiet == \/ StartUpdate \/ EraseDone \/ EraseFails \/ InitSource
            \/ SkipBootloader \/ OpenTarget \/ GetData \/ GetFails
            \/ CheckImage \/ GetVerifyData \/ VerifyImage \/ VerifyFails

\* They advance only as far as the checks allow.
LEMMA QuietPc ==
  ASSUME OtaQuiet
  PROVE  /\ mode = "app" /\ UNCHANGED <<flashVars, mode, running>>
         /\ pc' \in AppPcs \ {"write_cfg", "reboot"}
         /\ pc \notin {"write_cfg", "reboot"}
         /\ pc' = "verify_data" => SectionsOk(Target)
         /\ pc' = "verify" => GetVerifyData
         /\ pc' = "set_cfg" => VerifyImage
         /\ otaOn \/ pc # "idle"
<1>1. CASE StartUpdate \/ EraseDone \/ EraseFails \/ VerifyFails
  BY <1>1 DEF StartUpdate, EraseDone, EraseFails, VerifyFails, GiveUp, InApp, AppPcs, flashVars
<1>2. CASE InitSource \/ OpenTarget \/ GetData \/ GetFails
  BY <1>2 DEF InitSource, OpenTarget, GetData, GetFails, GiveUp, InApp, AppPcs, flashVars
<1>3. CASE SkipBootloader
  BY <1>3 DEF SkipBootloader, GiveUp, InApp, AppPcs, flashVars
<1>4. CASE CheckImage
  BY <1>4 DEF CheckImage, GiveUp, InApp, AppPcs, flashVars
<1>5. CASE GetVerifyData \/ VerifyImage
  BY <1>5 DEF GetVerifyData, VerifyImage, InApp, AppPcs, flashVars
<1>6. QED BY <1>1, <1>2, <1>3, <1>4, <1>5 DEF OtaQuiet

\* The steps of an update that neither write the flash nor configure it.
LEMMA SafeQuiet ==
  ASSUME SafeInv, OtaQuiet
  PROVE  NoOta' /\ CfgTrusted' /\ NoCfg' /\ Booting' /\ Updating' /\ NoUpgrade'
<1> USE DEF SafeInv
<1>1. /\ mode = "app" /\ mode' = "app" /\ UNCHANGED <<slot, cfg, otaOn, running>> /\ otaOn
      /\ pc' \notin {"write_cfg", "reboot"} /\ pc \notin {"write_cfg", "reboot"}
  BY QuietPc DEF flashVars, NoOta
<1>2. CfgTrusted' /\ NoCfg'
  BY <1>1, FlashKept
<1>3. Target' = Target
  BY <1>1 DEF Target
<1>4. Trusted(running)' /\ (cfg = running)'
  BY <1>1 DEF Updating, Trusted, SectionsOk, VerifyData, Exact, Passes
<1>5. SectionsOk(Target)' <=> SectionsOk(Target)
  BY <1>1, <1>3 DEF SectionsOk, Passes
<1>6. pc' \in {"verify_data", "verify"} => SectionsOk(Target)'
  <2>1. CASE pc' = "verify_data"
    BY <1>5, <2>1, QuietPc
  <2>2. CASE pc' = "verify"
    BY <1>1, <1>5, <2>2, QuietPc DEF GetVerifyData, InApp, Updating
  <2>3. QED BY <2>1, <2>2
<1>7. pc' = "verify" /\ "vread" \notin Faults /\ VerifyData(Target)' = "good" => vtype' = "digest"
  <2>1. VerifyData(Target)' = VerifyData(Target)
    BY <1>1, <1>3 DEF VerifyData
  <2>2. QED BY <2>1, QuietPc DEF GetVerifyData
<1>8. pc' = "set_cfg" => Trusted(Target)'
  <2>1. SUFFICES ASSUME pc' = "set_cfg" PROVE Trusted(Target)'
    OBVIOUS
  <2>2. pc = "verify" /\ (vtype = "none" \/ DigestMatches)
    BY <2>1, QuietPc DEF VerifyImage, InApp
  <2>3. SectionsOk(Target)
    BY <1>1, <2>2 DEF Updating
  <2>4. "vread" \notin Faults /\ VerifyData(Target) = "good" => Exact(Target)
    BY <1>1, <2>2 DEF Updating, DigestMatches
  <2>5. QED
    BY <1>1, <1>3, <2>3, <2>4 DEF Trusted, SectionsOk, VerifyData, Exact, Passes
<1>9. Updating'
  BY <1>1, <1>4, <1>6, <1>7, <1>8 DEF Updating
<1>10. QED
  BY <1>1, <1>2, <1>9 DEF NoOta, Booting, NoUpgrade

\* The steps of an update.
LEMMA SafeOta ==
  ASSUME Faults \cap CfgFaults = {}, SafeInv, OtaNext
  PROVE  NoOta' /\ CfgTrusted' /\ NoCfg' /\ Booting' /\ Updating' /\ NoUpgrade'
<1> USE DEF SafeInv
<1>0. /\ running \in Seqs /\ Target \in Seqs /\ Target # running
      /\ Target = UpdatePolicy[running] /\ N \notin Seqs
  BY PolicyType, SizesAssumption DEF TInv, TypeOK, Target, Seqs
<1>1. CASE OtaQuiet
  BY <1>1, SafeQuiet
<1>2. CASE EraseUnit \/ WriteData \/ WriteFails
  <2>1. /\ mode = "app" /\ pc \in {"erase", "write"}
        /\ UNCHANGED <<cfg, otaOn, mode, running>>
        /\ pc' \in {"erase", "get", "loaded"}
    BY <1>2 DEF EraseUnit, WriteData, WriteFails, InApp
  <2>2. \A s \in Seqs \ {Target} : slot'[s] = slot[s]
    <3>1. slot \in [Seqs -> [Units -> Contents]]
      BY DEF TInv, TypeOK
    <3>2. CASE EraseUnit
      BY <1>0, <3>1, <3>2 DEF EraseUnit
    <3>3. CASE WriteData \/ WriteFails
      BY <1>0, <3>1, <3>3 DEF WriteData, WriteFails
    <3>4. QED BY <1>2, <3>2, <3>3
  <2>3. CfgTrusted' /\ NoCfg' /\ Trusted(running)' /\ cfg = running /\ otaOn
    BY <2>1, <2>2, TargetWritten
  <2>4. QED
    BY <2>1, <2>3 DEF NoOta, Booting, Updating, NoUpgrade
<1>3. CASE EraseCfg
  <2>1. /\ mode = "app" /\ pc = "set_cfg" /\ cfg' = N /\ pc' = "write_cfg"
        /\ UNCHANGED <<slot, otaOn, mode, running>>
    BY <1>3 DEF EraseCfg, InApp
  <2>2. otaOn /\ cfg = running /\ Trusted(running) /\ Trusted(Target)
    BY <2>1 DEF Updating, NoOta
  <2>3. \A s \in Seqs : AppOk(s) => Trusted(s)
    BY <1>0, <2>2 DEF CfgTrusted
  <2>4. \A s : (AppOk(s)' <=> AppOk(s)) /\ (Trusted(s)' <=> Trusted(s))
    BY <2>1, SlotKept
  <2>5. NoCfg' /\ CfgTrusted'
    BY <1>0, <2>1, <2>2, <2>3, <2>4, TrustedLoads DEF NoCfg, CfgTrusted
  <2>6. Trusted(running)' /\ Trusted(Target)'
    BY <2>1, <2>2 DEF Target, Trusted, SectionsOk, VerifyData, Exact, Passes
  <2>7. QED
    BY <2>1, <2>2, <2>5, <2>6 DEF NoOta, Booting, Updating, NoUpgrade
<1>4. CASE WriteCfg
  <2>1. /\ mode = "app" /\ pc = "write_cfg" /\ cfg' = Target /\ pc' = "reboot"
        /\ UNCHANGED <<slot, otaOn, mode, running>>
    BY <1>4 DEF WriteCfg, InApp
  <2>2. otaOn /\ cfg = N /\ Trusted(running) /\ Trusted(Target)
    BY <2>1 DEF Updating, NoOta
  <2>3. \A s : (AppOk(s)' <=> AppOk(s)) /\ (Trusted(s)' <=> Trusted(s))
    BY <2>1, SlotKept
  <2>4. Target' = Target
    BY <2>1 DEF Target
  <2>5. Trusted(running)' /\ Trusted(Target)' /\ Trusted(cfg)'
    BY <2>1, <2>2, <2>4 DEF Trusted, SectionsOk, VerifyData, Exact, Passes
  <2>6. NoCfg' /\ CfgTrusted'
    BY <1>0, <2>1, <2>2, <2>3, <2>5 DEF NoCfg, CfgTrusted
  <2>7. QED
    BY <2>1, <2>2, <2>4, <2>5, <2>6 DEF NoOta, Booting, Updating, NoUpgrade
<1>5. CASE Reboot
  <2>1. mode = "app" /\ pc = "reboot" /\ mode' = "boot" /\ pc' = "start" /\ UNCHANGED <<slot, cfg, otaOn>>
    BY <1>5 DEF Reboot, Reset, InApp, flashVars
  <2>2. otaOn /\ CfgTrusted' /\ NoCfg'
    BY <2>1, FlashKept DEF NoOta
  <2>3. QED
    BY <2>1, <2>2 DEF NoOta, Booting, Updating, NoUpgrade
<1>6. ~CfgFails
  BY DEF CfgFails, CfgFaults
<1>7. QED
  BY <1>1, <1>2, <1>3, <1>4, <1>5, <1>6 DEF OtaNext, OtaStep, OtaWork, OtaFault, OtaQuiet

\* A power failure, also in the middle of a program operation.
LEMMA SafePower ==
  ASSUME SafeInv, PowerCycle
  PROVE  NoOta' /\ CfgTrusted' /\ NoCfg' /\ Booting' /\ Updating' /\ NoUpgrade'
<1> USE DEF SafeInv
<1>0. Target \in Seqs
  BY PolicyType DEF TInv, TypeOK, Target
<1>1. mode' = "boot" /\ pc' = "start" /\ UNCHANGED <<cfg, otaOn>>
  BY DEF PowerCycle, Reset
<1>2. CfgTrusted' /\ NoCfg' /\ (~otaOn => AppOk(0)')
  <2>1. CASE UNCHANGED slot
    <3>1. CfgTrusted' /\ NoCfg'
      BY <1>1, <2>1, FlashKept
    <3>2. QED BY <2>1, <3>1 DEF NoOta, AppOk, Passes
  <2>2. CASE InApp("write") /\ \E k \in 1 .. Len(buf) : slot' = [slot EXCEPT ![Target] = Torn(k)]
    <3>1. \A s \in Seqs \ {Target} : slot'[s] = slot[s]
      BY <1>0, <2>2
    <3>2. QED BY <1>1, <2>2, <3>1, TargetWritten DEF InApp
  <2>3. QED BY <2>1, <2>2 DEF PowerCycle
<1>3. QED
  BY <1>1, <1>2 DEF NoOta, Booting, Updating, NoUpgrade

\* Every step of the device keeps the invariant.
LEMMA SafeInvNext ==
  ASSUME Faults \cap CfgFaults = {}
  PROVE  SafeInv /\ [Next]_vars => SafeInv'
<1> SUFFICES ASSUME SafeInv, [Next]_vars PROVE SafeInv'
  OBVIOUS
<1>1. TInv'
  BY TInvNext DEF SafeInv
<1>2. CASE BootNext
  BY <1>1, <1>2, SafeBoot DEF SafeInv
<1>3. CASE OtaNext
  BY <1>1, <1>3, SafeOta DEF SafeInv
<1>4. CASE PowerCycle
  BY <1>1, <1>4, SafePower DEF SafeInv
<1>5. CASE UNCHANGED vars
  BY <1>1, <1>5
  DEF vars, flashVars, bootVars, otaVars, SafeInv, NoOta, CfgTrusted, NoCfg, Booting,
      Updating, NoUpgrade, Trusted, AppOk, SectionsOk, Passes, Exact, VerifyData, Target
<1>6. QED BY <1>2, <1>3, <1>4, <1>5 DEF Next

\* A set of sequences has a least one, which the bootloader's order visits first ...
LEMMA LeastExists ==
  ASSUME NEW S \in SUBSET Seqs, S # {}
  PROVE  \E m \in S : \A j \in S : m <= j
<1>1. CASE 0 \in S
  BY <1>1 DEF Seqs
<1>2. CASE 0 \notin S /\ 1 \in S
  BY <1>2, SizesAssumption DEF Seqs
<1>3. CASE 0 \notin S /\ 1 \notin S
  <2>1. \A j \in S : j = 2
    BY <1>3, SizesAssumption DEF Seqs
  <2>2. PICK m \in S : m = 2
    BY <2>1
  <2>3. QED BY <2>1, <2>2
<1>4. QED BY <1>1, <1>2, <1>3

\* ... and which is the one that CHOOSE takes.
LEMMA LeastIs ==
  ASSUME NEW S \in SUBSET Seqs, NEW m \in S, \A j \in S : m <= j
  PROVE  (CHOOSE i \in S : \A j \in S : i <= j) = m
<1>1. \A i \in S : (\A j \in S : i <= j) => i = m
  BY SizesAssumption DEF Seqs
<1>2. QED BY <1>1

\* The bootloader chooses the configured sequence, if there is one that loads.
LEMMA BootTargetConfigured ==
  ASSUME TInv, cfg # N, AppOk(cfg)
  PROVE  BootTarget = cfg
<1> DEFINE order == [i \in Seqs |-> (cfg + i) % N]
           ok    == {i \in Seqs : AppOk(order[i])}
           least == CHOOSE i \in ok : \A j \in ok : i <= j
<1>0. N \in {2, 3} /\ cfg \in Seqs /\ 0 \in Seqs
  BY SizesAssumption DEF TInv, TypeOK, Seqs
<1>1. BootTarget = order[least]
  BY DEF BootTarget
<1>2. order[0] = cfg
  BY <1>0 DEF Seqs
<1>3. 0 \in ok /\ \A j \in ok : 0 <= j
  BY <1>0, <1>2 DEF Seqs
<1>4. ok \in SUBSET Seqs
  OBVIOUS
<1>5. least = 0
  <2> HIDE DEF ok
  <2>1. QED BY <1>3, <1>4, LeastIs
<1>6. QED BY <1>1, <1>2, <1>5

CfgLoads == cfg # N => AppOk(cfg)

LEMMA SafeLoads == SafeInv => TInv /\ SomeAppLoads /\ CfgLoads
<1> SUFFICES ASSUME SafeInv PROVE TInv /\ SomeAppLoads /\ CfgLoads
  OBVIOUS
<1>1. cfg # N => cfg \in Seqs
  BY SizesAssumption DEF SafeInv, TInv, TypeOK, Seqs
<1>2. QED BY <1>1, TrustedLoads DEF SafeInv, CfgTrusted, NoCfg, SomeAppLoads, CfgLoads

\* What the bootloader would choose: the configured sequence, which loads, or,
\* with none configured, the first one that does.
LEMMA BootTargetIs ==
  ASSUME TInv, SomeAppLoads, CfgLoads
  PROVE  /\ BootTarget \in Seqs
         /\ AppOk(BootTarget)
         /\ cfg # N => BootTarget = cfg
         /\ cfg = N => \A s \in Seqs : AppOk(s) /\ (\A r \in Seqs : r < s => ~AppOk(r)) => BootTarget = s
<1> DEFINE first == IF cfg = N THEN 0 ELSE cfg
           order == [i \in Seqs |-> (first + i) % N]
           ok    == {i \in Seqs : AppOk(order[i])}
           least == CHOOSE i \in ok : \A j \in ok : i <= j
<1>0. N \in {2, 3} /\ cfg \in 0 .. N /\ first \in Seqs /\ 0 \in Seqs
  BY SizesAssumption DEF TInv, TypeOK, Seqs
<1>1. BootTarget = order[least]
  BY DEF BootTarget
<1>2. \A i \in Seqs : order[i] \in Seqs
  BY <1>0 DEF Seqs
<1>3. order[0] = first
  BY <1>0 DEF Seqs
<1>4. CASE cfg # N
  <2>1. AppOk(cfg) /\ cfg \in Seqs
    BY <1>0, <1>4 DEF CfgLoads, Seqs
  <2>2. BootTarget = cfg
    BY <1>4, <2>1, BootTargetConfigured
  <2>3. QED BY <1>4, <2>1, <2>2
<1>5. CASE cfg = N
  <2>1. \A i \in Seqs : order[i] = i
    BY <1>0, <1>5 DEF Seqs
  <2>2. PICK s \in ok : \A j \in ok : s <= j
    <3>1. ok \in SUBSET Seqs /\ ok # {}
      BY <2>1 DEF SomeAppLoads
    <3> HIDE DEF ok
    <3>2. QED BY <3>1, LeastExists
  <2>3. ok \in SUBSET Seqs
    OBVIOUS
  <2>4. least = s
    <3> HIDE DEF ok
    <3>1. QED BY <2>2, <2>3, LeastIs
  <2>5. BootTarget = s /\ s \in Seqs /\ AppOk(s)
    BY <1>1, <2>1, <2>2, <2>4
  <2>6. ASSUME NEW t \in Seqs, AppOk(t), \A r \in Seqs : r < t => ~AppOk(r)
        PROVE  t = s
    BY <1>0, <2>1, <2>2, <2>5, <2>6 DEF Seqs
  <2>7. QED BY <1>5, <2>5, <2>6
<1>6. QED BY <1>4, <1>5

\* The invariant says what a reset finds.
LEMMA SafeBootsTrusted == SafeInv => BootsTrusted
<1> SUFFICES ASSUME SafeInv PROVE BootsTrusted
  OBVIOUS
<1>1. BootTarget \in Seqs /\ AppOk(BootTarget) /\ (cfg # N => BootTarget = cfg)
  BY BootTargetIs, SafeLoads
<1>2. Trusted(BootTarget)
  BY <1>1 DEF SafeInv, CfgTrusted, NoCfg
<1>3. QED BY <1>1, <1>2 DEF BootsTrusted

\* When image_set_cfg does not fail and the bootloader reads what it loads, a
\* power failure at any instant makes the bootloader start a complete image,
\* bit-exact if its verify data say so.
THEOREM AlwaysBootsTrusted ==
  ASSUME Faults \cap CfgFaults = {}
  PROVE  Spec => []BootsTrusted
<1>1. SafeInv /\ [Next]_vars => SafeInv'
  BY SafeInvNext
<1>2. QED
  BY SafeInvInit, <1>1, SafeBootsTrusted, PTL DEF Spec

-----------------------------------------------------------------------------
(***************************************************************************)
(* What is written is never what runs, nor what a reset would start.       *)
(***************************************************************************)

\* The application runs the configured sequence until it configures another;
\* for that the bootloader remembers what it has read, or that it could not,
\* and it writes back what it has loaded.
RunsConfigured ==
  /\ mode = "app" /\ otaOn /\ pc \notin {"write_cfg", "reboot"} => cfg = running
  /\ mode = "app" /\ ~otaOn => pc = "idle"
  /\ mode = "boot" /\ pc = "try" => cfgSeq \in {N, cfg}
  /\ mode = "boot" /\ pc \in {"set_cfg", "write_cfg"} => running = loadSeq

\* As long as image_set_cfg does not fail, every step keeps it so; a sequence
\* that the bootloader cannot read makes no difference.
LEMMA RunsConfiguredNext ==
  ASSUME "set_cfg" \notin Faults
  PROVE  TInv /\ RunsConfigured /\ [Next]_vars => RunsConfigured'
<1> SUFFICES ASSUME TInv, RunsConfigured, [Next]_vars PROVE RunsConfigured'
  OBVIOUS
<1> USE DEF RunsConfigured, flashVars
<1>1. CASE BootNext
  <2>0. loadSeq \in Seqs /\ N \notin Seqs
    BY SizesAssumption DEF TInv, TypeOK, Seqs
  <2>1. CASE BlInitFails \/ BlNoOta \/ BlReadCfg \/ BlNotLoaded \/ BlUpgrade
    BY <2>1 DEF BlInitFails, BlNoOta, BlReadCfg, BlNotLoaded, BlUpgrade, EnterApp
  <2>2. CASE BlLoaded
    BY <2>0, <2>2 DEF BlLoaded, EnterApp, bootVars
  <2>3. CASE BlEraseCfg \/ BlWriteCfg
    BY <2>3 DEF BlEraseCfg, BlWriteCfg, EnterApp, bootVars
  <2>4. QED BY <1>1, <2>1, <2>2, <2>3 DEF BootNext, BlCfgFails
<1>2. CASE OtaQuiet
  <2>1. /\ mode = "app" /\ UNCHANGED <<flashVars, mode, running>>
        /\ pc \notin {"write_cfg", "reboot"} /\ (otaOn \/ pc # "idle")
    BY <1>2, QuietPc
  <2>2. QED BY <2>1
<1>3. CASE EraseUnit \/ WriteData \/ WriteFails
  BY <1>3 DEF EraseUnit, WriteData, WriteFails, InApp
<1>4. CASE EraseCfg \/ WriteCfg \/ Reboot \/ PowerCycle
  BY <1>4 DEF EraseCfg, WriteCfg, Reboot, PowerCycle, Reset, InApp
<1>5. CASE UNCHANGED vars
  BY <1>5 DEF vars, bootVars
<1>6. ~CfgFails
  BY DEF CfgFails
<1>7. QED
  BY <1>1, <1>2, <1>3, <1>4, <1>5, <1>6
  DEF Next, OtaNext, OtaStep, OtaWork, OtaFault, OtaQuiet

\* Neither the running sequence nor the one a reset would start is ever written,
\* unless image_set_cfg fails: what is written is the target, while the
\* configuration names the running one, which loads.
THEOREM NeverWritesBootTarget ==
  ASSUME "set_cfg" \notin Faults
  PROVE  Spec => BootTargetUntouched
<1> DEFINE Kept == /\ mode = "app" => slot'[running] = slot[running]
                   /\ otaOn => slot'[BootTarget] = slot[BootTarget]
           WInv == TInv /\ LoadInv /\ RunsConfigured
<1>1. WInv /\ [Next]_vars => WInv'
  BY TInvNext, LoadInvNext, RunsConfiguredNext
<1>2. WInv /\ [Next]_vars => Kept
  <2> SUFFICES ASSUME WInv, [Next]_vars PROVE Kept
    OBVIOUS
  <2>1. CASE UNCHANGED slot
    BY <2>1
  <2>2. CASE /\ mode = "app" /\ pc \in {"erase", "write"}
             /\ \A s \in Seqs \ {Target} : slot'[s] = slot[s]
    <3>1. running \in Seqs \ {Target} /\ AppOk(running)
      BY <2>2, PolicyType DEF TInv, TypeOK, Target, LoadInv
    <3>2. otaOn => cfg = running
      BY <2>2 DEF RunsConfigured
    <3>3. otaOn => BootTarget = running
      BY <3>1, <3>2, BootTargetConfigured, SizesAssumption DEF Seqs
    <3>4. QED BY <2>2, <3>1, <3>3
  <2>3. QED BY <2>1, <2>2, SlotFrame
<1>3. Init => WInv
  <2>1. Init => LoadInv
    BY FactoryLoads, SizesAssumption DEF Init, LoadInv, SomeAppLoads, Seqs
  <2>2. Init => RunsConfigured
    BY DEF Init, RunsConfigured
  <2>3. QED BY <2>1, <2>2, TInvInit
<1> HIDE DEF WInv, Kept
<1>4. Spec => [][Kept]_vars
  BY <1>1, <1>2, <1>3, PTL DEF Spec
<1>5. QED BY <1>4 DEF BootTargetUntouched, Kept

-----------------------------------------------------------------------------
(***************************************************************************)
(* The device keeps the promise of SafeUpdate.                             *)
(***************************************************************************)

\* The bootloader's choice, characterised by what it depends on.
Choice(t) == /\ t \in Seqs /\ Trusted(t)
             /\ cfg # N => t = cfg
             /\ cfg = N => \A s \in Seqs : s < t => ~AppOk(s)

ChoiceMade == Choice(BootTarget) /\ \A t : Choice(t) => BootTarget = t

\* The bootloader's choice is characterised by Choice.
LEMMA ChoiceIs == SafeInv => ChoiceMade
<1> SUFFICES ASSUME SafeInv PROVE ChoiceMade
  OBVIOUS
<1> USE DEF ChoiceMade
<1>1. BootTarget \in Seqs /\ AppOk(BootTarget) /\ (cfg # N => BootTarget = cfg)
  BY BootTargetIs, SafeLoads
<1>2. Trusted(BootTarget)
  BY SafeBootsTrusted DEF BootsTrusted
<1>3. CASE cfg # N
  BY <1>1, <1>2, <1>3 DEF Choice
<1>4. CASE cfg = N
  <2>1. \E m \in Seqs : AppOk(m) /\ \A r \in Seqs : r < m => ~AppOk(r)
    <3> DEFINE ok == {s \in Seqs : AppOk(s)}
    <3>1. ok \in SUBSET Seqs /\ ok # {} /\ \A s : s \in ok <=> s \in Seqs /\ AppOk(s)
      BY <1>4 DEF SafeInv, NoCfg
    <3> HIDE DEF ok
    <3>2. PICK m \in ok : \A j \in ok : m <= j
      BY <3>1, LeastExists
    <3>3. QED BY <3>1, <3>2, SizesAssumption DEF Seqs
  <2>2. PICK m \in Seqs : AppOk(m) /\ \A r \in Seqs : r < m => ~AppOk(r)
    BY <2>1
  <2>3. \A s \in Seqs : AppOk(s) /\ (\A r \in Seqs : r < s => ~AppOk(r)) => BootTarget = s
    BY <1>4, BootTargetIs, SafeLoads
  <2>4. BootTarget = m
    BY <2>2, <2>3
  <2>5. \A t : Choice(t) => BootTarget = t
    BY <1>4, <2>3, TrustedLoads DEF Choice
  <2>6. QED BY <1>1, <1>2, <1>4, <2>2, <2>4, <2>5 DEF Choice
<1>5. QED BY <1>3, <1>4

\* The choice depends on nothing else.
LEMMA ChoiceKept ==
  ASSUME NEW t, Choice(t), UNCHANGED <<slot, cfg>>
  PROVE  Choice(t)'
BY DEF Choice, Trusted, AppOk, SectionsOk, Exact, VerifyData, Passes

Sound == {s \in Seqs : Trusted(s)}
Run   == IF mode = "app" THEN running ELSE N

\* One step of the device is one of SafeUpdate, or changes nothing it speaks of.
PromiseStep ==
  \/ UNCHANGED <<Sound, BootTarget, Run>>
  \/ Promise!Next

\* Every step of the device is one that SafeUpdate allows.
LEMMA StepKeepsPromise ==
  ASSUME Faults \cap CfgFaults = {}
  PROVE  SafeInv /\ SafeInv' /\ [Next]_vars => PromiseStep
<1>0. SafeInv' => ChoiceMade'
  BY ChoiceIs, PTL
<1> SUFFICES ASSUME SafeInv, SafeInv', [Next]_vars PROVE PromiseStep
  OBVIOUS
<1>1. Choice(BootTarget) /\ \A t : Choice(t) => BootTarget = t
  BY ChoiceIs DEF ChoiceMade
<1>2. (Choice(BootTarget) /\ \A t : Choice(t) => BootTarget = t)'
  BY <1>0 DEF ChoiceMade
<1>3. /\ BootTarget \in Seqs /\ running \in Seqs /\ Target \in Seqs \ {running}
      /\ N \notin Seqs
  <2>1. BootTarget \in Seqs
    BY <1>1 DEF Choice
  <2>2. running \in Seqs
    BY DEF SafeInv, TInv, TypeOK
  <2>3. Target \in Seqs /\ Target # running
    BY <2>2, PolicyType DEF Target
  <2>4. N \notin Seqs
    BY SizesAssumption DEF Seqs
  <2>5. QED BY <2>1, <2>2, <2>3, <2>4
<1>4. CASE slot' = slot
  <2>1. Sound' = Sound
    BY <1>4 DEF Sound, Trusted, SectionsOk, Exact, VerifyData, Passes
  <2>2. BootTarget' \in Sound
    BY <1>2, <2>1 DEF Choice, Sound
  <2>3. CASE Run' = Run
    <3>1. Promise!Switch
      BY <2>1, <2>2, <2>3 DEF Promise!Switch, Sound, Run
    <3>2. QED BY <3>1 DEF PromiseStep, Promise!Next
  <2>4. CASE Run' # Run
    <3>1. CASE Reboot \/ PowerCycle
      <4>1. Run' = N /\ cfg' = cfg
        BY <3>1 DEF Reboot, PowerCycle, Reset, Run, flashVars
      <4>2. BootTarget' = BootTarget
        BY <1>1, <1>2, <1>4, <4>1, ChoiceKept
      <4>3. QED BY <2>1, <4>1, <4>2 DEF PromiseStep, Promise!Next, Promise!Stop, Sound, Run
    <3>2. CASE BlNoOta \/ BlLoaded
      <4>1. Run = N /\ Run' = running' /\ cfg' = cfg
        BY <2>4, <3>2 DEF BlNoOta, BlLoaded, EnterApp, Run, flashVars
      <4>2. Choice(running')
        <5>1. CASE BlNoOta
          <6>1. cfg = N /\ running' = 0 /\ AppOk(0) /\ 0 \in Seqs
            BY <5>1, SizesAssumption DEF BlNoOta, SafeInv, NoOta, Seqs
          <6>2. QED BY <6>1 DEF Choice, SafeInv, NoCfg, Seqs
        <5>2. CASE BlLoaded
          <6>1. /\ running' = loadSeq /\ loadSeq = cfgSeq /\ loadSeq \in Seqs
                /\ mode = "boot" /\ pc = "try"
            BY <2>4, <5>2 DEF BlLoaded, Run, SafeInv, TInv, TypeOK
          <6>2. loadSeq = cfg /\ cfg # N
            BY <1>3, <6>1 DEF SafeInv, Booting, NoOta
          <6>3. QED BY <6>1, <6>2 DEF Choice, SafeInv, CfgTrusted
        <5>3. QED BY <3>2, <5>1, <5>2
      <4>3. BootTarget = running' /\ BootTarget' = BootTarget
        BY <1>1, <1>2, <1>4, <4>1, <4>2, ChoiceKept
      <4>4. QED BY <2>1, <4>1, <4>3 DEF PromiseStep, Promise!Next, Promise!Boot, Sound, Run
    <3>3. CASE BlWriteCfg
      <4>1. /\ cfg = N /\ running = loadSeq /\ AppOk(loadSeq) /\ loadSeq \in Seqs
            /\ \A s \in Seqs : s < loadSeq => ~AppOk(s)
        BY <3>3 DEF BlWriteCfg, SafeInv, Booting, NoOta, TInv, TypeOK
      <4>2. Run = N /\ Run' = loadSeq /\ cfg' = loadSeq
        BY <3>3, <4>1 DEF BlWriteCfg, EnterApp, Run
      <4>3. BootTarget = loadSeq
        BY <1>1, <4>1 DEF Choice, SafeInv, NoCfg
      <4>4. BootTarget' = loadSeq
        BY <1>2, <1>3, <4>1, <4>2 DEF Choice
      <4>5. QED
        BY <2>1, <4>2, <4>3, <4>4 DEF PromiseStep, Promise!Next, Promise!Boot, Sound, Run
    <3>4. CASE BlReadCfg \/ BlNotLoaded \/ BlEraseCfg \/ BlUpgrade
      BY <2>4, <3>4 DEF BlReadCfg, BlNotLoaded, BlEraseCfg, BlUpgrade, Run
    <3>5. ~BlCfgFails /\ ~BlInitFails
      BY DEF BlCfgFails, BlInitFails, CfgFaults
    <3>6. CASE OtaNext /\ ~Reboot
      BY <2>4, <3>6
      DEF OtaNext, OtaStep, OtaWork, OtaFault, StartUpdate, EraseUnit, EraseDone, EraseFails, InitSource,
          SkipBootloader, OpenTarget, GetData, GetFails, WriteData, WriteFails,
          CheckImage, GetVerifyData, VerifyImage, VerifyFails, EraseCfg, WriteCfg,
          CfgFails, Run
    <3>7. CASE UNCHANGED vars
      BY <2>4, <3>7 DEF vars, Run
    <3>8. QED
      BY <3>1, <3>2, <3>3, <3>4, <3>5, <3>6, <3>7 DEF Next, BootNext
  <2>5. QED BY <2>3, <2>4
<1>5. CASE slot' # slot
  <2>1. /\ mode = "app" /\ pc \in {"erase", "write"}
        /\ \A s \in Seqs \ {Target} : slot'[s] = slot[s]
    BY <1>5, SlotFrame DEF SafeInv
  <2>2. cfg = running /\ BootTarget = running
    BY <1>1, <1>3, <2>1, TargetWritten DEF SafeInv, Updating, NoOta, TInv, TypeOK, Choice
  <2>3. cfg' = cfg
    BY <2>1
    DEF Next, BootNext, BlInitFails, BlNoOta, BlReadCfg, BlLoaded, BlNotLoaded, BlEraseCfg,
        BlWriteCfg, BlCfgFails, BlUpgrade, OtaNext, OtaStep, OtaWork, OtaFault, StartUpdate, EraseUnit,
        EraseDone, EraseFails, InitSource, SkipBootloader, OpenTarget, GetData,
        GetFails, WriteData, WriteFails, CheckImage, GetVerifyData, VerifyImage,
        VerifyFails, EraseCfg, WriteCfg, CfgFails, Reboot, PowerCycle, InApp,
        flashVars, vars
  <2>4. BootTarget' = BootTarget
    BY <1>2, <1>3, <2>2, <2>3 DEF Choice
  <2>5. \A s \in Seqs \ {Target} : Trusted(s)' <=> Trusted(s)
    BY <2>1, SlotKept
  <2>6. Sound' \in {Sound \ {Target}, Sound \cup {Target}}
    BY <2>5 DEF Sound
  <2>7. Promise!Rewrite(Target)
    BY <1>3, <2>1, <2>2, <2>6 DEF Promise!Rewrite, Sound
  <2>8. CASE mode' = "app" /\ running' = running
    BY <1>3, <2>1, <2>4, <2>7, <2>8 DEF PromiseStep, Promise!Next, Promise!Write
  <2>9. CASE mode' = "boot"
    BY <1>3, <2>1, <2>4, <2>7, <2>9 DEF PromiseStep, Promise!Next, Promise!Stop
  <2>10. QED BY <2>1, <2>8, <2>9, AppStep
<1>6. QED BY <1>4, <1>5

\* The bootloader, the updater and the power together refine SafeUpdate: what a
\* reset would run is sound at every instant, is never written, and changes only
\* to another sound sequence; and what runs is what was to be run.
THEOREM RefinesSafeUpdate ==
  ASSUME Faults \cap CfgFaults = {}
  PROVE  Spec => KeepsPromise
<1>1. SafeInv /\ [Next]_vars => SafeInv'
  BY SafeInvNext
<1>2. SafeInv /\ SafeInv' /\ [Next]_vars => PromiseStep
  BY StepKeepsPromise
<1>3. Init => Promise!Init
  <2> SUFFICES ASSUME Init PROVE Promise!Init
    OBVIOUS
  <2>1. Choice(BootTarget)
    BY SafeInvInit, ChoiceIs DEF ChoiceMade
  <2>2. QED BY <2>1 DEF Promise!Init, Init, Choice
<1>4. PromiseStep => [Promise!Next]_<<Sound, BootTarget, Run>>
  BY DEF PromiseStep
<1>5. QED
  BY SafeInvInit, <1>1, <1>2, <1>3, <1>4, PTL DEF Spec, KeepsPromise, Promise!Spec, Sound, Run
=============================================================================
