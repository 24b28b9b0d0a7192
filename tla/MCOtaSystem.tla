---------------------------- MODULE MCOtaSystem -----------------------------
(***************************************************************************)
(* Instances of OtaSystem for TLC: the values the .cfg files choose from.  *)
(***************************************************************************)
EXTENDS OtaSystem

File(protos, lens) == [proto : protos, len : lens]

\* Bootloader 2 units, buffer 2 units, sections 2, verify data 1, one unit spare.
\* Lengths: cut inside the bootloader or the sections, complete without and with
\* verify data, and longer than the slot.
AnyFile   == File({"file", "length", "chunked"}, {1, 3, 4, 5, 7})

\* Complete images whose end is noticed.
SoundFile == {f \in AnyFile : Whole(f)}

\* A complete image whose length behind the bootloader is a multiple of the buffer.
RoundFile == File({"file"}, {4})

AllFaults     == FaultKinds
MoreFaults    == FaultKinds \ (CfgFaults \cup {"vread"})
=============================================================================
