--------------------------- MODULE BootloaderProofs ---------------------------
(***************************************************************************)
(* Proofs about Bootloader, for every set of packages, every number of     *)
(* chunks, retries and faults, and every modulus of sequence numbers: what *)
(* is in the two metadata copies protects the application at every moment. *)
(***************************************************************************)
EXTENDS Bootloader, SequenceTheorems, TLAPS

(* What the theorems assume of the flash: it can read back its metadata.   *)
(* (Without it the core may boot half an image: run boot_read_error.)      *)
MetadataReadable == "metadata_read" \notin Failing

Wholes == {Whole(p) : p \in Packages}
Image == [Offsets -> Cells]
FlashType == [IAP : Image, STAGING : Image,
              META_A : RecordType \cup {NONE}, META_B : RecordType \cup {NONE}]

ReadingStates == {"META_A_READ", "META_A_WAIT", "META_B_READ", "META_B_WAIT"}
CommitStates == {"METADATA_ERASE", "METADATA_ERASE_WAIT", "METADATA_WRITE", "METADATA_WRITE_WAIT"}
DownloadStates == {"DOWNLOAD_ERASE", "DOWNLOAD_ERASE_WAIT", "DOWNLOAD_READY", "PACKET_WRITE_WAIT"}
EraseCopyStates == {"COPY_ERASE", "COPY_ERASE_WAIT"}
ChunkStates == {"COPY_READ", "COPY_READ_WAIT", "COPY_WRITE", "COPY_WRITE_WAIT",
                "COPY_VERIFY_READ", "COPY_VERIFY_READ_WAIT"}
HeldStates == {"COPY_WRITE", "COPY_WRITE_WAIT", "COPY_VERIFY_READ", "COPY_VERIFY_READ_WAIT"}
CopyStates == EraseCopyStates \cup ChunkStates
VerifyStates == {"VERIFY_READ", "VERIFY_READ_WAIT"}
FinalStates == {"FINAL_READ", "FINAL_READ_WAIT"}
StartupStates == {"STARTUP_READ", "STARTUP_WAIT"}
RunStates == {"JUMP_PENDING", "IAP"}
States == ReadingStates \cup CommitStates \cup DownloadStates \cup CopyStates \cup VerifyStates
            \cup FinalStates \cup StartupStates \cup RunStates \cup {"WAIT_UPGRADE"}

CoreType == [
  state : States, mode : {"DIRECT", "STAGED"}, upgrade_info : Packages \cup {NONE},
  session_active : BOOLEAN, running_crc : Seq(Packages), pending_packet : Packages \cup {NONE},
  expected_crc : Digests, copy_offset : 0 .. Chunks, copy_chunk_crc : Cells \cup {NONE},
  verify_crc : Seq(Cells), jump_called : BOOLEAN,
  metadata_next_state : States, metadata_source_zone : MetaZones,
  metadata_sequence : 0 .. SequenceMod - 1, metadata_state : RecordStates,
  metadata_retry_count : 0 .. MaxRetries]
RequestType == [reason : {"POWER_ON", "IAP_REQUEST"}, info : Packages \cup {NONE}]
-----------------------------------------------------------------------------
(* The inductive invariant.                                                *)

Source(f, c) == f[c.metadata_source_zone]
Other(f, c) == f[Target(c)]
Successor(n) == (n + 1) % SequenceMod

(* The record o is older than the record r, or absent.                     *)
Older(o, r) == o = NONE \/ (r # NONE /\ r.sequence = Successor(o.sequence))
Adjacent(f) == Older(f.META_A, f.META_B) \/ Older(f.META_B, f.META_A)

(* What a record says of the application is true.                          *)
Bootable(iap) == iap[1] \in Packages => iap \in Wholes
Vouched(r, iap) == IF r = NONE THEN Bootable(iap) ELSE r.state = "VALID" => iap = r.expected_crc

(* A record carries the candidate's digest from the end of its download on.*)
Complying(r) ==
  /\ r.state \in {"INSTALL_PENDING", "COPYING", "VALID"} => r.expected_crc \in Wholes
  /\ r.state \in {"INSTALL_PENDING", "COPYING"} => r.mode = "STAGED"
Compliant(f) == \A z \in MetaZones : f[z] # NONE => Complying(f[z])

(* The core knows the newest acknowledged record ...                       *)
Known(f, c) ==
  /\ c.metadata_sequence = IF Source(f, c) = NONE THEN 0 ELSE Source(f, c).sequence
  /\ Vouched(Source(f, c), f.IAP)
(* ... and the other copy is older, or left by a commit that has failed.   *)
Landed(f, c) ==
  /\ Other(f, c) # NONE /\ Other(f, c).sequence = Successor(c.metadata_sequence)
  /\ Vouched(Other(f, c), f.IAP)
Superseded(f, c) == Older(Other(f, c), Source(f, c))

(* What the state s relies on when r is the newest record: the application *)
(* is overwritten only under a record that says so, and run only complete. *)
Fit(s, r, c, iap) ==
  /\ s \in DownloadStates =>
       r # NONE /\ r.state = DownloadState(c.mode) /\ c.upgrade_info \in Packages
  /\ s = "PACKET_WRITE_WAIT" => c.pending_packet \in Packages /\ Len(c.running_crc) < Chunks
  /\ s \in CopyStates =>
       /\ r # NONE /\ r.state \in {"INSTALL_PENDING", "COPYING"} /\ c.mode = "STAGED"
       /\ c.expected_crc \in Wholes /\ c.upgrade_info \in Packages
  /\ s \in ChunkStates => c.copy_offset < Chunks
  /\ s \in HeldStates => c.copy_chunk_crc \in Cells
  /\ s \in VerifyStates =>
       /\ c.expected_crc \in Wholes /\ c.upgrade_info \in Packages /\ Len(c.verify_crc) < Chunks
       /\ \A i \in 1 .. Len(c.verify_crc) : c.verify_crc[i] = iap[i]
  /\ s \in FinalStates =>
       c.expected_crc \in Wholes /\ c.upgrade_info \in Packages /\ iap = c.expected_crc
  /\ s \in StartupStates => Bootable(iap)
  /\ s \in RunStates => iap \in Wholes

EnteredStates == {"DOWNLOAD_ERASE", "DOWNLOAD_READY", "COPY_ERASE", "COPY_READ", "VERIFY_READ",
                  "JUMP_PENDING"}
Proposed(c, iap) ==
  /\ c.upgrade_info \in Packages /\ Complying(Encoded(c)) /\ Vouched(Encoded(c), iap)
  /\ c.metadata_next_state \in EnteredStates
  /\ Fit(c.metadata_next_state, Encoded(c), c, iap)

(* How far a commit has got.                                               *)
Written(f, c, o, res) ==
  /\ c.state = "METADATA_ERASE_WAIT" /\ o = NONE /\ res => Other(f, c) = NONE
  /\ c.state = "METADATA_WRITE" => Other(f, c) = NONE
  /\ c.state = "METADATA_WRITE_WAIT" /\ o # NONE => Other(f, c) = NONE
  /\ c.state = "METADATA_WRITE_WAIT" /\ o = NONE /\ res => Other(f, c) = Encoded(c)

(* The operation in progress is the one the state waits for.               *)
Carried(o, c) ==
  /\ o \in OperationType /\ c.state \in WaitStates
  /\ c.state \in {"META_A_WAIT", "META_B_WAIT"} => o.kind = "metadata_read"
  /\ c.state \in {"STARTUP_WAIT", "COPY_READ_WAIT", "COPY_VERIFY_READ_WAIT", "VERIFY_READ_WAIT",
                  "FINAL_READ_WAIT"} => o.kind = "read"
  /\ c.state = "DOWNLOAD_ERASE_WAIT" => o.kind = "erase" /\ o.zone = DownloadZone(c)
  /\ c.state = "PACKET_WRITE_WAIT" =>
       o.kind = "program" /\ o.zone = DownloadZone(c) /\ o.data \in Cells
  /\ c.state = "COPY_ERASE_WAIT" => o.kind = "erase" /\ o.zone = "IAP"
  /\ c.state = "COPY_WRITE_WAIT" => o.kind = "program" /\ o.zone = "IAP" /\ o.data \in Cells
  /\ c.state = "METADATA_ERASE_WAIT" => o.kind = "erase" /\ o.zone = Target(c)
  /\ c.state = "METADATA_WRITE_WAIT" =>
       o.kind = "program" /\ o.zone = Target(c) /\ o.data = Encoded(c)

(* The flash and the core agree in each state.                             *)
Agree(f, c) ==
  /\ c.state \in ReadingStates =>
       Adjacent(f) /\ Vouched(Newest(f), f.IAP) /\ c.metadata_sequence = 0
  /\ c.state \notin ReadingStates => Known(f, c)
  /\ c.state \in CommitStates \cup {"WAIT_UPGRADE"} => Superseded(f, c) \/ Landed(f, c)
  /\ c.state \in CommitStates => Proposed(c, f.IAP)
  /\ c.state \notin ReadingStates \cup CommitStates \cup {"WAIT_UPGRADE"} =>
       Superseded(f, c) /\ Fit(c.state, Source(f, c), c, f.IAP)

Typed(f, q, c, res, n) ==
  /\ f \in FlashType /\ q \in RequestType /\ c \in CoreType /\ res \in BOOLEAN
  /\ Len(c.running_crc) <= Chunks /\ Len(c.verify_crc) <= Chunks /\ n \in 0 .. MaxFaults

Sound(f, c, o, res) ==
  /\ Compliant(f) /\ Agree(f, c)
  /\ o # NONE => Carried(o, c)
  /\ Written(f, c, o, res)
  /\ c.state \in {"META_A_WAIT", "META_B_WAIT"} /\ o = NONE => res

IInv ==
  /\ MetadataReadable
  /\ Typed(flash, request, core, result, faults)
  /\ Sound(flash, core, op, result)
-----------------------------------------------------------------------------
(* The two copies.                                                         *)

LEMMA Constants ==
    /\ Chunks \in Nat \ {0} /\ MaxRetries \in Nat /\ MaxFaults \in Nat
    /\ SequenceMod \in Nat /\ SequenceMod >= 3
    /\ NONE \notin Packages /\ Erased \notin Packages /\ Corrupt \notin Packages
    /\ NONE \notin RecordType /\ NONE \notin ContentType /\ NONE \notin OperationType
    /\ DefaultMode \in {"DIRECT", "STAGED"} /\ Modes \subseteq {"DIRECT", "STAGED"}
    /\ 1 \in Offsets
  BY BootAssumption DEF BootAssumption, Offsets

LEMMA Remainder ==
    ASSUME NEW m \in Nat \ {0}, NEW x \in Int, NEW r \in 0 .. m - 1,
           x = r \/ x = r - m \/ x = r + m
    PROVE  x % m = r
<1>. DEFINE q == x \div m
            s == x % m
<1>1. q \in Int /\ s \in 0 .. m - 1 /\ x = m * q + s
  BY SMT
<1>. HIDE DEF q, s
<1>2. r - s = m * q \/ r - s = m * (q + 1) \/ r - s = m * (q - 1)
  BY <1>1, SMT
<1>3. \A k \in Int : m * k \in -(m - 1) .. m - 1 => m * k = 0
  <2>1. \A k \in Int : k >= 1 => m * k >= m
    BY SMT
  <2>2. \A k \in Int : k <= -1 => m * k <= -m
    BY SMT
  <2>. QED BY <2>1, <2>2, SMT
<1>4. r - s \in -(m - 1) .. m - 1
  BY <1>1
<1>. QED BY <1>1, <1>2, <1>3, <1>4 DEF s

LEMMA SuccessorFacts ==
    ASSUME NEW n \in 0 .. SequenceMod - 1
    PROVE  /\ Successor(n) \in 0 .. SequenceMod - 1
           /\ SequenceNewer(Successor(n), n) /\ ~SequenceNewer(n, Successor(n))
<1>. DEFINE m == SequenceMod
            next == IF n = m - 1 THEN 0 ELSE n + 1
<1>1. m \in Nat \ {0} /\ m >= 3
  BY Constants
<1>. HIDE DEF m
<1>2. next \in 0 .. m - 1 /\ (n + 1 = next \/ n + 1 = next + m)
  BY <1>1 DEF m
<1>3. (n + 1) % m = next
  BY <1>1, <1>2, Remainder DEF m
<1>4. next - n \in Int /\ 1 \in 0 .. m - 1 /\ (next - n = 1 \/ next - n = 1 - m)
  BY <1>1 DEF m
<1>5. n - next \in Int /\ m - 1 \in 0 .. m - 1
      /\ (n - next = m - 1 \/ n - next = (m - 1) - m)
  BY <1>1 DEF m
<1>. HIDE DEF next
<1>6. (next - n) % m = 1
  BY <1>1, <1>4, Remainder
<1>7. (n - next) % m = m - 1
  BY <1>1, <1>5, Remainder
<1>8. Successor(n) = next
  BY <1>3 DEF Successor, m
<1>. QED BY <1>1, <1>2, <1>6, <1>7, <1>8 DEF SequenceNewer, m

OtherZone(z) == IF z = "META_A" THEN "META_B" ELSE "META_A"

LEMMA SelectedFacts ==
    ASSUME NEW f \in FlashType, Adjacent(f)
    PROVE  /\ Selected(f) \in MetaZones /\ Newest(f) = f[Selected(f)]
           /\ Older(f[OtherZone(Selected(f))], Newest(f))
<1>1. /\ f.META_A # NONE => f.META_A.sequence \in 0 .. SequenceMod - 1
      /\ f.META_B # NONE => f.META_B.sequence \in 0 .. SequenceMod - 1
  BY DEF FlashType, RecordType
<1>. QED BY <1>1, SuccessorFacts DEF Adjacent, Older, Selected, Newest, MetaZones, OtherZone

(* The newer of two adjacent copies is the one that is found.              *)
LEMMA NewestIs ==
    ASSUME NEW f \in FlashType, NEW z \in MetaZones, Older(f[OtherZone(z)], f[z])
    PROVE  Newest(f) = f[z] /\ Adjacent(f)
<1>1. /\ f.META_A # NONE => f.META_A.sequence \in 0 .. SequenceMod - 1
      /\ f.META_B # NONE => f.META_B.sequence \in 0 .. SequenceMod - 1
  BY DEF FlashType, RecordType
<1>. QED BY <1>1, SuccessorFacts DEF Adjacent, Older, Selected, Newest, MetaZones, OtherZone
-----------------------------------------------------------------------------
(* Names of states.                                                        *)

LEMMA Waiting ==
    /\ DOMAIN WaitState = {"META_A_READ", "META_B_READ", "STARTUP_READ", "DOWNLOAD_ERASE",
         "COPY_ERASE", "COPY_READ", "COPY_WRITE", "COPY_VERIFY_READ", "VERIFY_READ", "FINAL_READ",
         "METADATA_ERASE", "METADATA_WRITE"}
    /\ WaitState["META_A_READ"] = "META_A_WAIT" /\ WaitState["META_B_READ"] = "META_B_WAIT"
    /\ WaitState["STARTUP_READ"] = "STARTUP_WAIT"
    /\ WaitState["DOWNLOAD_ERASE"] = "DOWNLOAD_ERASE_WAIT"
    /\ WaitState["COPY_ERASE"] = "COPY_ERASE_WAIT" /\ WaitState["COPY_READ"] = "COPY_READ_WAIT"
    /\ WaitState["COPY_WRITE"] = "COPY_WRITE_WAIT"
    /\ WaitState["COPY_VERIFY_READ"] = "COPY_VERIFY_READ_WAIT"
    /\ WaitState["VERIFY_READ"] = "VERIFY_READ_WAIT" /\ WaitState["FINAL_READ"] = "FINAL_READ_WAIT"
    /\ WaitState["METADATA_ERASE"] = "METADATA_ERASE_WAIT"
    /\ WaitState["METADATA_WRITE"] = "METADATA_WRITE_WAIT"
  BY DEF WaitState

LEMMA WaitStatesAre ==
    WaitStates = {"META_A_WAIT", "META_B_WAIT", "STARTUP_WAIT", "DOWNLOAD_ERASE_WAIT",
      "COPY_ERASE_WAIT", "COPY_READ_WAIT", "COPY_WRITE_WAIT", "COPY_VERIFY_READ_WAIT",
      "VERIFY_READ_WAIT", "FINAL_READ_WAIT", "METADATA_ERASE_WAIT", "METADATA_WRITE_WAIT",
      "PACKET_WRITE_WAIT"}
  BY Waiting DEF WaitStates

LEMMA StatesAre ==
    States = DOMAIN WaitState \cup WaitStates
               \cup {"WAIT_UPGRADE", "DOWNLOAD_READY", "JUMP_PENDING", "IAP"}
  BY Waiting, WaitStatesAre DEF States, ReadingStates, CommitStates, DownloadStates, CopyStates,
     EraseCopyStates, ChunkStates, VerifyStates, FinalStates, StartupStates, RunStates
-----------------------------------------------------------------------------
(* The record being committed, and the record that is found.               *)

LEMMA Zones ==
    ASSUME NEW c \in CoreType
    PROVE  /\ c.metadata_source_zone \in MetaZones /\ Target(c) \in MetaZones
           /\ Target(c) = OtherZone(c.metadata_source_zone)
           /\ OtherZone(Target(c)) = c.metadata_source_zone
           /\ Target(c) # c.metadata_source_zone
<1>1. c.metadata_source_zone \in MetaZones
  BY DEF CoreType
<1>. QED BY <1>1 DEF MetaZones, OtherZone, Target

LEMMA RecordsInFlash ==
    ASSUME NEW f \in FlashType, NEW z \in MetaZones
    PROVE  f[z] \in RecordType \cup {NONE}
  BY DEF FlashType, MetaZones

LEMMA ProposalFacts ==
    ASSUME NEW c \in CoreType, c.upgrade_info \in Packages
    PROVE  LET r == Encoded(c)
           IN  /\ r \in RecordType /\ r # NONE
               /\ r.state = c.metadata_state /\ r.mode = c.mode
               /\ r.retry_count = c.metadata_retry_count
               /\ r.sequence = Successor(c.metadata_sequence)
               /\ r.info = c.upgrade_info /\ r.expected_crc = c.expected_crc
<1>. DEFINE r == Encoded(c)
<1>1. /\ c.metadata_state \in RecordStates /\ c.mode \in {"DIRECT", "STAGED"}
      /\ c.metadata_retry_count \in 0 .. MaxRetries
      /\ c.metadata_sequence \in 0 .. SequenceMod - 1 /\ c.expected_crc \in Digests
  BY DEF CoreType
<1>2. /\ r.state = c.metadata_state /\ r.mode = c.mode
      /\ r.retry_count = c.metadata_retry_count
      /\ r.sequence = Successor(c.metadata_sequence)
      /\ r.info = c.upgrade_info /\ r.expected_crc = c.expected_crc
  BY DEF Encoded, Successor
<1>3. r \in RecordType
  BY <1>1, SuccessorFacts DEF Encoded, RecordType, Successor
<1>. HIDE DEF r
<1>4. r # NONE
  BY <1>3, Constants
<1>. QED BY <1>2, <1>3, <1>4 DEF r

Clean(c) == c.state \notin ReadingStates \cup CommitStates \cup {"WAIT_UPGRADE"}

(* Whatever the core is doing, the record that would be found is true.     *)
LEMMA FoundFacts ==
    ASSUME NEW f \in FlashType, NEW c \in CoreType, Agree(f, c)
    PROVE  /\ Adjacent(f) /\ Vouched(Newest(f), f.IAP)
           /\ Clean(c) => Newest(f) = Source(f, c)
<1>1. CASE c.state \in ReadingStates
  BY <1>1 DEF Agree, Clean
<1>2. CASE c.state \notin ReadingStates
  <2>1. Known(f, c) /\ (Superseded(f, c) \/ Landed(f, c)) /\ (Clean(c) => Superseded(f, c))
    BY <1>2 DEF Agree, Clean
  <2>2. CASE Superseded(f, c)
    <3>1. Newest(f) = Source(f, c) /\ Adjacent(f)
      BY <2>2, Zones, NewestIs DEF Superseded, Source, Other
    <3>. QED BY <2>1, <3>1 DEF Known
  <2>3. CASE ~Superseded(f, c) /\ Landed(f, c)
    <3>1. Older(Source(f, c), Other(f, c))
      BY <2>1, <2>3 DEF Known, Landed, Older
    <3>2. Newest(f) = Other(f, c) /\ Adjacent(f)
      BY <3>1, Zones, NewestIs DEF Source, Other
    <3>. QED BY <2>1, <2>3, <3>2 DEF Landed
  <2>. QED BY <2>1, <2>2, <2>3
<1>. QED BY <1>1, <1>2
-----------------------------------------------------------------------------
(* The flash.                                                              *)

(* What the operation of the core c may make of the flash f.               *)
Overwritable == {"DOWNLOAD_DIRECT", "INSTALL_PENDING", "COPYING"}
ImageChange(f, g, c) ==
  /\ c.state \in {"DOWNLOAD_ERASE_WAIT", "PACKET_WRITE_WAIT", "COPY_ERASE_WAIT", "COPY_WRITE_WAIT"}
  /\ g.META_A = f.META_A /\ g.META_B = f.META_B
  /\ g.IAP = f.IAP \/ (Source(f, c) # NONE /\ Source(f, c).state \in Overwritable)
RecordChange(f, g, c) ==
  /\ g.IAP = f.IAP /\ Source(g, c) = Source(f, c)
  /\ \/ c.state = "METADATA_ERASE_WAIT" /\ Other(g, c) = NONE
     \/ c.state = "METADATA_WRITE_WAIT" /\ Other(g, c) = Encoded(c)
Change(f, g, c) == g = f \/ ImageChange(f, g, c) \/ RecordChange(f, g, c)

LEMMA ChangeAgrees ==
    ASSUME NEW f \in FlashType, NEW g \in FlashType, NEW c \in CoreType,
           Agree(f, c), Compliant(f), Change(f, g, c)
    PROVE  Agree(g, c) /\ Compliant(g)
<1>1. CASE g = f
  BY <1>1
<1>2. CASE ImageChange(f, g, c)
  <2>1. \A z \in MetaZones : g[z] = f[z]
    BY <1>2 DEF ImageChange, MetaZones
  <2>2. Source(g, c) = Source(f, c) /\ Other(g, c) = Other(f, c)
    BY <2>1, Zones DEF Source, Other
  <2>3. Clean(c) /\ c.state \notin VerifyStates \cup FinalStates \cup StartupStates \cup RunStates
    BY <1>2 DEF ImageChange, Clean, ReadingStates, CommitStates, VerifyStates, FinalStates,
       StartupStates, RunStates
  <2>4. Known(f, c) /\ Superseded(f, c) /\ Fit(c.state, Source(f, c), c, f.IAP)
    BY <2>3 DEF Agree, Clean
  <2>5. Known(g, c)
    BY <1>2, <2>2, <2>4 DEF Known, Vouched, ImageChange, Overwritable
  <2>6. Superseded(g, c)
    BY <2>2, <2>4 DEF Superseded
  <2>7. Fit(c.state, Source(g, c), c, g.IAP)
    BY <2>2, <2>3, <2>4 DEF Fit
  <2>8. Compliant(g)
    BY <2>1 DEF Compliant
  <2>. QED BY <2>3, <2>5, <2>6, <2>7, <2>8 DEF Agree, Clean
<1>3. CASE RecordChange(f, g, c)
  <2>1. c.state \in CommitStates /\ c.state \notin ReadingStates
    BY <1>3 DEF RecordChange, CommitStates, ReadingStates
  <2>2. Known(f, c) /\ Proposed(c, f.IAP)
    BY <2>1 DEF Agree
  <2>3. Known(g, c) /\ Proposed(c, g.IAP)
    BY <1>3, <2>2 DEF Known, RecordChange
  <2>4. /\ Encoded(c) # NONE /\ Encoded(c).sequence = Successor(c.metadata_sequence)
        /\ Complying(Encoded(c)) /\ Vouched(Encoded(c), g.IAP)
    BY <2>3, ProposalFacts DEF Proposed
  <2>5. Superseded(g, c) \/ Landed(g, c)
    BY <1>3, <2>4 DEF RecordChange, Superseded, Landed, Older
  <2>6. \A z \in MetaZones : z = c.metadata_source_zone \/ z = Target(c)
    BY Zones DEF MetaZones
  <2>7. Compliant(g)
    BY <1>3, <2>4, <2>6 DEF Compliant, RecordChange, Source, Other
  <2>. QED BY <2>1, <2>3, <2>5, <2>7 DEF Agree
<1>. QED BY <1>1, <1>2, <1>3 DEF Change

(* A zone that is read, written in part, wholly or wrongly.                *)
LEMMA ZoneSet ==
    ASSUME NEW f \in FlashType, NEW zone \in ImageZones \cup MetaZones, NEW z,
           zone \in ImageZones => z \in Image,
           zone \in MetaZones => z \in RecordType \cup {NONE}
    PROVE  LET g == [f EXCEPT ![zone] = z]
           IN  /\ g \in FlashType /\ g[zone] = z
               /\ \A other \in ImageZones \cup MetaZones : other # zone => g[other] = f[other]
               /\ z = f[zone] => g = f
  BY DEF FlashType, ImageZones, MetaZones

Outcome(o, z) == z \in Partial(o) \/ (o.kind = "program" /\ o.zone \in ImageZones
                                       /\ z = Spoiled(o, {o.at}))

LEMMA ImageOutcome ==
    ASSUME flash \in FlashType, NEW o \in OperationType, o.zone \in ImageZones,
           o.kind \in {"erase", "program"}, o.kind = "program" => o.data \in Cells,
           NEW z, Outcome(o, z)
    PROVE  z \in Image
<1>1. flash[o.zone] \in Image /\ o.at \in Offsets
  BY DEF FlashType, ImageZones, OperationType
<1>2. Blank \in Image /\ (o.kind = "program" => [flash[o.zone] EXCEPT ![o.at] = o.data] \in Image)
  BY <1>1 DEF Blank, Image, Cells
<1>3. Done(o) \in Image
  BY <1>2 DEF Done
<1>4. \A cells : Spoiled(o, cells) \in Image
  BY <1>1 DEF Spoiled, Image, Cells
<1>. QED BY <1>1, <1>3, <1>4 DEF Outcome, Partial

LEMMA FlashWrites ==
    ASSUME IInv, op # NONE, NEW z, Outcome(op, z)
    PROVE  LET g == [flash EXCEPT ![op.zone] = z]
           IN  g \in FlashType /\ Change(flash, g, core)
<1>. DEFINE g == [flash EXCEPT ![op.zone] = z]
<1>1. /\ flash \in FlashType /\ core \in CoreType /\ op \in OperationType /\ Carried(op, core)
      /\ Agree(flash, core) /\ core.state \in WaitStates
  BY DEF IInv, Typed, Sound, Carried
<1>2. op.zone \in ImageZones \cup MetaZones
      /\ op.kind \in {"metadata_read", "read", "program", "erase"}
  BY <1>1 DEF OperationType
<1>3. CASE op.kind \in {"metadata_read", "read"}
  <2>1. z = flash[op.zone]
    BY <1>3 DEF Outcome, Partial, Done
  <2>2. g = flash
    BY <1>1, <1>2, <2>1 DEF FlashType, ImageZones, MetaZones
  <2>. QED BY <1>1, <2>2 DEF Change
<1>4. CASE op.kind \in {"erase", "program"} /\ core.state \in
             {"DOWNLOAD_ERASE_WAIT", "PACKET_WRITE_WAIT", "COPY_ERASE_WAIT", "COPY_WRITE_WAIT"}
  <2>1. op.zone \in ImageZones /\ (op.kind = "program" => op.data \in Cells)
    BY <1>1, <1>4 DEF Carried, DownloadZone, ImageZones
  <2>2. z \in Image
    BY <1>1, <1>4, <2>1, ImageOutcome
  <2>3. /\ g \in FlashType
        /\ \A other \in ImageZones \cup MetaZones : other # op.zone => g[other] = flash[other]
    BY <1>1, <2>1, <2>2, ZoneSet DEF ImageZones, MetaZones
  <2>. HIDE DEF g
  <2>4. g.META_A = flash.META_A /\ g.META_B = flash.META_B
        /\ (op.zone # "IAP" => g.IAP = flash.IAP)
    BY <2>1, <2>3 DEF ImageZones, MetaZones
  <2>5. Fit(core.state, Source(flash, core), core, flash.IAP)
    BY <1>1, <1>4 DEF Agree, ReadingStates, CommitStates
  <2>6. op.zone = "IAP" =>
          Source(flash, core) # NONE /\ Source(flash, core).state \in Overwritable
    BY <1>1, <1>4, <2>5 DEF Fit, Carried, DownloadZone, DownloadState, Overwritable,
       DownloadStates, CopyStates, EraseCopyStates, ChunkStates
  <2>. QED BY <1>4, <2>3, <2>4, <2>6 DEF Change, ImageChange, g
<1>5. CASE op.kind \in {"erase", "program"} /\ core.state \in
             {"METADATA_ERASE_WAIT", "METADATA_WRITE_WAIT"}
  <2>1. op.zone = Target(core) /\ op.zone \in MetaZones /\ op.zone \notin ImageZones
    BY <1>1, <1>5, Zones DEF Carried, MetaZones, ImageZones
  <2>2. Proposed(core, flash.IAP)
    BY <1>1, <1>5 DEF Agree, CommitStates
  <2>3. Encoded(core) \in RecordType
    BY <1>1, <2>2, ProposalFacts DEF Proposed
  <2>4. \/ z = flash[op.zone]
        \/ core.state = "METADATA_ERASE_WAIT" /\ z = NONE
        \/ core.state = "METADATA_WRITE_WAIT" /\ z = Encoded(core)
    BY <1>1, <1>5, <2>1 DEF Outcome, Partial, Done, Carried
  <2>5. z \in RecordType \cup {NONE}
    BY <1>1, <2>1, <2>3, <2>4, RecordsInFlash
  <2>6. /\ g \in FlashType /\ g[op.zone] = z /\ (z = flash[op.zone] => g = flash)
        /\ \A other \in ImageZones \cup MetaZones : other # op.zone => g[other] = flash[other]
    BY <1>1, <2>1, <2>5, ZoneSet
  <2>. HIDE DEF g
  <2>7. g.IAP = flash.IAP /\ Source(g, core) = Source(flash, core) /\ Other(g, core) = z
    BY <1>1, <2>1, <2>6, Zones DEF Source, Other, ImageZones, MetaZones
  <2>. QED BY <2>4, <2>6, <2>7 DEF Change, RecordChange, g
<1>. QED BY <1>1, <1>2, <1>3, <1>4, <1>5, WaitStatesAre DEF Carried
-----------------------------------------------------------------------------
(* The steps of the flash.                                                 *)

LEMMA FlashStep == IInv /\ Flash => IInv'
<1>. SUFFICES ASSUME IInv, Flash
              PROVE  IInv'
  OBVIOUS
<1>1. /\ flash \in FlashType /\ core \in CoreType /\ op \in OperationType /\ Carried(op, core)
      /\ Agree(flash, core) /\ core.state \in WaitStates /\ Compliant(flash) /\ op # NONE
  BY DEF IInv, Typed, Sound, Carried, Flash, FlashDone, FlashFailed, FlashSpoiled
<1>2. UNCHANGED <<request, core>> /\ op' = NONE /\ result' \in BOOLEAN /\ faults' \in 0 .. MaxFaults
  <2>1. faults \in 0 .. MaxFaults
    BY DEF IInv, Typed
  <2>2. faults' = faults \/ (faults < MaxFaults /\ faults' = faults + 1)
    BY DEF Flash, FlashDone, FlashFailed, FlashSpoiled
  <2>3. faults' \in 0 .. MaxFaults
    BY <2>1, <2>2, Constants
  <2>4. UNCHANGED <<request, core>> /\ op' = NONE /\ result' \in BOOLEAN
    BY DEF Flash, FlashDone, FlashFailed, FlashSpoiled
  <2>. QED BY <2>3, <2>4
<1>3. PICK z : Outcome(op, z) /\ flash' = [flash EXCEPT ![op.zone] = z]
  BY DEF Flash, FlashDone, FlashFailed, FlashSpoiled, Outcome, Partial
<1>4. flash' \in FlashType /\ Change(flash, flash', core)
  BY <1>1, <1>3, FlashWrites
<1>5. Agree(flash', core) /\ Compliant(flash')
  BY <1>1, <1>4, ChangeAgrees
<1>6. core.state \in {"META_A_WAIT", "META_B_WAIT"} => result'
  BY <1>1 DEF Carried, Flash, FlashDone, FlashFailed, FlashSpoiled, IInv, MetadataReadable
<1>7. Written(flash', core, NONE, result')
  <2>. SUFFICES ASSUME result', core.state \in {"METADATA_ERASE_WAIT", "METADATA_WRITE_WAIT"}
                PROVE  /\ core.state = "METADATA_ERASE_WAIT" => Other(flash', core) = NONE
                       /\ core.state = "METADATA_WRITE_WAIT" => Other(flash', core) = Encoded(core)
    BY <1>1, WaitStatesAre DEF Written
  <2>1. op.zone = Target(core) /\ op.zone \in MetaZones /\ op.zone \notin ImageZones
    BY <1>1, Zones DEF Carried, MetaZones, ImageZones
  <2>2. FlashDone
    BY <2>1 DEF Flash, FlashFailed, FlashSpoiled
  <2>3. flash'[op.zone] = Done(op)
    BY <1>1, <2>1, <2>2 DEF FlashDone, FlashType, MetaZones
  <2>. QED BY <1>1, <2>1, <2>3 DEF Done, Carried, Other
<1>8. Sound(flash', core', op', result')
  BY <1>2, <1>5, <1>6, <1>7 DEF Sound
<1>. QED BY <1>2, <1>4, <1>8 DEF IInv, Typed
-----------------------------------------------------------------------------
(* The start, power losses, and giving up.                                 *)

LEMMA BootedFacts ==
    /\ Booted \in CoreType /\ Booted.state = "META_A_READ" /\ Booted.metadata_sequence = 0
    /\ Booted.running_crc = <<>> /\ Booted.verify_crc = <<>>
<1>1. <<>> \in Seq(Packages) /\ <<>> \in Seq(Cells) /\ <<>> \in Digests
  BY DEF Digests
<1>. QED BY <1>1, Constants DEF Booted, CoreType, States, ReadingStates, CommitStates, MetaZones,
        RecordStates

LEMMA BootedSound ==
    ASSUME NEW f \in FlashType, Adjacent(f), Vouched(Newest(f), f.IAP), Compliant(f),
           NEW res \in BOOLEAN
    PROVE  Sound(f, Booted, NONE, res)
<1>1. Agree(f, Booted)
  BY BootedFacts DEF Agree, ReadingStates, CommitStates
<1>. QED BY <1>1, BootedFacts DEF Sound, Written

LEMMA Starts == MetadataReadable /\ Init => IInv
<1>. SUFFICES ASSUME MetadataReadable, Init
              PROVE  IInv
  OBVIOUS
<1>1. PICK iap \in {Blank} \cup {Whole(p) : p \in Packages} :
        flash = [IAP |-> iap, STAGING |-> Blank, META_A |-> NONE, META_B |-> NONE]
  BY DEF Init
<1>2. Blank \in Image /\ \A p \in Packages : Whole(p) \in Image
  BY DEF Blank, Whole, Image, Cells
<1>3. flash \in FlashType
  BY <1>1, <1>2 DEF FlashType
<1>4. Blank[1] \notin Packages
  BY Constants DEF Blank
<1>5. Adjacent(flash) /\ Vouched(Newest(flash), flash.IAP) /\ Compliant(flash)
  BY <1>1, <1>4 DEF Adjacent, Older, Newest, Selected, Vouched, Bootable, Wholes, Compliant,
     MetaZones
<1>6. /\ core = Booted /\ op = NONE /\ result = TRUE /\ faults = 0 /\ request = NoRequest
  BY DEF Init
<1>7. request \in RequestType /\ 0 \in 0 .. MaxFaults
  BY <1>6, Constants DEF RequestType, NoRequest
<1>8. Len(Booted.running_crc) <= Chunks /\ Len(Booted.verify_crc) <= Chunks
  BY BootedFacts, Constants
<1>. QED BY <1>3, <1>5, <1>6, <1>7, <1>8, BootedFacts, BootedSound DEF IInv, Typed

(* A new start on what the flash holds at that moment.                     *)
LEMMA Restarted ==
    ASSUME IInv, flash' \in FlashType, Adjacent(flash'), Vouched(Newest(flash'), flash'.IAP),
           Compliant(flash'), core' = Booted, op' = NONE, result' \in BOOLEAN,
           request' \in RequestType, faults' \in 0 .. MaxFaults
    PROVE  IInv'
<1>1. Len(Booted.running_crc) <= Chunks /\ Len(Booted.verify_crc) <= Chunks
  BY BootedFacts, Constants
<1>2. Sound(flash', core', op', result')
  BY BootedSound
<1>. QED BY <1>1, <1>2, BootedFacts DEF IInv, Typed

LEMMA ResetStep == IInv /\ Reset => IInv'
<1>. SUFFICES ASSUME IInv, Reset
              PROVE  IInv'
  OBVIOUS
<1>1. flash \in FlashType /\ core \in CoreType /\ Agree(flash, core) /\ Compliant(flash)
  BY DEF IInv, Typed, Sound
<1>2. flash' \in FlashType /\ Agree(flash', core) /\ Compliant(flash')
  <2>1. CASE op = NONE
    BY <1>1, <2>1 DEF Reset
  <2>2. CASE op # NONE
    <3>1. PICK z \in Partial(op) : flash' = [flash EXCEPT ![op.zone] = z]
      BY <2>2 DEF Reset
    <3>2. flash' \in FlashType /\ Change(flash, flash', core)
      BY <2>2, <3>1, FlashWrites DEF Outcome
    <3>. QED BY <1>1, <3>2, ChangeAgrees
  <2>. QED BY <2>1, <2>2
<1>3. Adjacent(flash') /\ Vouched(Newest(flash'), flash'.IAP)
  BY <1>1, <1>2, FoundFacts
<1>4. core' = Booted /\ op' = NONE /\ result' \in BOOLEAN
  BY DEF Reset
<1>5. request' \in RequestType
  BY DEF Reset, IInv, Typed, RequestType, NoRequest
<1>6. faults' \in 0 .. MaxFaults
  BY Constants DEF Reset, IInv, Typed
<1>. QED BY <1>2, <1>3, <1>4, <1>5, <1>6, Restarted

LEMMA UpdateStep == IInv /\ (\E info \in Packages \cup {NONE} : IapUpdate(info)) => IInv'
<1>. SUFFICES ASSUME IInv, NEW info \in Packages \cup {NONE}, IapUpdate(info)
              PROVE  IInv'
  OBVIOUS
<1>1. flash \in FlashType /\ core \in CoreType /\ Agree(flash, core) /\ Compliant(flash)
  BY DEF IInv, Typed, Sound
<1>2. Adjacent(flash) /\ Vouched(Newest(flash), flash.IAP)
  BY <1>1, FoundFacts
<1>3. UNCHANGED <<flash, op, result, faults>> /\ core' = Booted
      /\ request' = [reason |-> "IAP_REQUEST", info |-> info] /\ core.state = "IAP"
  BY DEF IapUpdate
<1>4. request' \in RequestType
  BY <1>3 DEF RequestType
<1>5. op = NONE
  BY <1>3, WaitStatesAre DEF IInv, Sound, Carried
<1>6. result \in BOOLEAN /\ faults \in 0 .. MaxFaults
  BY DEF IInv, Typed
<1>. QED BY <1>1, <1>2, <1>3, <1>4, <1>5, <1>6, Restarted

(* A step of the core that leaves the flash alone.                         *)
LEMMA CoreStep ==
    ASSUME IInv, UNCHANGED flash, op' = NONE, core' \in CoreType, Agree(flash, core'),
           Len(core'.running_crc) <= Chunks, Len(core'.verify_crc) <= Chunks,
           result' \in BOOLEAN, request' \in RequestType, faults' \in 0 .. MaxFaults,
           core'.state \notin {"META_A_WAIT", "META_B_WAIT", "METADATA_WRITE_WAIT",
                               "METADATA_ERASE_WAIT"},
           core'.state = "METADATA_WRITE" => Other(flash, core') = NONE
    PROVE  IInv'
<1>1. Written(flash, core', op', result')
  BY DEF Written
<1>2. Sound(flash', core', op', result')
  BY <1>1 DEF Sound, IInv
<1>. QED BY <1>2 DEF IInv, Typed

LEMMA ResidentFacts ==
    ASSUME NEW f \in FlashType, NEW c \in CoreType
    PROVE  LET d == Resident(c)
           IN  /\ d \in CoreType /\ d.state = "WAIT_UPGRADE"
               /\ d.running_crc = c.running_crc /\ d.verify_crc = c.verify_crc
               /\ (Known(f, c) /\ (Superseded(f, c) \/ Landed(f, c))) => Agree(f, d)
<1>. DEFINE d == Resident(c)
<1>1. /\ d \in CoreType /\ d.state = "WAIT_UPGRADE"
      /\ d.running_crc = c.running_crc /\ d.verify_crc = c.verify_crc
      /\ d.metadata_source_zone = c.metadata_source_zone
      /\ d.metadata_sequence = c.metadata_sequence
  <2>1. "WAIT_UPGRADE" \in States /\ FALSE \in BOOLEAN /\ NONE \in Packages \cup {NONE}
        /\ NONE \in Cells \cup {NONE}
    BY DEF States
  <2>. QED BY <2>1 DEF Resident, CoreType
<1>. HIDE DEF d
<1>2. Source(f, d) = Source(f, c) /\ Other(f, d) = Other(f, c)
  BY <1>1 DEF Source, Other, Target
<1>3. /\ Known(f, d) <=> Known(f, c)
      /\ Superseded(f, d) <=> Superseded(f, c)
      /\ Landed(f, d) <=> Landed(f, c)
  BY <1>1, <1>2 DEF Known, Superseded, Landed
<1>4. d.state \notin ReadingStates /\ d.state \notin CommitStates
  BY <1>1 DEF ReadingStates, CommitStates
<1>. QED BY <1>1, <1>3, <1>4 DEF Agree, d

(* The core gives up wherever it knows the newest record.                  *)
LEMMA GivesUp ==
    ASSUME IInv, core.state \notin ReadingStates, core' = Resident(core), UNCHANGED flash,
           op' = NONE, result' \in BOOLEAN, request' \in RequestType, faults' \in 0 .. MaxFaults
    PROVE  IInv'
<1>1. /\ flash \in FlashType /\ core \in CoreType /\ Agree(flash, core)
      /\ Len(core.running_crc) <= Chunks /\ Len(core.verify_crc) <= Chunks
  BY DEF IInv, Typed, Sound
<1>2. Known(flash, core) /\ (Superseded(flash, core) \/ Landed(flash, core))
  BY <1>1 DEF Agree
<1>. QED BY <1>1, <1>2, ResidentFacts, CoreStep

LEMMA FailedStep == IInv /\ OperationFailed => IInv'
<1>. SUFFICES ASSUME IInv, OperationFailed
              PROVE  IInv'
  OBVIOUS
<1>1. core.state \in WaitStates /\ op = NONE /\ ~result /\ core' = Resident(core)
      /\ UNCHANGED <<flash, request, op, result, faults>>
  BY DEF OperationFailed, Keep
<1>2. core.state \notin ReadingStates
  BY <1>1, WaitStatesAre DEF IInv, Sound, ReadingStates
<1>3. request \in RequestType /\ result \in BOOLEAN /\ faults \in 0 .. MaxFaults
  BY DEF IInv, Typed
<1>. QED BY <1>1, <1>2, <1>3, GivesUp

LEMMA RefusedStep == IInv /\ (SubmitRefused \/ HostDataRefused) => IInv'
<1>. SUFFICES ASSUME IInv, SubmitRefused \/ HostDataRefused
              PROVE  IInv'
  OBVIOUS
<1>1. core' = Resident(core) /\ UNCHANGED <<flash, request, op, result>>
      /\ faults < MaxFaults /\ faults' = faults + 1
  BY DEF SubmitRefused, HostDataRefused
<1>2. core.state \notin ReadingStates
  BY Waiting DEF SubmitRefused, HostDataRefused, InSession, ReadingStates, Submission, Operation,
     IInv, MetadataReadable
<1>3. op = NONE
  BY WaitStatesAre DEF SubmitRefused, HostDataRefused, InSession, IInv, Sound, Carried
<1>4. request \in RequestType /\ result \in BOOLEAN /\ faults \in 0 .. MaxFaults
  BY DEF IInv, Typed
<1>5. faults' \in 0 .. MaxFaults
  BY <1>1, <1>4, Constants
<1>. QED BY <1>1, <1>2, <1>3, <1>4, <1>5, GivesUp
-----------------------------------------------------------------------------
(* The core moves on.                                                      *)

(* The state alone says where the core is, not what it knows.              *)
SameData(c, d) ==
  /\ d.mode = c.mode /\ d.upgrade_info = c.upgrade_info /\ d.expected_crc = c.expected_crc
  /\ d.running_crc = c.running_crc /\ d.pending_packet = c.pending_packet
  /\ d.copy_offset = c.copy_offset /\ d.copy_chunk_crc = c.copy_chunk_crc
  /\ d.verify_crc = c.verify_crc
SameRecord(c, d) ==
  /\ d.metadata_source_zone = c.metadata_source_zone
  /\ d.metadata_sequence = c.metadata_sequence

LEMMA WaitAdvances ==
    ASSUME NEW c \in CoreType, NEW s \in States
    PROVE  LET d == [c EXCEPT !.state = s]
           IN  /\ d \in CoreType /\ d.state = s /\ SameData(c, d) /\ SameRecord(c, d)
               /\ d.metadata_next_state = c.metadata_next_state
               /\ d.metadata_state = c.metadata_state
               /\ d.metadata_retry_count = c.metadata_retry_count
               /\ d.session_active = c.session_active
  BY DEF CoreType, SameData, SameRecord

LEMMA SameRecordFacts ==
    ASSUME NEW c, NEW d, SameRecord(c, d), NEW f
    PROVE  /\ Target(d) = Target(c) /\ Source(f, d) = Source(f, c) /\ Other(f, d) = Other(f, c)
           /\ Known(f, c) => Known(f, d)
           /\ Superseded(f, c) => Superseded(f, d)
           /\ Landed(f, c) => Landed(f, d)
<1>1. Target(d) = Target(c)
  BY DEF SameRecord, Target
<1>2. Source(f, d) = Source(f, c) /\ Other(f, d) = Other(f, c)
  BY <1>1 DEF SameRecord, Source, Other
<1>. QED BY <1>1, <1>2 DEF SameRecord, Known, Superseded, Landed

LEMMA SameDataFits ==
    ASSUME NEW c, NEW d, SameData(c, d), NEW s, NEW r, NEW iap, Fit(s, r, c, iap)
    PROVE  Fit(s, r, d, iap)
  BY DEF Fit, SameData

LEMMA WaitFits ==
    ASSUME NEW s \in DOMAIN WaitState, NEW c, NEW r, NEW iap, Fit(s, r, c, iap)
    PROVE  Fit(WaitState[s], r, c, iap)
  BY Waiting DEF Fit, DownloadStates, CopyStates, EraseCopyStates, ChunkStates, HeldStates,
     VerifyStates, FinalStates, StartupStates, RunStates

LEMMA SubmitStep == IInv /\ Submit => IInv' /\ op' # NONE
<1>. SUFFICES ASSUME IInv, Submit
              PROVE  IInv' /\ op' # NONE
  OBVIOUS
<1>. DEFINE s == core.state
            d == [core EXCEPT !.state = WaitState[s]]
<1>1. /\ flash \in FlashType /\ core \in CoreType /\ Agree(flash, core) /\ Compliant(flash)
      /\ request \in RequestType /\ result \in BOOLEAN /\ faults \in 0 .. MaxFaults
      /\ Len(core.running_crc) <= Chunks /\ Len(core.verify_crc) <= Chunks
      /\ Written(flash, core, op, result)
  BY DEF IInv, Typed, Sound
<1>2. /\ s \in DOMAIN WaitState /\ op' = Submission(core) /\ core' = d
      /\ UNCHANGED <<flash, request, result, faults>>
  BY DEF Submit
<1>3. WaitState[s] \in States /\ WaitState[s] \in WaitStates
  BY <1>2, StatesAre DEF WaitStates
<1>4. /\ d \in CoreType /\ d.state = WaitState[s] /\ SameData(core, d) /\ SameRecord(core, d)
      /\ d.metadata_next_state = core.metadata_next_state
      /\ d.metadata_state = core.metadata_state
      /\ d.metadata_retry_count = core.metadata_retry_count
  BY <1>1, <1>3, WaitAdvances
<1>. HIDE DEF d
<1>5. Encoded(d) = Encoded(core) /\ DownloadZone(d) = DownloadZone(core)
  BY <1>4 DEF Encoded, SameData, SameRecord, DownloadZone
<1>6. /\ Target(d) = Target(core) /\ Source(flash, d) = Source(flash, core)
      /\ Other(flash, d) = Other(flash, core)
      /\ Known(flash, core) => Known(flash, d)
      /\ Superseded(flash, core) => Superseded(flash, d)
      /\ Landed(flash, core) => Landed(flash, d)
  BY <1>4, SameRecordFacts
<1>7. /\ s \in ReadingStates <=> d.state \in ReadingStates
      /\ s \in CommitStates <=> d.state \in CommitStates
      /\ s # "WAIT_UPGRADE" /\ d.state # "WAIT_UPGRADE"
  BY <1>2, <1>4, Waiting DEF ReadingStates, CommitStates
<1>8. Clean(core) => Fit(s, Source(flash, core), core, flash.IAP)
  BY <1>1 DEF Agree, Clean
<1>9. Agree(flash, d)
  <2>1. s \in ReadingStates =>
          Adjacent(flash) /\ Vouched(Newest(flash), flash.IAP) /\ d.metadata_sequence = 0
    BY <1>1, <1>4 DEF Agree, SameRecord
  <2>2. s \notin ReadingStates => Known(flash, d)
    BY <1>1, <1>6 DEF Agree
  <2>3. s \in CommitStates => Superseded(flash, d) \/ Landed(flash, d)
    BY <1>1, <1>6 DEF Agree
  <2>4. s \in CommitStates => Proposed(d, flash.IAP)
    <3>. SUFFICES ASSUME s \in CommitStates PROVE Proposed(d, flash.IAP)
      OBVIOUS
    <3>1. Proposed(core, flash.IAP)
      BY <1>1 DEF Agree
    <3>2. Fit(d.metadata_next_state, Encoded(d), d, flash.IAP)
      BY <1>4, <1>5, <3>1, SameDataFits DEF Proposed
    <3>. QED BY <1>4, <1>5, <3>1, <3>2 DEF Proposed, SameData
  <2>5. Clean(core) => Superseded(flash, d) /\ Fit(d.state, Source(flash, d), d, flash.IAP)
    <3>. SUFFICES ASSUME Clean(core)
                  PROVE  Superseded(flash, d) /\ Fit(d.state, Source(flash, d), d, flash.IAP)
      OBVIOUS
    <3>1. Superseded(flash, core)
      BY <1>1 DEF Agree, Clean
    <3>2. Fit(d.state, Source(flash, core), core, flash.IAP)
      BY <1>2, <1>4, <1>8, WaitFits
    <3>3. Fit(d.state, Source(flash, d), d, flash.IAP)
      BY <1>4, <1>6, <3>2, SameDataFits
    <3>. QED BY <1>6, <3>1, <3>3
  <2>. QED BY <1>7, <2>1, <2>2, <2>3, <2>4, <2>5 DEF Agree, Clean
<1>10. s \in CommitStates => Encoded(core) \in RecordType
  BY <1>1, ProposalFacts DEF Agree, Proposed
<1>11. op' \in OperationType
  <2>1. s \in ChunkStates => core.copy_offset + 1 \in Offsets
    <3>1. core.copy_offset \in 0 .. Chunks
      BY <1>1 DEF CoreType
    <3>2. s \in ChunkStates => core.copy_offset < Chunks
      BY <1>8 DEF Fit, Clean, ChunkStates, ReadingStates, CommitStates
    <3>. QED BY <3>1, <3>2, Constants DEF Offsets
  <2>2. s \in VerifyStates => Len(core.verify_crc) + 1 \in Offsets
    <3>1. Len(core.verify_crc) \in Nat
      BY <1>1 DEF CoreType
    <3>2. s \in VerifyStates => Len(core.verify_crc) < Chunks
      BY <1>8 DEF Fit, Clean, VerifyStates, ReadingStates, CommitStates
    <3>. QED BY <3>1, <3>2, Constants DEF Offsets
  <2>3. s = "COPY_WRITE" => core.copy_chunk_crc \in Cells
    BY <1>8 DEF Fit, Clean, HeldStates, ReadingStates, CommitStates
  <2>4. Target(core) \in MetaZones
    BY <1>1, Zones
  <2>5. CASE s \in {"META_A_READ", "META_B_READ", "STARTUP_READ", "FINAL_READ", "DOWNLOAD_ERASE",
                    "COPY_ERASE", "METADATA_ERASE"}
    BY <1>2, <2>4, <2>5, Constants DEF Submission, Operation, OperationType, DownloadZone,
       ImageZones, MetaZones
  <2>6. CASE s \in {"COPY_READ", "COPY_VERIFY_READ", "VERIFY_READ"}
    BY <1>2, <2>1, <2>2, <2>6 DEF Submission, Operation, OperationType, ImageZones,
       ChunkStates, VerifyStates
  <2>7. CASE s = "COPY_WRITE"
    BY <1>2, <2>1, <2>3, <2>7 DEF Submission, Operation, OperationType, ImageZones, ChunkStates
  <2>8. CASE s = "METADATA_WRITE"
    BY <1>2, <1>10, <2>4, <2>8, Constants DEF Submission, Operation, OperationType, CommitStates
  <2>. QED BY <1>2, <2>5, <2>6, <2>7, <2>8, Waiting
<1>12. Carried(op', d)
  <2>1. s = "COPY_WRITE" => core.copy_chunk_crc \in Cells
    BY <1>8 DEF Fit, Clean, HeldStates, ReadingStates, CommitStates
  <2>2. CASE s \in {"META_A_READ", "META_B_READ", "STARTUP_READ", "FINAL_READ", "COPY_READ",
                    "COPY_VERIFY_READ", "VERIFY_READ"}
    BY <1>2, <1>3, <1>4, <1>11, <2>2, Waiting DEF Carried, Submission, Operation
  <2>3. CASE s \in {"DOWNLOAD_ERASE", "COPY_ERASE", "METADATA_ERASE"}
    BY <1>2, <1>3, <1>4, <1>5, <1>6, <1>11, <2>3, Waiting DEF Carried, Submission, Operation
  <2>4. CASE s \in {"COPY_WRITE", "METADATA_WRITE"}
    BY <1>2, <1>3, <1>4, <1>5, <1>6, <1>11, <2>1, <2>4, Waiting DEF Carried, Submission, Operation
  <2>. QED BY <1>2, <2>2, <2>3, <2>4, Waiting
<1>13. op' # NONE
  BY <1>11, Constants
<1>14. Written(flash, d, op', result)
  BY <1>1, <1>2, <1>4, <1>6, <1>13, Waiting DEF Written
<1>15. Sound(flash, d, op', result)
  BY <1>1, <1>9, <1>12, <1>13, <1>14 DEF Sound
<1>. QED BY <1>1, <1>2, <1>4, <1>13, <1>15 DEF IInv, Typed, SameData

(* A commit begins: what it writes must be true, and what follows it fit.  *)
LEMMA Commits ==
    ASSUME NEW f \in FlashType, NEW c \in CoreType, NEW rs \in RecordStates,
           NEW next \in EnteredStates, c.upgrade_info \in Packages,
           Known(f, c), Superseded(f, c) \/ Landed(f, c),
           rs \in {"INSTALL_PENDING", "COPYING", "VALID"} => c.expected_crc \in Wholes,
           rs \in {"INSTALL_PENDING", "COPYING"} => c.mode = "STAGED",
           rs = "VALID" => f.IAP = c.expected_crc,
           \A r \in RecordType : r.state = rs => Fit(next, r, c, f.IAP)
    PROVE  LET d == CommitStart(c, rs, next)
           IN  /\ d \in CoreType /\ Agree(f, d) /\ d.state = "METADATA_ERASE"
               /\ SameData(c, d)
<1>. DEFINE d == CommitStart(c, rs, next)
<1>1. next \in States /\ "METADATA_ERASE" \in States
  BY DEF EnteredStates, States, DownloadStates, CopyStates, EraseCopyStates, ChunkStates,
     VerifyStates, RunStates, CommitStates
<1>2. /\ d \in CoreType /\ d.state = "METADATA_ERASE" /\ SameData(c, d) /\ SameRecord(c, d)
      /\ d.metadata_state = rs /\ d.metadata_next_state = next
  BY <1>1 DEF CommitStart, CoreType, SameData, SameRecord
<1>. HIDE DEF d
<1>3. d.upgrade_info \in Packages
  BY <1>2 DEF SameData
<1>4. /\ Encoded(d) \in RecordType /\ Encoded(d) # NONE /\ Encoded(d).state = rs
      /\ Encoded(d).mode = c.mode /\ Encoded(d).expected_crc = c.expected_crc
  BY <1>2, <1>3, ProposalFacts DEF SameData
<1>5. Fit(next, Encoded(d), d, f.IAP)
  BY <1>2, <1>4, SameDataFits
<1>6. Proposed(d, f.IAP)
  BY <1>2, <1>3, <1>4, <1>5 DEF Proposed, Complying, Vouched
<1>7. Known(f, d) /\ (Superseded(f, d) \/ Landed(f, d))
  BY <1>2, SameRecordFacts
<1>8. d.state \in CommitStates /\ d.state \notin ReadingStates
  BY <1>2 DEF CommitStates, ReadingStates
<1>9. Agree(f, d)
  BY <1>6, <1>7, <1>8 DEF Agree
<1>. QED BY <1>2, <1>9 DEF d

(* A session of the host begins.                                           *)
LEMMA Begins ==
    ASSUME NEW f \in FlashType, NEW c \in CoreType, NEW p \in Packages,
           NEW mode \in {"DIRECT", "STAGED"},
           Known(f, c), Superseded(f, c) \/ Landed(f, c)
    PROVE  LET d == Begun(c, p, mode)
           IN  /\ d \in CoreType /\ Agree(f, d) /\ d.state = "METADATA_ERASE"
               /\ d.running_crc = <<>> /\ d.verify_crc = <<>>
<1>. DEFINE b == Session(c, p, mode)
            d == CommitStart(b, DownloadState(mode), "DOWNLOAD_ERASE")
<1>1. <<>> \in Seq(Packages) /\ <<>> \in Seq(Cells) /\ <<>> \in Digests
  BY DEF Digests
<1>2. /\ b \in CoreType /\ b.upgrade_info = p /\ b.mode = mode
      /\ b.running_crc = <<>> /\ b.verify_crc = <<>> /\ SameRecord(c, b)
  <2>1. 0 \in 0 .. Chunks /\ 0 \in 0 .. MaxRetries
    BY Constants
  <2>2. b \in [state : {c.state}, mode : {mode}, upgrade_info : {p}, session_active : {TRUE},
               running_crc : {<<>>}, pending_packet : {NONE}, expected_crc : {<<>>},
               copy_offset : {0}, copy_chunk_crc : {NONE}, verify_crc : {<<>>},
               jump_called : {FALSE}, metadata_next_state : {c.metadata_next_state},
               metadata_source_zone : {c.metadata_source_zone},
               metadata_sequence : {c.metadata_sequence}, metadata_state : {c.metadata_state},
               metadata_retry_count : {0}]
    BY DEF Session, CoreType
  <2>3. b \in CoreType
    BY <1>1, <2>1 DEF Session, CoreType
  <2>. HIDE DEF b
  <2>. QED BY <2>2, <2>3 DEF SameRecord
<1>. HIDE DEF b
<1>3. Known(f, b) /\ (Superseded(f, b) \/ Landed(f, b))
  BY <1>2, SameRecordFacts
<1>4. DownloadState(mode) \in RecordStates
      /\ DownloadState(mode) \notin {"INSTALL_PENDING", "COPYING", "VALID"}
  BY DEF DownloadState, RecordStates
<1>5. \A r \in RecordType : r.state = DownloadState(mode) => Fit("DOWNLOAD_ERASE", r, b, f.IAP)
  BY <1>2, Constants DEF Fit, DownloadStates, CopyStates, EraseCopyStates, ChunkStates, HeldStates,
     VerifyStates, FinalStates, StartupStates, RunStates
<1>6. "DOWNLOAD_ERASE" \in EnteredStates
  BY DEF EnteredStates
<1>7. d \in CoreType /\ Agree(f, d) /\ d.state = "METADATA_ERASE" /\ SameData(b, d)
  BY <1>2, <1>3, <1>4, <1>5, <1>6, Commits
<1>8. Begun(c, p, mode) = d
  BY DEF Begun, b
<1>. QED BY <1>2, <1>7, <1>8 DEF SameData

LEMMA BeginStep == IInv /\ (\E p \in Packages, mode \in Modes : HostBegin(p, mode)) => IInv'
<1>. SUFFICES ASSUME IInv, NEW p \in Packages, NEW mode \in Modes, HostBegin(p, mode)
              PROVE  IInv'
  OBVIOUS
<1>1. /\ flash \in FlashType /\ core \in CoreType /\ Agree(flash, core)
      /\ request \in RequestType /\ result \in BOOLEAN /\ faults \in 0 .. MaxFaults
  BY DEF IInv, Typed, Sound
<1>2. /\ core.state = "WAIT_UPGRADE" /\ op = NONE /\ core' = Begun(core, p, mode)
      /\ UNCHANGED <<flash, request, op, result, faults>>
  BY DEF HostBegin
<1>3. Known(flash, core) /\ (Superseded(flash, core) \/ Landed(flash, core))
  BY <1>1, <1>2 DEF Agree, ReadingStates
<1>4. mode \in {"DIRECT", "STAGED"}
  BY Constants
<1>5. /\ core' \in CoreType /\ Agree(flash, core') /\ core'.state = "METADATA_ERASE"
      /\ core'.running_crc = <<>> /\ core'.verify_crc = <<>>
  BY <1>1, <1>2, <1>3, <1>4, Begins
<1>6. Len(<<>>) <= Chunks
  BY Constants
<1>. QED BY <1>1, <1>2, <1>5, <1>6, CoreStep
-----------------------------------------------------------------------------
(* Reading the metadata at a start.                                        *)

LEMMA ReadStep == IInv /\ MetaARead => IInv'
<1>. SUFFICES ASSUME IInv, MetaARead
              PROVE  IInv'
  OBVIOUS
<1>1. /\ flash \in FlashType /\ core \in CoreType /\ Agree(flash, core)
      /\ request \in RequestType /\ result \in BOOLEAN /\ faults \in 0 .. MaxFaults
      /\ Len(core.running_crc) <= Chunks /\ Len(core.verify_crc) <= Chunks
  BY DEF IInv, Typed, Sound
<1>2. /\ core.state = "META_A_WAIT" /\ op = NONE /\ core' = [core EXCEPT !.state = "META_B_READ"]
      /\ UNCHANGED <<flash, request, op, result, faults>>
  BY DEF MetaARead, Finished, Keep
<1>3. "META_B_READ" \in States
  BY DEF States, ReadingStates
<1>4. core' \in CoreType /\ core'.state = "META_B_READ" /\ SameData(core, core')
      /\ SameRecord(core, core')
  BY <1>1, <1>2, <1>3, WaitAdvances
<1>5. Agree(flash, core')
  BY <1>1, <1>2, <1>4 DEF Agree, ReadingStates, CommitStates, SameRecord
<1>. QED BY <1>1, <1>2, <1>4, <1>5, CoreStep DEF SameData

(* metadata_startup_evaluate begins by taking over what it has found.      *)
LEMMA LoadedFacts ==
    ASSUME IInv, core.state = "META_B_WAIT"
    PROVE  /\ Loaded \in CoreType /\ Known(flash, Loaded) /\ Superseded(flash, Loaded)
           /\ Vouched(Found, flash.IAP)
           /\ Loaded.running_crc = core.running_crc /\ Loaded.verify_crc = core.verify_crc
           /\ Found # NONE =>
                /\ Found \in RecordType /\ Complying(Found)
                /\ Loaded.mode = Found.mode /\ Loaded.upgrade_info = Found.info
                /\ Loaded.expected_crc = Found.expected_crc
                /\ Loaded.metadata_retry_count = Found.retry_count
<1>1. /\ flash \in FlashType /\ core \in CoreType /\ Compliant(flash)
      /\ Adjacent(flash) /\ Vouched(Found, flash.IAP) /\ core.metadata_sequence = 0
  BY DEF IInv, Typed, Sound, Agree, ReadingStates, Found
<1>. DEFINE zone == Selected(flash)
<1>2. zone \in MetaZones /\ Found = flash[zone] /\ Older(flash[OtherZone(zone)], Found)
  BY <1>1, SelectedFacts DEF Found
<1>. HIDE DEF zone
<1>3. CASE Found = NONE
  <2>1. flash[zone] = NONE /\ flash[OtherZone(zone)] = NONE
    BY <1>2, <1>3 DEF Older
  <2>2. Source(flash, core) = NONE /\ Other(flash, core) = NONE
    BY <1>1, <1>2, <2>1, Zones DEF Source, Other, MetaZones, OtherZone
  <2>3. Loaded = core
    BY <1>3 DEF Loaded
  <2>. QED BY <1>1, <1>3, <2>2, <2>3 DEF Known, Superseded, Older
<1>4. CASE Found # NONE
  <2>1. Found \in RecordType /\ Complying(Found)
    BY <1>1, <1>2, <1>4, RecordsInFlash DEF Compliant
  <2>2. Loaded = Adopted(core, zone, Found)
    BY <1>4 DEF Loaded, zone
  <2>3. /\ Found.sequence \in 0 .. SequenceMod - 1 /\ Found.state \in RecordStates
        /\ Found.retry_count \in 0 .. MaxRetries /\ Found.mode \in {"DIRECT", "STAGED"}
        /\ Found.info \in Packages /\ Found.expected_crc \in Digests
    BY <2>1 DEF RecordType
  <2>4. Loaded \in CoreType
    <3>1. Loaded \in [state : {core.state}, mode : {Found.mode}, upgrade_info : {Found.info},
                     session_active : {core.session_active}, running_crc : {core.running_crc},
                     pending_packet : {core.pending_packet}, expected_crc : {Found.expected_crc},
                     copy_offset : {core.copy_offset}, copy_chunk_crc : {core.copy_chunk_crc},
                     verify_crc : {core.verify_crc}, jump_called : {core.jump_called},
                     metadata_next_state : {core.metadata_next_state},
                     metadata_source_zone : {zone}, metadata_sequence : {Found.sequence},
                     metadata_state : {Found.state}, metadata_retry_count : {Found.retry_count}]
      BY <1>1, <2>2 DEF Adopted, CoreType
    <3>. QED BY <1>1, <1>2, <2>3, <3>1 DEF CoreType
  <2>5. /\ Loaded.metadata_source_zone = zone /\ Loaded.metadata_sequence = Found.sequence
        /\ Loaded.running_crc = core.running_crc /\ Loaded.verify_crc = core.verify_crc
        /\ Loaded.mode = Found.mode /\ Loaded.upgrade_info = Found.info
        /\ Loaded.expected_crc = Found.expected_crc
        /\ Loaded.metadata_retry_count = Found.retry_count
    BY <1>1, <2>2 DEF Adopted, CoreType
  <2>6. Source(flash, Loaded) = Found /\ Other(flash, Loaded) = flash[OtherZone(zone)]
    BY <1>2, <2>4, <2>5, Zones DEF Source, Other
  <2>7. Known(flash, Loaded) /\ Superseded(flash, Loaded)
    BY <1>1, <1>2, <1>4, <2>5, <2>6 DEF Known, Superseded
  <2>. QED BY <1>1, <2>1, <2>4, <2>5, <2>7
<1>. QED BY <1>3, <1>4

LEMMA LoadedResident ==
    ASSUME IInv, core.state = "META_B_WAIT", core' = Resident(Loaded), op = NONE,
           UNCHANGED <<flash, request, op, result, faults>>
    PROVE  IInv'
<1>1. /\ flash \in FlashType /\ request \in RequestType /\ result \in BOOLEAN
      /\ faults \in 0 .. MaxFaults
      /\ Len(core.running_crc) <= Chunks /\ Len(core.verify_crc) <= Chunks
  BY DEF IInv, Typed
<1>2. /\ core' \in CoreType /\ core'.state = "WAIT_UPGRADE" /\ Agree(flash, core')
      /\ core'.running_crc = core.running_crc /\ core'.verify_crc = core.verify_crc
  BY <1>1, LoadedFacts, ResidentFacts
<1>. QED BY <1>1, <1>2, CoreStep

LEMMA InstallStep == IInv /\ EvaluateInstall => IInv'
<1>. SUFFICES ASSUME IInv, EvaluateInstall
              PROVE  IInv'
  OBVIOUS
<1>1. /\ flash \in FlashType /\ request \in RequestType /\ result \in BOOLEAN
      /\ faults \in 0 .. MaxFaults
      /\ Len(core.running_crc) <= Chunks /\ Len(core.verify_crc) <= Chunks
  BY DEF IInv, Typed
<1>2. /\ core.state = "META_B_WAIT" /\ op = NONE /\ UNCHANGED <<flash, request, op, result, faults>>
      /\ Unfinished(Found)
  BY DEF EvaluateInstall, Finished, Keep
<1>3. CASE Exhausted(Found)
  BY <1>2, <1>3, LoadedResident DEF EvaluateInstall
<1>4. CASE ~Exhausted(Found)
  <2>. DEFINE b == [Loaded EXCEPT !.metadata_retry_count = @ + 1, !.copy_offset = 0]
  <2>1. /\ Loaded \in CoreType /\ Known(flash, Loaded) /\ Superseded(flash, Loaded)
        /\ Loaded.running_crc = core.running_crc /\ Loaded.verify_crc = core.verify_crc
    BY <1>2, LoadedFacts
  <2>2. /\ Found # NONE /\ Found.state \in {"INSTALL_PENDING", "COPYING"} /\ Found.mode = "STAGED"
    BY <1>2 DEF Unfinished
  <2>3. /\ Found \in RecordType /\ Complying(Found) /\ Loaded.mode = Found.mode
        /\ Loaded.upgrade_info = Found.info /\ Loaded.expected_crc = Found.expected_crc
        /\ Loaded.metadata_retry_count = Found.retry_count
    BY <1>2, <2>2, LoadedFacts
  <2>4. Loaded.metadata_retry_count + 1 \in 0 .. MaxRetries /\ 0 \in 0 .. Chunks
    <3>1. Found.retry_count \in 0 .. MaxRetries
      BY <2>3 DEF RecordType
    <3>. QED BY <1>4, <2>3, <3>1, Constants DEF Exhausted
  <2>5. Found.info \in Packages
    BY <2>3 DEF RecordType
  <2>6. /\ b \in CoreType /\ b.upgrade_info \in Packages /\ b.mode = "STAGED"
        /\ b.expected_crc \in Wholes /\ SameRecord(Loaded, b)
        /\ b.running_crc = core.running_crc /\ b.verify_crc = core.verify_crc
    BY <2>1, <2>2, <2>3, <2>4, <2>5 DEF CoreType, SameRecord, Complying
  <2>7. core' = CommitStart(b, "COPYING", "COPY_ERASE")
    BY <1>4 DEF EvaluateInstall, Recovered
  <2>. HIDE DEF b
  <2>8. Known(flash, b) /\ Superseded(flash, b)
    BY <2>1, <2>6, SameRecordFacts
  <2>9. \A r \in RecordType : r.state = "COPYING" => Fit("COPY_ERASE", r, b, flash.IAP)
    BY <2>6, Constants DEF Fit, DownloadStates, CopyStates, EraseCopyStates, ChunkStates,
       HeldStates, VerifyStates, FinalStates, StartupStates, RunStates
  <2>10. "COPYING" \in RecordStates /\ "COPY_ERASE" \in EnteredStates
    BY DEF RecordStates, EnteredStates
  <2>11. /\ core' \in CoreType /\ Agree(flash, core') /\ core'.state = "METADATA_ERASE"
         /\ SameData(b, core')
    BY <1>1, <2>6, <2>7, <2>8, <2>9, <2>10, Commits
  <2>. QED BY <1>1, <1>2, <2>6, <2>11, CoreStep DEF SameData
<1>. QED BY <1>3, <1>4

LEMMA InterruptedStep == IInv /\ EvaluateInterrupted => IInv'
<1>. SUFFICES ASSUME IInv, EvaluateInterrupted
              PROVE  IInv'
  OBVIOUS
<1>1. /\ core.state = "META_B_WAIT" /\ op = NONE /\ core' = Resident(Loaded)
      /\ UNCHANGED <<flash, request, op, result, faults>>
  BY DEF EvaluateInterrupted, Finished, Keep
<1>. QED BY <1>1, LoadedResident

LEMMA BootStep == IInv /\ EvaluateBoot => IInv'
<1>. SUFFICES ASSUME IInv, EvaluateBoot
              PROVE  IInv'
  OBVIOUS
<1>1. /\ flash \in FlashType /\ request \in RequestType /\ result \in BOOLEAN
      /\ faults \in 0 .. MaxFaults
      /\ Len(core.running_crc) <= Chunks /\ Len(core.verify_crc) <= Chunks
  BY DEF IInv, Typed
<1>2. /\ core.state = "META_B_WAIT" /\ op = NONE /\ UNCHANGED <<flash, request, op, result, faults>>
      /\ ~Unfinished(Found) /\ (Interrupted(Found) => Requested)
  BY DEF EvaluateBoot, Finished
<1>3. /\ Loaded \in CoreType /\ Known(flash, Loaded) /\ Superseded(flash, Loaded)
      /\ Loaded.running_crc = core.running_crc /\ Loaded.verify_crc = core.verify_crc
      /\ Vouched(Found, flash.IAP)
      /\ Found # NONE => Found \in RecordType /\ Complying(Found)
  BY <1>2, LoadedFacts
<1>4. CASE Requested /\ core' = Begun(Loaded, request.info, DefaultMode)
  <2>1. request.info \in Packages
    BY <1>1, <1>4 DEF Requested, RequestType
  <2>2. /\ core' \in CoreType /\ Agree(flash, core') /\ core'.state = "METADATA_ERASE"
        /\ core'.running_crc = <<>> /\ core'.verify_crc = <<>>
    BY <1>1, <1>3, <1>4, <2>1, Begins, Constants
  <2>3. Len(<<>>) <= Chunks
    BY Constants
  <2>. QED BY <1>1, <1>2, <2>2, <2>3, CoreStep
<1>5. CASE core' = Resident(Loaded)
  BY <1>2, <1>5, LoadedResident
<1>6. ASSUME NEW s \in {"WAIT_UPGRADE", "STARTUP_READ"}, core' = [Loaded EXCEPT !.state = s],
             s = "STARTUP_READ" => Bootable(flash.IAP)
      PROVE  IInv'
  <2>1. s \in States
    BY DEF States, StartupStates
  <2>2. core' \in CoreType /\ core'.state = s /\ SameData(Loaded, core') /\ SameRecord(Loaded, core')
    BY <1>3, <1>6, <2>1, WaitAdvances
  <2>3. Known(flash, core') /\ Superseded(flash, core')
    BY <1>3, <2>2, SameRecordFacts
  <2>4. s = "STARTUP_READ" => Fit(s, Source(flash, core'), core', flash.IAP)
    BY <1>6 DEF Fit, DownloadStates, CopyStates, EraseCopyStates, ChunkStates, HeldStates,
       VerifyStates, FinalStates, StartupStates, RunStates
  <2>5. Agree(flash, core')
    BY <2>2, <2>3, <2>4 DEF Agree, ReadingStates, CommitStates
  <2>. QED BY <1>1, <1>2, <1>3, <2>2, <2>5, CoreStep DEF SameData
<1>7. CASE request.reason = "POWER_ON" /\ core' = [Loaded EXCEPT !.state = "STARTUP_READ"]
  <2>1. Found # NONE => Found.state = "VALID"
    BY <1>2, <1>3, <1>7 DEF Interrupted, Requested, Unfinished, Complying, RecordType, RecordStates
  <2>2. Bootable(flash.IAP)
    BY <1>3, <2>1 DEF Vouched, Complying, Bootable
  <2>. QED BY <1>6, <1>7, <2>2
<1>8. CASE core' = [Loaded EXCEPT !.state = "WAIT_UPGRADE"]
  BY <1>6, <1>8
<1>. QED BY <1>4, <1>5, <1>7, <1>8 DEF EvaluateBoot
-----------------------------------------------------------------------------
(* From one state to the next.                                             *)

LEMMA Given ==
    ASSUME IInv
    PROVE  /\ flash \in FlashType /\ core \in CoreType /\ Agree(flash, core)
           /\ request \in RequestType /\ result \in BOOLEAN /\ faults \in 0 .. MaxFaults
           /\ Len(core.running_crc) <= Chunks /\ Len(core.verify_crc) <= Chunks
           /\ Clean(core) => /\ Known(flash, core) /\ Superseded(flash, core)
                             /\ Fit(core.state, Source(flash, core), core, flash.IAP)
  BY DEF IInv, Typed, Sound, Agree, Clean

(* A step from one state that relies on the newest record to another.      *)
LEMMA Moves ==
    ASSUME IInv, Known(flash, core), Superseded(flash, core), core' \in CoreType,
           SameRecord(core, core'),
           Clean(core'), core'.state \notin {"META_A_WAIT", "META_B_WAIT"},
           Fit(core'.state, Source(flash, core), core', flash.IAP),
           Len(core'.running_crc) <= Chunks, Len(core'.verify_crc) <= Chunks,
           op' = NONE, UNCHANGED flash, request' \in RequestType, result' \in BOOLEAN,
           faults' \in 0 .. MaxFaults
    PROVE  IInv'
<1>1. Known(flash, core') /\ Superseded(flash, core')
      /\ Source(flash, core') = Source(flash, core)
  BY SameRecordFacts
<1>2. Agree(flash, core')
  BY <1>1 DEF Agree, Clean
<1>3. core'.state \notin CommitStates
  BY DEF Clean
<1>. QED BY <1>2, <1>3, CoreStep DEF CommitStates

LEMMA StartupStep == IInv /\ StartupChecked => IInv'
<1>. SUFFICES ASSUME IInv, StartupChecked
              PROVE  IInv'
  OBVIOUS
<1>1. /\ core.state = "STARTUP_WAIT" /\ op = NONE
      /\ UNCHANGED <<flash, request, op, result, faults>>
  BY DEF StartupChecked, Finished, Keep
<1>2. Clean(core) /\ core.state \notin ReadingStates /\ core.state \in StartupStates
  BY <1>1 DEF Clean, ReadingStates, CommitStates, StartupStates
<1>3. CASE HeaderValid
  <2>1. core' = [core EXCEPT !.state = "JUMP_PENDING"]
    BY <1>3 DEF StartupChecked
  <2>2. "JUMP_PENDING" \in States
    BY DEF States, RunStates
  <2>3. core' \in CoreType /\ core'.state = "JUMP_PENDING" /\ SameData(core, core')
        /\ SameRecord(core, core')
    BY <2>1, <2>2, Given, WaitAdvances
  <2>4. flash.IAP \in Wholes
    BY <1>2, <1>3, Given DEF Fit, Bootable, HeaderValid
  <2>5. Fit("JUMP_PENDING", Source(flash, core), core', flash.IAP)
    BY <2>4 DEF Fit, DownloadStates, CopyStates, EraseCopyStates, ChunkStates, HeldStates,
       VerifyStates, FinalStates, StartupStates, RunStates
  <2>6. Clean(core')
    BY <2>3 DEF Clean, ReadingStates, CommitStates
  <2>. QED BY <1>1, <1>2, <2>3, <2>5, <2>6, Given, Moves DEF SameData
<1>4. CASE ~HeaderValid
  BY <1>1, <1>2, <1>4, Given, GivesUp DEF StartupChecked
<1>. QED BY <1>3, <1>4

LEMMA ErasedStep == IInv /\ DownloadErased => IInv'
<1>. SUFFICES ASSUME IInv, DownloadErased
              PROVE  IInv'
  OBVIOUS
<1>1. /\ core.state = "DOWNLOAD_ERASE_WAIT" /\ op = NONE
      /\ UNCHANGED <<flash, request, op, result, faults>>
      /\ core' = CommitStart(core, DownloadState(core.mode), "DOWNLOAD_READY")
  BY DEF DownloadErased, Finished, Keep
<1>2. Clean(core) /\ core.state \in DownloadStates
  BY <1>1 DEF Clean, ReadingStates, CommitStates, DownloadStates
<1>3. core.upgrade_info \in Packages
  BY <1>2, Given DEF Fit
<1>4. DownloadState(core.mode) \in RecordStates
      /\ DownloadState(core.mode) \notin {"INSTALL_PENDING", "COPYING", "VALID"}
  BY DEF DownloadState, RecordStates
<1>5. \A r \in RecordType :
        r.state = DownloadState(core.mode) => Fit("DOWNLOAD_READY", r, core, flash.IAP)
  BY <1>3, Constants DEF Fit, DownloadStates, CopyStates, EraseCopyStates, ChunkStates, HeldStates,
     VerifyStates, FinalStates, StartupStates, RunStates
<1>6. "DOWNLOAD_READY" \in EnteredStates
  BY DEF EnteredStates
<1>7. /\ core' \in CoreType /\ Agree(flash, core') /\ core'.state = "METADATA_ERASE"
      /\ SameData(core, core')
  BY <1>1, <1>2, <1>3, <1>4, <1>5, <1>6, Given, Commits
<1>. QED BY <1>1, <1>7, Given, CoreStep DEF SameData

LEMMA PacketStep == IInv /\ PacketWritten => IInv'
<1>. SUFFICES ASSUME IInv, PacketWritten
              PROVE  IInv'
  OBVIOUS
<1>. DEFINE crc == Append(core.running_crc, core.pending_packet)
<1>1. /\ core.state = "PACKET_WRITE_WAIT" /\ op = NONE
      /\ UNCHANGED <<flash, request, op, result, faults>>
      /\ core' = [core EXCEPT !.running_crc = crc, !.pending_packet = NONE,
                              !.state = "DOWNLOAD_READY"]
  BY DEF PacketWritten, Finished, Keep
<1>2. Clean(core) /\ core.state \in DownloadStates
  BY <1>1 DEF Clean, ReadingStates, CommitStates, DownloadStates
<1>3. /\ core.pending_packet \in Packages /\ Len(core.running_crc) < Chunks
      /\ core.upgrade_info \in Packages /\ Source(flash, core) # NONE
      /\ Source(flash, core).state = DownloadState(core.mode)
  BY <1>1, <1>2, Given DEF Fit
<1>4. crc \in Seq(Packages) /\ Len(crc) <= Chunks
  <2>1. core.running_crc \in Seq(Packages)
    BY Given DEF CoreType
  <2>. QED BY <1>3, <2>1, Constants
<1>. HIDE DEF crc
<1>5. /\ core' \in CoreType /\ core'.state = "DOWNLOAD_READY" /\ core'.running_crc = crc
      /\ core'.verify_crc = core.verify_crc /\ SameRecord(core, core')
      /\ core'.mode = core.mode /\ core'.upgrade_info = core.upgrade_info
  BY <1>1, <1>4, Given DEF CoreType, SameRecord, States, DownloadStates
<1>6. Fit("DOWNLOAD_READY", Source(flash, core), core', flash.IAP)
  BY <1>3, <1>5 DEF Fit, DownloadStates, CopyStates, EraseCopyStates, ChunkStates, HeldStates,
     VerifyStates, FinalStates, StartupStates, RunStates
<1>7. Clean(core')
  BY <1>5 DEF Clean, ReadingStates, CommitStates
<1>. QED BY <1>1, <1>2, <1>4, <1>5, <1>6, <1>7, Given, Moves

LEMMA CopyErasedStep == IInv /\ CopyErased => IInv'
<1>. SUFFICES ASSUME IInv, CopyErased
              PROVE  IInv'
  OBVIOUS
<1>1. /\ core.state = "COPY_ERASE_WAIT" /\ op = NONE
      /\ UNCHANGED <<flash, request, op, result, faults>>
      /\ core' = [core EXCEPT !.copy_offset = 0, !.state = "COPY_READ"]
  BY DEF CopyErased, Finished, Keep
<1>2. Clean(core) /\ core.state \in CopyStates
  BY <1>1 DEF Clean, ReadingStates, CommitStates, CopyStates, EraseCopyStates
<1>3. 0 \in 0 .. Chunks /\ 0 < Chunks
  BY Constants
<1>4. /\ core' \in CoreType /\ core'.state = "COPY_READ" /\ core'.copy_offset = 0
      /\ core'.running_crc = core.running_crc /\ core'.verify_crc = core.verify_crc
      /\ SameRecord(core, core') /\ core'.mode = core.mode
      /\ core'.upgrade_info = core.upgrade_info /\ core'.expected_crc = core.expected_crc
  BY <1>1, <1>3, Given DEF CoreType, SameRecord, States, CopyStates, ChunkStates
<1>5. /\ Source(flash, core) # NONE /\ core.mode = "STAGED"
      /\ Source(flash, core).state \in {"INSTALL_PENDING", "COPYING"}
      /\ core.expected_crc \in Wholes /\ core.upgrade_info \in Packages
  BY <1>2, Given DEF Fit
<1>6. Fit("COPY_READ", Source(flash, core), core', flash.IAP)
  BY <1>3, <1>4, <1>5 DEF Fit, DownloadStates, CopyStates, EraseCopyStates, ChunkStates, HeldStates,
     VerifyStates, FinalStates, StartupStates, RunStates
<1>7. Clean(core')
  BY <1>4 DEF Clean, ReadingStates, CommitStates
<1>. QED BY <1>1, <1>2, <1>4, <1>6, <1>7, Given, Moves

LEMMA CopyReadStep == IInv /\ CopyRead => IInv'
<1>. SUFFICES ASSUME IInv, CopyRead
              PROVE  IInv'
  OBVIOUS
<1>. DEFINE chunk == flash.STAGING[core.copy_offset + 1]
<1>1. /\ core.state = "COPY_READ_WAIT" /\ op = NONE
      /\ UNCHANGED <<flash, request, op, result, faults>>
      /\ core' = [core EXCEPT !.copy_chunk_crc = chunk, !.state = "COPY_WRITE"]
  BY DEF CopyRead, Finished, Keep
<1>2. Clean(core) /\ core.state \in CopyStates /\ core.state \in ChunkStates
  BY <1>1 DEF Clean, ReadingStates, CommitStates, CopyStates, ChunkStates
<1>3. /\ Source(flash, core) # NONE /\ core.mode = "STAGED"
      /\ Source(flash, core).state \in {"INSTALL_PENDING", "COPYING"}
      /\ core.expected_crc \in Wholes /\ core.upgrade_info \in Packages
      /\ core.copy_offset < Chunks
  BY <1>2, Given DEF Fit
<1>4. chunk \in Cells
  <2>1. core.copy_offset \in 0 .. Chunks /\ flash.STAGING \in [Offsets -> Cells]
    BY Given DEF CoreType, FlashType, Image
  <2>2. core.copy_offset + 1 \in Offsets
    BY <1>3, <2>1, Constants DEF Offsets
  <2>. QED BY <2>1, <2>2
<1>. HIDE DEF chunk
<1>5. /\ core' \in CoreType /\ core'.state = "COPY_WRITE" /\ core'.copy_chunk_crc = chunk
      /\ core'.running_crc = core.running_crc /\ core'.verify_crc = core.verify_crc
      /\ SameRecord(core, core') /\ core'.mode = core.mode
      /\ core'.upgrade_info = core.upgrade_info /\ core'.expected_crc = core.expected_crc
      /\ core'.copy_offset = core.copy_offset
  BY <1>1, <1>4, Given DEF CoreType, SameRecord, States, CopyStates, ChunkStates
<1>6. Fit("COPY_WRITE", Source(flash, core), core', flash.IAP)
  BY <1>3, <1>4, <1>5 DEF Fit, DownloadStates, CopyStates, EraseCopyStates, ChunkStates, HeldStates,
     VerifyStates, FinalStates, StartupStates, RunStates
<1>7. Clean(core')
  BY <1>5 DEF Clean, ReadingStates, CommitStates
<1>. QED BY <1>1, <1>2, <1>5, <1>6, <1>7, Given, Moves

LEMMA CopyWrittenStep == IInv /\ CopyWritten => IInv'
<1>. SUFFICES ASSUME IInv, CopyWritten
              PROVE  IInv'
  OBVIOUS
<1>1. /\ core.state = "COPY_WRITE_WAIT" /\ op = NONE
      /\ UNCHANGED <<flash, request, op, result, faults>>
      /\ core' = [core EXCEPT !.state = "COPY_VERIFY_READ"]
  BY DEF CopyWritten, Finished, Keep
<1>2. Clean(core) /\ "COPY_VERIFY_READ" \in States
  BY <1>1 DEF Clean, ReadingStates, CommitStates, States, CopyStates, ChunkStates
<1>3. core' \in CoreType /\ core'.state = "COPY_VERIFY_READ" /\ SameData(core, core')
      /\ SameRecord(core, core')
  BY <1>1, <1>2, Given, WaitAdvances
<1>4. Fit("COPY_VERIFY_READ", Source(flash, core), core, flash.IAP)
  <2>1. Fit("COPY_WRITE_WAIT", Source(flash, core), core, flash.IAP)
    BY <1>1, <1>2, Given
  <2>. QED BY <2>1 DEF Fit, DownloadStates, CopyStates, EraseCopyStates, ChunkStates,
          HeldStates, VerifyStates, FinalStates, StartupStates, RunStates
<1>5. Fit("COPY_VERIFY_READ", Source(flash, core), core', flash.IAP)
  BY <1>3, <1>4, SameDataFits
<1>6. Clean(core')
  BY <1>3 DEF Clean, ReadingStates, CommitStates
<1>. QED BY <1>1, <1>2, <1>3, <1>5, <1>6, Given, Moves DEF SameData

LEMMA CopyVerifiedStep == IInv /\ CopyVerified => IInv'
<1>. SUFFICES ASSUME IInv, CopyVerified
              PROVE  IInv'
  OBVIOUS
<1>. DEFINE last == ~(Copied(core).copy_offset < Chunks)
            b == IF last THEN [Copied(core) EXCEPT !.verify_crc = << >>] ELSE Copied(core)
            next == IF last THEN "VERIFY_READ" ELSE "COPY_READ"
<1>1. /\ core.state = "COPY_VERIFY_READ_WAIT" /\ op = NONE
      /\ UNCHANGED <<flash, request, op, result, faults>>
  BY DEF CopyVerified, Finished, Keep
<1>2. Clean(core) /\ core.state \in CopyStates /\ core.state \in ChunkStates
      /\ core.state \notin ReadingStates
  BY <1>1 DEF Clean, ReadingStates, CommitStates, CopyStates, ChunkStates
<1>3. CASE core' = Resident(core)
  BY <1>1, <1>2, <1>3, Given, GivesUp
<1>4. CASE core' = CommitStart(b, "COPYING", next)
  <2>1. /\ core.mode = "STAGED" /\ core.expected_crc \in Wholes /\ core.upgrade_info \in Packages
        /\ core.copy_offset < Chunks
    BY <1>2, Given DEF Fit
  <2>2. core.copy_offset + 1 \in 0 .. Chunks
    <3>1. core.copy_offset \in 0 .. Chunks
      BY Given DEF CoreType
    <3>. QED BY <2>1, <3>1, Constants
  <2>3. Copied(core) \in CoreType /\ Copied(core).copy_offset = core.copy_offset + 1
        /\ SameRecord(core, Copied(core)) /\ Copied(core).mode = core.mode
        /\ Copied(core).expected_crc = core.expected_crc
        /\ Copied(core).upgrade_info = core.upgrade_info
        /\ Copied(core).running_crc = core.running_crc
        /\ Copied(core).verify_crc = core.verify_crc
    BY <2>2, Given DEF Copied, CoreType, SameRecord
  <2>4. <<>> \in Seq(Cells) /\ Len(<<>>) = 0 /\ 0 < Chunks /\ 1 .. 0 = {}
    BY Constants
  <2>5. /\ b \in CoreType /\ SameRecord(core, b) /\ b.mode = "STAGED" /\ b.expected_crc \in Wholes
        /\ b.upgrade_info \in Packages /\ b.running_crc = core.running_crc
        /\ b.copy_offset = Copied(core).copy_offset
        /\ b.verify_crc = IF last THEN <<>> ELSE core.verify_crc
    <3>. HIDE DEF last
    <3>1. CASE last
      BY <2>1, <2>3, <2>4, <3>1 DEF CoreType, SameRecord
    <3>2. CASE ~last
      BY <2>1, <2>3, <3>2
    <3>. QED BY <3>1, <3>2
  <2>6. ~last => b.copy_offset < Chunks
    BY <2>5
  <2>. HIDE DEF b, last
  <2>7. \A r \in RecordType : r.state = "COPYING" => Fit(next, r, b, flash.IAP)
    BY <2>4, <2>5, <2>6, Constants DEF Fit, DownloadStates, CopyStates, EraseCopyStates,
       ChunkStates, HeldStates, VerifyStates, FinalStates, StartupStates, RunStates
  <2>8. "COPYING" \in RecordStates /\ next \in EnteredStates
    BY DEF RecordStates, EnteredStates
  <2>9. Known(flash, b) /\ Superseded(flash, b)
    BY <1>2, <2>5, Given, SameRecordFacts
  <2>. HIDE DEF next
  <2>10. /\ core' \in CoreType /\ Agree(flash, core') /\ core'.state = "METADATA_ERASE"
         /\ SameData(b, core')
    BY <1>4, <2>5, <2>7, <2>8, <2>9, Given, Commits
  <2>11. Len(b.verify_crc) <= Chunks
    BY <2>4, <2>5, Given, Constants
  <2>. QED BY <1>1, <2>5, <2>10, <2>11, Given, CoreStep DEF SameData
<1>. QED BY <1>3, <1>4 DEF CopyVerified

(* The installed image is read back to its end before it is trusted.       *)
LEMMA TargetStep == IInv /\ TargetRead => IInv'
<1>. SUFFICES ASSUME IInv, TargetRead
              PROVE  IInv'
  OBVIOUS
<1>. DEFINE n == Len(core.verify_crc)
            crc == Append(core.verify_crc, flash.IAP[n + 1])
            next == [core EXCEPT !.verify_crc = crc]
<1>1. /\ core.state = "VERIFY_READ_WAIT" /\ op = NONE
      /\ UNCHANGED <<flash, request, op, result, faults>>
      /\ core' = IF Len(crc) < Chunks THEN [next EXCEPT !.state = "VERIFY_READ"]
                 ELSE IF Verified(crc) THEN [next EXCEPT !.state = "FINAL_READ"]
                 ELSE Resident(next)
  BY DEF TargetRead, Finished, Keep
<1>2. Clean(core) /\ core.state \in VerifyStates
  BY <1>1 DEF Clean, ReadingStates, CommitStates, VerifyStates
<1>3. /\ core.expected_crc \in Wholes /\ core.upgrade_info \in Packages /\ n < Chunks
      /\ \A i \in 1 .. n : core.verify_crc[i] = flash.IAP[i]
  BY <1>2, Given DEF Fit
<1>4. flash.IAP \in [Offsets -> Cells] /\ core.verify_crc \in Seq(Cells) /\ n \in Nat
  BY Given DEF FlashType, Image, CoreType
<1>5. n + 1 \in Offsets
  BY <1>3, <1>4, Constants DEF Offsets
<1>6. /\ crc \in Seq(Cells) /\ Len(crc) = n + 1
      /\ \A i \in 1 .. n + 1 : crc[i] = flash.IAP[i]
  <2>1. flash.IAP[n + 1] \in Cells
    BY <1>4, <1>5
  <2>2. /\ crc \in Seq(Cells) /\ Len(crc) = n + 1 /\ crc[n + 1] = flash.IAP[n + 1]
        /\ \A i \in 1 .. n : crc[i] = core.verify_crc[i]
    BY <1>4, <2>1, AppendProperties
  <2>. HIDE DEF crc, n
  <2>. QED BY <1>3, <1>4, <2>2
<1>7. /\ next \in CoreType /\ next.verify_crc = crc /\ SameRecord(core, next)
      /\ next.expected_crc = core.expected_crc /\ next.upgrade_info = core.upgrade_info
      /\ next.running_crc = core.running_crc
  <2>. HIDE DEF crc
  <2>. QED BY <1>6, Given DEF CoreType, SameRecord
<1>. HIDE DEF next, crc, n
<1>8. Len(crc) <= Chunks
  BY <1>3, <1>4, <1>6, Constants
<1>9. Known(flash, next) /\ Superseded(flash, next)
  BY <1>2, <1>7, Given, SameRecordFacts
<1>10. ASSUME NEW s \in {"VERIFY_READ", "FINAL_READ"}, core' = [next EXCEPT !.state = s],
              Fit(s, Source(flash, core), next, flash.IAP)
       PROVE  IInv'
  <2>1. s \in States
    BY DEF States, VerifyStates, FinalStates
  <2>2. core' \in CoreType /\ core'.state = s /\ SameData(next, core') /\ SameRecord(next, core')
    BY <1>7, <1>10, <2>1, WaitAdvances
  <2>3. SameRecord(core, core')
    BY <1>7, <2>2 DEF SameRecord
  <2>4. Fit(s, Source(flash, core), core', flash.IAP)
    BY <1>10, <2>2, SameDataFits
  <2>5. Clean(core')
    BY <2>2 DEF Clean, ReadingStates, CommitStates
  <2>6. Len(core'.running_crc) <= Chunks /\ Len(core'.verify_crc) <= Chunks
    BY <1>7, <1>8, <2>2, Given DEF SameData
  <2>. QED BY <1>1, <1>2, <2>2, <2>3, <2>4, <2>5, <2>6, Given, Moves
<1>11. CASE Len(crc) < Chunks
  <2>1. Fit("VERIFY_READ", Source(flash, core), next, flash.IAP)
    BY <1>3, <1>6, <1>7, <1>11 DEF Fit, DownloadStates, CopyStates, EraseCopyStates, ChunkStates,
       HeldStates, VerifyStates, FinalStates, StartupStates, RunStates
  <2>. QED BY <1>1, <1>10, <1>11, <2>1
<1>12. CASE ~(Len(crc) < Chunks) /\ Verified(crc)
  <2>1. n + 1 = Chunks
    BY <1>3, <1>4, <1>6, <1>12, Constants
  <2>2. flash.IAP = core.expected_crc
    <3>1. PICK p \in Packages : core.expected_crc = Whole(p)
      BY <1>3 DEF Wholes
    <3>2. crc = Whole(p)
      BY <1>12, <3>1 DEF Verified
    <3>3. \A i \in Offsets : flash.IAP[i] = Whole(p)[i]
      BY <1>6, <2>1, <3>2 DEF Offsets
    <3>. QED BY <1>4, <3>1, <3>3 DEF Whole
  <2>3. Fit("FINAL_READ", Source(flash, core), next, flash.IAP)
    BY <1>3, <1>7, <2>2 DEF Fit, DownloadStates, CopyStates, EraseCopyStates, ChunkStates,
       HeldStates, VerifyStates, FinalStates, StartupStates, RunStates
  <2>. QED BY <1>1, <1>10, <1>12, <2>3
<1>13. CASE ~(Len(crc) < Chunks) /\ ~Verified(crc)
  <2>1. core' = Resident(next)
    BY <1>1, <1>13
  <2>2. /\ core' \in CoreType /\ core'.state = "WAIT_UPGRADE" /\ Agree(flash, core')
        /\ core'.running_crc = core.running_crc /\ core'.verify_crc = crc
    BY <1>7, <1>9, <2>1, Given, ResidentFacts
  <2>. QED BY <1>1, <1>8, <2>2, Given, CoreStep
<1>. QED BY <1>11, <1>12, <1>13

LEMMA FinalStep == IInv /\ FinalChecked => IInv'
<1>. SUFFICES ASSUME IInv, FinalChecked
              PROVE  IInv'
  OBVIOUS
<1>. DEFINE b == [core EXCEPT !.metadata_retry_count = 0]
<1>1. /\ core.state = "FINAL_READ_WAIT" /\ op = NONE
      /\ UNCHANGED <<flash, request, op, result, faults>>
  BY DEF FinalChecked, Finished, Keep
<1>2. Clean(core) /\ core.state \in FinalStates /\ core.state \notin ReadingStates
  BY <1>1 DEF Clean, ReadingStates, CommitStates, FinalStates
<1>3. core.expected_crc \in Wholes /\ core.upgrade_info \in Packages /\ flash.IAP = core.expected_crc
  BY <1>2, Given DEF Fit
<1>4. CASE ~HeaderValid
  BY <1>1, <1>2, <1>4, Given, GivesUp DEF FinalChecked
<1>5. CASE HeaderValid
  <2>1. core' = CommitStart(b, "VALID", "JUMP_PENDING")
    BY <1>5 DEF FinalChecked
  <2>2. 0 \in 0 .. MaxRetries
    BY Constants
  <2>3. /\ b \in CoreType /\ SameRecord(core, b) /\ b.expected_crc = core.expected_crc
        /\ b.upgrade_info = core.upgrade_info
        /\ b.running_crc = core.running_crc /\ b.verify_crc = core.verify_crc
    BY <2>2, Given DEF CoreType, SameRecord
  <2>. HIDE DEF b
  <2>4. Known(flash, b) /\ Superseded(flash, b)
    BY <1>2, <2>3, Given, SameRecordFacts
  <2>5. \A r \in RecordType : r.state = "VALID" => Fit("JUMP_PENDING", r, b, flash.IAP)
    BY <1>3 DEF Fit, DownloadStates, CopyStates, EraseCopyStates, ChunkStates, HeldStates,
       VerifyStates, FinalStates, StartupStates, RunStates
  <2>6. "VALID" \in RecordStates /\ "JUMP_PENDING" \in EnteredStates
    BY DEF RecordStates, EnteredStates
  <2>7. /\ core' \in CoreType /\ Agree(flash, core') /\ core'.state = "METADATA_ERASE"
        /\ SameData(b, core')
    BY <1>3, <2>1, <2>3, <2>4, <2>5, <2>6, Given, Commits
  <2>. QED BY <1>1, <2>3, <2>7, Given, CoreStep DEF SameData
<1>. QED BY <1>4, <1>5

LEMMA MetadataErasedStep == IInv /\ MetadataErased => IInv'
<1>. SUFFICES ASSUME IInv, MetadataErased
              PROVE  IInv'
  OBVIOUS
<1>1. /\ core.state = "METADATA_ERASE_WAIT" /\ op = NONE /\ result
      /\ UNCHANGED <<flash, request, op, result, faults>>
      /\ core' = [core EXCEPT !.state = "METADATA_WRITE"]
  BY DEF MetadataErased, Finished, Keep
<1>2. Other(flash, core) = NONE
  BY <1>1 DEF IInv, Sound, Written
<1>3. "METADATA_WRITE" \in States /\ core.state \in CommitStates
  BY <1>1 DEF States, CommitStates
<1>4. /\ core' \in CoreType /\ core'.state = "METADATA_WRITE" /\ SameData(core, core')
      /\ SameRecord(core, core')
      /\ core'.metadata_next_state = core.metadata_next_state
      /\ core'.metadata_state = core.metadata_state
      /\ core'.metadata_retry_count = core.metadata_retry_count
  BY <1>1, <1>3, Given, WaitAdvances
<1>5. Encoded(core') = Encoded(core)
  BY <1>4 DEF Encoded, SameData, SameRecord
<1>6. Known(flash, core) /\ Proposed(core, flash.IAP)
  BY <1>1, <1>3, Given DEF Agree, ReadingStates
<1>7. Proposed(core', flash.IAP)
  <2>1. Fit(core.metadata_next_state, Encoded(core), core', flash.IAP)
    BY <1>4, <1>6, SameDataFits DEF Proposed
  <2>. QED BY <1>4, <1>5, <1>6, <2>1 DEF Proposed, SameData
<1>8. Known(flash, core') /\ Other(flash, core') = NONE
  BY <1>2, <1>4, <1>6, SameRecordFacts
<1>9. Agree(flash, core')
  BY <1>4, <1>7, <1>8 DEF Agree, ReadingStates, CommitStates, Superseded, Older
<1>. QED BY <1>1, <1>4, <1>8, <1>9, Given, CoreStep DEF SameData

(* A commit ends: the copy written is the newest record from now on.       *)
LEMMA MetadataWrittenStep == IInv /\ MetadataWritten => IInv'
<1>. SUFFICES ASSUME IInv, MetadataWritten
              PROVE  IInv'
  OBVIOUS
<1>. DEFINE s == core.metadata_next_state
            r == Encoded(core)
<1>1. /\ core.state = "METADATA_WRITE_WAIT" /\ op = NONE /\ result
      /\ UNCHANGED <<flash, request, op, result, faults>>
      /\ core' = [core EXCEPT !.metadata_sequence = Successor(core.metadata_sequence),
                              !.metadata_source_zone = Target(core), !.state = s]
  BY DEF MetadataWritten, Finished, Keep, Successor
<1>2. Other(flash, core) = r
  BY <1>1 DEF IInv, Sound, Written
<1>3. core.state \in CommitStates /\ core.state \notin ReadingStates
  BY <1>1 DEF CommitStates, ReadingStates
<1>4. Known(flash, core) /\ Proposed(core, flash.IAP)
  BY <1>3, Given DEF Agree
<1>5. r # NONE /\ r.sequence = Successor(core.metadata_sequence) /\ Vouched(r, flash.IAP)
      /\ s \in EnteredStates
  BY <1>4, Given, ProposalFacts DEF Proposed
<1>6. s \in States
  BY <1>5 DEF EnteredStates, States, DownloadStates, CopyStates, EraseCopyStates, ChunkStates,
     VerifyStates, RunStates
<1>7. Successor(core.metadata_sequence) \in 0 .. SequenceMod - 1 /\ Target(core) \in MetaZones
  <2>1. core.metadata_sequence \in 0 .. SequenceMod - 1
    BY Given DEF CoreType
  <2>. QED BY <2>1, Given, SuccessorFacts, Zones
<1>. HIDE DEF s, r
<1>8. /\ core' \in CoreType /\ core'.state = s /\ SameData(core, core')
      /\ core'.metadata_sequence = Successor(core.metadata_sequence)
      /\ core'.metadata_source_zone = Target(core)
  BY <1>1, <1>6, <1>7, Given DEF CoreType, SameData
<1>9. Source(flash, core') = r /\ Other(flash, core') = Source(flash, core)
  BY <1>2, <1>8, Given, Zones DEF Source, Other
<1>10. Known(flash, core')
  BY <1>5, <1>8, <1>9 DEF Known
<1>11. Superseded(flash, core')
  BY <1>4, <1>5, <1>9 DEF Superseded, Older, Known
<1>12. Fit(s, r, core', flash.IAP)
  BY <1>4, <1>8, SameDataFits DEF Proposed, s, r
<1>13. Clean(core') /\ s \notin {"META_A_WAIT", "META_B_WAIT", "METADATA_WRITE_WAIT",
                                  "METADATA_ERASE_WAIT", "METADATA_WRITE"}
  BY <1>5, <1>8 DEF Clean, EnteredStates, ReadingStates, CommitStates
<1>14. Agree(flash, core')
  BY <1>8, <1>9, <1>10, <1>11, <1>12, <1>13 DEF Agree, Clean
<1>. QED BY <1>1, <1>8, <1>13, <1>14, Given, CoreStep DEF SameData

LEMMA JumpStep == IInv /\ (Jump \/ JumpFailed) => IInv'
<1>. SUFFICES ASSUME IInv, Jump \/ JumpFailed
              PROVE  IInv'
  OBVIOUS
<1>1. core.state = "JUMP_PENDING" /\ UNCHANGED <<flash, op, result>>
  BY DEF Jump, JumpFailed
<1>2. Clean(core) /\ core.state \notin ReadingStates /\ core.state \in RunStates
  BY <1>1 DEF Clean, ReadingStates, CommitStates, RunStates
<1>3. op = NONE
  BY <1>1, WaitStatesAre DEF IInv, Sound, Carried
<1>4. faults' \in 0 .. MaxFaults
  <2>1. faults' = faults \/ (faults < MaxFaults /\ faults' = faults + 1)
    BY DEF Jump, JumpFailed
  <2>. QED BY <2>1, Given, Constants
<1>5. request' \in RequestType
  BY Given DEF Jump, JumpFailed, RequestType, NoRequest
<1>6. CASE core' = [core EXCEPT !.jump_called = TRUE, !.state = "IAP"]
  <2>1. /\ core' \in CoreType /\ core'.state = "IAP" /\ SameRecord(core, core')
        /\ core'.running_crc = core.running_crc /\ core'.verify_crc = core.verify_crc
    BY <1>6, Given DEF CoreType, SameRecord, States, RunStates
  <2>2. flash.IAP \in Wholes
    BY <1>2, Given DEF Fit
  <2>3. Fit("IAP", Source(flash, core), core', flash.IAP)
    BY <2>2 DEF Fit, DownloadStates, CopyStates, EraseCopyStates, ChunkStates, HeldStates,
       VerifyStates, FinalStates, StartupStates, RunStates
  <2>4. Clean(core')
    BY <2>1 DEF Clean, ReadingStates, CommitStates
  <2>. QED BY <1>1, <1>2, <1>3, <1>4, <1>5, <2>1, <2>3, <2>4, Given, Moves
<1>7. CASE core' = Resident(core)
  BY <1>1, <1>2, <1>3, <1>4, <1>5, <1>7, Given, GivesUp
<1>8. CASE core' = Resident([core EXCEPT !.jump_called = TRUE])
  <2>. DEFINE b == [core EXCEPT !.jump_called = TRUE]
  <2>1. /\ b \in CoreType /\ SameRecord(core, b)
        /\ b.running_crc = core.running_crc /\ b.verify_crc = core.verify_crc
    BY Given DEF CoreType, SameRecord
  <2>. HIDE DEF b
  <2>2. Known(flash, b) /\ Superseded(flash, b)
    BY <1>2, <2>1, Given, SameRecordFacts
  <2>3. core' = Resident(b)
    BY <1>8 DEF b
  <2>4. /\ core' \in CoreType /\ core'.state = "WAIT_UPGRADE" /\ Agree(flash, core')
        /\ core'.running_crc = core.running_crc /\ core'.verify_crc = core.verify_crc
    BY <2>1, <2>2, <2>3, Given, ResidentFacts
  <2>. QED BY <1>1, <1>3, <1>4, <1>5, <2>4, Given, CoreStep
<1>. QED BY <1>6, <1>7, <1>8 DEF Jump, JumpFailed
-----------------------------------------------------------------------------
(* The host.                                                               *)

LEMMA PacketArrives ==
    IInv /\ (\E offset \in Offsets, data \in Packages : HostData(offset, data)) => IInv'
<1>. SUFFICES ASSUME IInv, NEW offset \in Offsets, NEW data \in Packages, HostData(offset, data)
              PROVE  IInv'
  OBVIOUS
<1>1. /\ core.state = "DOWNLOAD_READY" /\ offset = Len(core.running_crc) + 1 /\ offset <= Chunks
      /\ op' = Operation("program", DownloadZone(core), offset, data)
      /\ core' = [core EXCEPT !.pending_packet = data, !.state = "PACKET_WRITE_WAIT"]
      /\ UNCHANGED <<flash, request, result, faults>>
  BY DEF HostData, InSession, Accepted
<1>2. Clean(core) /\ core.state \in DownloadStates
  BY <1>1 DEF Clean, ReadingStates, CommitStates, DownloadStates
<1>3. /\ Source(flash, core) # NONE /\ Source(flash, core).state = DownloadState(core.mode)
      /\ core.upgrade_info \in Packages
  BY <1>2, Given DEF Fit
<1>4. Len(core.running_crc) < Chunks
  <2>1. Len(core.running_crc) \in Nat
    BY Given DEF CoreType
  <2>. QED BY <1>1, <2>1, Constants
<1>5. /\ core' \in CoreType /\ core'.state = "PACKET_WRITE_WAIT" /\ core'.pending_packet = data
      /\ SameRecord(core, core') /\ core'.mode = core.mode
      /\ core'.upgrade_info = core.upgrade_info
      /\ core'.running_crc = core.running_crc /\ core'.verify_crc = core.verify_crc
  BY <1>1, Given DEF CoreType, SameRecord, States, DownloadStates
<1>6. Fit("PACKET_WRITE_WAIT", Source(flash, core), core', flash.IAP)
  BY <1>3, <1>4, <1>5 DEF Fit, DownloadStates, CopyStates, EraseCopyStates, ChunkStates, HeldStates,
     VerifyStates, FinalStates, StartupStates, RunStates
<1>7. /\ Known(flash, core') /\ Superseded(flash, core')
      /\ Source(flash, core') = Source(flash, core)
  BY <1>2, <1>5, Given, SameRecordFacts
<1>8. Agree(flash, core')
  BY <1>5, <1>6, <1>7 DEF Agree, ReadingStates, CommitStates
<1>9. op' \in OperationType /\ data \in Cells
  BY <1>1 DEF Operation, OperationType, DownloadZone, ImageZones, Cells
<1>10. Carried(op', core')
  BY <1>1, <1>5, <1>9, WaitStatesAre DEF Carried, Operation, DownloadZone
<1>11. op' # NONE
  BY <1>9, Constants
<1>12. Written(flash, core', op', result)
  BY <1>5 DEF Written
<1>13. Sound(flash', core', op', result')
  BY <1>1, <1>5, <1>8, <1>10, <1>11, <1>12 DEF Sound, IInv
<1>. QED BY <1>1, <1>5, <1>13, Given DEF IInv, Typed

LEMMA EndStep == IInv /\ (\E p \in Packages : HostEnd(Whole(p))) => IInv'
<1>. SUFFICES ASSUME IInv, NEW p \in Packages, HostEnd(Whole(p))
              PROVE  IInv'
  OBVIOUS
<1>. DEFINE b == [core EXCEPT !.expected_crc = Whole(p), !.session_active = FALSE]
            v == [b EXCEPT !.verify_crc = << >>, !.state = "VERIFY_READ"]
<1>1. /\ core.state = "DOWNLOAD_READY" /\ UNCHANGED <<flash, request, op, result, faults>>
      /\ \/ core' = Resident(core)
         \/ core.mode = "STAGED" /\ core' = CommitStart(b, "INSTALL_PENDING", "COPY_ERASE")
         \/ core' = v
  BY DEF HostEnd, InSession, Keep
<1>2. Clean(core) /\ core.state \in DownloadStates /\ core.state \notin ReadingStates
  BY <1>1 DEF Clean, ReadingStates, CommitStates, DownloadStates
<1>3. op = NONE
  BY <1>1, WaitStatesAre DEF IInv, Sound, Carried
<1>4. core.upgrade_info \in Packages
  BY <1>2, Given DEF Fit
<1>5. Whole(p) \in Digests /\ Whole(p) \in Wholes
  BY DEF Digests, Wholes
<1>6. /\ b \in CoreType /\ SameRecord(core, b) /\ b.expected_crc = Whole(p)
      /\ b.upgrade_info = core.upgrade_info /\ b.mode = core.mode
      /\ b.running_crc = core.running_crc /\ b.verify_crc = core.verify_crc
  BY <1>5, Given DEF CoreType, SameRecord
<1>7. <<>> \in Seq(Cells) /\ Len(<<>>) = 0 /\ 1 .. 0 = {} /\ 0 < Chunks /\ Len(<<>>) <= Chunks
  BY Constants
<1>8. /\ v \in CoreType /\ SameRecord(core, v) /\ v.expected_crc = Whole(p)
      /\ v.upgrade_info = core.upgrade_info /\ v.verify_crc = <<>>
      /\ v.running_crc = core.running_crc /\ v.state = "VERIFY_READ"
  <2>. HIDE DEF b
  <2>1. "VERIFY_READ" \in States
    BY DEF States, VerifyStates
  <2>2. <<>> \in Seq(Cells) /\ b \in CoreType
    BY <1>6, <1>7
  <2>3. v = [b EXCEPT !.verify_crc = <<>>, !.state = "VERIFY_READ"]
    OBVIOUS
  <2>. HIDE DEF v
  <2>4. /\ v \in CoreType /\ SameRecord(b, v) /\ v.verify_crc = <<>> /\ v.state = "VERIFY_READ"
        /\ v.expected_crc = b.expected_crc /\ v.upgrade_info = b.upgrade_info
        /\ v.running_crc = b.running_crc
    BY <2>1, <2>2, <2>3 DEF CoreType, SameRecord
  <2>. QED BY <1>6, <2>4 DEF SameRecord
<1>. HIDE DEF b, v
<1>9. CASE core' = Resident(core)
  BY <1>1, <1>2, <1>3, <1>9, Given, GivesUp
<1>10. CASE core.mode = "STAGED" /\ core' = CommitStart(b, "INSTALL_PENDING", "COPY_ERASE")
  <2>1. Known(flash, b) /\ Superseded(flash, b)
    BY <1>2, <1>6, Given, SameRecordFacts
  <2>2. \A r \in RecordType : r.state = "INSTALL_PENDING" => Fit("COPY_ERASE", r, b, flash.IAP)
    BY <1>4, <1>5, <1>6, <1>10, Constants DEF Fit, DownloadStates, CopyStates, EraseCopyStates,
       ChunkStates, HeldStates, VerifyStates, FinalStates, StartupStates, RunStates
  <2>3. "INSTALL_PENDING" \in RecordStates /\ "COPY_ERASE" \in EnteredStates
    BY DEF RecordStates, EnteredStates
  <2>4. /\ core' \in CoreType /\ Agree(flash, core') /\ core'.state = "METADATA_ERASE"
        /\ SameData(b, core')
    BY <1>4, <1>5, <1>6, <1>10, <2>1, <2>2, <2>3, Given, Commits
  <2>. QED BY <1>1, <1>3, <1>6, <2>4, Given, CoreStep DEF SameData
<1>11. CASE core' = v
  <2>1. Fit("VERIFY_READ", Source(flash, core), v, flash.IAP)
    BY <1>4, <1>5, <1>7, <1>8 DEF Fit, DownloadStates, CopyStates, EraseCopyStates, ChunkStates,
       HeldStates, VerifyStates, FinalStates, StartupStates, RunStates
  <2>2. Clean(v)
    BY <1>8 DEF Clean, ReadingStates, CommitStates
  <2>. QED BY <1>1, <1>2, <1>3, <1>7, <1>8, <1>11, <2>1, <2>2, Given, Moves
<1>. QED BY <1>1, <1>9, <1>10, <1>11

LEMMA StutterStep == IInv /\ UNCHANGED vars => IInv'
  BY DEF vars, IInv

LEMMA Steps == IInv /\ [Next]_vars => IInv'
<1>. SUFFICES ASSUME IInv, [Next]_vars
              PROVE  IInv'
  OBVIOUS
<1>1. CASE Process
  BY <1>1, SubmitStep, RefusedStep, FailedStep, ReadStep, InstallStep, InterruptedStep, BootStep,
     StartupStep, ErasedStep, PacketStep, CopyErasedStep, CopyReadStep, CopyWrittenStep,
     CopyVerifiedStep, TargetStep, FinalStep, MetadataErasedStep, MetadataWrittenStep, JumpStep
     DEF Process
<1>2. CASE Flash
  BY <1>2, FlashStep
<1>3. CASE Host
  BY <1>3, BeginStep, PacketArrives, RefusedStep, EndStep DEF Host
<1>4. CASE Reset
  BY <1>4, ResetStep
<1>5. CASE \E info \in Packages \cup {NONE} : IapUpdate(info)
  BY <1>5, UpdateStep
<1>6. CASE UNCHANGED vars
  BY <1>6, StutterStep
<1>. QED BY <1>1, <1>2, <1>3, <1>4, <1>5, <1>6 DEF Next
-----------------------------------------------------------------------------
(* What it means.                                                          *)

LEMMA CompleteIs == Complete <=> flash.IAP \in Wholes
  BY DEF Complete, Wholes

\* In every state bootloader_process can be in, flash and core agree: the core
\* knows the newest acknowledged record, the other copy is older or left by a
\* failed commit, what either says of the application is true, and each state
\* finds what it relies on.
THEOREM Invariance == MetadataReadable /\ Spec => []IInv
  BY Starts, Steps, PTL DEF Spec

LEMMA TypesHold == IInv => TypeOK
<1>. SUFFICES ASSUME IInv PROVE TypeOK
  OBVIOUS
<1>1. \A z \in ImageZones : flash[z] \in [Offsets -> Cells]
  BY Given DEF FlashType, Image, ImageZones
<1>2. \A z \in MetaZones : flash[z] \in RecordType \cup {NONE}
  BY Given, RecordsInFlash
<1>3. /\ core.state \in States /\ core.metadata_retry_count \in 0 .. MaxRetries
      /\ core.copy_offset \in 0 .. Chunks /\ core.mode \in {"DIRECT", "STAGED"}
      /\ core.upgrade_info \in Packages \cup {NONE}
  BY Given DEF CoreType
<1>. QED BY <1>1, <1>2, <1>3, Given, StatesAre DEF TypeOK

\* The zones and the fields of bootloader_t stay in their ranges.
THEOREM TypeCorrect == MetadataReadable /\ Spec => []TypeOK
  BY TypesHold, Invariance, PTL

LEMMA RunsComplete == IInv => BootsOnlyComplete
<1>. SUFFICES ASSUME IInv, core.state \in {"JUMP_PENDING", "IAP"} PROVE Complete
  BY DEF BootsOnlyComplete
<1>1. Clean(core) /\ core.state \in RunStates
  BY DEF Clean, ReadingStates, CommitStates, RunStates
<1>. QED BY <1>1, Given, CompleteIs DEF Fit

\* bootloader_core.c hands the CPU to a complete image only, whatever
\* interrupted the downloads, copies and commits before.
THEOREM RunsOnlyComplete == MetadataReadable /\ Spec => []BootsOnlyComplete
  BY RunsComplete, Invariance, PTL

LEMMA RecordsTell == IInv => ImageGuarded
<1>. SUFFICES ASSUME IInv PROVE ImageGuarded
  OBVIOUS
<1>1. Vouched(Found, flash.IAP)
  BY Given, FoundFacts DEF Found
<1>. QED BY <1>1, CompleteIs DEF ImageGuarded, Vouched, Bootable, HeaderValid

\* At every moment, so after a power loss at any moment, the record that
\* bootloader_metadata_select would find tells the truth about the image.
THEOREM AlwaysGuarded == MetadataReadable /\ Spec => []ImageGuarded
  BY RecordsTell, Invariance, PTL

LEMMA OldImageStep ==
    IInv /\ [Next]_vars =>
      [flash'.IAP # flash.IAP =>
         Found.state \in {"DOWNLOAD_DIRECT", "INSTALL_PENDING", "COPYING"}]_vars
<1>. SUFFICES ASSUME IInv, Next, flash'.IAP # flash.IAP
              PROVE  Found.state \in {"DOWNLOAD_DIRECT", "INSTALL_PENDING", "COPYING"}
  OBVIOUS
<1>1. PICK z : op # NONE /\ Outcome(op, z) /\ flash' = [flash EXCEPT ![op.zone] = z]
  <2>1. Flash \/ Reset
    BY DEF Next, Process, Host, Submit, SubmitRefused, OperationFailed, MetaARead,
       EvaluateInstall, EvaluateInterrupted, EvaluateBoot, StartupChecked, DownloadErased,
       PacketWritten, CopyErased, CopyRead, CopyWritten, CopyVerified, TargetRead,
       FinalChecked, MetadataErased, MetadataWritten, Jump, JumpFailed, HostBegin, HostData,
       HostDataRefused, HostEnd, IapUpdate, Keep
  <2>. QED BY <2>1 DEF Flash, FlashDone, FlashFailed, FlashSpoiled, Reset, Outcome, Partial
<1>2. Change(flash, flash', core)
  BY <1>1, FlashWrites
<1>3. ImageChange(flash, flash', core)
  BY <1>2 DEF Change, RecordChange
<1>4. Clean(core)
  BY <1>3 DEF ImageChange, Clean, ReadingStates, CommitStates
<1>5. Found = Source(flash, core)
  BY <1>4, Given, FoundFacts DEF Found
<1>. QED BY <1>3, <1>5 DEF ImageChange, Overwritable

\* No step of bootloader_core.c or of a failing flash touches the application
\* before a record says that it may be lost.
THEOREM OldImageSafe == MetadataReadable /\ Spec => OldImageKept
  BY OldImageStep, Invariance, PTL DEF Spec, OldImageKept

----------------------------------------------------------------------------
(* What the steps of Bootloader do to the flash: that the two metadata     *)
(* copies implement one durable register, and with it which steps change   *)
(* the record the core goes by; how often the core erases the application; *)
(* and that it programs only what is erased.                               *)


(* The record the core goes by.                                            *)
GoneBy(f, c) == IF c.state \in ReadingStates THEN Newest(f) ELSE Source(f, c)

LEMMA FieldsFacts ==
    ASSUME NEW r \in RecordType
    PROVE  Fields(r) \in ContentType /\ Fields(r) # NONE
<1>1. DOMAIN r = {"state", "mode", "retry_count", "sequence", "info", "expected_crc"}
      /\ r # NONE
  BY Constants DEF RecordType
<1>2. Fields(r) = [f \in {"state", "mode", "retry_count", "info", "expected_crc"} |-> r[f]]
  <2>1. DOMAIN r \ {"sequence"} = {"state", "mode", "retry_count", "info", "expected_crc"}
    BY <1>1
  <2>. QED BY <1>1, <2>1 DEF Fields
<1>3. Fields(r) \in ContentType
  BY <1>2 DEF RecordType, ContentType
<1>. QED BY <1>3, Constants

LEMMA RegisterIs ==
    /\ Reading <=> core.state \in ReadingStates
    /\ Committing <=> core.state \in CommitStates
    /\ (IF Reading THEN Found ELSE flash[core.metadata_source_zone]) = GoneBy(flash, core)
    /\ Found = Newest(flash)
  BY DEF Reading, Committing, ReadingStates, CommitStates, GoneBy, Source, Found

(* What a flash operation of a commit, whole, failed or interrupted, makes *)
(* of the record that is found: the old one or the new one.                *)
LEMMA Lands ==
    ASSUME NEW f \in FlashType, NEW g \in FlashType, NEW c \in CoreType,
           Agree(f, c), Compliant(f), Change(f, g, c)
    PROVE  /\ Source(g, c) = Source(f, c)
           /\ \/ Newest(g) = Newest(f)
              \/ c.state \in CommitStates /\ c.state \notin ReadingStates
                 /\ Newest(g) \in {Encoded(c), Source(f, c)}
<1>1. CASE g = f
  BY <1>1
<1>2. CASE ImageChange(f, g, c)
  <2>1. g.META_A = f.META_A /\ g.META_B = f.META_B
    BY <1>2 DEF ImageChange
  <2>2. Newest(g) = Newest(f)
    BY <2>1 DEF Newest, Selected
  <2>3. c.metadata_source_zone \in {"META_A", "META_B"}
    BY DEF CoreType, MetaZones
  <2>. QED BY <2>1, <2>2, <2>3 DEF Source
<1>3. CASE RecordChange(f, g, c)
  <2>1. c.state \in CommitStates /\ c.state \notin ReadingStates
    BY <1>3 DEF RecordChange, CommitStates, ReadingStates
  <2>2. Agree(g, c) /\ Source(g, c) = Source(f, c)
    BY <1>3, ChangeAgrees DEF RecordChange
  <2>3. Known(g, c) /\ (Superseded(g, c) \/ Landed(g, c))
    BY <2>1, <2>2 DEF Agree
  <2>4. CASE Superseded(g, c)
    <3>1. Newest(g) = Source(g, c)
      BY <2>4, Zones, NewestIs DEF Superseded, Source, Other
    <3>. QED BY <2>1, <2>2, <3>1
  <2>5. CASE ~Superseded(g, c) /\ Landed(g, c)
    <3>1. Older(Source(g, c), Other(g, c)) /\ Other(g, c) # NONE
      BY <2>3, <2>5 DEF Known, Landed, Older
    <3>2. Newest(g) = Other(g, c)
      BY <3>1, Zones, NewestIs DEF Source, Other
    <3>3. Other(g, c) = Encoded(c)
      BY <1>3, <3>1 DEF RecordChange
    <3>. QED BY <2>1, <2>2, <3>2, <3>3
  <2>. QED BY <2>3, <2>4, <2>5
<1>. QED BY <1>1, <1>2, <1>3 DEF Change

(* The steps that change neither copy nor the record the core goes by.     *)
Moved(d) ==
  /\ UNCHANGED flash /\ core.state \notin ReadingStates /\ d.state \notin ReadingStates
  /\ SameRecord(core, d)
  /\ core.state \in CommitStates /\ d.state \in CommitStates => Encoded(d) = Encoded(core)
(* The steps of the scan for the newest record.                            *)
Scanned(d) ==
  /\ UNCHANGED flash /\ core.state \in ReadingStates
  /\ d.state \in ReadingStates \/ Source(flash, d) = Found

LEMMA CoreMoves ==
    ASSUME NEW c \in CoreType, NEW s \in RecordStates, NEW n \in EnteredStates
    PROVE  /\ SameRecord(c, Resident(c)) /\ Resident(c).state = "WAIT_UPGRADE"
           /\ SameRecord(c, CommitStart(c, s, n)) /\ CommitStart(c, s, n).state = "METADATA_ERASE"
  BY DEF CoreType, SameRecord, Resident, CommitStart

LEMMA SessionMoves ==
    ASSUME NEW c \in CoreType, NEW p \in Packages, NEW mode \in {"DIRECT", "STAGED"}
    PROVE  LET d == Begun(c, p, mode)
           IN  /\ SameRecord(c, d) /\ d.state = "METADATA_ERASE"
               /\ d.metadata_next_state = "DOWNLOAD_ERASE"
               /\ d.metadata_state = DownloadState(mode)
               /\ d.metadata_retry_count = 0 /\ d.session_active /\ d.running_crc = << >>
<1>. DEFINE b == Session(c, p, mode)
<1>1. Begun(c, p, mode) = [b EXCEPT !.metadata_state = DownloadState(mode),
        !.metadata_next_state = "DOWNLOAD_ERASE", !.state = "METADATA_ERASE"]
  BY DEF Begun, CommitStart
<1>2. /\ DOMAIN b = DOMAIN c
      /\ {"state", "metadata_state", "metadata_next_state"} \subseteq DOMAIN c
      /\ SameRecord(c, b)
      /\ b.metadata_retry_count = 0 /\ b.session_active /\ b.running_crc = << >>
  BY DEF Session, SameRecord, CoreType
<1>. HIDE DEF b
<1>. QED BY <1>1, <1>2 DEF SameRecord

LEMMA ScanEnds ==
    ASSUME IInv, core.state = "META_B_WAIT", NEW d, SameRecord(Loaded, d)
    PROVE  Source(flash, d) = Found
<1>1. Loaded \in CoreType /\ Superseded(flash, Loaded)
  BY LoadedFacts
<1>2. Newest(flash) = Source(flash, Loaded)
  BY <1>1, Given, Zones, NewestIs DEF Superseded, Source, Other
<1>. QED BY <1>2, SameRecordFacts DEF Found

LEMMA ScanSteps ==
    ASSUME IInv, MetaARead \/ EvaluateInstall \/ EvaluateInterrupted \/ EvaluateBoot
    PROVE  Scanned(core')
<1>1. CASE MetaARead
  <2>1. core'.state = "META_B_READ"
    BY <1>1, Given DEF MetaARead, CoreType
  <2>. QED BY <1>1, <2>1 DEF MetaARead, Finished, Keep, Scanned, ReadingStates
<1>2. CASE EvaluateInstall \/ EvaluateInterrupted \/ EvaluateBoot
  <2>1. core.state = "META_B_WAIT" /\ UNCHANGED flash
    BY <1>2 DEF EvaluateInstall, EvaluateInterrupted, EvaluateBoot, Finished, Keep
  <2>2. Loaded \in CoreType
    BY <2>1, LoadedFacts
  <2>3. SameRecord(Loaded, core')
    <3>1. "VALID" \in RecordStates /\ "COPY_ERASE" \in EnteredStates /\ "COPYING" \in RecordStates
      BY DEF RecordStates, EnteredStates
    <3>2. SameRecord(Loaded, Resident(Loaded))
      BY <2>2, <3>1, CoreMoves
    <3>3. SameRecord(Loaded, Recovered(Loaded))
      BY <2>2 DEF Recovered, CommitStart, SameRecord, CoreType
    <3>4. SameRecord(Loaded, [Loaded EXCEPT !.state = "WAIT_UPGRADE"])
          /\ SameRecord(Loaded, [Loaded EXCEPT !.state = "STARTUP_READ"])
      BY <2>2 DEF SameRecord, CoreType
    <3>5. Requested => SameRecord(Loaded, Begun(Loaded, request.info, DefaultMode))
      <4>. SUFFICES ASSUME Requested
                    PROVE  SameRecord(Loaded, Begun(Loaded, request.info, DefaultMode))
        OBVIOUS
      <4>1. request.info \in Packages
        BY Given DEF Requested, RequestType
      <4>. QED BY <2>2, <4>1, Constants, SessionMoves
    <3>. QED BY <1>2, <3>2, <3>3, <3>4, <3>5 DEF EvaluateInstall, EvaluateInterrupted, EvaluateBoot
  <2>. QED BY <2>1, <2>3, ScanEnds DEF Scanned, ReadingStates
<1>. QED BY <1>1, <1>2

LEMMA RefusalMoves ==
    ASSUME IInv, OperationFailed \/ SubmitRefused \/ HostDataRefused
    PROVE  Moved(core')
<1>1. core' = Resident(core) /\ UNCHANGED flash
  BY DEF OperationFailed, SubmitRefused, HostDataRefused, Keep
<1>2. core.state \notin ReadingStates
  BY Waiting, WaitStatesAre DEF OperationFailed, SubmitRefused, HostDataRefused, InSession,
     ReadingStates, Submission, Operation, IInv, Sound, MetadataReadable
<1>3. "VALID" \in RecordStates /\ "COPY_ERASE" \in EnteredStates
  BY DEF RecordStates, EnteredStates
<1>4. SameRecord(core, core') /\ core'.state = "WAIT_UPGRADE"
  BY <1>1, <1>3, Given, CoreMoves
<1>. QED BY <1>1, <1>2, <1>4 DEF Moved, ReadingStates, CommitStates

LEMMA SubmitMoves ==
    ASSUME IInv, Submit
    PROVE  Moved(core') \/ Scanned(core')
<1>. DEFINE s == WaitState[core.state]
<1>1. core.state \in DOMAIN WaitState /\ core' = [core EXCEPT !.state = s] /\ UNCHANGED flash
  BY DEF Submit
<1>2. s \in States
  BY <1>1, StatesAre DEF WaitStates
<1>3. /\ core'.state = s /\ SameRecord(core, core') /\ SameData(core, core')
      /\ core'.metadata_state = core.metadata_state
      /\ core'.metadata_retry_count = core.metadata_retry_count
  BY <1>1, <1>2, Given, WaitAdvances
<1>4. Encoded(core') = Encoded(core)
  BY <1>3 DEF Encoded, SameData, SameRecord
<1>5. core.state \in ReadingStates <=> core'.state \in ReadingStates
  BY <1>1, <1>3, Waiting DEF ReadingStates
<1>. QED BY <1>1, <1>3, <1>4, <1>5 DEF Moved, Scanned

(* In all other steps the core stays with the record it goes by.           *)
Others ==
  \/ StartupChecked \/ DownloadErased \/ PacketWritten \/ CopyErased \/ CopyRead \/ CopyWritten
  \/ CopyVerified \/ TargetRead \/ FinalChecked \/ MetadataErased \/ Jump \/ JumpFailed
  \/ (\E p \in Packages, mode \in Modes : HostBegin(p, mode))
  \/ (\E offset \in Offsets, data \in Packages : HostData(offset, data))
  \/ (\E p \in Packages : HostEnd(Whole(p)))

LEMMA OthersMove ==
    ASSUME IInv, Others
    PROVE  Moved(core')
<1>. DEFINE goal == /\ UNCHANGED flash /\ core.state \notin ReadingStates
                    /\ core'.state \notin ReadingStates /\ SameRecord(core, core')
                    /\ core.state \notin CommitStates
<1>0. core \in CoreType
  BY Given
<1>1. CASE StartupChecked
  <2>1. goal
    BY <1>0, <1>1 DEF StartupChecked, Finished, Keep, Resident, CoreType, SameRecord, ReadingStates,
       CommitStates
  <2>. QED BY <2>1 DEF Moved
<1>2. CASE DownloadErased
  <2>1. goal
    BY <1>0, <1>2 DEF DownloadErased, Finished, Keep, CommitStart, CoreType, SameRecord,
       ReadingStates, CommitStates
  <2>. QED BY <2>1 DEF Moved
<1>3. CASE PacketWritten
  <2>1. goal
    BY <1>0, <1>3 DEF PacketWritten, Finished, Keep, CoreType, SameRecord, ReadingStates, CommitStates
  <2>. QED BY <2>1 DEF Moved
<1>4. CASE CopyErased \/ CopyRead \/ CopyWritten
  <2>1. goal
    BY <1>0, <1>4 DEF CopyErased, CopyRead, CopyWritten, Finished, Keep, CoreType, SameRecord,
       ReadingStates, CommitStates
  <2>. QED BY <2>1 DEF Moved
<1>5. CASE CopyVerified
  <2>1. core.state = "COPY_VERIFY_READ_WAIT" /\ UNCHANGED flash
    BY <1>5 DEF CopyVerified, Finished, Keep
  <2>2. goal
    BY <1>0, <1>5, <2>1 DEF CopyVerified, Copied, Resident, CommitStart, CoreType, SameRecord,
       ReadingStates, CommitStates
  <2>. QED BY <2>2 DEF Moved
<1>6. CASE TargetRead
  <2>. DEFINE next == [core EXCEPT !.verify_crc = Append(core.verify_crc,
                                             flash.IAP[Len(core.verify_crc) + 1])]
  <2>1. core.state = "VERIFY_READ_WAIT" /\ UNCHANGED flash
        /\ core' \in {[next EXCEPT !.state = "VERIFY_READ"], [next EXCEPT !.state = "FINAL_READ"],
                      Resident(next)}
    BY <1>6 DEF TargetRead, Finished, Keep
  <2>2. goal
    BY <1>0, <2>1 DEF Resident, CoreType, SameRecord, ReadingStates, CommitStates
  <2>. QED BY <2>2 DEF Moved
<1>7. CASE FinalChecked
  <2>1. goal
    BY <1>0, <1>7 DEF FinalChecked, Finished, Keep, Resident, CommitStart, CoreType, SameRecord,
       ReadingStates, CommitStates
  <2>. QED BY <2>1 DEF Moved
<1>8. CASE MetadataErased
  <2>1. core.state = "METADATA_ERASE_WAIT" /\ core' = [core EXCEPT !.state = "METADATA_WRITE"]
        /\ UNCHANGED flash
    BY <1>8 DEF MetadataErased, Finished, Keep
  <2>2. /\ core'.state = "METADATA_WRITE" /\ SameRecord(core, core') /\ SameData(core, core')
        /\ core'.metadata_state = core.metadata_state
        /\ core'.metadata_retry_count = core.metadata_retry_count
    BY <1>0, <2>1 DEF CoreType, SameRecord, SameData
  <2>3. Encoded(core') = Encoded(core)
    BY <2>2 DEF Encoded, SameData, SameRecord
  <2>. QED BY <2>1, <2>2, <2>3 DEF Moved, ReadingStates
<1>9. CASE Jump \/ JumpFailed
  <2>1. CASE Jump
    <3>1. goal
      BY <1>0, <2>1 DEF Jump, CoreType, SameRecord, ReadingStates, CommitStates
    <3>. QED BY <3>1 DEF Moved
  <2>2. CASE JumpFailed
    <3>1. goal
      BY <1>0, <2>2 DEF JumpFailed, Resident, CoreType, SameRecord, ReadingStates, CommitStates
    <3>. QED BY <3>1 DEF Moved
  <2>. QED BY <1>9, <2>1, <2>2
<1>10. ASSUME NEW p \in Packages, NEW mode \in Modes, HostBegin(p, mode)
       PROVE  Moved(core')
  <2>1. core.state = "WAIT_UPGRADE" /\ core' = Begun(core, p, mode) /\ UNCHANGED flash
    BY <1>10 DEF HostBegin
  <2>2. mode \in {"DIRECT", "STAGED"}
    BY Constants
  <2>3. SameRecord(core, core') /\ core'.state = "METADATA_ERASE"
    BY <1>0, <2>1, <2>2, SessionMoves
  <2>. QED BY <2>1, <2>3 DEF Moved, ReadingStates, CommitStates
<1>11. ASSUME NEW offset \in Offsets, NEW data \in Packages, HostData(offset, data)
       PROVE  Moved(core')
  <2>1. goal
    BY <1>0, <1>11 DEF HostData, InSession, CoreType, SameRecord, ReadingStates, CommitStates
  <2>. QED BY <2>1 DEF Moved
<1>12. ASSUME NEW p \in Packages, HostEnd(Whole(p))
       PROVE  Moved(core')
  <2>1. goal
    BY <1>0, <1>12 DEF HostEnd, InSession, Keep, Resident, CommitStart, CoreType, SameRecord,
       ReadingStates, CommitStates
  <2>. QED BY <2>1 DEF Moved
<1>. QED BY <1>1, <1>2, <1>3, <1>4, <1>5, <1>6, <1>7, <1>8, <1>9, <1>10, <1>11, <1>12 DEF Others

LEMMA CommitFacts ==
    ASSUME IInv, core.state \in CommitStates
    PROVE  /\ core.state \notin ReadingStates
           /\ Encoded(core) \in RecordType /\ Fields(Encoded(core)) \in ContentType
           /\ Fields(Encoded(core)) # NONE
<1>1. Proposed(core, flash.IAP)
  BY Given DEF Agree
<1>2. Encoded(core) \in RecordType
  BY <1>1, Given, ProposalFacts DEF Proposed
<1>. QED BY <1>2, FieldsFacts DEF CommitStates, ReadingStates

LEMMA RegisterStep == IInv /\ IInv' /\ [Next]_vars => Register!Step
<1>. SUFFICES ASSUME IInv, IInv', [Next]_vars
              PROVE  Register!Step
  OBVIOUS
<1>. DEFINE A == Fields(IF Reading THEN Found ELSE flash[core.metadata_source_zone])
            V == Fields(Found)
            P == IF Committing THEN Fields(Encoded(core)) ELSE NONE
<1>1. /\ A = Fields(GoneBy(flash, core)) /\ V = Fields(Newest(flash))
      /\ P = IF core.state \in CommitStates THEN Fields(Encoded(core)) ELSE NONE
  BY RegisterIs
<1>2. /\ A' = Fields(GoneBy(flash', core')) /\ V' = Fields(Newest(flash'))
      /\ P' = IF core'.state \in CommitStates THEN Fields(Encoded(core')) ELSE NONE
  <2>1. /\ Reading' <=> core'.state \in ReadingStates
        /\ Committing' <=> core'.state \in CommitStates
        /\ (IF Reading' THEN Found' ELSE flash'[core'.metadata_source_zone]) = GoneBy(flash', core')
        /\ Found' = Newest(flash')
    BY DEF Reading, Committing, ReadingStates, CommitStates, GoneBy, Source, Found
  <2>. QED BY <2>1
<1>3. /\ core.state \in CommitStates => core.state \notin ReadingStates /\ P \in ContentType /\ P # NONE
      /\ core.state \notin CommitStates => P = NONE
  BY <1>1, CommitFacts
<1>4. core'.state \in CommitStates => core'.state \notin ReadingStates /\ P' \in ContentType
  <2>. SUFFICES ASSUME core'.state \in CommitStates
                PROVE  core'.state \notin ReadingStates /\ P' \in ContentType
    OBVIOUS
  <2>1. /\ core' \in CoreType /\ Proposed(core', flash'.IAP)
    BY DEF IInv, Typed, Sound, Agree
  <2>2. Encoded(core') \in RecordType
    BY <2>1, ProposalFacts DEF Proposed
  <2>. QED BY <1>2, <2>2, FieldsFacts DEF CommitStates, ReadingStates
<1>. SUFFICES \/ UNCHANGED <<A, V, P>>
              \/ P # NONE /\ V' \in {P, A} /\ UNCHANGED <<A, P>>
              \/ P # NONE /\ V = P /\ A' = P /\ P' = NONE /\ UNCHANGED V
              \/ P # NONE /\ P' = NONE /\ UNCHANGED <<A, V>>
              \/ (V' = V \/ (P # NONE /\ V' \in {P, A})) /\ A' = V' /\ P' = NONE
              \/ \E r \in ContentType : P = NONE /\ P' = r /\ UNCHANGED <<A, V>>
  BY DEF Register!Step, Register!Next, Register!Settle, Register!Acknowledge, Register!Fail,
         Register!Restart, Register!Propose
<1>. HIDE DEF A, V, P
<1>5. CASE Flash
  <2>1. PICK z : op # NONE /\ Outcome(op, z) /\ flash' = [flash EXCEPT ![op.zone] = z]
    BY <1>5 DEF Flash, FlashDone, FlashFailed, FlashSpoiled, Outcome, Partial
  <2>2. core' = core
    BY <1>5 DEF Flash, FlashDone, FlashFailed, FlashSpoiled
  <2>3. flash' \in FlashType /\ Change(flash, flash', core) /\ Compliant(flash)
    BY <2>1, FlashWrites DEF IInv, Sound
  <2>4. /\ Source(flash', core) = Source(flash, core)
        /\ \/ Newest(flash') = Newest(flash)
           \/ core.state \in CommitStates /\ core.state \notin ReadingStates
              /\ Newest(flash') \in {Encoded(core), Source(flash, core)}
    BY <2>3, Given, Lands
  <2>5. P' = P
    BY <1>1, <1>2, <2>2
  <2>6. CASE Newest(flash') = Newest(flash)
    BY <1>1, <1>2, <2>2, <2>4, <2>5, <2>6 DEF GoneBy
  <2>7. CASE core.state \in CommitStates /\ core.state \notin ReadingStates
             /\ Newest(flash') \in {Encoded(core), Source(flash, core)}
    BY <1>1, <1>2, <1>3, <2>2, <2>4, <2>5, <2>7 DEF GoneBy
  <2>. QED BY <2>4, <2>6, <2>7
<1>6. CASE Reset \/ \E info \in Packages \cup {NONE} : IapUpdate(info)
  <2>1. core' = Booted /\ core'.state \in ReadingStates
    BY <1>6, BootedFacts DEF Reset, IapUpdate, ReadingStates
  <2>2. flash' = flash \/ (flash' \in FlashType /\ Change(flash, flash', core))
    <3>1. CASE op # NONE /\ Reset
      <4>1. PICK z \in Partial(op) : flash' = [flash EXCEPT ![op.zone] = z]
        BY <3>1 DEF Reset
      <4>. QED BY <3>1, <4>1, FlashWrites DEF Outcome
    <3>. QED BY <1>6, <3>1 DEF Reset, IapUpdate
  <2>3. \/ Newest(flash') = Newest(flash)
        \/ core.state \in CommitStates /\ core.state \notin ReadingStates
           /\ Newest(flash') \in {Encoded(core), Source(flash, core)}
    BY <2>2, Given, Lands DEF IInv, Sound
  <2>4. A' = V' /\ P' = NONE
    BY <1>2, <1>4, <2>1 DEF GoneBy
  <2>5. V' = V \/ (P # NONE /\ V' \in {P, A})
    BY <1>1, <1>2, <1>3, <2>3 DEF GoneBy
  <2>. QED BY <2>4, <2>5
<1>7. CASE MetadataWritten
  <2>1. /\ core.state = "METADATA_WRITE_WAIT" /\ op = NONE /\ result /\ UNCHANGED flash
        /\ core' = [core EXCEPT !.metadata_sequence = (@ + 1) % SequenceMod,
                      !.metadata_source_zone = Target(core), !.state = core.metadata_next_state]
    BY <1>7 DEF MetadataWritten, Finished, Keep
  <2>2. Other(flash, core) = Encoded(core)
    BY <2>1 DEF IInv, Sound, Written
  <2>3. core.state \in CommitStates /\ core.state \notin ReadingStates
    BY <2>1 DEF CommitStates, ReadingStates
  <2>4. Known(flash, core) /\ Proposed(core, flash.IAP)
    BY <2>3, Given DEF Agree
  <2>5. Encoded(core) # NONE /\ Encoded(core).sequence = Successor(core.metadata_sequence)
        /\ core.metadata_next_state \in EnteredStates
    BY <2>4, Given, ProposalFacts DEF Proposed
  <2>6. Older(Source(flash, core), Other(flash, core))
    BY <2>2, <2>4, <2>5 DEF Known, Older
  <2>7. Newest(flash) = Other(flash, core)
    BY <2>6, Given, Zones, NewestIs DEF Source, Other
  <2>8. core'.state = core.metadata_next_state /\ core'.metadata_source_zone = Target(core)
    BY <2>1, Given DEF CoreType
  <2>9. core'.state \notin CommitStates /\ core'.state \notin ReadingStates
    BY <2>5, <2>8 DEF EnteredStates, CommitStates, ReadingStates
  <2>10. GoneBy(flash', core') = Encoded(core)
    BY <2>1, <2>2, <2>8, <2>9 DEF GoneBy, Source, Other
  <2>11. V = P /\ A' = P /\ P' = NONE /\ V' = V /\ P # NONE
    BY <1>1, <1>2, <1>3, <2>1, <2>2, <2>3, <2>7, <2>9, <2>10
  <2>. QED BY <2>11
<1>8. CASE Scanned(core')
  <2>1. core'.state \in ReadingStates \/ Source(flash, core') = Newest(flash)
    BY <1>8 DEF Scanned, Found
  <2>2. UNCHANGED flash /\ core.state \in ReadingStates /\ core.state \notin CommitStates
    BY <1>8 DEF Scanned, ReadingStates, CommitStates
  <2>3. A' = A /\ V' = V /\ P = NONE
    BY <1>1, <1>2, <1>3, <2>1, <2>2 DEF GoneBy
  <2>4. P' = NONE \/ P' \in ContentType
    BY <1>2, <1>4
  <2>. QED BY <2>3, <2>4
<1>9. CASE Moved(core')
  <2>1. /\ UNCHANGED flash /\ core.state \notin ReadingStates /\ core'.state \notin ReadingStates
        /\ Source(flash, core') = Source(flash, core)
    BY <1>9, SameRecordFacts DEF Moved
  <2>2. A' = A /\ V' = V
    BY <1>1, <1>2, <2>1 DEF GoneBy
  <2>3. core.state \in CommitStates /\ core'.state \in CommitStates => P' = P
    BY <1>1, <1>2, <1>9 DEF Moved
  <2>4. P' = NONE \/ (core'.state \in CommitStates /\ P' \in ContentType)
    BY <1>2, <1>4
  <2>. QED BY <1>3, <2>2, <2>3, <2>4
<1>10. CASE UNCHANGED vars
  BY <1>1, <1>2, <1>10 DEF vars
<1>11. CASE Next
  BY <1>5, <1>6, <1>7, <1>8, <1>9, <1>11, ScanSteps, RefusalMoves, SubmitMoves, OthersMove
     DEF Next, Process, Host, Others
<1>. QED BY <1>10, <1>11

LEMMA RegisterStart == Init => Register!Init
<1>. SUFFICES ASSUME Init PROVE Register!Init
  OBVIOUS
<1>1. flash.META_A = NONE /\ flash.META_B = NONE /\ core.state \in ReadingStates
  BY BootedFacts DEF Init, ReadingStates
<1>2. Found = NONE
  BY <1>1 DEF Found, Newest, Selected
<1>3. Reading /\ ~Committing
  BY <1>1 DEF Reading, Committing, ReadingStates
<1>. QED BY <1>2, <1>3 DEF Register!Init, Fields

\* bootloader_metadata.c with metadata_commit_start and its states: whatever
\* flash operation fails and wherever power is lost, the two copies behave as
\* one record that is written at once.
THEOREM Atomicity == MetadataReadable /\ Spec => CommitsAreAtomic
  BY RegisterStart, RegisterStep, Invariance, PTL DEF Spec, CommitsAreAtomic, Register!Spec, Register!Step

----------------------------------------------------------------------------

(* An install is given up in time.                                         *)

(* The erases the record r stands for: one for each attempt it counts.     *)
Charged(r, n) == Unfinished(r) => n <= r.retry_count + 1

(* What the state s knows of the count when r is the newest record.        *)
Affords(s, r, c, n) ==
  /\ s \in DownloadStates => n = 0 /\ c.metadata_retry_count = 0
  /\ s = "COPY_ERASE" => n <= r.retry_count
  /\ s \in CopyStates => r.retry_count = c.metadata_retry_count

Budget(f, c, n) ==
  /\ n \in 0 .. MaxRetries + 1
  /\ Charged(Newest(f), n)
  /\ c.state \notin ReadingStates => Charged(Source(f, c), n)
  /\ c.state \in CommitStates =>
       Charged(Encoded(c), n) /\ Affords(c.metadata_next_state, Encoded(c), c, n)
  /\ Clean(c) => Affords(c.state, Source(f, c), c, n)

LEMMA EncodedFacts ==
    ASSUME NEW f, NEW c \in CoreType, Agree(f, c), c.state \in CommitStates
    PROVE  /\ Encoded(c) \in RecordType /\ Encoded(c) # NONE
           /\ Encoded(c).state = c.metadata_state
           /\ Encoded(c).retry_count = c.metadata_retry_count
<1>1. c.upgrade_info \in Packages
  BY DEF Agree, Proposed
<1>. QED BY <1>1, ProposalFacts

LEMMA FreeOfCharge ==
    ASSUME NEW r, r = NONE \/ r \in RecordType
    PROVE  Charged(r, 0)
<1>1. r # NONE => r.retry_count \in 0 .. MaxRetries
  BY DEF RecordType
<1>. QED BY <1>1, Constants DEF Charged, Unfinished

LEMMA Spends ==
    ASSUME IInv, IInv', Budget(flash, core, copies), Moved(core'), copies' = copies,
           core'.state \in CommitStates =>
             Charged(Encoded(core'), copies)
             /\ Affords(core'.metadata_next_state, Encoded(core'), core', copies),
           Clean(core') => Affords(core'.state, Source(flash, core), core', copies)
    PROVE  Budget(flash', core', copies')
<1>1. Source(flash, core') = Source(flash, core) /\ UNCHANGED flash /\ core.state \notin ReadingStates
  BY SameRecordFacts DEF Moved
<1>. QED BY <1>1 DEF Budget

(* Most states know nothing of the count.                                  *)
LEMMA Indifferent ==
    ASSUME IInv, IInv', Budget(flash, core, copies), Moved(core'), copies' = copies,
           core'.state \notin CommitStates \cup DownloadStates \cup CopyStates
    PROVE  Budget(flash', core', copies')
<1>1. Affords(core'.state, Source(flash, core), core', copies)
  BY DEF Affords, CopyStates, EraseCopyStates
<1>. QED BY <1>1, Spends

LEMMA BegunBudget ==
    ASSUME IInv, IInv', NEW c \in CoreType, NEW p \in Packages, NEW mode \in {"DIRECT", "STAGED"},
           core' = Begun(c, p, mode), UNCHANGED flash
    PROVE  core'.session_active /\ Budget(flash', core', 0)
<1>1. /\ core'.state = "METADATA_ERASE" /\ core'.metadata_next_state = "DOWNLOAD_ERASE"
      /\ core'.metadata_state = DownloadState(mode) /\ core'.metadata_retry_count = 0
      /\ core'.session_active
  BY SessionMoves
<1>2. core'.state \in CommitStates /\ ~Clean(core')
  BY <1>1 DEF CommitStates, Clean
<1>3. Encoded(core') \in RecordType /\ Encoded(core').state = DownloadState(mode)
  BY <1>1, <1>2, EncodedFacts DEF IInv, Typed, Sound
<1>4. Charged(Encoded(core'), 0)
  BY <1>3, FreeOfCharge
<1>5. Affords("DOWNLOAD_ERASE", Encoded(core'), core', 0)
  BY <1>1 DEF Affords, CopyStates, EraseCopyStates, ChunkStates
<1>6. Charged(Newest(flash), 0) /\ Charged(Source(flash, core'), 0)
  <2>1. core' \in CoreType /\ Adjacent(flash)
    BY Given, FoundFacts DEF IInv, Typed
  <2>. QED BY <2>1, Given, Zones, SelectedFacts, RecordsInFlash, FreeOfCharge DEF Source
<1>7. 0 \in 0 .. MaxRetries + 1
  BY Constants
<1>. QED BY <1>1, <1>2, <1>4, <1>5, <1>6, <1>7 DEF Budget

LEMMA ScanBudget ==
    ASSUME IInv, IInv', Budget(flash, core, copies),
           MetaARead \/ EvaluateInstall \/ EvaluateInterrupted \/ EvaluateBoot
    PROVE  Budget(flash', core', copies')
<1>1. Scanned(core')
  BY ScanSteps
<1>2. UNCHANGED flash /\ core.state \in ReadingStates
  BY <1>1 DEF Scanned
<1>3. copies \in 0 .. MaxRetries + 1 /\ Charged(Found, copies)
  BY DEF Budget, Found
<1>4. Found = NONE \/ Found \in RecordType
  <2>1. Adjacent(flash)
    BY <1>2, Given DEF Agree
  <2>. QED BY <2>1, Given, SelectedFacts, RecordsInFlash DEF Found
<1>5. 0 \in 0 .. MaxRetries + 1 /\ Charged(Found, 0)
  BY <1>4, FreeOfCharge, Constants
<1>6. CASE MetaARead
  <2>1. core' = [core EXCEPT !.state = "META_B_READ"] /\ copies' = copies
    BY <1>6 DEF MetaARead, Keep
  <2>2. core'.state = "META_B_READ"
    BY <2>1, Given DEF CoreType
  <2>. QED BY <1>2, <1>3, <2>1, <2>2 DEF Budget, Found, Clean, ReadingStates, CommitStates
<1>7. ASSUME core'.state \in {"WAIT_UPGRADE", "STARTUP_READ"}, copies' \in {0, copies}
      PROVE  Budget(flash', core', copies')
  <2>1. Source(flash, core') = Found /\ core'.state \notin ReadingStates \cup CommitStates
    BY <1>1, <1>7 DEF Scanned, ReadingStates, CommitStates
  <2>2. Affords(core'.state, Found, core', copies')
    BY <1>7 DEF Affords, DownloadStates, CopyStates, EraseCopyStates, ChunkStates
  <2>. QED BY <1>2, <1>3, <1>5, <1>7, <2>1, <2>2 DEF Budget, Found
<1>8. ASSUME core.state = "META_B_WAIT", core' = Resident(Loaded), copies' \in {0, copies}
      PROVE  Budget(flash', core', copies')
  <2>1. Loaded \in CoreType
    BY <1>8, LoadedFacts
  <2>2. core'.state = "WAIT_UPGRADE"
    BY <1>8, <2>1 DEF Resident, CoreType
  <2>. QED BY <1>7, <1>8, <2>2
<1>9. CASE EvaluateInterrupted
  BY <1>8, <1>9 DEF EvaluateInterrupted, Finished, Keep
<1>10. CASE EvaluateInstall
  <2>1. core.state = "META_B_WAIT" /\ Unfinished(Found) /\ copies' = copies
    BY <1>10 DEF EvaluateInstall, Finished, Keep
  <2>2. CASE Exhausted(Found)
    BY <1>8, <1>10, <2>1, <2>2 DEF EvaluateInstall
  <2>3. CASE ~Exhausted(Found)
    <3>1. Loaded \in CoreType /\ Found # NONE /\ Loaded.metadata_retry_count = Found.retry_count
      BY <2>1, LoadedFacts DEF Unfinished
    <3>2. core' = Recovered(Loaded)
      BY <1>10, <2>3 DEF EvaluateInstall
    <3>3. /\ core'.state = "METADATA_ERASE" /\ core'.metadata_state = "COPYING"
          /\ core'.metadata_next_state = "COPY_ERASE"
          /\ core'.metadata_retry_count = Found.retry_count + 1
      BY <3>1, <3>2 DEF Recovered, CommitStart, CoreType
    <3>4. core'.state \in CommitStates /\ core'.state \notin ReadingStates
      BY <3>3 DEF CommitStates, ReadingStates
    <3>5. Encoded(core').retry_count = Found.retry_count + 1
      BY <3>3, <3>4, EncodedFacts DEF IInv, Typed, Sound
    <3>6. Found.retry_count \in 0 .. MaxRetries
      BY <1>4, <3>1 DEF RecordType
    <3>7. copies <= Found.retry_count + 1
      BY <1>3, <2>1 DEF Charged
    <3>8. Charged(Encoded(core'), copies)
      BY <1>3, <3>5, <3>6, <3>7 DEF Charged
    <3>9. Affords("COPY_ERASE", Encoded(core'), core', copies)
      BY <3>3, <3>5, <3>7 DEF Affords, DownloadStates
    <3>10. Source(flash, core') = Found
      BY <1>1, <3>4 DEF Scanned
    <3>. QED BY <1>2, <1>3, <2>1, <3>3, <3>4, <3>8, <3>9, <3>10 DEF Budget, Found, Clean
  <2>. QED BY <2>2, <2>3
<1>11. CASE EvaluateBoot
  <2>1. core.state = "META_B_WAIT" /\ copies' \in {0, copies}
        /\ (core'.session_active => copies' = 0)
    BY <1>11 DEF EvaluateBoot, Finished
  <2>2. Loaded \in CoreType
    BY <2>1, LoadedFacts
  <2>3. CASE Requested /\ core' = Begun(Loaded, request.info, DefaultMode)
    <3>1. request.info \in Packages
      BY <2>3, Given DEF Requested, RequestType
    <3>2. core'.session_active /\ Budget(flash', core', 0)
      BY <1>2, <2>2, <2>3, <3>1, Constants, BegunBudget
    <3>. QED BY <2>1, <3>2
  <2>4. CASE core' = Resident(Loaded)
    BY <1>8, <2>1, <2>4
  <2>5. CASE core' \in {[Loaded EXCEPT !.state = "WAIT_UPGRADE"],
                        [Loaded EXCEPT !.state = "STARTUP_READ"]}
    <3>1. core'.state \in {"WAIT_UPGRADE", "STARTUP_READ"}
      BY <2>2, <2>5 DEF CoreType
    <3>. QED BY <1>7, <2>1, <3>1
  <2>. QED BY <1>11, <2>3, <2>4, <2>5 DEF EvaluateBoot
<1>. QED BY <1>6, <1>9, <1>10, <1>11

LEMMA SubmitBudget ==
    ASSUME IInv, IInv', Budget(flash, core, copies), Submit
    PROVE  Budget(flash', core', copies')
<1>. DEFINE s == WaitState[core.state]
<1>1. /\ core.state \in DOMAIN WaitState /\ core' = [core EXCEPT !.state = s] /\ UNCHANGED flash
      /\ copies' = IF core.state = "COPY_ERASE" THEN copies + 1 ELSE copies
  BY DEF Submit
<1>2. s \in States
  BY <1>1, StatesAre DEF WaitStates
<1>3. /\ core'.state = s /\ SameRecord(core, core') /\ SameData(core, core')
      /\ core'.metadata_state = core.metadata_state
      /\ core'.metadata_next_state = core.metadata_next_state
      /\ core'.metadata_retry_count = core.metadata_retry_count
  BY <1>1, <1>2, Given, WaitAdvances
<1>4. Encoded(core') = Encoded(core)
  BY <1>3 DEF Encoded, SameData, SameRecord
<1>5. Source(flash, core') = Source(flash, core)
  BY <1>3, SameRecordFacts
<1>6. /\ core.state \in ReadingStates <=> s \in ReadingStates
      /\ core.state \in CommitStates <=> s \in CommitStates
      /\ core.state \in DownloadStates <=> s \in DownloadStates
      /\ core.state \in CopyStates <=> s \in CopyStates
      /\ s # "COPY_ERASE" /\ s # "WAIT_UPGRADE"
  BY <1>1, Waiting DEF ReadingStates, CommitStates, DownloadStates, CopyStates, EraseCopyStates,
     ChunkStates
<1>7. Clean(core') => Clean(core)
  BY <1>1, <1>3, <1>6, Waiting DEF Clean
<1>8. CASE core.state # "COPY_ERASE"
  BY <1>1, <1>3, <1>4, <1>5, <1>6, <1>7, <1>8 DEF Budget, Affords
<1>9. CASE core.state = "COPY_ERASE"
  <2>1. Clean(core) /\ core.state \in CopyStates /\ core.state \notin DownloadStates
    BY <1>9 DEF Clean, ReadingStates, CommitStates, CopyStates, EraseCopyStates, DownloadStates
  <2>2. Newest(flash) = Source(flash, core)
    BY <2>1, Given, FoundFacts
  <2>3. /\ Source(flash, core).retry_count = core.metadata_retry_count
        /\ copies <= Source(flash, core).retry_count /\ copies \in 0 .. MaxRetries + 1
    BY <2>1, <1>9 DEF Budget, Affords
  <2>4. core.metadata_retry_count \in 0 .. MaxRetries
    BY Given DEF CoreType
  <2>5. copies' \in 0 .. MaxRetries + 1 /\ copies' <= Source(flash, core).retry_count + 1
    BY <1>1, <1>9, <2>3, <2>4, Constants
  <2>6. Charged(Source(flash, core), copies')
    BY <2>5 DEF Charged
  <2>7. Affords(s, Source(flash, core), core', copies')
    BY <1>3, <1>6, <2>1, <2>3 DEF Affords
  <2>8. core'.state \notin ReadingStates /\ core'.state \notin CommitStates
    BY <1>3, <1>6, <2>1 DEF Clean
  <2>. QED BY <1>1, <1>3, <1>5, <2>2, <2>5, <2>6, <2>7, <2>8 DEF Budget
<1>. QED BY <1>8, <1>9

LEMMA FlashBudget ==
    ASSUME IInv, Budget(flash, core, copies), UNCHANGED copies,
           flash' = flash \/ (flash' \in FlashType /\ Change(flash, flash', core)),
           core' = core \/ core' = Booted
    PROVE  Budget(flash', core', copies')
<1>1. /\ Source(flash', core) = Source(flash, core)
      /\ \/ Newest(flash') = Newest(flash)
         \/ core.state \in CommitStates /\ core.state \notin ReadingStates
            /\ Newest(flash') \in {Encoded(core), Source(flash, core)}
  BY Given, Lands DEF IInv, Sound
<1>2. Charged(Newest(flash'), copies)
  BY <1>1 DEF Budget
<1>3. CASE core' = core
  BY <1>1, <1>2, <1>3 DEF Budget
<1>4. CASE core' = Booted
  <2>1. core'.state \in ReadingStates /\ core'.state \notin CommitStates /\ ~Clean(core')
    BY <1>4, BootedFacts DEF ReadingStates, CommitStates, Clean
  <2>. QED BY <1>2, <2>1 DEF Budget
<1>. QED BY <1>3, <1>4

LEMMA WrittenBudget ==
    ASSUME IInv, IInv', Budget(flash, core, copies), MetadataWritten
    PROVE  Budget(flash', core', copies')
<1>1. /\ core.state = "METADATA_WRITE_WAIT" /\ op = NONE /\ result /\ UNCHANGED <<flash, copies>>
      /\ core' = [core EXCEPT !.metadata_sequence = (@ + 1) % SequenceMod,
                    !.metadata_source_zone = Target(core), !.state = core.metadata_next_state]
  BY DEF MetadataWritten, Finished, Keep
<1>2. /\ core'.state = core.metadata_next_state /\ core'.metadata_source_zone = Target(core)
      /\ core'.metadata_retry_count = core.metadata_retry_count
  BY <1>1, Given DEF CoreType
<1>3. core.state \in CommitStates
  BY <1>1 DEF CommitStates
<1>4. core.metadata_next_state \in EnteredStates
  BY <1>3, Given DEF Agree, Proposed
<1>5. core'.state \notin CommitStates /\ core'.state \notin ReadingStates /\ Clean(core')
  BY <1>2, <1>4 DEF EnteredStates, CommitStates, ReadingStates, Clean
<1>6. Other(flash, core) = Encoded(core)
  BY <1>1 DEF IInv, Sound, Written
<1>7. Source(flash, core') = Encoded(core)
  BY <1>2, <1>6 DEF Source, Other
<1>8. Affords(core'.state, Encoded(core), core', copies)
  BY <1>2, <1>3 DEF Budget, Affords
<1>. QED BY <1>1, <1>3, <1>5, <1>7, <1>8 DEF Budget

LEMMA OthersBudget ==
    ASSUME IInv, IInv', Budget(flash, core, copies), Others
    PROVE  Budget(flash', core', copies')
<1>. DEFINE r == Source(flash, core)
<1>0. core \in CoreType /\ Moved(core') /\ UNCHANGED flash
  BY Given, OthersMove DEF Moved
<1>1. CASE StartupChecked \/ TargetRead \/ Jump \/ JumpFailed
  <2>1. copies' = copies
    BY <1>1 DEF StartupChecked, TargetRead, Jump, JumpFailed, Keep
  <2>2. core'.state \in {"JUMP_PENDING", "IAP", "WAIT_UPGRADE", "VERIFY_READ", "FINAL_READ"}
    BY <1>0, <1>1 DEF StartupChecked, TargetRead, Jump, JumpFailed, Resident, CoreType
  <2>. QED BY <1>0, <2>1, <2>2, Indifferent DEF CommitStates, DownloadStates, CopyStates,
          EraseCopyStates, ChunkStates
<1>2. CASE DownloadErased
  <2>1. core.state = "DOWNLOAD_ERASE_WAIT" /\ copies' = copies
    BY <1>2 DEF DownloadErased, Finished, Keep
  <2>2. /\ core'.state = "METADATA_ERASE" /\ core'.metadata_next_state = "DOWNLOAD_READY"
        /\ core'.metadata_state = DownloadState(core.mode)
        /\ core'.metadata_retry_count = core.metadata_retry_count
    BY <1>0, <1>2 DEF DownloadErased, CommitStart, CoreType
  <2>3. Clean(core) /\ core.state \in DownloadStates
    BY <2>1 DEF Clean, ReadingStates, CommitStates, DownloadStates
  <2>4. copies = 0 /\ core.metadata_retry_count = 0
    BY <2>3 DEF Budget, Affords
  <2>5. core'.state \in CommitStates /\ ~Clean(core')
    BY <2>2 DEF CommitStates, Clean
  <2>6. Encoded(core') \in RecordType
    BY <2>5, EncodedFacts DEF IInv, Typed, Sound
  <2>7. Charged(Encoded(core'), 0)
    BY <2>6, FreeOfCharge
  <2>8. Affords("DOWNLOAD_READY", Encoded(core'), core', 0)
    BY <2>2, <2>4 DEF Affords, CopyStates, EraseCopyStates, ChunkStates
  <2>. QED BY <1>0, <2>1, <2>2, <2>4, <2>5, <2>7, <2>8, Spends
<1>3. CASE PacketWritten \/ \E offset \in Offsets, data \in Packages : HostData(offset, data)
  <2>1. core.state \in {"PACKET_WRITE_WAIT", "DOWNLOAD_READY"} /\ copies' = copies
    BY <1>3 DEF PacketWritten, HostData, InSession, Finished, Keep
  <2>2. /\ core'.state \in {"PACKET_WRITE_WAIT", "DOWNLOAD_READY"}
        /\ core'.metadata_retry_count = core.metadata_retry_count
    BY <1>0, <1>3 DEF PacketWritten, HostData, CoreType
  <2>3. Clean(core) /\ core.state \in DownloadStates
    BY <2>1 DEF Clean, ReadingStates, CommitStates, DownloadStates
  <2>4. copies = 0 /\ core.metadata_retry_count = 0
    BY <2>3 DEF Budget, Affords
  <2>5. Affords(core'.state, r, core', copies)
    BY <2>2, <2>4 DEF Affords, CopyStates, EraseCopyStates, ChunkStates
  <2>6. core'.state \notin CommitStates
    BY <2>2 DEF CommitStates
  <2>. QED BY <1>0, <2>1, <2>5, <2>6, Spends
<1>4. CASE CopyErased \/ CopyRead \/ CopyWritten
  <2>1. core.state \in {"COPY_ERASE_WAIT", "COPY_READ_WAIT", "COPY_WRITE_WAIT"} /\ copies' = copies
    BY <1>4 DEF CopyErased, CopyRead, CopyWritten, Finished, Keep
  <2>2. /\ core'.state \in {"COPY_READ", "COPY_WRITE", "COPY_VERIFY_READ"}
        /\ core'.metadata_retry_count = core.metadata_retry_count
    BY <1>0, <1>4 DEF CopyErased, CopyRead, CopyWritten, CoreType
  <2>3. Clean(core) /\ core.state \in CopyStates
    BY <2>1 DEF Clean, ReadingStates, CommitStates, CopyStates, EraseCopyStates, ChunkStates
  <2>4. r.retry_count = core.metadata_retry_count
    BY <2>3 DEF Budget, Affords
  <2>5. Affords(core'.state, r, core', copies)
    BY <2>2, <2>4 DEF Affords, DownloadStates
  <2>6. core'.state \notin CommitStates
    BY <2>2 DEF CommitStates
  <2>. QED BY <1>0, <2>1, <2>5, <2>6, Spends
<1>5. CASE CopyVerified
  <2>1. core.state = "COPY_VERIFY_READ_WAIT" /\ copies' = copies
    BY <1>5 DEF CopyVerified, Finished, Keep
  <2>2. \/ core'.state = "WAIT_UPGRADE"
        \/ /\ core'.state = "METADATA_ERASE" /\ core'.metadata_state = "COPYING"
           /\ core'.metadata_next_state \in {"COPY_READ", "VERIFY_READ"}
           /\ core'.metadata_retry_count = core.metadata_retry_count
    BY <1>0, <1>5 DEF CopyVerified, Copied, Resident, CommitStart, CoreType
  <2>3. Clean(core) /\ core.state \in CopyStates /\ core.state \notin ReadingStates
    BY <2>1 DEF Clean, ReadingStates, CommitStates, CopyStates, EraseCopyStates, ChunkStates
  <2>4. r.retry_count = core.metadata_retry_count /\ Charged(r, copies)
    BY <2>3 DEF Budget, Affords
  <2>5. Unfinished(r)
    <3>1. r # NONE /\ r.state \in {"INSTALL_PENDING", "COPYING"}
      BY <2>3, Given DEF Fit
    <3>2. Complying(r)
      BY <1>0, <3>1, Zones DEF IInv, Sound, Compliant, Source
    <3>. QED BY <3>1, <3>2 DEF Unfinished, Complying
  <2>6. CASE core'.state = "WAIT_UPGRADE"
    BY <1>0, <2>1, <2>6, Indifferent DEF CommitStates, DownloadStates, CopyStates,
       EraseCopyStates, ChunkStates
  <2>7. CASE core'.state # "WAIT_UPGRADE"
    <3>1. core'.state \in CommitStates /\ ~Clean(core')
      BY <2>2, <2>7 DEF CommitStates, Clean
    <3>2. Encoded(core').retry_count = r.retry_count
      BY <2>2, <2>4, <2>7, <3>1, EncodedFacts DEF IInv, Typed, Sound
    <3>3. Charged(Encoded(core'), copies)
      BY <2>4, <2>5, <3>2 DEF Charged
    <3>4. Affords(core'.metadata_next_state, Encoded(core'), core', copies)
      BY <2>2, <2>4, <2>7, <3>2 DEF Affords, DownloadStates
    <3>. QED BY <1>0, <2>1, <3>1, <3>3, <3>4, Spends
  <2>. QED BY <2>6, <2>7
<1>6. CASE FinalChecked
  <2>1. copies' = copies
    BY <1>6 DEF FinalChecked, Keep
  <2>2. \/ core'.state = "WAIT_UPGRADE"
        \/ /\ core'.state = "METADATA_ERASE" /\ core'.metadata_state = "VALID"
           /\ core'.metadata_next_state = "JUMP_PENDING"
    BY <1>0, <1>6 DEF FinalChecked, Resident, CommitStart, CoreType
  <2>3. CASE core'.state = "WAIT_UPGRADE"
    BY <1>0, <2>1, <2>3, Indifferent DEF CommitStates, DownloadStates, CopyStates,
       EraseCopyStates, ChunkStates
  <2>4. CASE core'.state # "WAIT_UPGRADE"
    <3>1. core'.state \in CommitStates /\ ~Clean(core')
      BY <2>2, <2>4 DEF CommitStates, Clean
    <3>2. Encoded(core').state = "VALID"
      BY <2>2, <2>4, <3>1, EncodedFacts DEF IInv, Typed, Sound
    <3>3. Charged(Encoded(core'), copies)
      BY <3>2 DEF Charged, Unfinished
    <3>4. Affords("JUMP_PENDING", Encoded(core'), core', copies)
      BY DEF Affords, DownloadStates, CopyStates, EraseCopyStates, ChunkStates
    <3>. QED BY <1>0, <2>1, <2>2, <2>4, <3>1, <3>3, <3>4, Spends
  <2>. QED BY <2>3, <2>4
<1>7. CASE MetadataErased
  <2>1. core.state = "METADATA_ERASE_WAIT" /\ core' = [core EXCEPT !.state = "METADATA_WRITE"]
        /\ copies' = copies
    BY <1>7 DEF MetadataErased, Finished, Keep
  <2>2. /\ core'.state = "METADATA_WRITE"
        /\ core'.metadata_next_state = core.metadata_next_state
        /\ core'.metadata_retry_count = core.metadata_retry_count
    BY <1>0, <2>1 DEF CoreType
  <2>3. core.state \in CommitStates /\ core'.state \in CommitStates /\ ~Clean(core')
    BY <2>1, <2>2 DEF CommitStates, Clean
  <2>4. Encoded(core') = Encoded(core)
    BY <1>0, <2>3 DEF Moved
  <2>5. Charged(Encoded(core'), copies)
        /\ Affords(core'.metadata_next_state, Encoded(core'), core', copies)
    BY <2>2, <2>3, <2>4 DEF Budget, Affords
  <2>. QED BY <1>0, <2>1, <2>3, <2>5, Spends
<1>8. ASSUME NEW p \in Packages, NEW mode \in Modes, HostBegin(p, mode)
      PROVE  Budget(flash', core', copies')
  <2>1. core' = Begun(core, p, mode) /\ copies' = 0
    BY <1>8 DEF HostBegin
  <2>. QED BY <1>0, <2>1, Constants, BegunBudget
<1>9. ASSUME NEW p \in Packages, HostEnd(Whole(p))
      PROVE  Budget(flash', core', copies')
  <2>1. core.state = "DOWNLOAD_READY" /\ copies' = copies
    BY <1>9 DEF HostEnd, InSession, Keep
  <2>2. \/ core'.state \in {"WAIT_UPGRADE", "VERIFY_READ"}
        \/ /\ core'.state = "METADATA_ERASE" /\ core'.metadata_state = "INSTALL_PENDING"
           /\ core'.metadata_next_state = "COPY_ERASE"
           /\ core'.metadata_retry_count = core.metadata_retry_count
    BY <1>0, <1>9 DEF HostEnd, Resident, CommitStart, CoreType
  <2>3. CASE core'.state \in {"WAIT_UPGRADE", "VERIFY_READ"}
    BY <1>0, <2>1, <2>3, Indifferent DEF CommitStates, DownloadStates, CopyStates,
       EraseCopyStates, ChunkStates
  <2>4. CASE core'.state \notin {"WAIT_UPGRADE", "VERIFY_READ"}
    <3>1. core'.state \in CommitStates /\ ~Clean(core')
      BY <2>2, <2>4 DEF CommitStates, Clean
    <3>2. copies = 0 /\ core.metadata_retry_count = 0
      BY <2>1 DEF Budget, Affords, Clean, DownloadStates, ReadingStates, CommitStates
    <3>3. Encoded(core') \in RecordType /\ Encoded(core').retry_count = 0
      BY <2>2, <2>4, <3>1, <3>2, EncodedFacts DEF IInv, Typed, Sound
    <3>4. Charged(Encoded(core'), 0)
      BY <3>3, FreeOfCharge
    <3>5. Affords("COPY_ERASE", Encoded(core'), core', 0)
      BY <2>2, <2>4, <3>2, <3>3 DEF Affords, DownloadStates
    <3>. QED BY <1>0, <2>1, <2>2, <2>4, <3>1, <3>2, <3>4, <3>5, Spends
  <2>. QED BY <2>3, <2>4
<1>. QED BY <1>1, <1>2, <1>3, <1>4, <1>5, <1>6, <1>7, <1>8, <1>9 DEF Others

LEMMA RefusalBudget ==
    ASSUME IInv, IInv', Budget(flash, core, copies),
           OperationFailed \/ SubmitRefused \/ HostDataRefused
    PROVE  Budget(flash', core', copies')
<1>1. core' = Resident(core) /\ copies' = copies
  BY DEF OperationFailed, SubmitRefused, HostDataRefused, Keep
<1>2. core'.state = "WAIT_UPGRADE"
  BY <1>1, Given DEF Resident, CoreType
<1>. QED BY <1>1, <1>2, RefusalMoves, Indifferent DEF CommitStates, DownloadStates, CopyStates,
        EraseCopyStates, ChunkStates

LEMMA BudgetStep ==
    IInv /\ IInv' /\ Budget(flash, core, copies) /\ [Next]_vars => Budget(flash', core', copies')
<1>. SUFFICES ASSUME IInv, IInv', Budget(flash, core, copies), [Next]_vars
              PROVE  Budget(flash', core', copies')
  OBVIOUS
<1>1. CASE Flash
  <2>1. PICK z : op # NONE /\ Outcome(op, z) /\ flash' = [flash EXCEPT ![op.zone] = z]
    BY <1>1 DEF Flash, FlashDone, FlashFailed, FlashSpoiled, Outcome, Partial
  <2>2. core' = core /\ copies' = copies
    BY <1>1 DEF Flash, FlashDone, FlashFailed, FlashSpoiled
  <2>. QED BY <2>1, <2>2, FlashWrites, FlashBudget
<1>2. CASE Reset \/ \E info \in Packages \cup {NONE} : IapUpdate(info)
  <2>1. core' = Booted /\ copies' = copies
    BY <1>2 DEF Reset, IapUpdate
  <2>2. flash' = flash \/ (flash' \in FlashType /\ Change(flash, flash', core))
    <3>1. CASE op # NONE /\ Reset
      <4>1. PICK z \in Partial(op) : flash' = [flash EXCEPT ![op.zone] = z]
        BY <3>1 DEF Reset
      <4>. QED BY <3>1, <4>1, FlashWrites DEF Outcome
    <3>. QED BY <1>2, <3>1 DEF Reset, IapUpdate
  <2>. QED BY <2>1, <2>2, FlashBudget
<1>3. CASE UNCHANGED vars
  BY <1>3 DEF vars
<1>4. CASE Next
  BY <1>1, <1>2, <1>4, ScanBudget, SubmitBudget, RefusalBudget, OthersBudget, WrittenBudget
     DEF Next, Process, Host, Others
<1>. QED BY <1>3, <1>4

LEMMA BudgetStart == Init => Budget(flash, core, copies)
<1>. SUFFICES ASSUME Init PROVE Budget(flash, core, copies)
  OBVIOUS
<1>1. /\ core.state \in ReadingStates /\ core.state \notin CommitStates /\ ~Clean(core)
      /\ copies = 0 /\ flash.META_A = NONE /\ flash.META_B = NONE
  BY BootedFacts DEF Init, ReadingStates, CommitStates, Clean
<1>2. Newest(flash) = NONE
  BY <1>1 DEF Newest, Selected
<1>3. 0 \in 0 .. MaxRetries + 1
  BY Constants
<1>. QED BY <1>1, <1>2, <1>3, FreeOfCharge DEF Budget

\* bootloader_core.c gives an install up that is interrupted again and again:
\* a package costs at most MaxRetries + 1 erases of the application.
THEOREM GivesUpInTime == MetadataReadable /\ Spec => []InstallBounded
<1>1. Init => Budget(flash, core, copies)
  BY BudgetStart
<1>2. Budget(flash, core, copies) => InstallBounded
  BY DEF Budget, InstallBounded
<1>3. IInv /\ IInv' /\ Budget(flash, core, copies) /\ [Next]_vars => Budget(flash, core, copies)'
  BY BudgetStep
<1>. QED BY <1>1, <1>2, <1>3, Invariance, PTL DEF Spec
-----------------------------------------------------------------------------
(* Flash is programmed where it is erased.                                 *)

Vacant(f, zone, n) == \A i \in Offsets : i > n => f[zone][i] = Erased

(* What the state s relies on in the zones it is about to program.         *)
Room(s, f, c) ==
  /\ s \in {"DOWNLOAD_ERASE", "DOWNLOAD_ERASE_WAIT"} => Len(c.running_crc) = 0
  /\ s = "DOWNLOAD_READY" => Vacant(f, DownloadZone(c), Len(c.running_crc))
  /\ s = "PACKET_WRITE_WAIT" => Vacant(f, DownloadZone(c), Len(c.running_crc) + 1)
  /\ s \in {"COPY_READ", "COPY_READ_WAIT", "COPY_WRITE"} => Vacant(f, "IAP", c.copy_offset)
  /\ s \in {"COPY_WRITE_WAIT", "COPY_VERIFY_READ", "COPY_VERIFY_READ_WAIT"} =>
       Vacant(f, "IAP", c.copy_offset + 1)

(* Where the operation in progress programs, and what an erase has left.   *)
Readied(f, c, o, res) ==
  /\ c.state = "DOWNLOAD_ERASE_WAIT" /\ o = NONE /\ res => Vacant(f, DownloadZone(c), 0)
  /\ c.state = "COPY_ERASE_WAIT" /\ o = NONE /\ res => Vacant(f, "IAP", 0)
  /\ c.state = "PACKET_WRITE_WAIT" /\ o # NONE =>
       o.at = Len(c.running_crc) + 1 /\ f[DownloadZone(c)][o.at] = Erased
  /\ c.state = "COPY_WRITE_WAIT" /\ o # NONE =>
       o.at = c.copy_offset + 1 /\ f.IAP[o.at] = Erased

Roomy(f, c, o, res) ==
  /\ c.state \in CommitStates => Room(c.metadata_next_state, f, c)
  /\ Clean(c) => Room(c.state, f, c)
  /\ Readied(f, c, o, res)

(* The states that program nothing.                                        *)
Unconcerned(s) == s \notin DownloadStates \cup ChunkStates \cup {"COPY_ERASE_WAIT"}

LEMMA NoRoomNeeded ==
    ASSUME NEW f, NEW c, NEW o, NEW res, Unconcerned(c.state),
           c.state \in CommitStates => Unconcerned(c.metadata_next_state)
    PROVE  Roomy(f, c, o, res)
<1>1. \A s : Unconcerned(s) => Room(s, f, c)
  BY DEF Unconcerned, Room, DownloadStates, ChunkStates
<1>2. Readied(f, c, o, res)
  BY DEF Unconcerned, Readied, DownloadStates, ChunkStates
<1>. QED BY <1>1, <1>2 DEF Roomy

LEMMA CommitRoom ==
    ASSUME NEW f, NEW c, NEW o, NEW res, c.state \in CommitStates,
           Room(c.metadata_next_state, f, c)
    PROVE  Roomy(f, c, o, res)
<1>1. Readied(f, c, o, res)
  BY DEF CommitStates, Readied
<1>. QED BY <1>1 DEF Roomy, Clean

LEMMA BegunRoom ==
    ASSUME NEW c \in CoreType, NEW p \in Packages, NEW mode \in {"DIRECT", "STAGED"},
           core' = Begun(c, p, mode)
    PROVE  Roomy(flash', core', op', result')
<1>1. /\ core'.state = "METADATA_ERASE" /\ core'.metadata_next_state = "DOWNLOAD_ERASE"
      /\ core'.running_crc = << >>
  BY SessionMoves
<1>2. Room("DOWNLOAD_ERASE", flash', core')
  BY <1>1 DEF Room
<1>. QED BY <1>1, <1>2, CommitRoom DEF CommitStates

LEMMA ResidentRoom ==
    ASSUME NEW c \in CoreType, core' = Resident(c)
    PROVE  Roomy(flash', core', op', result')
<1>1. core'.state = "WAIT_UPGRADE"
  BY DEF Resident, CoreType
<1>. QED BY <1>1, NoRoomNeeded DEF Unconcerned, DownloadStates, ChunkStates, CommitStates

LEMMA ScanRoom ==
    ASSUME IInv, MetaARead \/ EvaluateInstall \/ EvaluateInterrupted \/ EvaluateBoot
    PROVE  Roomy(flash', core', op', result')
<1>1. CASE MetaARead
  <2>1. core'.state = "META_B_READ"
    BY <1>1, Given DEF MetaARead, CoreType
  <2>. QED BY <2>1, NoRoomNeeded DEF Unconcerned, DownloadStates, ChunkStates, CommitStates
<1>2. CASE EvaluateInstall \/ EvaluateInterrupted \/ EvaluateBoot
  <2>1. core.state = "META_B_WAIT"
    BY <1>2 DEF EvaluateInstall, EvaluateInterrupted, EvaluateBoot, Finished
  <2>2. Loaded \in CoreType
    BY <2>1, LoadedFacts
  <2>3. CASE core' = Resident(Loaded)
    BY <2>2, <2>3, ResidentRoom
  <2>4. CASE core' = Recovered(Loaded)
    <3>1. core'.state = "METADATA_ERASE" /\ core'.metadata_next_state = "COPY_ERASE"
      BY <2>2, <2>4 DEF Recovered, CommitStart, CoreType
    <3>. QED BY <3>1, NoRoomNeeded DEF Unconcerned, DownloadStates, ChunkStates
  <2>5. CASE Requested /\ core' = Begun(Loaded, request.info, DefaultMode)
    <3>1. request.info \in Packages
      BY <2>5, Given DEF Requested, RequestType
    <3>. QED BY <2>2, <2>5, <3>1, Constants, BegunRoom
  <2>6. CASE core' \in {[Loaded EXCEPT !.state = "WAIT_UPGRADE"],
                        [Loaded EXCEPT !.state = "STARTUP_READ"]}
    <3>1. core'.state \in {"WAIT_UPGRADE", "STARTUP_READ"}
      BY <2>2, <2>6 DEF CoreType
    <3>. QED BY <3>1, NoRoomNeeded DEF Unconcerned, DownloadStates, ChunkStates, CommitStates
  <2>. QED BY <1>2, <2>3, <2>4, <2>5, <2>6 DEF EvaluateInstall, EvaluateInterrupted, EvaluateBoot
<1>. QED BY <1>1, <1>2

LEMMA SubmitRoom ==
    ASSUME IInv, Roomy(flash, core, op, result), Submit
    PROVE  Roomy(flash', core', op', result')
<1>. DEFINE s == WaitState[core.state]
<1>1. /\ core.state \in DOMAIN WaitState /\ core' = [core EXCEPT !.state = s] /\ UNCHANGED flash
      /\ op' = Submission(core)
  BY DEF Submit
<1>2. s \in States
  BY <1>1, StatesAre DEF WaitStates
<1>3. /\ core'.state = s /\ core'.metadata_next_state = core.metadata_next_state
      /\ core'.running_crc = core.running_crc /\ core'.copy_offset = core.copy_offset
      /\ DownloadZone(core') = DownloadZone(core)
  BY <1>1, <1>2, Given, WaitAdvances DEF SameData, DownloadZone
<1>4. CASE core.state \in CommitStates
  <2>1. s \in CommitStates
    BY <1>1, <1>4, Waiting DEF CommitStates
  <2>2. Room(core.metadata_next_state, flash, core')
    BY <1>3, <1>4 DEF Roomy, Room
  <2>. QED BY <1>1, <1>3, <2>1, <2>2, CommitRoom
<1>5. CASE core.state \in {"META_A_READ", "META_B_READ", "STARTUP_READ", "VERIFY_READ", "FINAL_READ"}
  <2>1. Unconcerned(s) /\ s \notin CommitStates
    BY <1>5, Waiting DEF Unconcerned, DownloadStates, ChunkStates, CommitStates
  <2>. QED BY <1>3, <2>1, NoRoomNeeded
<1>6. CASE core.state \in {"DOWNLOAD_ERASE", "COPY_ERASE", "COPY_READ", "COPY_VERIFY_READ",
                           "COPY_WRITE"}
  <2>1. Clean(core) /\ core.state \notin CommitStates
    BY <1>6 DEF Clean, ReadingStates, CommitStates
  <2>2. Room(core.state, flash, core)
    BY <2>1 DEF Roomy
  <2>3. s \in {"DOWNLOAD_ERASE_WAIT", "COPY_ERASE_WAIT", "COPY_READ_WAIT", "COPY_VERIFY_READ_WAIT",
               "COPY_WRITE_WAIT"} /\ s \notin CommitStates
    BY <1>6, Waiting DEF CommitStates
  <2>4. core.copy_offset \in 0 .. Chunks /\ (core.state = "COPY_WRITE" => core.copy_offset < Chunks)
    BY <2>1, Given DEF CoreType, Fit, ChunkStates
  <2>5. core.copy_offset + 1 > core.copy_offset
        /\ (core.state = "COPY_WRITE" => core.copy_offset + 1 \in Offsets)
    BY <2>4, Constants DEF Offsets
  <2>6. Vacant(flash, "IAP", core.copy_offset) => Vacant(flash, "IAP", core.copy_offset + 1)
    <3>1. \A i \in Offsets : i > core.copy_offset + 1 => i > core.copy_offset
      BY <2>4, Constants DEF Offsets
    <3>. QED BY <3>1 DEF Vacant
  <2>7. Room(s, flash, core')
    BY <1>3, <1>6, <2>2, <2>6, Waiting DEF Room
  <2>8. Readied(flash, core', op', result')
    <3>1. op' # NONE
      BY SubmitStep
    <3>2. core.state = "COPY_WRITE" =>
            op'.at = core.copy_offset + 1 /\ flash.IAP[core.copy_offset + 1] = Erased
      BY <1>1, <2>2, <2>5 DEF Submission, Operation, Room, Vacant
    <3>. QED BY <1>1, <1>3, <1>6, <2>3, <3>1, <3>2, Waiting DEF Readied
  <2>. QED BY <1>1, <1>3, <2>3, <2>7, <2>8 DEF Roomy
<1>. QED BY <1>1, <1>4, <1>5, <1>6, Waiting DEF CommitStates

LEMMA OthersRoom ==
    ASSUME IInv, Roomy(flash, core, op, result), Others
    PROVE  Roomy(flash', core', op', result')
<1>0. core \in CoreType /\ UNCHANGED flash
  BY Given, OthersMove DEF Moved
<1>1. CASE StartupChecked \/ TargetRead \/ Jump \/ JumpFailed
  <2>1. core'.state \in {"JUMP_PENDING", "IAP", "WAIT_UPGRADE", "VERIFY_READ", "FINAL_READ"}
    BY <1>0, <1>1 DEF StartupChecked, TargetRead, Jump, JumpFailed, Resident, CoreType
  <2>. QED BY <2>1, NoRoomNeeded DEF Unconcerned, DownloadStates, ChunkStates, CommitStates
<1>2. CASE FinalChecked
  <2>1. \/ core'.state = "WAIT_UPGRADE"
        \/ core'.state = "METADATA_ERASE" /\ core'.metadata_next_state = "JUMP_PENDING"
    BY <1>0, <1>2 DEF FinalChecked, Resident, CommitStart, CoreType
  <2>. QED BY <2>1, NoRoomNeeded DEF Unconcerned, DownloadStates, ChunkStates, CommitStates
<1>3. CASE DownloadErased
  <2>1. core.state = "DOWNLOAD_ERASE_WAIT" /\ op = NONE /\ result
    BY <1>3 DEF DownloadErased, Finished
  <2>2. /\ core'.state = "METADATA_ERASE" /\ core'.metadata_next_state = "DOWNLOAD_READY"
        /\ core'.running_crc = core.running_crc /\ core'.mode = core.mode
    BY <1>0, <1>3 DEF DownloadErased, CommitStart, CoreType
  <2>3. Clean(core)
    BY <2>1 DEF Clean, ReadingStates, CommitStates
  <2>4. Len(core.running_crc) = 0 /\ Vacant(flash, DownloadZone(core), 0)
    BY <2>1, <2>3 DEF Roomy, Room, Readied
  <2>5. DownloadZone(core') = DownloadZone(core)
    BY <2>2 DEF DownloadZone
  <2>6. Room("DOWNLOAD_READY", flash', core')
    BY <1>0, <2>2, <2>4, <2>5 DEF Room
  <2>. QED BY <2>2, <2>6, CommitRoom DEF CommitStates
<1>4. CASE PacketWritten
  <2>1. core.state = "PACKET_WRITE_WAIT"
    BY <1>4 DEF PacketWritten, Finished
  <2>2. Clean(core) /\ core.pending_packet \in Packages /\ core.running_crc \in Seq(Packages)
    BY <1>0, <2>1, Given DEF Clean, ReadingStates, CommitStates, Fit, CoreType
  <2>3. /\ core'.state = "DOWNLOAD_READY" /\ core'.mode = core.mode
        /\ core'.running_crc = Append(core.running_crc, core.pending_packet)
    BY <1>0, <1>4 DEF PacketWritten, CoreType
  <2>4. Len(core'.running_crc) = Len(core.running_crc) + 1
        /\ DownloadZone(core') = DownloadZone(core)
    BY <2>2, <2>3 DEF DownloadZone
  <2>5. Vacant(flash, DownloadZone(core), Len(core.running_crc) + 1)
    BY <2>1, <2>2 DEF Roomy, Room
  <2>6. Room("DOWNLOAD_READY", flash', core')
    BY <1>0, <2>4, <2>5 DEF Room
  <2>. QED BY <2>3, <2>6 DEF Roomy, Readied, CommitStates
<1>5. CASE \E offset \in Offsets, data \in Packages : HostData(offset, data)
  <2>1. PICK offset \in Offsets, data \in Packages : HostData(offset, data)
    BY <1>5
  <2>2. core.state = "DOWNLOAD_READY" /\ offset = Len(core.running_crc) + 1 /\ op'.at = offset
    BY <2>1 DEF HostData, InSession, Accepted, Operation
  <2>3. /\ core'.state = "PACKET_WRITE_WAIT" /\ core'.running_crc = core.running_crc
        /\ core'.mode = core.mode
    BY <1>0, <2>1 DEF HostData, CoreType
  <2>4. DownloadZone(core') = DownloadZone(core)
    BY <2>3 DEF DownloadZone
  <2>5. Vacant(flash, DownloadZone(core), Len(core.running_crc))
    BY <2>2 DEF Roomy, Room, Clean, ReadingStates, CommitStates
  <2>6. Len(core.running_crc) \in Nat /\ \A i \in Offsets : i \in Nat
    BY <1>0, Constants DEF CoreType, Offsets
  <2>7. flash[DownloadZone(core)][offset] = Erased
    BY <2>2, <2>5, <2>6 DEF Vacant
  <2>8. Vacant(flash, DownloadZone(core), Len(core.running_crc) + 1)
    BY <2>5, <2>6 DEF Vacant
  <2>9. Room("PACKET_WRITE_WAIT", flash', core')
    BY <1>0, <2>3, <2>4, <2>8 DEF Room
  <2>10. Readied(flash', core', op', result')
    BY <1>0, <2>2, <2>3, <2>4, <2>7 DEF Readied
  <2>. QED BY <2>3, <2>9, <2>10 DEF Roomy, CommitStates
<1>6. CASE CopyErased
  <2>1. core.state = "COPY_ERASE_WAIT" /\ op = NONE /\ result
    BY <1>6 DEF CopyErased, Finished
  <2>2. core'.state = "COPY_READ" /\ core'.copy_offset = 0
    BY <1>0, <1>6 DEF CopyErased, CoreType
  <2>3. Vacant(flash, "IAP", 0)
    BY <2>1 DEF Roomy, Readied
  <2>. QED BY <1>0, <2>2, <2>3 DEF Roomy, Room, Readied, CommitStates
<1>7. CASE CopyRead \/ CopyWritten
  <2>1. core.state \in {"COPY_READ_WAIT", "COPY_WRITE_WAIT"}
    BY <1>7 DEF CopyRead, CopyWritten, Finished
  <2>2. Room(core.state, flash, core)
    BY <2>1 DEF Roomy, Clean, ReadingStates, CommitStates
  <2>3. /\ core'.copy_offset = core.copy_offset
        /\ core.state = "COPY_READ_WAIT" => core'.state = "COPY_WRITE"
        /\ core.state = "COPY_WRITE_WAIT" => core'.state = "COPY_VERIFY_READ"
    BY <1>0, <1>7 DEF CopyRead, CopyWritten, Finished, CoreType
  <2>4. Room(core'.state, flash', core')
    BY <1>0, <2>1, <2>2, <2>3 DEF Room
  <2>. QED BY <2>1, <2>3, <2>4 DEF Roomy, Readied, CommitStates
<1>8. CASE CopyVerified
  <2>1. core.state = "COPY_VERIFY_READ_WAIT"
    BY <1>8 DEF CopyVerified, Finished
  <2>2. \/ core'.state = "WAIT_UPGRADE"
        \/ /\ core'.state = "METADATA_ERASE" /\ core'.copy_offset = core.copy_offset + 1
           /\ core'.metadata_next_state \in {"COPY_READ", "VERIFY_READ"}
    BY <1>0, <1>8 DEF CopyVerified, Copied, Resident, CommitStart, CoreType
  <2>3. Vacant(flash, "IAP", core.copy_offset + 1)
    BY <2>1 DEF Roomy, Room, Clean, ReadingStates, CommitStates
  <2>4. CASE core'.state = "WAIT_UPGRADE"
    BY <2>4, NoRoomNeeded DEF Unconcerned, DownloadStates, ChunkStates, CommitStates
  <2>5. CASE core'.state # "WAIT_UPGRADE"
    <3>1. Room(core'.metadata_next_state, flash', core')
      BY <1>0, <2>2, <2>3, <2>5 DEF Room
    <3>. QED BY <2>2, <2>5, <3>1, CommitRoom DEF CommitStates
  <2>. QED BY <2>4, <2>5
<1>9. CASE MetadataErased
  <2>1. core.state = "METADATA_ERASE_WAIT"
    BY <1>9 DEF MetadataErased, Finished
  <2>2. /\ core'.state = "METADATA_WRITE" /\ core'.running_crc = core.running_crc
        /\ core'.copy_offset = core.copy_offset /\ core'.mode = core.mode
        /\ core'.metadata_next_state = core.metadata_next_state
    BY <1>0, <1>9 DEF MetadataErased, CoreType
  <2>3. DownloadZone(core') = DownloadZone(core)
    BY <2>2 DEF DownloadZone
  <2>4. Room(core.metadata_next_state, flash, core)
    BY <2>1 DEF Roomy, CommitStates
  <2>5. Room(core'.metadata_next_state, flash', core')
    BY <1>0, <2>2, <2>3, <2>4 DEF Room
  <2>. QED BY <2>2, <2>5, CommitRoom DEF CommitStates
<1>10. ASSUME NEW p \in Packages, NEW mode \in Modes, HostBegin(p, mode)
       PROVE  Roomy(flash', core', op', result')
  <2>1. core' = Begun(core, p, mode)
    BY <1>10 DEF HostBegin
  <2>. QED BY <1>0, <2>1, Constants, BegunRoom
<1>11. ASSUME NEW p \in Packages, HostEnd(Whole(p))
       PROVE  Roomy(flash', core', op', result')
  <2>1. \/ core'.state \in {"WAIT_UPGRADE", "VERIFY_READ"}
        \/ core'.state = "METADATA_ERASE" /\ core'.metadata_next_state = "COPY_ERASE"
    BY <1>0, <1>11 DEF HostEnd, Resident, CommitStart, CoreType
  <2>. QED BY <2>1, NoRoomNeeded DEF Unconcerned, DownloadStates, ChunkStates, CommitStates
<1>. QED BY <1>1, <1>2, <1>3, <1>4, <1>5, <1>6, <1>7, <1>8, <1>9, <1>10, <1>11 DEF Others

LEMMA WrittenRoom ==
    ASSUME IInv, Roomy(flash, core, op, result), MetadataWritten
    PROVE  Roomy(flash', core', op', result')
<1>1. /\ core.state = "METADATA_WRITE_WAIT" /\ UNCHANGED flash
      /\ core' = [core EXCEPT !.metadata_sequence = (@ + 1) % SequenceMod,
                    !.metadata_source_zone = Target(core), !.state = core.metadata_next_state]
  BY DEF MetadataWritten, Finished, Keep
<1>2. /\ core'.state = core.metadata_next_state /\ core'.running_crc = core.running_crc
      /\ core'.copy_offset = core.copy_offset /\ core'.mode = core.mode
  BY <1>1, Given DEF CoreType
<1>3. core.state \in CommitStates
  BY <1>1 DEF CommitStates
<1>4. core.metadata_next_state \in EnteredStates
  BY <1>3, Given DEF Agree, Proposed
<1>5. DownloadZone(core') = DownloadZone(core)
  BY <1>2 DEF DownloadZone
<1>6. Room(core'.state, flash', core')
  BY <1>1, <1>2, <1>3, <1>5 DEF Roomy, Room
<1>7. Readied(flash', core', op', result') /\ core'.state \notin CommitStates
  BY <1>2, <1>4 DEF EnteredStates, Readied, CommitStates
<1>. QED BY <1>6, <1>7 DEF Roomy

(* A chunk is programmed, or not, at its place and nowhere else.           *)
LEMMA OneCell ==
    ASSUME NEW o \in OperationType, o.kind = "program", o.zone \in ImageZones,
           flash \in FlashType, NEW z, Outcome(o, z)
    PROVE  \A i \in Offsets : i # o.at => z[i] = flash[o.zone][i]
<1>1. flash[o.zone] \in Image
  BY DEF FlashType, ImageZones
<1>2. \A i \in Offsets : i # o.at => Done(o)[i] = flash[o.zone][i]
  BY <1>1 DEF Done, Image
<1>3. \A cells \in SUBSET Touched(o), i \in Offsets :
        i # o.at => Spoiled(o, cells)[i] = flash[o.zone][i]
  BY DEF Spoiled, Touched
<1>4. {o.at} \in SUBSET Touched(o)
  BY DEF Touched
<1>. QED BY <1>2, <1>3, <1>4 DEF Outcome, Partial

LEMMA FlashRoom ==
    ASSUME IInv, Roomy(flash, core, op, result), Flash
    PROVE  Roomy(flash', core', op', result')
<1>1. PICK z : op # NONE /\ Outcome(op, z) /\ flash' = [flash EXCEPT ![op.zone] = z]
  BY DEF Flash, FlashDone, FlashFailed, FlashSpoiled, Outcome, Partial
<1>2. core' = core /\ op' = NONE
  BY DEF Flash, FlashDone, FlashFailed, FlashSpoiled
<1>3. /\ op \in OperationType /\ Carried(op, core) /\ core.state \in WaitStates
      /\ flash \in FlashType /\ op.zone \in ImageZones \cup MetaZones
  BY <1>1 DEF IInv, Typed, Sound, Carried, OperationType
<1>4. flash'[op.zone] = z /\ \A zone \in ImageZones : zone # op.zone => flash'[zone] = flash[zone]
  BY <1>1, <1>3 DEF FlashType, ImageZones, MetaZones
<1>5. DownloadZone(core) \in ImageZones
  BY DEF DownloadZone, ImageZones
<1>6. CASE core.state \in CommitStates
  <2>1. op.zone \notin ImageZones
    BY <1>3, <1>6, WaitStatesAre, Given, Zones DEF Carried, CommitStates, MetaZones, ImageZones
  <2>2. flash'.IAP = flash.IAP /\ flash'[DownloadZone(core)] = flash[DownloadZone(core)]
    BY <1>4, <1>5, <2>1 DEF ImageZones
  <2>3. Room(core.metadata_next_state, flash', core)
    BY <1>6, <2>2 DEF Roomy, Room, Vacant
  <2>. QED BY <1>2, <1>6, <2>3, CommitRoom
<1>7. CASE core.state \in {"META_A_WAIT", "META_B_WAIT", "STARTUP_WAIT", "VERIFY_READ_WAIT",
                           "FINAL_READ_WAIT"}
  BY <1>2, <1>7, NoRoomNeeded DEF Unconcerned, DownloadStates, ChunkStates, CommitStates
<1>8. CASE core.state \in {"COPY_READ_WAIT", "COPY_VERIFY_READ_WAIT"}
  <2>1. op.kind = "read"
    BY <1>3, <1>8 DEF Carried
  <2>2. flash' = flash
    BY <1>1, <1>3, <2>1 DEF Outcome, Partial, Done, FlashType, ImageZones, MetaZones
  <2>3. Room(core.state, flash', core)
    BY <1>8, <2>2 DEF Roomy, Clean, ReadingStates, CommitStates
  <2>. QED BY <1>2, <1>8, <2>3 DEF Roomy, Readied, CommitStates
<1>9. CASE core.state \in {"DOWNLOAD_ERASE_WAIT", "COPY_ERASE_WAIT"}
  <2>1. op.kind = "erase" /\ op.zone \in ImageZones
        /\ op.zone = IF core.state = "COPY_ERASE_WAIT" THEN "IAP" ELSE DownloadZone(core)
    BY <1>3, <1>5, <1>9 DEF Carried, ImageZones
  <2>2. result' => flash'[op.zone] = Blank
    BY <1>3, <2>1 DEF Flash, FlashDone, FlashFailed, FlashSpoiled, Done, FlashType, ImageZones
  <2>3. result' => Vacant(flash', op.zone, 0)
    BY <2>2 DEF Vacant, Blank
  <2>4. Room(core.state, flash', core)
    BY <1>9 DEF Roomy, Room, Clean, ReadingStates, CommitStates
  <2>. QED BY <1>2, <1>9, <2>1, <2>3, <2>4 DEF Roomy, Readied, CommitStates
<1>10. CASE core.state \in {"PACKET_WRITE_WAIT", "COPY_WRITE_WAIT"}
  <2>. DEFINE zone == IF core.state = "COPY_WRITE_WAIT" THEN "IAP" ELSE DownloadZone(core)
              n == IF core.state = "COPY_WRITE_WAIT" THEN core.copy_offset + 1
                   ELSE Len(core.running_crc) + 1
  <2>1. op.kind = "program" /\ op.zone = zone /\ zone \in ImageZones
    BY <1>3, <1>5, <1>10 DEF Carried, ImageZones
  <2>2. op.at = n /\ n \in Nat
    BY <1>1, <1>10, Given DEF Roomy, Readied, CoreType
  <2>3. Vacant(flash, zone, n)
    BY <1>10 DEF Roomy, Room, Clean, ReadingStates, CommitStates
  <2>. HIDE DEF zone, n
  <2>4. \A i \in Offsets : i > n => i # op.at
    BY <2>2, Constants DEF Offsets
  <2>5. Vacant(flash', zone, n)
    BY <1>1, <1>3, <1>4, <2>1, <2>3, <2>4, OneCell DEF Vacant
  <2>6. Room(core.state, flash', core)
    BY <1>10, <2>5 DEF Room, zone, n
  <2>. QED BY <1>2, <1>10, <2>6 DEF Roomy, Readied, CommitStates
<1>. QED BY <1>3, <1>6, <1>7, <1>8, <1>9, <1>10, WaitStatesAre DEF CommitStates

LEMMA RoomStep ==
    IInv /\ Roomy(flash, core, op, result) /\ [Next]_vars => Roomy(flash', core', op', result')
<1>. SUFFICES ASSUME IInv, Roomy(flash, core, op, result), [Next]_vars
              PROVE  Roomy(flash', core', op', result')
  OBVIOUS
<1>1. CASE Reset \/ \E info \in Packages \cup {NONE} : IapUpdate(info)
  <2>1. core'.state = "META_A_READ"
    BY <1>1, BootedFacts DEF Reset, IapUpdate
  <2>. QED BY <2>1, NoRoomNeeded DEF Unconcerned, DownloadStates, ChunkStates, CommitStates
<1>2. CASE OperationFailed \/ SubmitRefused \/ HostDataRefused
  <2>1. core' = Resident(core)
    BY <1>2 DEF OperationFailed, SubmitRefused, HostDataRefused
  <2>. QED BY <2>1, Given, ResidentRoom
<1>3. CASE UNCHANGED vars
  BY <1>3 DEF vars
<1>4. CASE Next
  BY <1>1, <1>2, <1>4, FlashRoom, ScanRoom, SubmitRoom, OthersRoom, WrittenRoom
     DEF Next, Process, Host, Others
<1>. QED BY <1>3, <1>4

LEMMA RoomStart == Init => Roomy(flash, core, op, result)
<1>1. Init => core.state = "META_A_READ"
  BY BootedFacts DEF Init
<1>. QED BY <1>1, NoRoomNeeded DEF Unconcerned, DownloadStates, ChunkStates, CommitStates

LEMMA RoomMeans == IInv /\ Roomy(flash, core, op, result) => ProgramsErasedOnly
<1>. SUFFICES ASSUME IInv, Roomy(flash, core, op, result), op # NONE, op.kind = "program"
              PROVE  IF op.zone \in ImageZones THEN flash[op.zone][op.at] = Erased
                     ELSE flash[op.zone] = NONE
  BY DEF ProgramsErasedOnly
<1>1. Carried(op, core)
  BY DEF IInv, Sound
<1>2. core.state \in {"PACKET_WRITE_WAIT", "COPY_WRITE_WAIT", "METADATA_WRITE_WAIT"}
  BY <1>1, WaitStatesAre DEF Carried
<1>3. CASE core.state \in {"PACKET_WRITE_WAIT", "COPY_WRITE_WAIT"}
  BY <1>1, <1>3 DEF Carried, Roomy, Readied, DownloadZone, ImageZones
<1>4. CASE core.state = "METADATA_WRITE_WAIT"
  <2>1. op.zone = Target(core) /\ op.zone \notin ImageZones
    BY <1>1, <1>4, Given, Zones DEF Carried, MetaZones, ImageZones
  <2>2. Other(flash, core) = NONE
    BY <1>4 DEF IInv, Sound, Written
  <2>. QED BY <2>1, <2>2 DEF Other
<1>. QED BY <1>2, <1>3, <1>4

\* bootloader_core.c programs only erased flash: its prefix of a download and
\* its copy offset stay in step with what the erases and programs have left.
THEOREM ProgramsInRoom == MetadataReadable /\ Spec => []ProgramsErasedOnly
<1>1. Init => Roomy(flash, core, op, result)
  BY RoomStart
<1>2. IInv /\ Roomy(flash, core, op, result) => ProgramsErasedOnly
  BY RoomMeans
<1>3. IInv /\ Roomy(flash, core, op, result) /\ [Next]_vars => Roomy(flash, core, op, result)'
  BY RoomStep
<1>. QED BY <1>1, <1>2, <1>3, Invariance, PTL DEF Spec
=============================================================================
