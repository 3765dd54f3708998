---------------------------- MODULE GenericPacket ----------------------------
(***************************************************************************)
(* The calls of GenericPacket that take one or two packets: a command      *)
(* block of twelve bytes goes out through the transport of the system, the *)
(* drive writes its answer into a buffer, and the bytes at fixed places of *)
(* it are the result.  GetToc, the call of many packets, is DiscReader,    *)
(* which this module extends.                                              *)
(*                                                                         *)
(* The drive is external: Answer has the layouts of the Mt. Fuji tables    *)
(* for the bytes the code looks at, all others are zero.  A buffer nobody  *)
(* initialised is filled with any of Fills.  An object keeps nothing from  *)
(* one call to the next, so a behaviour is one call.                       *)
(***************************************************************************)
EXTENDS DiscReader

CONSTANTS
  Drives,    \* what drives are, see DriveRecord
  Channels,  \* of "SCSI" and "MMC" (Linux) and "Windows"
  Fills,     \* the bytes of a buffer nobody initialised
  ReadLbas   \* the sectors ReadCd is called for

\* uint16_t and uint32_t.
Short  == {n \in Nat : n \div 256 < 256}
Number == {n \in Nat : n \div 16777216 < 256}

Capabilities ==
  [UPC : BOOLEAN, ISRC : BOOLEAN, C2pointers : BOOLEAN, streamAccurate : BOOLEAN,
   nrVolumeLevels : Short]

\* A drive: a character each for the texts of INQUIRY, capabilities, speeds in
\* kB/s, the type of its disc, and how many C2 bits each sector has.
DriveRecord ==
  [vendor : Nat, model : Nat, revision : Nat,
   caps : Capabilities, read : Number, write : Number, minRead : Number, minWrite : Number,
   discType : 0..255, c2 : [ReadLbas -> 0..8]]

ASSUME GenericPacketAssumption ==
  /\ Drives \subseteq DriveRecord
  /\ Channels \subseteq {"SCSI", "MMC", "Windows"}
  /\ Fills \subseteq 0..255 /\ ReadLbas \subseteq Number

VARIABLES
  drive, channel,
  call  \* the call in execution: its command, its buffer, what the drive said

packet == <<drive, channel, call>>

-----------------------------------------------------------------------------
\* parse.h, parse.cc.
TwoTo(k) == <<1, 2, 4, 8, 16, 32, 64, 128, 256>>[k + 1]

GetBits(shift, nrBits, src) == (src \div TwoTo(shift)) % TwoTo(nrBits)
GetBit(b, v)                == GetBits(b, 1, v) = 1
SetBits(shift, nrBits, val) == (val % TwoTo(nrBits)) * TwoTo(shift)

parse16(buf, k) == 256 * buf[k] + buf[k + 1]
parse32(buf, k) == 65536 * parse16(buf, k) + parse16(buf, k + 2)

\* The four bytes of a number from offset k on, the highest first.
store32(buf, k, n) ==
  [buf EXCEPT ![k]     = (n \div 16777216) % 256, ![k + 1] = (n \div 65536) % 256,
              ![k + 2] = (n \div 256) % 256,      ![k + 3] = n % 256]

Blank(size, fill) == [i \in 0..size - 1 |-> fill]

-----------------------------------------------------------------------------
\* The command block.
Inquiry == 18          ModeSense == 90         Performance == 172
TestUnitReady == 0     GetConfiguration == 70  DiscInformation == 81
ReadToc == 67          GetEvent == 74          ReadCD == 190
Synchronize == 53

CDB(cmd) == [Blank(12, 0) EXCEPT ![0] = cmd]

\* The length is a uint16_t.
SetReadLength16(cdbBytes, len) ==
  [cdbBytes EXCEPT ![7] = (len % 65536) \div 256, ![8] = len % 256]

SetReadLength(cdbBytes, len) ==
  [cdbBytes EXCEPT ![6] = (len \div 65536) % 256, ![7] = (len \div 256) % 256,
                   ![8] = len % 256]

-----------------------------------------------------------------------------
\* The drive.

Tolerance == 16
Write     == 4
Flag(b, v) == IF v THEN TwoTo(b) ELSE 0

\* The capabilities page comes after a header of 8 bytes and, unless that is
\* disabled, a block descriptor of 8 more.
CapabilitiesPage(block) ==
  LET page == IF GetBit(3, block[1]) THEN 8 ELSE 16
      c    == drive.caps
  IN  [Blank(28, 0) EXCEPT
         ![page]      = GetBits(0, 6, block[2]),
         ![page + 5]  = Flag(6, c.UPC) + Flag(5, c.ISRC) + Flag(4, c.C2pointers)
                          + Flag(1, c.streamAccurate),
         ![page + 10] = c.nrVolumeLevels \div 256,
         ![page + 11] = c.nrVolumeLevels % 256]

SpeedDescriptor(block) ==
  IF block[10] = 3 THEN store32(store32(Blank(24, 0), 16, drive.minRead), 20, drive.minWrite)
  ELSE store32(Blank(24, 0), 20, IF GetBit(2, block[1]) THEN drive.write ELSE drive.read)

TocDescriptor(block) ==
  LET d == Descriptor([msf |-> GetBit(1, block[1]), track |-> block[6]])
  IN  [Blank(12, 0) EXCEPT ![6] = d.track, ![9] = d.start.minute, ![10] = d.start.second,
                           ![11] = d.start.frame]

\* Audio, then the C2 bits of the sector, then the decoded Q sub-channel.
SectorWithC2(block) ==
  LET lba == parse32(block, 2)
  IN  [i \in 2352..(2351 + drive.c2[lba]) |-> 1]

\* What the drive has to say, and how much of it was asked for.
Answer(block) ==
  CASE block[0] = Inquiry ->
         [i \in 8..35 |-> IF i < 16 THEN drive.vendor
                          ELSE IF i < 32 THEN drive.model ELSE drive.revision]
    [] block[0] = ModeSense       -> CapabilitiesPage(block)
    [] block[0] = Performance     -> SpeedDescriptor(block)
    [] block[0] = DiscInformation -> [Blank(9, 0) EXCEPT ![1] = 32, ![8] = drive.discType]
    [] block[0] = ReadToc         -> TocDescriptor(block)
    [] block[0] = ReadCD          -> SectorWithC2(block)
    [] OTHER                    -> << >>

Asked(block) ==
  CASE block[0] = Inquiry     -> block[4]
    [] block[0] = Performance -> 8 + 16 * parse16(block, 8)
    [] block[0] = ReadCD      -> (2352 + 294 + 16) * (block[7] * 256 + block[8])
    [] OTHER                -> parse16(block, 7)

-----------------------------------------------------------------------------
\* The transport.

Nothing == "nothing"

NoCall == [op |-> "none", at |-> "none", cdb |-> CDB(0), buf |-> << >>,
           status |-> 0, sent |-> 0, result |-> Nothing]

GpInit ==
  /\ Init
  /\ drive \in Drives /\ channel \in Channels
  /\ call = NoCall

Becomes(c) == call' = c /\ UNCHANGED <<vars, drive, channel>>

\* A call begins; no other is in execution.
Send(op, buffer, block) ==
  /\ call = NoCall /\ pc = "idle" /\ ~isrc /\ ~cdtext
  /\ Becomes([NoCall EXCEPT !.op = op, !.at = "sent", !.cdb = block, !.buf = buffer,
                            !.sent = 1])

Answered(op, packets) == call.op = op /\ call.at = "answered" /\ call.sent = packets

Returns(result) == Becomes([call EXCEPT !.at = "returned", !.result = result])

DriveAnswers ==
  /\ call.at = "sent"
  /\ LET bytes == Answer(call.cdb)
     IN  Becomes([call EXCEPT !.at = "answered",
                   !.buf = [i \in DOMAIN @ |-> IF i >= Asked(call.cdb) THEN @[i]
                              ELSE IF i \in DOMAIN bytes THEN bytes[i] ELSE 0]])

\* "Check condition" (2) or "busy" (8), and nothing is written.  Of the three
\* transports only MMC's turns the status into an error.
DriveRefuses ==
  /\ call.at = "sent"
  /\ \E status \in {2, 8} :
       Becomes(IF channel = "MMC" THEN [call EXCEPT !.at = "threw"]
               ELSE [call EXCEPT !.at = "answered", !.status = status])

TransportFails ==
  /\ call.at = "sent"
  /\ Becomes([call EXCEPT !.at = "threw"])

\* GenericPacketCall's result.
Result == IF channel = "Windows" THEN call.status ELSE 0

-----------------------------------------------------------------------------
\* The calls.

Text(from, n) == {call.buf[i] : i \in from..from + n - 1}

GetHardwareInfo ==
  \/ Send("GetHardwareInfo", Blank(36, 0), [CDB(Inquiry) EXCEPT ![4] = 36])
  \/ /\ Answered("GetHardwareInfo", 1)
     /\ Returns([vendor |-> Text(8, 8), model |-> Text(16, 16), revision |-> Text(32, 4)])

\* The debug build asserts that the page is the one asked for.
GetCapabilities ==
  LET flags == call.buf[8 + 5]
  IN  \/ Send("GetCapabilities", Blank(36, 0),
              SetReadLength16([CDB(ModeSense) EXCEPT
                                 ![1] = SetBits(3, 1, 1),
                                 ![2] = SetBits(6, 2, 0) + SetBits(0, 6, 42)], 36))
      \/ /\ Answered("GetCapabilities", 1)
         /\ Returns([UPC |-> GetBit(6, flags), ISRC |-> GetBit(5, flags),
                     C2pointers |-> GetBit(4, flags), streamAccurate |-> GetBit(1, flags),
                     nrVolumeLevels |-> parse16(call.buf, 8 + 10)])

\* Mutated: the second packet asks for the read speed again.
PerformanceCommand_Same(write) ==
  [CDB(Performance) EXCEPT ![1] = Tolerance, ![10] = 0, ![9] = 4]

PerformanceCommand(write) ==
  [CDB(Performance) EXCEPT ![1] = Tolerance + write, ![10] = 0, ![9] = 4]

EndPerformance == parse32(call.buf, 8 + 12)

\* Read and write speed from two packets and one buffer; read is kept in the
\* result between them.
GetPerformance ==
  \/ \E fill \in Fills :
       Send("GetPerformance", Blank(8 + 16 * 4, fill), PerformanceCommand(0))
  \/ /\ Answered("GetPerformance", 1)
     /\ Becomes([call EXCEPT !.at = "sent", !.cdb = PerformanceCommand(Write),
                             !.sent = 2, !.result = EndPerformance])
  \/ /\ Answered("GetPerformance", 2)
     /\ Returns([read |-> call.result, write |-> EndPerformance])

GetMinimumWriteSpeed ==
  \/ \E fill \in Fills :
       Send("GetMinimumWriteSpeed", Blank(8 + 16, fill),
            [CDB(Performance) EXCEPT ![1] = Tolerance, ![10] = 3, ![9] = 1])
  \/ /\ Answered("GetMinimumWriteSpeed", 1)
     /\ Returns([read  |-> parse32(call.buf, 8 + 8) \div 1000,
                 write |-> parse32(call.buf, 8 + 12) \div 1000])

UnitReady ==
  \/ Send("UnitReady", << >>, CDB(TestUnitReady))
  \/ Answered("UnitReady", 1) /\ Returns(Result)

\* On Windows the state of the drive is that of its unit.
GetDriveStatus ==
  /\ channel = "Windows"
  /\ \/ Send("GetDriveStatus", << >>, CDB(TestUnitReady))
     \/ /\ Answered("GetDriveStatus", 1)
        /\ Returns(CASE Result = 0 -> "DiscOk" [] Result = 2 -> "NoDisc"
                     [] OTHER -> "NotReady")

\* Its buffer of 65536 bytes is not looked at, which is as well: their number
\* does not fit the length of the command.  The debug build aborts here.
GetConfigurationCall ==
  \/ Send("GetConfiguration", << >>,
          SetReadLength16([CDB(GetConfiguration) EXCEPT ![1] = SetBits(0, 2, 1)], 65536))
  \/ Answered("GetConfiguration", 1) /\ Returns(Nothing)

\* Of the virtual GetDiscStatus, Linux has its own.  r is not assigned for
\* other types of disc.
DiscStatusOf(buf) ==
  IF parse16(buf, 0) = 0 THEN {"NoInfo"}
  ELSE IF buf[8] = 0  THEN {"Audio"}
  ELSE IF buf[8] = 32 THEN {"XA1"}
  ELSE {"NoInfo", "Audio", "XA1", "Error"}

\* Mutated form of GetDiscStatus: the buffer is not cleared.
GetDiscStatus_NotCleared ==
  /\ channel = "Windows"
  /\ \/ \E fill \in Fills : Send("GetDiscStatus", Blank(34, fill),
                                 SetReadLength16(CDB(DiscInformation), 34))
     \/ /\ Answered("GetDiscStatus", 1)
        /\ \E r \in DiscStatusOf(call.buf) : Returns(r)

GetDiscStatus ==
  /\ channel = "Windows"
  /\ \/ Send("GetDiscStatus", Blank(34, 0), SetReadLength16(CDB(DiscInformation), 34))
     \/ /\ Answered("GetDiscStatus", 1)
        /\ \E r \in DiscStatusOf(call.buf) : Returns(r)

\* The lead-out's address, as a sector number.
SizeInSectors ==
  \/ Send("SizeInSectors", Blank(12, 0),
          SetReadLength16([CDB(ReadToc) EXCEPT ![1] = 0, ![6] = LeadOut], 12))
  \/ Answered("SizeInSectors", 1) /\ Returns(parse32(call.buf, 8))

\* mask is not used, nothing of the answer is returned.
GetStatus ==
  \/ \E blocking \in BOOLEAN :
       Send("GetStatus", Blank(16, 0),
            SetReadLength16([CDB(GetEvent) EXCEPT ![1] = IF blocking THEN 0 ELSE 1], 16))
  \/ Answered("GetStatus", 1) /\ Returns(Nothing)

\* One block with C2 bits and Q sub-channel.
ReadCdCommand(lba) ==
  [SetReadLength(store32(CDB(ReadCD), 2, lba), 1) EXCEPT
     ![9]  = SetBits(7, 1, 1) + SetBits(5, 2, 3) + SetBits(4, 1, 1)
               + SetBits(3, 1, 1) + SetBits(1, 2, 1),
     ![10] = SetBits(0, 3, 2)]

ErrorBits ==
  {bit \in (2352..2352 + 294 - 1) \X (0..7) : GetBit(bit[2], call.buf[bit[1]])}

\* The number of C2 bits set.
ReadCd ==
  \/ \E lba \in ReadLbas :
       Send("ReadCd", Blank(2352 + 294 + 2 + 96, 171), ReadCdCommand(lba))
  \/ Answered("ReadCd", 1) /\ Returns(Cardinality(ErrorBits))

FlushCache ==
  \/ Send("FlushCache", << >>, CDB(Synchronize))
  \/ Answered("FlushCache", 1) /\ Returns(Nothing)

-----------------------------------------------------------------------------
GpNext ==
  \/ GetHardwareInfo \/ GetCapabilities \/ GetPerformance \/ GetMinimumWriteSpeed
  \/ UnitReady \/ GetDriveStatus \/ GetConfigurationCall \/ GetDiscStatus
  \/ SizeInSectors \/ GetStatus \/ ReadCd \/ FlushCache
  \/ DriveAnswers \/ DriveRefuses \/ TransportFails
  \/ /\ call = NoCall /\ Next
     /\ channel = "MMC" => UNCHANGED refused
     /\ UNCHANGED packet

GpSpec == GpInit /\ [][GpNext]_<<vars, packet>>

-----------------------------------------------------------------------------
(***************************************************************************)
(* Properties.                                                             *)
(***************************************************************************)

\* What a call would return if the code could ask the drive itself.
Truth(op) ==
  CASE op = "GetHardwareInfo" ->
         [vendor |-> {drive.vendor}, model |-> {drive.model}, revision |-> {drive.revision}]
    [] op = "GetCapabilities" -> drive.caps
    [] op = "GetPerformance"  -> [read |-> drive.read, write |-> drive.write]
    [] op = "GetMinimumWriteSpeed" ->
         [read |-> drive.minRead \div 1000, write |-> drive.minWrite \div 1000]
    [] op = "GetDriveStatus"  -> "DiscOk"
    [] op = "GetDiscStatus"   ->
         IF drive.discType = 0 THEN "Audio" ELSE IF drive.discType = 32 THEN "XA1"
         ELSE call.result
    [] op = "SizeInSectors"   -> ToFrame(disc.leadout) - 150
    [] op = "ReadCd"          -> drive.c2[parse32(call.cdb, 2)]
    [] op = "UnitReady"       -> 0
    [] OTHER                  -> Nothing

\* Command blocks and answers are sixteen bits here and a bit there, written by
\* hand against tables of a standard: what a call returns is what the drive
\* has, whatever the buffer held before, unless a packet was refused.
AnswersAreTheDrives ==
  call.at = "returned" /\ call.status = 0 => call.result = Truth(call.op)

\* A refused packet, as of a drive without a disc, goes unnoticed.  GetDiscStatus,
\* GetDriveStatus and SizeInSectors, by which the program decides whether there is
\* something to read, and how much, must not make a disc of what their buffer
\* held.  (GetToc does: see HeaderRefused.)
RefusedIsNoDisc ==
  call.at = "returned" /\ call.status # 0 =>
    /\ call.op = "GetDiscStatus" => call.result = "NoInfo"
    /\ call.op = "GetDriveStatus" => call.result # "DiscOk"
    /\ call.op = "SizeInSectors" => call.result = 0
=============================================================================
