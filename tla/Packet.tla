------------------------------- MODULE Packet -------------------------------
(***************************************************************************)
(* Building packets, on the host (Packet.cxx, Order.cxx) and on the        *)
(* Arduino (packet.cpp, the tables of controller.cpp).                     *)
(***************************************************************************)
EXTENDS PacketFrame

Ping == 1
Read == 2
Write == 3
FactoryReset == 6
Reboot == 8
Status == 85
SyncRead == 130
SyncWrite == 131

(* Packet::RegMap: address, size and access of the register of each index.   *)
Reg(address, size, access) == [address |-> address, size |-> size, access |-> access]

RegMap == <<
    Reg(0, 2, "r"), Reg(2, 1, "r"), Reg(3, 1, "rw"), Reg(4, 1, "rw"),
    Reg(5, 1, "rw"), Reg(6, 2, "rw"), Reg(8, 2, "rw"), Reg(10, 1, "r"),
    Reg(11, 1, "rw"), Reg(12, 1, "rw"), Reg(13, 1, "rw"), Reg(14, 1, "rw"),
    Reg(15, 2, "rw"), Reg(17, 1, "rw"), Reg(18, 1, "rw"), Reg(19, 5, "r"),
    Reg(24, 1, "rw"), Reg(25, 1, "rw"), Reg(26, 1, "r"), Reg(27, 1, "rw"),
    Reg(28, 1, "rw"), Reg(29, 1, "rw"), Reg(30, 2, "rw"), Reg(32, 2, "rw"),
    Reg(34, 1, "r"), Reg(35, 2, "rw"), Reg(37, 2, "r"), Reg(39, 2, "r"),
    Reg(41, 2, "r"), Reg(43, 2, "r"), Reg(45, 1, "r"), Reg(46, 1, "r"),
    Reg(47, 1, "r"), Reg(48, 1, "r"), Reg(49, 1, "r"), Reg(50, 1, "r"),
    Reg(51, 2, "rw") >>

(* Controller::RegInfoTable: address and size.                               *)
RegInfoTable == <<
    <<0, 2>>, <<2, 1>>, <<3, 1>>, <<4, 1>>, <<5, 1>>, <<6, 2>>, <<8, 2>>,
    <<11, 1>>, <<12, 1>>, <<13, 1>>, <<14, 1>>, <<15, 2>>, <<17, 1>>, <<18, 1>>,
    <<24, 1>>, <<25, 2>>, <<27, 1>>, <<28, 1>>, <<29, 1>>, <<30, 2>>, <<32, 2>>,
    <<35, 2>>, <<37, 2>>, <<39, 2>>, <<41, 2>>, <<45, 1>>, <<46, 1>>, <<47, 1>>,
    <<49, 1>>, <<50, 1>>, <<51, 2>> >>
-----------------------------------------------------------------------------
crc_table == <<
    \h0000, \h8005, \h800F, \h000A, \h801B, \h001E, \h0014, \h8011, \h8033, \h0036, \h003C, \h8039,
    \h0028, \h802D, \h8027, \h0022, \h8063, \h0066, \h006C, \h8069, \h0078, \h807D, \h8077, \h0072,
    \h0050, \h8055, \h805F, \h005A, \h804B, \h004E, \h0044, \h8041, \h80C3, \h00C6, \h00CC, \h80C9,
    \h00D8, \h80DD, \h80D7, \h00D2, \h00F0, \h80F5, \h80FF, \h00FA, \h80EB, \h00EE, \h00E4, \h80E1,
    \h00A0, \h80A5, \h80AF, \h00AA, \h80BB, \h00BE, \h00B4, \h80B1, \h8093, \h0096, \h009C, \h8099,
    \h0088, \h808D, \h8087, \h0082, \h8183, \h0186, \h018C, \h8189, \h0198, \h819D, \h8197, \h0192,
    \h01B0, \h81B5, \h81BF, \h01BA, \h81AB, \h01AE, \h01A4, \h81A1, \h01E0, \h81E5, \h81EF, \h01EA,
    \h81FB, \h01FE, \h01F4, \h81F1, \h81D3, \h01D6, \h01DC, \h81D9, \h01C8, \h81CD, \h81C7, \h01C2,
    \h0140, \h8145, \h814F, \h014A, \h815B, \h015E, \h0154, \h8151, \h8173, \h0176, \h017C, \h8179,
    \h0168, \h816D, \h8167, \h0162, \h8123, \h0126, \h012C, \h8129, \h0138, \h813D, \h8137, \h0132,
    \h0110, \h8115, \h811F, \h011A, \h810B, \h010E, \h0104, \h8101, \h8303, \h0306, \h030C, \h8309,
    \h0318, \h831D, \h8317, \h0312, \h0330, \h8335, \h833F, \h033A, \h832B, \h032E, \h0324, \h8321,
    \h0360, \h8365, \h836F, \h036A, \h837B, \h037E, \h0374, \h8371, \h8353, \h0356, \h035C, \h8359,
    \h0348, \h834D, \h8347, \h0342, \h03C0, \h83C5, \h83CF, \h03CA, \h83DB, \h03DE, \h03D4, \h83D1,
    \h83F3, \h03F6, \h03FC, \h83F9, \h03E8, \h83ED, \h83E7, \h03E2, \h83A3, \h03A6, \h03AC, \h83A9,
    \h03B8, \h83BD, \h83B7, \h03B2, \h0390, \h8395, \h839F, \h039A, \h838B, \h038E, \h0384, \h8381,
    \h0280, \h8285, \h828F, \h028A, \h829B, \h029E, \h0294, \h8291, \h82B3, \h02B6, \h02BC, \h82B9,
    \h02A8, \h82AD, \h82A7, \h02A2, \h82E3, \h02E6, \h02EC, \h82E9, \h02F8, \h82FD, \h82F7, \h02F2,
    \h02D0, \h82D5, \h82DF, \h02DA, \h82CB, \h02CE, \h02C4, \h82C1, \h8243, \h0246, \h024C, \h8249,
    \h0258, \h825D, \h8257, \h0252, \h0270, \h8275, \h827F, \h027A, \h826B, \h026E, \h0264, \h8261,
    \h0220, \h8225, \h822F, \h022A, \h823B, \h023E, \h0234, \h8231, \h8213, \h0216, \h021C, \h8219,
    \h0208, \h820D, \h8207, \h0202 >>

(* C's ^ on words: bit by bit, m is what the bit counts.                     *)
XorBit(a, b, m) == m * ((a \div m + b \div m) % 2)

Xor(a, b) ==
    (XorBit(a, b, 1) + XorBit(a, b, 2) + XorBit(a, b, 4) + XorBit(a, b, 8))
    + (XorBit(a, b, 16) + XorBit(a, b, 32) + XorBit(a, b, 64) + XorBit(a, b, 128))
    + (XorBit(a, b, 256) + XorBit(a, b, 512) + XorBit(a, b, 1024) + XorBit(a, b, 2048))
    + (XorBit(a, b, 4096) + XorBit(a, b, 8192) + XorBit(a, b, 16384)
       + XorBit(a, b, 32768))

(* Mutant of CrcIndex: one bit of the index is lost. *)
CrcIndex_Short(crc, byte) == Xor(crc \div 256, byte) % 128

CrcIndex(crc, byte) == Xor(crc \div 256, byte)

NextCrc(crc, byte) == Xor((crc * 256) % 65536, crc_table[CrcIndex(crc, byte) + 1])

UpdateCRC(crc_accum, data) ==
    LET crc[n \in 0..Len(data)] == IF n = 0 THEN crc_accum ELSE NextCrc(crc[n-1], data[n])
    IN  crc[Len(data)]

(* Mutants of PacketLength and CrcBytes: the instruction is not counted; the *)
(* high byte comes first.                                                    *)
PacketLength_NoInstruction(params) == 2 + Len(params)

PacketLength(params) == 3 + Len(params)

CrcBytes_Swapped(crc) == <<WordHiByte(crc), WordLoByte(crc)>>

CrcBytes(crc) == <<WordLoByte(crc), WordHiByte(crc)>>

Body(id, instruction, params) ==
    Header \o <<Reserve, id, WordLoByte(PacketLength(params)),
                WordHiByte(PacketLength(params)), instruction>> \o params

(* Packet::Build of the host. *)
Build(id, instruction, params) ==
    LET body == Body(id, instruction, params)
    IN  body \o CrcBytes(UpdateCRC(0, body))

(* Packet::build of the Arduino fills a buffer of a size that its caller     *)
(* computed, and takes the CRC of what comes before its last two bytes.      *)
build(size, id, instruction, params) ==
    LET body == Body(id, instruction, params)
    IN  body \o CrcBytes(UpdateCRC(0, SubSeq(body, 1, size - 2)))

(* Packet::isValid returns -1, which is true, when the two CRC differ.       *)
isValid(pack) == getCrc(pack) # UpdateCRC(0, SubSeq(pack, 1, Len(pack) - 2))
-----------------------------------------------------------------------------
(* The orders of the host.                                                   *)
WordBytes(w) == <<WordLoByte(w), WordHiByte(w)>>

(* Mutant of ValueBytes: only the low byte is written. *)
ValueBytes_Low(value, size) == <<WordLoByte(value)>>

ValueBytes(value, size) ==
    CASE size = 1 -> <<WordLoByte(value)>>
      [] size = 2 -> WordBytes(value)
      [] OTHER -> <<>>

PingOrder == Build(BroadcastId, Ping, <<>>)

ReadOrder(id, reg) ==
    Build(id, Read, WordBytes(RegMap[reg].address) \o WordBytes(RegMap[reg].size))

WriteOrder(id, reg, value) ==
    Build(id, Write, WordBytes(RegMap[reg].address) \o ValueBytes(value, RegMap[reg].size))
-----------------------------------------------------------------------------
(* The broadcasts of the Arduino: buffer sizes are eight bits wide.          *)
GetBsPull(idSize) == (14 + idSize) % 256
GetBsPush(idSize, dataSize) == (14 + idSize + dataSize * idSize) % 256

FillBPing == build(10, BroadcastId, Ping, <<>>)
FillBReset == build(10, BroadcastId, FactoryReset, <<>>)
FillBReboot == build(10, BroadcastId, Reboot, <<>>)

FillBPull(ids, addr, size) ==
    build(GetBsPull(Len(ids)), BroadcastId, SyncRead, WordBytes(addr) \o WordBytes(size) \o ids)

FillBPush(ids, addr, size, values) ==
    build(GetBsPush(Len(ids), size), BroadcastId, SyncWrite,
          WordBytes(addr) \o WordBytes(size)
          \o FlattenSeq([i \in DOMAIN ids |-> <<ids[i]>> \o ValueBytes(values[i], size)]))
=============================================================================
