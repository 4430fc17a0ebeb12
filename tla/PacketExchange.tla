--------------------------- MODULE PacketExchange ---------------------------
(***************************************************************************)
(* One packet on its way to the servos: an order of the host or a          *)
(* broadcast of the Arduino is built, sent, and one byte of it may be      *)
(* damaged on the line.  What it does to the servos is read back from its  *)
(* bytes the way a servo does.                                             *)
(***************************************************************************)
EXTENDS Packet, FiniteSets

CONSTANTS
    Ids,               \* servo ids used in orders
    Selections,        \* selections of servos of the Arduino: sequences of ids
    Values,            \* values written
    HostRegisters,     \* indexes of RegMap read and written by the host
    ArduinoRegisters,  \* indexes of RegInfoTable pulled and pushed
    Flips              \* what damage does to a byte: the bits it inverts

(* The bytes of a broadcast are counted in eight bits: that is more servos   *)
(* than the five that can be selected (XL320.h:165).                         *)
ASSUME IdsAssumption ==
    /\ Ids \subseteq 0..252 /\ Selections \subseteq Seq(Ids)
    /\ \A ids \in Selections : 14 + 3 * Len(ids) < 256
ASSUME ValuesAssumption == Values \subseteq Word /\ Flips \subseteq 1..255
ASSUME RegistersAssumption ==
    /\ HostRegisters \subseteq {i \in DOMAIN RegMap : RegMap[i].size <= 2}
    /\ ArduinoRegisters \subseteq DOMAIN RegInfoTable

VARIABLES
    order,    \* what is asked of the servos
    frame,    \* the bytes on the line
    damaged

vars == <<order, frame, damaged>>

HostOrders ==
    [k : {"PingOrder"}] \cup [k : {"ReadOrder"}, id : Ids, reg : HostRegisters]
    \cup [k : {"WriteOrder"}, id : Ids, reg : HostRegisters, value : Values]

Broadcasts ==
    [k : {"ping", "reset", "reboot"}]
    \cup [k : {"pull"}, ids : Selections, reg : ArduinoRegisters]
    \cup UNION {[k : {"push"}, ids : {ids}, reg : ArduinoRegisters,
                 values : [DOMAIN ids -> Values]] : ids \in Selections}

addr(reg) == RegInfoTable[reg][1]
size(reg) == RegInfoTable[reg][2]

Encode(o) ==
    CASE o.k = "PingOrder" -> PingOrder
      [] o.k = "ReadOrder" -> ReadOrder(o.id, o.reg)
      [] o.k = "WriteOrder" -> WriteOrder(o.id, o.reg, o.value)
      [] o.k = "ping" -> FillBPing
      [] o.k = "reset" -> FillBReset
      [] o.k = "reboot" -> FillBReboot
      [] o.k = "pull" -> FillBPull(o.ids, addr(o.reg), size(o.reg))
      [] o.k = "push" -> FillBPush(o.ids, addr(o.reg), size(o.reg), o.values)

Init ==
    /\ order \in HostOrders \cup Broadcasts
    /\ frame = Encode(order)
    /\ damaged = FALSE

Damage ==
    /\ ~damaged
    /\ \E i \in DOMAIN frame, flip \in Flips : frame' = [frame EXCEPT ![i] = Xor(@, flip)]
    /\ damaged' = TRUE
    /\ UNCHANGED order

Arrive == UNCHANGED vars

Next == Damage \/ Arrive

Spec == Init /\ [][Next]_vars
-----------------------------------------------------------------------------
(* What a servo makes of a packet (the protocol of the XL-320): the cells    *)
(* <<servo, address, byte>> it writes and the cells <<servo, address>> it    *)
(* reads.                                                                    *)
Cell(id, address, byte) == <<id, address, byte>>

OneWritten(id, p) == {Cell(id, MakeWord(p[1], p[2]) + j - 3, p[j]) : j \in 3..Len(p)}

EachWritten(p, address, n, servos) ==
    {Cell(p[5 + e * (n + 1)], address + j, p[6 + e * (n + 1) + j]) :
        e \in 0..servos-1, j \in 0..n-1}

ManyWritten(p) ==
    LET n == MakeWord(p[3], p[4])
    IN  EachWritten(p, MakeWord(p[1], p[2]), n, (Len(p) - 4) \div (n + 1))

ServosRead(p) == {p[i] : i \in 5..Len(p)}

AddressesRead(p) == {MakeWord(p[1], p[2]) + j : j \in 0..MakeWord(p[3], p[4]) - 1}

WrittenBy(pack) ==
    CASE getInstruction(pack) = Write -> OneWritten(getId(pack), Parameters(pack))
      [] getInstruction(pack) = SyncWrite -> ManyWritten(Parameters(pack))
      [] OTHER -> {}

ReadBy(pack) ==
    LET p == Parameters(pack)
    IN  CASE getInstruction(pack) = Read -> {getId(pack)} \X AddressesRead(p)
          [] getInstruction(pack) = SyncRead -> ServosRead(p) \X AddressesRead(p)
          [] OTHER -> {}

(* What the caller meant; the low byte of a value counts 1, the other 256.   *)
ByteOf(value, j) == (value \div <<1, 256>>[j + 1]) % 256

MeantWrites(o) ==
    CASE o.k = "WriteOrder" ->
           {Cell(o.id, RegMap[o.reg].address + j, ByteOf(o.value, j)) :
               j \in 0..RegMap[o.reg].size - 1}
      [] o.k = "push" ->
           {Cell(o.ids[i], addr(o.reg) + j, ByteOf(o.values[i], j)) :
               i \in DOMAIN o.ids, j \in 0..size(o.reg) - 1}
      [] OTHER -> {}

MeantReads(o) ==
    CASE o.k = "ReadOrder" ->
           {o.id} \X (RegMap[o.reg].address..RegMap[o.reg].address + RegMap[o.reg].size - 1)
      [] o.k = "pull" ->
           Range(o.ids) \X (addr(o.reg)..addr(o.reg) + size(o.reg) - 1)
      [] OTHER -> {}
-----------------------------------------------------------------------------
(* What is built is one packet, neither more nor less: its length field      *)
(* says where it ends (Packet.cxx:60-82, packet.cpp:73-91).                  *)
OnePacket == ~damaged => HasPacket(frame) /\ PacketSize(frame) = Len(frame)

(* The servos read and write what the caller meant: address, size and every  *)
(* value of every servo come back from the bytes, whatever the bytes are     *)
(* (Order.cxx:10-40, packet.cpp:197-280).                                    *)
OrderArrives ==
    ~damaged => WrittenBy(frame) = MeantWrites(order) /\ ReadBy(frame) = MeantReads(order)

(* The CRC that is sent is the one of the polynomial 8005 over every byte    *)
(* before it: byte after byte, the table does what eight shifts do           *)
(* (Packet.cxx:80-82, 104-153).                                              *)
Shift(crc) == IF crc >= 32768 THEN Xor((2 * crc) % 65536, \h8005) ELSE 2 * crc

Shifted(crc) ==
    LET c[bit \in 0..8] == IF bit = 0 THEN crc ELSE Shift(c[bit - 1]) IN c[8]

CrcOf(n) == UpdateCRC(0, SubSeq(frame, 1, n))

CrcOfPolynomial ==
    ~damaged =>
        /\ getCrc(frame) = CrcOf(Len(frame) - 2)
        /\ \A n \in 1..Len(frame) - 2 :
              CrcOf(n) = Shifted(Xor(CrcOf(n - 1), 256 * frame[n]))

(* A byte damaged on the line always shows in the CRC, also when it is one   *)
(* of the length or of the CRC itself (Packet.cxx:146-150).                  *)
DamageShows ==
    damaged => getCrc(frame) # CrcOf(Len(frame) - 2)
-----------------------------------------------------------------------------
(* XL320.h:71: "Function to check packet structure", packet.cpp:157: "OK".   *)
(* A packet as it was built is valid.                                        *)
BuiltIsValid == ~damaged => isValid(frame)
=============================================================================
