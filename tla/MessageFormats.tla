--------------------------- MODULE MessageFormats ---------------------------
(***************************************************************************)
(* How messages become bytes and messages again: Serialize, Deserialize    *)
(* and GetSerializedSize of LSMessage and DVMessage, which are the same    *)
(* code, and of TestAppMessage, under ns-3's Packet::AddHeader and         *)
(* RemoveHeader.  One message travels: an LS_TABLE_MSG is taken apart and  *)
(* put together again at every node that floods it on, a PING_REQ is       *)
(* answered with a PING_RSP that repeats its number and its text.          *)
(***************************************************************************)
EXTENDS Integers, Sequences, SequencesExt

CONSTANTS
  Base,      \* how many values a byte has, 256 in the code
  Ids,       \* sequence numbers and transaction ids
  Addresses, \* IPv4 addresses
  Texts,     \* the texts of pings and hellos
  Tables,    \* the address and cost pairs of table messages
  MaxTTL,    \* m_maxTTL
  MaxHops    \* bound: packets the message is put in

Bytes == 0 .. Base - 1
U32 == 0 .. Base * Base * Base * Base - 1
Pairs == [addr : U32, cost : U32]

(* Code of PING_REQ and the others: bytes.  Lengths: they fit a uint16_t,  *)
(* as UDP sends no packet longer than that.                                *)
ASSUME FormatAssumption ==
  /\ Base \in Nat /\ Base > 4
  /\ Ids \subseteq U32 /\ Addresses \subseteq U32
  /\ Texts \subseteq Seq(Bytes) /\ Tables \subseteq Seq(Pairs)
  /\ \A s \in Texts : Len(s) < Base * Base
  /\ \A s \in Tables : Len(s) < Base * Base
  /\ MaxTTL \in Bytes /\ MaxHops \in Nat

VARIABLES
  origin,    \* the first message
  message,   \* the message in the packet
  packet,    \* the packet's bytes
  received,  \* the message object of the last receiver
  hops       \* packets so far

vars == <<origin, message, packet, received, hops>>

PING_REQ == 1
PING_RSP == 2
HELLO_REQ == 3
TABLE_MSG == 4  \* LS_TABLE_MSG and DV_TABLE_MSG

(* A message as the constructor leaves it; fields that its class or type   *)
(* lacks keep these values.                                                *)
Blank(class) ==
  [class |-> class, type |-> 0, id |-> 0, ttl |-> 0, orig |-> 0, dest |-> 0,
   text |-> <<>>, table |-> <<>>]

IsApp(m) == m.class = "app"
IsTable(m) == m.type = TABLE_MSG

(***************************************************************************)
(* Buffer::Iterator.                                                       *)
(***************************************************************************)
WriteU8(v) == <<v>>

(* Wrong variant: network order, which ReadU16 does not expect.            *)
WriteHtonU16(v) == <<(v \div Base) % Base, v % Base>>

WriteU16(v) == <<v % Base, (v \div Base) % Base>>
WriteHtonU32(v) ==
  LET Shift(w) == w \div Base  \* by eight bits to the right
  IN  <<Shift(Shift(Shift(v))) % Base, Shift(Shift(v)) % Base, Shift(v) % Base, v % Base>>

(* Whatever memory holds beyond the packet.                                *)
Byte(b, i) == IF i \in DOMAIN b THEN b[i] ELSE 0

ReadU16(b, i) == Byte(b, i) + Base * Byte(b, i + 1)
ReadNtohU32(b, i) ==
  ((Byte(b, i) * Base + Byte(b, i + 1)) * Base + Byte(b, i + 2)) * Base + Byte(b, i + 3)

(***************************************************************************)
(* Serialize.                                                              *)
(***************************************************************************)
HeaderSize(class) == IF class = "app" THEN 1 + 4 ELSE 1 + 4 + 4 + 1
AddressSize(class) == IF class = "app" THEN 0 ELSE 4

(* Wrong variant: the costs of a table are forgotten.                      *)
AddressesOnly(m) ==
  IF IsTable(m) THEN 2 + 4 * Len(m.table) ELSE AddressSize(m.class) + 2 + Len(m.text)

PayloadSize(m) ==
  IF IsTable(m) THEN 2 + (4 + 4) * Len(m.table)
  ELSE AddressSize(m.class) + 2 + Len(m.text)

GetSerializedSize(m) == HeaderSize(m.class) + PayloadSize(m)

SerializeHeader(m) ==
  WriteU8(m.type) \o WriteHtonU32(m.id)
    \o (IF IsApp(m) THEN <<>> ELSE WriteU8(m.ttl) \o WriteHtonU32(m.orig))

SerializePair(p) == WriteHtonU32(p.addr) \o WriteHtonU32(p.cost)

SerializePayload(m) ==
  IF IsTable(m)
  THEN WriteU16(Len(m.table)) \o FlattenSeq([k \in DOMAIN m.table |-> SerializePair(m.table[k])])
  ELSE (IF IsApp(m) THEN <<>> ELSE WriteHtonU32(m.dest)) \o WriteU16(Len(m.text)) \o m.text

Serialize(m) == SerializeHeader(m) \o SerializePayload(m)

(* AddHeader reserves GetSerializedSize() bytes and lets Serialize write.  *)
AddHeader(m) == [i \in 1 .. GetSerializedSize(m) |-> Byte(Serialize(m), i)]

(***************************************************************************)
(* Deserialize, into an object that holds m.  The table is appended to     *)
(* what the object has.                                                    *)
(***************************************************************************)
DeserializeHeader(m, b) ==
  [m EXCEPT !.type = Byte(b, 1),
            !.id   = ReadNtohU32(b, 2),
            !.ttl  = IF IsApp(m) THEN @ ELSE Byte(b, 6),
            !.orig = IF IsApp(m) THEN @ ELSE ReadNtohU32(b, 7)]

DeserializePair(b, i) == [addr |-> ReadNtohU32(b, i), cost |-> ReadNtohU32(b, i + 4)]

DeserializePayload(m, b) ==
  LET start  == HeaderSize(m.class) + 1
      length == start + AddressSize(m.class)
      text   == length + 2
      table  == start + 2
  IN  IF IsTable(m)
      THEN [m EXCEPT !.table =
             @ \o [k \in 1 .. ReadU16(b, start) |-> DeserializePair(b, table + 8 * (k - 1))]]
      ELSE [m EXCEPT
             !.dest = IF IsApp(m) THEN @ ELSE ReadNtohU32(b, start),
             !.text = [k \in 1 .. ReadU16(b, length) |-> Byte(b, text + k - 1)]]

Deserialize(m, b) == DeserializePayload(DeserializeHeader(m, b), b)

(* What Deserialize returns: without the payload of a table message.       *)
Consumed(m) == HeaderSize(m.class) + (IF IsTable(m) THEN 0 ELSE PayloadSize(m))

(***************************************************************************)
(* The handlers, as far as they pass a message on.                         *)
(***************************************************************************)
(* Wrong variant: one message object for all packets.                      *)
LastReceived(class) == received

(* RecvLSMessage, RecvDVMessage and RecvPacket declare a new one.          *)
NewObject(class) == Blank(class)

(* Wrong variant: an integer without a width.                              *)
UnboundedTTL(ttl) == ttl - 1

(* uint8_t: it is never tested, and wraps around.                          *)
NextTTL(ttl) == (ttl - 1) % Base

(* ProcessLSTableMessage floods a message on, ProcessPingReq answers one   *)
(* that is for this node; address is its m_mainAddress.                    *)
PassedOn(m, address) ==
  IF m.class = "ls" /\ IsTable(m) THEN {[m EXCEPT !.ttl = NextTTL(@)]}
  ELSE IF m.type # PING_REQ THEN {}
  ELSE IF IsApp(m) THEN {[m EXCEPT !.type = PING_RSP]}
  ELSE IF m.dest = address
  THEN {[m EXCEPT !.type = PING_RSP, !.ttl = MaxTTL, !.orig = address, !.dest = m.orig]}
  ELSE {}

Send(m) == message' = m /\ packet' = AddHeader(m)

(* A table message that is not newer than the receiver's goes no further.  *)
Receive ==
  \E address \in Addresses :
    /\ hops < MaxHops
    /\ packet # <<>>
    /\ received' = Deserialize(NewObject(message.class), packet)
    /\ hops' = hops + 1
    /\ UNCHANGED origin
    /\ \/ \E m \in PassedOn(received', address) : Send(m)
       \/ /\ PassedOn(received', address) = {} \/ IsTable(received')
          /\ packet' = <<>>
          /\ UNCHANGED message

(* The messages that SendHello, SendLSTableMessage, SendDVTableMessage,    *)
(* and the PING commands make.                                             *)
Origins ==
  LET Text(type, ttl) ==
        [class : {"ls", "dv"}, type : {type}, id : Ids, ttl : {ttl},
         orig : Addresses, dest : Addresses, text : Texts, table : {<<>>}]
      Table(class, ttl) ==
        [class : {class}, type : {TABLE_MSG}, id : Ids, ttl : {ttl},
         orig : Addresses, dest : {0}, text : {<<>>}, table : Tables]
      App ==
        [class : {"app"}, type : {PING_REQ}, id : Ids, ttl : {0},
         orig : {0}, dest : {0}, text : Texts, table : {<<>>}]
  IN  Text(PING_REQ, MaxTTL) \cup Text(HELLO_REQ, 1)
      \cup Table("ls", MaxTTL) \cup Table("dv", 1) \cup App

Init ==
  /\ origin \in Origins
  /\ message = origin
  /\ packet = AddHeader(origin)
  /\ received = Blank(origin.class)
  /\ hops = 0

Spec == Init /\ [][Receive]_vars

(***************************************************************************)
(* Properties.                                                             *)
(***************************************************************************)
Messages ==
  [class : {"ls", "dv", "app"}, type : 0 .. 4, id : U32, ttl : Bytes, orig : U32,
   dest : U32, text : Seq(Bytes), table : Seq(Pairs)]

(* Every field of a message that is sent or received fits its width, also  *)
(* the TTL of a flood that has gone further than MaxTTL.                   *)
TypeOK ==
  /\ {origin, message, received} \subseteq Messages
  /\ packet \in Seq(Bytes)
  /\ hops \in 0 .. MaxHops

(* What Deserialize reads from a packet is the message that Serialize      *)
(* wrote to it, for every class and type of message and every length that  *)
(* the 16-bit length fields can hold.                                      *)
RoundTrip ==
  packet # <<>> => Deserialize(NewObject(message.class), packet) = message

(* GetSerializedSize is the number of bytes Serialize writes, so that      *)
(* nothing is cut off or left unwritten; and RemoveHeader never removes    *)
(* more than the packet has.                                               *)
SpaceSuffices ==
  packet # <<>> =>
    /\ packet = Serialize(message)
    /\ Consumed(message) <= Len(packet)

(* However often a message is taken apart and sent on, it keeps its        *)
(* content: a flooded link-state message its origin, number and table, a   *)
(* ping its number and text on the way there and back.                     *)
ContentSurvives ==
  hops > 0 =>
    /\ received.id = origin.id
    /\ received.text = origin.text
    /\ received.table = origin.table
    /\ received.type # PING_RSP => received.orig = origin.orig
    /\ received.type = PING_RSP /\ ~IsApp(received) => received.dest = origin.orig
=============================================================================
