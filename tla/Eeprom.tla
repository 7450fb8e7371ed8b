------------------------------ MODULE Eeprom ------------------------------
(***************************************************************************)
(* 93AA46AE48.c reads the MAC address from a serial EEPROM by driving the  *)
(* three lines of its bus bit by bit.  The chip is external: what a rising *)
(* clock edge does to it is taken from how the driver reads it.  The chip  *)
(* ignores zeros until a start bit, then shifts a command in, answers the  *)
(* last command bit with a dummy zero and, after a read command, every     *)
(* later clock with the next bit of the memory, byte after byte.           *)
(*                                                                         *)
(* A byte is the vector of its bits, most significant first.  In the code  *)
(* AddrBits is 7, ByteBits is 8, MacLen is 6 and Epi is 0xa5.  Contents is *)
(* the set of memory contents considered.                                  *)
(***************************************************************************)
EXTENDS Integers, Sequences

CONSTANTS AddrBits, ByteBits, MacLen, Epi, Contents

Bytes == [1..ByteBits -> {0, 1}]

ASSUME EepromAssumption ==
    /\ AddrBits \in Nat \ {0} /\ ByteBits \in Nat \ {0} /\ MacLen \in Nat \ {0}
    /\ Epi \in Bytes
    /\ Contents \subseteq [0..MacLen -> Bytes]

VARIABLES
    mem,    \* chip: its bytes, the programming mark first, then the MAC
    cs,     \* chip select
    got,    \* chip: the command bits shifted in
    addr,   \* chip: its address register, the byte it is at
    offset, \* chip: the bit of the byte that comes next
    miso,   \* chip: its output line
    sent,   \* driver: command bits sent
    nbits,  \* driver: read_byte's loop counter
    nbytes, \* driver: bytes read, the mark included
    b,      \* driver: read_byte's accumulator
    _macaddress

chipReset == got' = <<>> /\ addr' = 0 /\ offset' = 1 /\ miso' = 0
eeVars == <<mem, cs, got, addr, offset, miso, sent, nbits, nbytes, b,
            _macaddress>>

Zero == [i \in 1..ByteBits |-> 0]

(* v << 1 | bit, in ByteBits bits.                                         *)
Shift(v, bit) == [i \in 1..ByteBits |-> IF i = ByteBits THEN bit ELSE v[i + 1]]

(* write_address(mc, 0b10, 0x00): start bit, opcode, address.              *)
Command(opcode, address) == <<1, opcode[1], opcode[2]>> \o address
ReadFromZero == Command(<<1, 0>>, [i \in 1..AddrBits |-> 0])

(* The chip at a rising edge of the clock.                                 *)
ShiftIn(mosi) ==
    /\ got' = IF got = <<>> /\ mosi = 0 THEN got ELSE Append(got, mosi)
    /\ addr' = IF Len(got) >= 3 THEN (2 * addr + mosi) % (MacLen + 1) ELSE addr
    /\ miso' = 0
    /\ UNCHANGED offset

ShiftOut ==
    /\ miso' = IF got[2] = 1 /\ got[3] = 0 THEN mem[addr][offset] ELSE 0
    /\ offset' = IF offset = ByteBits THEN 1 ELSE offset + 1
    /\ addr' = IF offset # ByteBits THEN addr
               ELSE IF addr = MacLen THEN 0 ELSE addr + 1
    /\ UNCHANGED got

Clock(mosi) ==
    /\ IF Len(got) < 3 + AddrBits THEN ShiftIn(mosi) ELSE ShiftOut
    /\ UNCHANGED <<mem, cs>>

(* The line is read after the clock has fallen again: miso'.               *)
transfer_bit(mosi) == cs /\ Clock(mosi)

-----------------------------------------------------------------------------
EepromInit ==
    /\ mem \in Contents
    /\ cs = FALSE /\ got = <<>> /\ addr = 0 /\ offset = 1 /\ miso = 0
    /\ sent = 0 /\ nbits = 0 /\ nbytes = 0
    /\ b = Zero /\ _macaddress = [i \in 1..MacLen |-> Zero]

Select ==
    /\ ~cs /\ sent = 0
    /\ cs' = TRUE
    /\ UNCHANGED <<mem, got, addr, offset, miso, sent, nbits, nbytes, b,
                   _macaddress>>

write_address ==
    /\ sent < Len(ReadFromZero)
    /\ transfer_bit(ReadFromZero[sent + 1])
    /\ sent' = sent + 1
    /\ UNCHANGED <<nbits, nbytes, b, _macaddress>>

(* One turn of read_byte's loop.  A complete byte is the mark, or the next *)
(* byte of the address.                                                    *)
read_byte ==
    LET last == nbits = ByteBits - 1
    IN  /\ sent = Len(ReadFromZero) /\ nbytes <= MacLen
        /\ transfer_bit(0)
        /\ b' = IF last THEN Zero ELSE Shift(b, miso')
        /\ nbits' = IF last THEN 0 ELSE nbits + 1
        /\ nbytes' = IF last THEN nbytes + 1 ELSE nbytes
        /\ _macaddress' = IF last /\ nbytes > 0
                          THEN [_macaddress EXCEPT ![nbytes] = Shift(b, miso')]
                          ELSE _macaddress
        /\ UNCHANGED sent

(* The assertion on the mark, once its byte is there.                      *)
MarkIsWrong ==
    nbytes = 0 /\ nbits = ByteBits - 1 /\ Shift(b, miso') # Epi

Deselect ==
    /\ cs /\ nbytes = MacLen + 1
    /\ cs' = FALSE /\ chipReset
    /\ UNCHANGED <<mem, sent, nbits, nbytes, b, _macaddress>>

Mc94AA46AE58GetID == Select \/ write_address \/ read_byte \/ Deselect
=============================================================================
