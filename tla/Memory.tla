------------------------------- MODULE Memory -------------------------------
(***************************************************************************)
(* The contents of the memory devices behind the bus: read and write of    *)
(* RomMemoryDevice, RamMemoryDevice, VideoMemoryDevice and                 *)
(* ClintMemoryDevice, as Bus::read and Bus::write call them.  Devices are  *)
(* byte arrays; a value is the function from byte number to byte of a      *)
(* uint32_t.  mcycle's increment is in module Mcu.                         *)
(*                                                                         *)
(* Bytes past the end of a device's buffer are not the device's: a read    *)
(* finds any value there, and a write changes no device.                   *)
(***************************************************************************)
EXTENDS Bus

CONSTANTS
    ByteValues,     \* what a byte may hold, 0 among them
    StoreValues,    \* the values of rs2 of a store
    Flash           \* Flash[i]: the contents of device i after flashRom

Sizes == {0, BYTE, HALFWORD, WORD}
Values == [0 .. 3 -> ByteValues]
Zero == [k \in 0 .. 3 |-> 0]

ASSUME MemoryAssumption ==
    /\ STATUS_OK > ECALL_FROM_M_MODE    \* 2^32 - 1 in the code
    /\ 0 \in ByteValues
    /\ StoreValues \subseteq Values
    /\ \A i \in DOMAIN Devices : Flash[i] \in [0 .. Devices[i].size - 1 -> ByteValues]

End(i) == Devices[i].base + Devices[i].size

(* As the linker script and the addresses in Mcu.cpp have it: devices of    *)
(* whole words, and not one directly behind the other.                      *)
ASSUME SpacedAssumption ==
    /\ \A i \in DOMAIN Devices : Devices[i].base % 4 = 0 /\ Devices[i].size % 4 = 0
    /\ \A i, j \in DOMAIN Devices : i # j => End(i) < Devices[j].base \/ End(j) < Devices[i].base

VARIABLES
    mem,    \* mem[i]: the buffer of device i
    last    \* the access whose code and value the processor has not yet taken,
            \* as a sequence of at most one record

vars == <<mem, last>>

Init ==
    /\ mem = [i \in DOMAIN Devices |-> Flash[i]]
    /\ last = <<>>

Kind(addr) == Devices[DeviceAt(addr)].kind

(* The number of bytes that read dereferences.  The switch of the ROM, the  *)
(* RAM and the video memory has no break, so each case ends in the last one *)
(* and reads a word; the CLINT's has.                                       *)
BytesRead(kind, size) == IF kind = "clint" THEN size ELSE WORD

(* What read leaves in *readValue: an access of no size leaves the caller's *)
(* uninitialised variable as it is.                                         *)
ReadValues(addr, size) ==
    LET i == DeviceAt(addr)
        n == BytesRead(Kind(addr), size)
        held == [k \in 0 .. n - 1 |-> Offset(addr) + k]
    IN  IF size = 0 THEN Values
        ELSE {v \in Values : \A k \in 0 .. 3 :
                IF k >= n THEN v[k] = 0
                ELSE held[k] < Devices[i].size => v[k] = mem[i][held[k]]}

BugOffsetOfDevice0(addr, size, value) ==
    LET i == DeviceAt(addr)
        at == addr - Devices[1].base
    IN  [mem EXCEPT ![i] = [o \in DOMAIN mem[i] |->
            IF o \in at .. at + size - 1 THEN value[o - at] ELSE mem[i][o]]]

(* The buffers after write: the low bytes of the value, little-endian.      *)
Written(addr, size, value) ==
    LET i == DeviceAt(addr)
        at == Offset(addr)
    IN  [mem EXCEPT ![i] = [o \in DOMAIN mem[i] |->
            IF o \in at .. at + size - 1 THEN value[o - at] ELSE mem[i][o]]]

Return(kind, addr, size, value, code) ==
    last' = <<[kind |-> kind, addr |-> addr, size |-> size, value |-> value, code |-> code]>>

read(addr, size) ==
    /\ ReadStatus(addr, size) = STATUS_OK
    /\ \E v \in ReadValues(addr, size) : Return("load", addr, size, v, STATUS_OK)
    /\ UNCHANGED mem

readFault(addr, size) ==
    /\ ReadStatus(addr, size) # STATUS_OK
    /\ Return("load", addr, size, Zero, ReadStatus(addr, size))
    /\ UNCHANGED mem

write(addr, size) ==
    /\ WriteStatus(addr, size) = STATUS_OK
    /\ \E v \in StoreValues :
          /\ mem' = Written(addr, size, v)
          /\ Return("store", addr, size, v, STATUS_OK)

writeFault(addr, size) ==
    /\ WriteStatus(addr, size) # STATUS_OK
    /\ \E v \in StoreValues : Return("store", addr, size, v, WriteStatus(addr, size))
    /\ UNCHANGED mem

(* Mcu::executeInstruction takes the code and the value.                    *)
Taken ==
    /\ last # <<>>
    /\ last' = <<>>
    /\ UNCHANGED mem

Next ==
    \/ /\ last = <<>>
       /\ \E addr \in Words, size \in Sizes :
             \/ read(addr, size) \/ readFault(addr, size)
             \/ write(addr, size) \/ writeFault(addr, size)
    \/ Taken

Spec == Init /\ [][Next]_vars

-----------------------------------------------------------------------------
(* Properties.                                                              *)

Mapped == UNION {Devices[i].base .. End(i) - 1 : i \in DOMAIN Devices}
Rom == {a \in Mapped : Kind(a) = "rom"}

(* What is promised less: a load that is narrower than a word, except from  *)
(* the CLINT (its upper bytes are not cleared), an access of no size, and   *)
(* an access to the address just past a device.                             *)
Narrow == {<<"load", a, n>> : a \in {b \in Mapped : Kind(b) # "clint"}, n \in {BYTE, HALFWORD}}
NoSize == {<<k, a, 0>> : k \in {"load", "store"}, a \in Mapped}
PastTheEnd == {<<k, End(i), n>> : k \in {"load", "store"}, i \in DOMAIN Devices, n \in Sizes}
Loose == Narrow \cup NoSize \cup PastTheEnd

Bytes == [a \in Mapped |-> mem[DeviceAt(a)][Offset(a)]]

Flat == INSTANCE FlatMemory WITH
    Addresses <- Mapped,
    Image <- [a \in Mapped |-> Flash[DeviceAt(a)][Offset(a)]],
    ReadOnly <- Rom,
    OK <- STATUS_OK,
    Loose <- Loose,
    bytes <- Bytes

(* The devices behind the bus are one array of bytes: a load finds what was *)
(* stored last whatever the sizes, the ROM is never changed by a store, and *)
(* not even the loads and stores that are promised less change a byte they  *)
(* do not name.                                                             *)
BusIsFlatMemory == Flat!Spec

(* "RV32I": LB and LH deliver one byte and one halfword.  A load leaves the *)
(* bytes it did not ask for out of the register (the sign bit aside).       *)
NarrowLoadsAreNarrow ==
    last # <<>> =>
        LET access == last[1]
        IN  access.kind = "load" /\ access.size \in {BYTE, HALFWORD} =>
                \A k \in access.size .. 3 :
                    access.value[k] \in {0, access.value[access.size - 1]}
=============================================================================
