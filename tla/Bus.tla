-------------------------------- MODULE Bus ---------------------------------
(***************************************************************************)
(* The bus and the access checks of the memory devices: which device an    *)
(* address is routed to and with which code a read or a write returns.     *)
(* The bytes themselves are in module Memory.                              *)
(***************************************************************************)
EXTENDS Word, MemControlUnit, Sequences

CONSTANT
    Devices     \* the devices in the order of the addDevice calls of Mcu::Mcu

(* Exception codes of Architecture.h; all other codes are never raised.    *)
INSTRUCTION_ADDRESS_MISALIGNED == 0
INSTRUCTION_ACCESS_FAULT == 1
ILLEGAL_INSTRUCTION == 2
LOAD_ADDRESS_MISALIGNED == 4
LOAD_ACCESS_FAULT == 5
STORE_ADDRESS_MISALIGNED == 6
STORE_ACCESS_FAULT == 7
ECALL_FROM_M_MODE == 11
STATUS_OK == WordSize - 1

DeviceKinds == {"rom", "ram", "vram", "clint"}

ASSUME DevicesAssumption ==
    /\ Devices \in Seq([kind : DeviceKinds, base : Words, size : Nat \ {0}])
    /\ \A i \in DOMAIN Devices : Devices[i].base + Devices[i].size \in Words

(* The range test of Bus::read and Bus::write.  getEndAddress is base +     *)
(* size and the test is <=: one address past the device is its own too.     *)
Claims(i, addr) ==
    Devices[i].base <= addr /\ addr <= Devices[i].base + Devices[i].size

Attached(addr) == \E i \in DOMAIN Devices : Claims(i, addr)

(* The loop of Bus::read and Bus::write stops at the first device.          *)
DeviceAt(addr) ==
    CHOOSE i \in DOMAIN Devices :
        Claims(i, addr) /\ \A j \in 1 .. i - 1 : ~ Claims(j, addr)

(* The offset getAddress computes into the device's buffer.                 *)
Offset(addr) == addr - Devices[DeviceAt(addr)].base

(* MemoryDevice::checkAlignment; MemControlUnit hands it size 0 for a       *)
(* funct3 that names no access.                                             *)
checkAlignment(addr, size) == size \in {HALFWORD, WORD} => addr % size = 0

(* The code returned by Bus::read, the same for all four devices.           *)
ReadStatus(addr, size) ==
    IF ~ Attached(addr) THEN LOAD_ACCESS_FAULT
    ELSE IF ~ checkAlignment(addr, size) THEN LOAD_ADDRESS_MISALIGNED
    ELSE STATUS_OK

(* The code returned by Bus::write.  The ROM rejects every write before it  *)
(* looks at the alignment.                                                  *)
WriteStatus(addr, size) ==
    IF ~ Attached(addr) THEN STORE_ACCESS_FAULT
    ELSE IF Devices[DeviceAt(addr)].kind = "rom" THEN ILLEGAL_INSTRUCTION
    ELSE IF ~ checkAlignment(addr, size) THEN STORE_ADDRESS_MISALIGNED
    ELSE STATUS_OK
=============================================================================
