---------------------------- MODULE MemoryProofs ----------------------------
(***************************************************************************)
(* The memory devices behind the bus implement one array of bytes, for any *)
(* number of devices, memory map, contents and values.                     *)
(***************************************************************************)
EXTENDS Memory, Induction

(* The loop of Bus::read finds a device exactly when one claims the         *)
(* address, and it is the first that does.                                  *)
LEMMA DeviceAtIsFirst ==
    ASSUME NEW addr, Attached(addr)
    PROVE  /\ DeviceAt(addr) \in DOMAIN Devices
           /\ Claims(DeviceAt(addr), addr)
           /\ \A j \in 1 .. DeviceAt(addr) - 1 : ~ Claims(j, addr)
<1>1. PICK n \in Nat : DOMAIN Devices = 1 .. n
  BY DevicesAssumption
<1> DEFINE S == {k \in 1 .. n : Claims(k, addr)}
<1>2. S \in SUBSET Nat /\ S # {}
  BY <1>1 DEF Attached
<1>3. PICK i \in S : \A j \in S : i <= j
  BY <1>2, LeastElement
<1>4. i \in DOMAIN Devices /\ Claims(i, addr)
  BY <1>1, <1>3
<1>5. \A j \in 1 .. i - 1 : ~ Claims(j, addr)
  BY <1>1, <1>3
<1> QED
  BY <1>4, <1>5 DEF DeviceAt

(* Base addresses are words and sizes are positive.                         *)
LEMMA DeviceType ==
    ASSUME NEW i \in DOMAIN Devices
    PROVE  /\ Devices[i].base \in Nat
           /\ Devices[i].size \in Nat \ {0}
           /\ Devices[i].kind \in DeviceKinds
<1> DEFINE Device == [kind : DeviceKinds, base : Words, size : Nat \ {0}]
<1>1. Devices \in Seq(Device)
  BY DevicesAssumption
<1>2. Devices[i] \in Device
  <2> HIDE DEF Device
  <2> QED
    BY <1>1
<1>3. Words \subseteq Nat
  BY WidthAssumption DEF Words
<1> QED
  BY <1>2, <1>3

LEMMA Ends ==
    ASSUME NEW i \in DOMAIN Devices
    PROVE  /\ Devices[i].base \in Nat /\ Devices[i].size \in Nat \ {0}
           /\ End(i) \in Nat /\ Devices[i].base < End(i)
           /\ Devices[i].base % 4 = 0 /\ End(i) % 4 = 0
<1>1. Devices[i].base \in Nat /\ Devices[i].size \in Nat \ {0}
  BY DeviceType
<1>2. Devices[i].base % 4 = 0 /\ Devices[i].size % 4 = 0
  BY SpacedAssumption
<1> QED
  BY <1>1, <1>2 DEF End

(* No two devices claim the same address, the one behind the end included.  *)
LEMMA Routed ==
    ASSUME NEW i \in DOMAIN Devices, NEW a \in Devices[i].base .. End(i)
    PROVE  /\ Attached(a) /\ DeviceAt(a) = i
           /\ Offset(a) = a - Devices[i].base
<1>1. Claims(i, a) /\ Attached(a)
  BY Ends DEF Claims, Attached, End
<1>2. DeviceAt(a) \in DOMAIN Devices /\ Claims(DeviceAt(a), a)
  BY <1>1, DeviceAtIsFirst
<1>3. DeviceAt(a) = i
  <2> SUFFICES ASSUME DeviceAt(a) # i PROVE FALSE
    OBVIOUS
  <2> DEFINE j == DeviceAt(a)
  <2>1. End(i) < Devices[j].base \/ End(j) < Devices[i].base
    BY <1>2, SpacedAssumption
  <2>2. Devices[j].base <= a /\ a <= End(j) /\ Devices[j].base \in Nat /\ End(j) \in Nat
    BY <1>2, Ends DEF Claims, End
  <2>3. Devices[i].base <= a /\ a <= End(i) /\ Devices[i].base \in Nat /\ End(i) \in Nat
    BY Ends
  <2> HIDE DEF j
  <2> QED
    BY <2>1, <2>2, <2>3
<1> QED
  BY <1>1, <1>3 DEF Offset

LEMMA MappedIs ==
    ASSUME NEW a
    PROVE  a \in Mapped <=> \E i \in DOMAIN Devices : a \in Devices[i].base .. End(i) - 1
BY DEF Mapped

(* The address behind a device is no device's byte.                         *)
LEMMA EndUnmapped ==
    ASSUME NEW i \in DOMAIN Devices, NEW a, a \in End(i) .. End(i) + 3
    PROVE  a \notin Mapped
<1> SUFFICES ASSUME NEW j \in DOMAIN Devices, a \in Devices[j].base .. End(j) - 1
             PROVE  FALSE
  BY MappedIs
<1>1. CASE i = j
  BY <1>1, Ends
<1>2. CASE i # j
  <2>1. End(i) < Devices[j].base \/ End(j) < Devices[i].base
    BY <1>2, SpacedAssumption
  <2>2. /\ End(i) \in Nat /\ End(i) % 4 = 0 /\ Devices[i].base < End(i) /\ Devices[i].base \in Nat
        /\ End(j) \in Nat /\ Devices[j].base \in Nat /\ Devices[j].base % 4 = 0
    BY Ends
  <2>3. End(i) < Devices[j].base => End(i) + 4 <= Devices[j].base
    BY <2>2
  <2> QED
    BY <2>1, <2>2, <2>3
<1> QED
  BY <1>1, <1>2

(* Where an access that the bus routes to a device may lie.                 *)
LEMMA Attachment ==
    ASSUME NEW addr \in Words, Attached(addr)
    PROVE  /\ addr \in Nat
           /\ DeviceAt(addr) \in DOMAIN Devices
           /\ addr \in Devices[DeviceAt(addr)].base .. End(DeviceAt(addr))
<1>1. addr \in Nat
  BY WidthAssumption DEF Words
<1> QED
  BY <1>1, DeviceAtIsFirst, Ends DEF Claims, End

LEMMA MappedIsAttached ==
    ASSUME NEW a \in Mapped
    PROVE  /\ a \in Nat /\ Attached(a)
           /\ DeviceAt(a) \in DOMAIN Devices
           /\ a \in Devices[DeviceAt(a)].base .. End(DeviceAt(a)) - 1
<1>1. PICK i \in DOMAIN Devices : a \in Devices[i].base .. End(i) - 1
  BY MappedIs
<1>2. a \in Nat /\ a \in Devices[i].base .. End(i)
  BY <1>1, Ends
<1> QED
  BY <1>1, <1>2, Routed

(* An aligned access that begins in a device ends in it.                    *)
LEMMA Fits ==
    ASSUME NEW i \in DOMAIN Devices, NEW addr \in Devices[i].base .. End(i) - 1,
           NEW size \in Sizes, checkAlignment(addr, size)
    PROVE  addr + size <= End(i)
<1>1. addr \in Nat /\ End(i) \in Nat /\ addr < End(i) /\ End(i) % 4 = 0
  BY Ends
<1>2. CASE size \in {0, 1}
  BY <1>1, <1>2
<1>3. CASE size = 2
  <2>1. addr % 2 = 0
    BY <1>3 DEF checkAlignment, HALFWORD
  <2> QED
    BY <1>1, <1>3, <2>1
<1>4. CASE size = 4
  <2>1. addr % 4 = 0
    BY <1>4 DEF checkAlignment, WORD
  <2> QED
    BY <1>1, <1>4, <2>1
<1> QED
  BY <1>2, <1>3, <1>4 DEF Sizes, BYTE, HALFWORD, WORD

(* No status an access may fail with is the one of success.                 *)
LEMMA StatusOkDistinct ==
    /\ LOAD_ACCESS_FAULT # STATUS_OK /\ LOAD_ADDRESS_MISALIGNED # STATUS_OK
    /\ STORE_ACCESS_FAULT # STATUS_OK /\ STORE_ADDRESS_MISALIGNED # STATUS_OK
    /\ ILLEGAL_INSTRUCTION # STATUS_OK
BY MemoryAssumption DEF ECALL_FROM_M_MODE, LOAD_ACCESS_FAULT, LOAD_ADDRESS_MISALIGNED, STORE_ACCESS_FAULT,
       STORE_ADDRESS_MISALIGNED, ILLEGAL_INSTRUCTION, STATUS_OK

-----------------------------------------------------------------------------
(* The buffers keep their sizes.                                            *)
MemInv == /\ DOMAIN mem = DOMAIN Devices
          /\ \A i \in DOMAIN Devices : DOMAIN mem[i] = 0 .. Devices[i].size - 1

LEMMA ByteIs ==
    ASSUME NEW i \in DOMAIN Devices, NEW a \in Devices[i].base .. End(i) - 1
    PROVE  a \in Mapped /\ Bytes[a] = mem[i][a - Devices[i].base]
<1>1. a \in Devices[i].base .. End(i)
  BY Ends
<1>2. a \in Mapped
  BY MappedIs
<1> QED
  BY <1>1, <1>2, Routed DEF Bytes

(* The accesses of which everything is promised.                            *)
LEMMA Promised ==
    ASSUME NEW kind \in {"load", "store"}, NEW addr \in Words, NEW size \in Sizes,
           Attached(addr), checkAlignment(addr, size), <<kind, addr, size>> \notin Loose
    PROVE  /\ addr \in Devices[DeviceAt(addr)].base .. End(DeviceAt(addr)) - 1
           /\ addr + size <= End(DeviceAt(addr))
           /\ size \in {BYTE, HALFWORD, WORD}
           /\ kind = "load" => Kind(addr) = "clint" \/ size = WORD
<1> DEFINE i == DeviceAt(addr)
<1>1. addr \in Nat /\ i \in DOMAIN Devices /\ addr \in Devices[i].base .. End(i)
  BY Attachment
<1>2. addr # End(i)
  BY <1>1 DEF Loose, PastTheEnd
<1>3. addr \in Devices[i].base .. End(i) - 1
  BY <1>1, <1>2, Ends
<1>4. addr \in Mapped
  BY <1>1, <1>3, MappedIs
<1>5. size # 0
  BY <1>4 DEF Loose, NoSize
<1>6. kind = "load" => Kind(addr) = "clint" \/ size = WORD
  BY <1>4, <1>5 DEF Loose, Narrow, Sizes
<1> QED
  BY <1>1, <1>3, <1>5, <1>6, Fits DEF Sizes

(* The bytes of an aligned access are those of one device.                  *)
LEMMA NamedBytes ==
    ASSUME NEW addr \in Words, Attached(addr), NEW k \in 0 .. 3,
           addr + k \in Devices[DeviceAt(addr)].base .. End(DeviceAt(addr)) - 1
    PROVE  /\ addr + k \in Mapped
           /\ Offset(addr) + k < Devices[DeviceAt(addr)].size
           /\ Bytes[addr + k] = mem[DeviceAt(addr)][Offset(addr) + k]
<1> DEFINE i == DeviceAt(addr)
<1>1. addr \in Nat /\ i \in DOMAIN Devices /\ Offset(addr) = addr - Devices[i].base
  BY Attachment DEF Offset
<1>2. Devices[i].base \in Nat /\ Devices[i].size \in Nat
  BY <1>1, Ends
<1>3. (addr + k) - Devices[i].base = Offset(addr) + k
  BY <1>1, <1>2
<1>4. Offset(addr) + k < Devices[i].size
  BY <1>1, <1>2 DEF End
<1> QED
  BY <1>1, <1>3, <1>4, ByteIs

(* What read delivers.                                                      *)
LEMMA ReadDelivers ==
    ASSUME NEW addr \in Words, NEW size \in Sizes, size # 0,
           NEW v \in ReadValues(addr, size), NEW k \in 0 .. 3
    PROVE  IF k >= BytesRead(Kind(addr), size) THEN v[k] = 0
           ELSE Offset(addr) + k < Devices[DeviceAt(addr)].size =>
                    v[k] = mem[DeviceAt(addr)][Offset(addr) + k]
<1> DEFINE n == BytesRead(Kind(addr), size)
           held == [j \in 0 .. n - 1 |-> Offset(addr) + j]
<1>1. n \in Nat
  BY DEF BytesRead, Sizes, BYTE, HALFWORD, WORD
<1>2. IF k >= n THEN v[k] = 0
      ELSE held[k] < Devices[DeviceAt(addr)].size => v[k] = mem[DeviceAt(addr)][held[k]]
  BY DEF ReadValues
<1>3. ~ (k >= n) => held[k] = Offset(addr) + k
  BY <1>1
<1> QED
  BY <1>2, <1>3

-----------------------------------------------------------------------------
(* One step of the flat memory for each of the four operations.             *)
LEMMA ReadStep ==
    ASSUME MemInv, NEW addr \in Words, NEW size \in Sizes, read(addr, size), last = <<>>
    PROVE  Flat!Access
<1>1. PICK v \in ReadValues(addr, size) : Return("load", addr, size, v, STATUS_OK)
  BY DEF read
<1> DEFINE access == [kind |-> "load", addr |-> addr, size |-> size, value |-> v,
                      code |-> STATUS_OK]
           i == DeviceAt(addr)
<1>2. last' = <<access>> /\ Bytes' = Bytes
  BY <1>1 DEF Return, read, Bytes
<1>3. Attached(addr) /\ checkAlignment(addr, size)
  BY StatusOkDistinct DEF read, ReadStatus
<1>4. addr \in Nat /\ i \in DOMAIN Devices /\ addr \in Devices[i].base .. End(i)
  BY <1>3, Attachment
<1>5. size \in Nat /\ size <= 4
  BY DEF Sizes, BYTE, HALFWORD, WORD
<1>6. ASSUME NEW k \in 0 .. 3, k < size, addr + k \in Mapped
      PROVE  v[k] = Bytes[addr + k]
  <2>1. size # 0 /\ size \in Sizes
    BY <1>6
  <2>2. addr + k \in Devices[i].base .. End(i) - 1
    <3>1. addr \in Devices[i].base .. End(i) - 1
      <4>1. addr # End(i)
        BY <1>4, <1>5, <1>6, EndUnmapped
      <4> QED
        BY <1>4, <4>1, Ends
    <3>2. addr + size <= End(i)
      BY <1>3, <1>4, <3>1, Fits
    <3> QED
      BY <1>4, <1>5, <1>6, <3>2, Ends
  <2>3. Offset(addr) + k < Devices[i].size /\ Bytes[addr + k] = mem[i][Offset(addr) + k]
    BY <1>3, <2>2, NamedBytes
  <2>4. ~ (k >= BytesRead(Kind(addr), size))
    BY <1>5, <1>6 DEF BytesRead, WORD
  <2> QED
    BY <2>1, <2>3, <2>4, ReadDelivers
<1>7. CASE <<"load", addr, size>> \in Loose
  <2>1. \A k \in 0 .. size - 1 : addr + k \in Mapped => v[k] = Bytes[addr + k]
    <3> TAKE k \in 0 .. size - 1
    <3>1. k \in 0 .. 3 /\ k < size
      BY <1>5
    <3> QED
      BY <1>6, <3>1
  <2>2. Flat!Load(access)
    BY <1>2, <1>7, <2>1 DEF Flat!Load, Flat!Request
  <2> QED
    BY <1>2, <2>2 DEF Flat!Access
<1>8. CASE <<"load", addr, size>> \notin Loose
  <2>1. /\ addr \in Devices[i].base .. End(i) - 1 /\ addr + size <= End(i)
        /\ size \in {BYTE, HALFWORD, WORD} /\ (Kind(addr) = "clint" \/ size = WORD)
    BY <1>3, <1>8, Promised
  <2>2. \A a \in addr .. addr + size - 1 : a \in Mapped
    BY <1>4, <1>5, <2>1, MappedIs, Ends
  <2>3. \A k \in 0 .. 3 : v[k] = IF k < size THEN Bytes[addr + k] ELSE 0
    <3> TAKE k \in 0 .. 3
    <3>1. CASE k < size
      <4>1. addr + k \in Mapped
        BY <1>4, <1>5, <2>2, <3>1
      <4> QED
        BY <1>6, <3>1, <4>1
    <3>2. CASE ~ (k < size)
      <4>1. size # 0 /\ BytesRead(Kind(addr), size) = size /\ k >= size
        BY <1>5, <2>1, <3>2 DEF BytesRead, BYTE, HALFWORD, WORD
      <4>2. v[k] = 0
        BY <4>1, ReadDelivers
      <4> QED
        BY <3>2, <4>2
    <3> QED
      BY <3>1, <3>2
  <2>4. addr % size = 0
    BY <1>3, <1>4, <2>1 DEF checkAlignment, BYTE, HALFWORD, WORD
  <2>5. Flat!Load(access)
    BY <1>2, <1>8, <2>2, <2>3, <2>4 DEF Flat!Load, Flat!Request, Flat!Named, Flat!Aligned
  <2> QED
    BY <1>2, <2>5 DEF Flat!Access
<1> QED
  BY <1>7, <1>8

LEMMA ReadFaultStep ==
    ASSUME NEW addr \in Words, NEW size \in Sizes, readFault(addr, size), last = <<>>
    PROVE  Flat!Access
<1> DEFINE access == [kind |-> "load", addr |-> addr, size |-> size, value |-> Zero,
                      code |-> ReadStatus(addr, size)]
<1>1. last' = <<access>> /\ Bytes' = Bytes /\ ReadStatus(addr, size) # STATUS_OK
  BY DEF readFault, Return, Bytes
<1>2. ~ Attached(addr) \/ ~ checkAlignment(addr, size)
  BY <1>1 DEF ReadStatus
<1>3. ~ Attached(addr) => ~ Flat!Touched(access) \subseteq Mapped
  BY MappedIsAttached DEF Flat!Touched
<1>4. ~ checkAlignment(addr, size) => ~ Flat!Aligned(access)
  BY DEF checkAlignment, Flat!Aligned, HALFWORD, WORD
<1>5. Flat!Refuse(access)
  BY <1>1, <1>2, <1>3, <1>4 DEF Flat!Refuse
<1> QED
  BY <1>1, <1>5 DEF Flat!Access

LEMMA WriteFaultStep ==
    ASSUME NEW addr \in Words, NEW size \in Sizes, writeFault(addr, size), last = <<>>
    PROVE  Flat!Access
<1>1. PICK v \in StoreValues : Return("store", addr, size, v, WriteStatus(addr, size))
  BY DEF writeFault
<1> DEFINE access == [kind |-> "store", addr |-> addr, size |-> size, value |-> v,
                      code |-> WriteStatus(addr, size)]
<1>2. last' = <<access>> /\ Bytes' = Bytes /\ WriteStatus(addr, size) # STATUS_OK
  BY <1>1 DEF writeFault, Return, Bytes
<1>3. ~ Attached(addr) => ~ Flat!Touched(access) \subseteq Mapped
  BY MappedIsAttached DEF Flat!Touched
<1>4. Kind(addr) = "rom" => ~ Flat!Touched(access) \subseteq Mapped
                            \/ Flat!Touched(access) \cap Rom # {}
  BY DEF Flat!Touched, Rom
<1>5. ~ checkAlignment(addr, size) => ~ Flat!Aligned(access)
  BY DEF checkAlignment, Flat!Aligned, HALFWORD, WORD
<1>6. ~ Attached(addr) \/ Kind(addr) = "rom" \/ ~ checkAlignment(addr, size)
  BY <1>2 DEF WriteStatus, Kind
<1>7. Flat!Refuse(access)
  BY <1>2, <1>3, <1>4, <1>5, <1>6 DEF Flat!Refuse
<1> QED
  BY <1>2, <1>7 DEF Flat!Access

(* A store changes the bytes it names, also one that begins behind a device *)
(* and so names none.                                                       *)
LEMMA WrittenBytes ==
    ASSUME MemInv, NEW addr \in Words, NEW size \in Sizes, Attached(addr),
           checkAlignment(addr, size), NEW v, mem' = Written(addr, size, v)
    PROVE  Bytes' = [b \in Mapped |-> IF b \in addr .. addr + size - 1 THEN v[b - addr]
                                                                       ELSE Bytes[b]]
<1> DEFINE i == DeviceAt(addr)
           at == Offset(addr)
           named == addr .. addr + size - 1
<1>1. addr \in Nat /\ i \in DOMAIN Devices /\ addr \in Devices[i].base .. End(i)
  BY Attachment
<1>2. size \in Nat /\ size <= 4
  BY DEF Sizes, BYTE, HALFWORD, WORD
<1>3. Devices[i].base \in Nat /\ End(i) \in Nat /\ at = addr - Devices[i].base
  BY <1>1, Ends DEF Offset
<1>4. ASSUME NEW b \in Mapped
      PROVE  mem'[DeviceAt(b)][Offset(b)] = IF b \in named THEN v[b - addr] ELSE Bytes[b]
  <2> DEFINE j == DeviceAt(b)
             o == Offset(b)
  <2>1. /\ b \in Nat /\ j \in DOMAIN Devices /\ o = b - Devices[j].base
        /\ b \in Devices[j].base .. End(j) - 1
    BY <1>4, MappedIsAttached DEF Offset
  <2>2. j \in DOMAIN mem /\ i \in DOMAIN mem /\ o \in DOMAIN mem[j]
    BY <1>1, <2>1, Ends DEF MemInv, End
  <2>3. Bytes[b] = mem[j][o]
    BY <1>4 DEF Bytes
  <2>4. CASE j = i
    <3>1. mem'[i] = [p \in DOMAIN mem[i] |->
                        IF p \in at .. at + size - 1 THEN v[p - at] ELSE mem[i][p]]
      BY <2>2 DEF Written
    <3>2. mem'[i][o] = IF o \in at .. at + size - 1 THEN v[o - at] ELSE mem[i][o]
      BY <2>2, <2>4, <3>1
    <3>3. o - at = b - addr /\ (o \in at .. at + size - 1 <=> b \in named)
      BY <1>1, <1>2, <1>3, <2>1, <2>4
    <3> QED
      BY <2>3, <2>4, <3>2, <3>3
  <2>5. CASE j # i
    <3>1. mem'[j] = mem[j]
      BY <2>2, <2>5 DEF Written
    <3>2. b \notin named
      <4>1. CASE addr = End(i)
        <5>1. b \in named => b \in End(i) .. End(i) + 3
          BY <1>1, <1>2, <4>1
        <5> QED
          BY <1>1, <1>4, <5>1, EndUnmapped
      <4>2. CASE addr # End(i)
        <5>1. addr \in Devices[i].base .. End(i) - 1
          BY <1>1, <1>3, <4>2
        <5>2. addr + size <= End(i)
          BY <1>1, <5>1, Fits
        <5>3. b \in named => b \in Devices[i].base .. End(i)
          BY <1>1, <1>2, <1>3, <5>1, <5>2
        <5> QED
          BY <1>1, <2>5, <5>3, Routed
      <4> QED
        BY <4>1, <4>2
    <3> QED
      BY <2>3, <3>1, <3>2
  <2> QED
    BY <2>4, <2>5
<1>5. Bytes' = [b \in Mapped |-> mem'[DeviceAt(b)][Offset(b)]]
  BY DEF Bytes
<1> QED
  BY <1>4, <1>5

LEMMA WriteStep ==
    ASSUME MemInv, NEW addr \in Words, NEW size \in Sizes, write(addr, size), last = <<>>
    PROVE  Flat!Access
<1>1. PICK v \in StoreValues :
           mem' = Written(addr, size, v) /\ Return("store", addr, size, v, STATUS_OK)
  BY DEF write
<1> DEFINE access == [kind |-> "store", addr |-> addr, size |-> size, value |-> v,
                      code |-> STATUS_OK]
           i == DeviceAt(addr)
<1>2. last' = <<access>>
  BY <1>1 DEF Return
<1>3. Attached(addr) /\ Devices[i].kind # "rom" /\ checkAlignment(addr, size)
  BY StatusOkDistinct DEF write, WriteStatus
<1>4. Bytes' = [b \in Mapped |-> IF b \in addr .. addr + size - 1 THEN v[b - addr]
                                                                  ELSE Bytes[b]]
  BY <1>1, <1>3, WrittenBytes
<1>5. ASSUME <<"store", addr, size>> \notin Loose
      PROVE  addr .. addr + size - 1 \subseteq Mapped \ Rom /\ Flat!Aligned(access)
  <2>1. /\ addr \in Devices[i].base .. End(i) - 1 /\ addr + size <= End(i)
        /\ size \in {BYTE, HALFWORD, WORD}
    BY <1>3, <1>5, Promised
  <2>2. addr \in Nat /\ i \in DOMAIN Devices /\ Devices[i].base \in Nat /\ End(i) \in Nat
    BY <1>3, Attachment, Ends
  <2>3. ASSUME NEW a \in addr .. addr + size - 1
        PROVE  a \in Mapped \ Rom
    <3>1. a \in Devices[i].base .. End(i) - 1 /\ a \in Devices[i].base .. End(i)
      BY <2>1, <2>2, <2>3 DEF BYTE, HALFWORD, WORD
    <3>2. a \in Mapped /\ DeviceAt(a) = i
      BY <2>2, <3>1, MappedIs, Routed
    <3> QED
      BY <1>3, <3>2 DEF Rom, Kind
  <2>4. Flat!Aligned(access)
    BY <1>3, <2>1, <2>2 DEF checkAlignment, Flat!Aligned, BYTE, HALFWORD, WORD
  <2> QED
    BY <2>3, <2>4
<1>6. Flat!Store(access)
  BY <1>2, <1>4, <1>5 DEF Flat!Store, Flat!Request, Flat!Named
<1> QED
  BY <1>2, <1>6 DEF Flat!Access

-----------------------------------------------------------------------------
LEMMA MemInductive == Spec => []MemInv
<1>1. Init => MemInv
  <2> SUFFICES ASSUME Init PROVE MemInv
    OBVIOUS
  <2>1. \A i \in DOMAIN Devices : Flash[i] \in [0 .. Devices[i].size - 1 -> ByteValues]
    BY MemoryAssumption
  <2> QED
    BY <2>1 DEF Init, MemInv
<1>2. MemInv /\ [Next]_vars => MemInv'
  <2> SUFFICES ASSUME MemInv, Next, mem' # mem PROVE MemInv'
    BY DEF vars, MemInv
  <2>1. PICK addr \in Words, size \in Sizes, v \in StoreValues : mem' = Written(addr, size, v)
    BY DEF Next, read, readFault, write, writeFault, Taken
  <2>2. /\ DOMAIN mem' = DOMAIN mem
        /\ \A i \in DOMAIN mem : DOMAIN mem'[i] = DOMAIN mem[i]
    BY <2>1 DEF Written
  <2> QED
    BY <2>2 DEF MemInv
<1> QED
  BY <1>1, <1>2, PTL DEF Spec

(* The bus and its devices implement the flat memory: whatever the sizes    *)
(* and the order of loads and stores, a byte is what was stored in it last, *)
(* no store through one device changes a byte of another, none changes the  *)
(* ROM, and an access is refused only where a byte is missing, read-only or *)
(* misaligned.                                                              *)
THEOREM BusIsFlatMemoryThm == Spec => BusIsFlatMemory
<1>1. Init => Flat!Init
  <2> SUFFICES ASSUME Init PROVE Flat!Init
    OBVIOUS
  <2>1. \A a \in Mapped : mem[DeviceAt(a)][Offset(a)] = Flash[DeviceAt(a)][Offset(a)]
    BY MappedIsAttached DEF Init
  <2> QED
    BY <2>1 DEF Init, Flat!Init, Bytes
<1>2. MemInv /\ [Next]_vars => [Flat!Next]_<<Bytes, last>>
  <2> SUFFICES ASSUME MemInv, [Next]_vars PROVE [Flat!Next]_<<Bytes, last>>
    OBVIOUS
  <2>1. CASE Taken
    <3>1. Bytes' = Bytes
      BY <2>1 DEF Taken, Bytes
    <3> QED
      BY <2>1, <3>1 DEF Taken, Flat!Next, Flat!Finish
  <2>2. CASE /\ last = <<>>
             /\ \E addr \in Words, size \in Sizes :
                   \/ read(addr, size) \/ readFault(addr, size)
                   \/ write(addr, size) \/ writeFault(addr, size)
    BY <2>2, ReadStep, ReadFaultStep, WriteStep, WriteFaultStep DEF Flat!Next
  <2>3. CASE UNCHANGED vars
    BY <2>3 DEF vars, Bytes
  <2> QED
    BY <2>1, <2>2, <2>3 DEF Next
<1> QED
  BY <1>1, <1>2, MemInductive, PTL DEF Spec, BusIsFlatMemory, Flat!Spec
=============================================================================
