----------------------------- MODULE FlatMemory -----------------------------
(***************************************************************************)
(* What the guest is promised of the memory system: one array of bytes, in *)
(* which a load finds, little-endian and zero-extended, what was stored    *)
(* last, whatever the sizes of the two accesses; an access that is refused *)
(* leaves the array alone, and so does every load.                         *)
(***************************************************************************)
EXTENDS Integers

CONSTANTS
    Addresses,      \* the addresses that hold a byte
    ByteValues,
    Image,          \* the bytes at reset
    ReadOnly,       \* the addresses no store changes
    OK,             \* the code of an access that is not refused
    Loose           \* the accesses <<kind, address, size>> promised less

VARIABLES
    bytes,
    last    \* the access under way, as a sequence of at most one record

Init == bytes = Image /\ last = <<>>

Request(access) == <<access.kind, access.addr, access.size>>
Named(access) == access.addr .. access.addr + access.size - 1

Touched(access) == Named(access) \cup {access.addr}
Aligned(access) == access.size > 0 => access.addr % access.size = 0

(* Some byte it names does not exist or is not to be written, or it is not  *)
(* aligned.                                                                 *)
Refuse(access) ==
    /\ access.code # OK
    /\ \/ ~ Touched(access) \subseteq Addresses
       \/ access.kind = "store" /\ Touched(access) \cap ReadOnly # {}
       \/ ~ Aligned(access)
    /\ UNCHANGED bytes

Load(access) ==
    /\ access.kind = "load" /\ access.code = OK
    /\ IF Request(access) \notin Loose
       THEN /\ Named(access) \subseteq Addresses /\ Aligned(access)
            /\ \A k \in 0 .. 3 :
                 access.value[k] = IF k < access.size THEN bytes[access.addr + k] ELSE 0
       ELSE \* right as far as they exist, the other bytes anything
            \A k \in 0 .. access.size - 1 :
                access.addr + k \in Addresses => access.value[k] = bytes[access.addr + k]
    /\ UNCHANGED bytes

Store(access) ==
    /\ access.kind = "store" /\ access.code = OK
    /\ Request(access) \notin Loose =>
          Named(access) \subseteq Addresses \ ReadOnly /\ Aligned(access)
    /\ bytes' = [b \in Addresses |->
                    IF b \in Named(access) THEN access.value[b - access.addr] ELSE bytes[b]]

Access ==
    /\ last = <<>>
    /\ last' = <<last'[1]>>
    /\ Refuse(last'[1]) \/ Load(last'[1]) \/ Store(last'[1])

Finish == last # <<>> /\ last' = <<>> /\ UNCHANGED bytes

Next == Access \/ Finish

Spec == Init /\ [][Next]_<<bytes, last>>
=============================================================================
