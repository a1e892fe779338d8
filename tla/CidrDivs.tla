------------------------------ MODULE CidrDivs ------------------------------
(***************************************************************************)
(* The CIDR divisions of configurator.go: a private LAN is divided into    *)
(* blocks of one size, and the blocks that hold an address in use, or meet *)
(* a DHCP pool, are dropped.  An address is its offset from the first one  *)
(* of the LAN, a division the record of its first and its last address,    *)
(* and d.divs the sequence of the divisions that are left.                 *)
(***************************************************************************)
EXTENDS Integers, Sequences

Block == [first : Int, last : Int]

(* A division has at least 2^5 addresses and a LAN at most 2^4 divisions;   *)
(* bits is the number of host bits of the LAN's CIDR block, at most the 24  *)
(* of 10.0.0.0/8.  The provers know nothing of powers of two but this.      *)
MaxBits == 24
MinBits == 5
MaxOffset == 4
MaskOffset(bits) ==
    IF bits - MaxOffset >= MinBits THEN MaxOffset ELSE bits - MinBits

ASSUME PowersAssumption == \A n \in 0..MaxBits : 2 ^ n \in Nat \ {0}

(* "mask offset must be positive value": a LAN of /27 or less has none.     *)
Divisible(bits) == MaskOffset(bits) > 0

(* count divisions of the given size, one after the other.                  *)
Divisions(count, size) ==
    [i \in 1..count |-> [first |-> (i - 1) * size, last |-> i * size - 1]]

divideNet(bits, offset) == Divisions(2 ^ offset, 2 ^ (bits - offset))

Contains(div, ip) == div.first <= ip /\ ip <= div.last

isDevInRange(from, to, div) ==
    \/ Contains(div, from)
    \/ Contains(div, to)
    \/ from < div.first /\ div.last < to

(* The slices of d.divs around the indices from..to.                        *)
Cut(divs, from, to) ==
    [i \in 1..(Len(divs) - (to - from + 1)) |->
        IF i < from THEN divs[i] ELSE divs[i + (to - from + 1)]]

dropHeadAndTail(divs) == [i \in 1..(Len(divs) - 2) |-> divs[i + 1]]

(* The first division that contains the address goes.                       *)
dropWithIP(divs, ip) ==
    LET holds == {i \in 1..Len(divs) : Contains(divs[i], ip)}
    IN  IF holds = {}
        THEN divs
        ELSE LET index == CHOOSE i \in holds : \A j \in holds : i <= j
             IN  Cut(divs, index, index)

(* Mutant of dropWithIPRange: the end of the range is not looked for.       *)
dropWithIPRangeStart(divs, from, to) ==
    LET meets == {i \in 1..Len(divs) : isDevInRange(from, to, divs[i])}
    IN  IF meets = {}
        THEN divs
        ELSE LET divFrom == CHOOSE i \in meets : \A j \in meets : i <= j
             IN  Cut(divs, divFrom, divFrom)

(* All divisions from the first to the last one that meet the range go.     *)
dropWithIPRange(divs, from, to) ==
    LET meets == {i \in 1..Len(divs) : isDevInRange(from, to, divs[i])}
    IN  IF meets = {}
        THEN divs
        ELSE LET divFrom == CHOOSE i \in meets : \A j \in meets : i <= j
                 divTo   == CHOOSE i \in meets : \A j \in meets : i >= j
             IN  Cut(divs, divFrom, divTo)

(* newCidrDivs and, if there are enough divisions, dropHeadAndTail.         *)
newCidrDivs(bits) ==
    LET offset == MaskOffset(bits)
        divs   == divideNet(bits, offset)
    IN  IF offset >= 3 THEN dropHeadAndTail(divs) ELSE divs

(* The division recommended, when one is left: divs[len(divs)/2], from 0.   *)
Middle(divs) == divs[(Len(divs) \div 2) + 1]

=============================================================================
