-------------------------------- MODULE Acpi --------------------------------
(***************************************************************************)
(* What the kernel is told when it starts: the bootloader's tags           *)
(* (stivale2_get_tag in kernel.c) and the ACPI tables (acpi/acpi.c).       *)
(*                                                                         *)
(* A table is a record: signature, length in bytes, sum of its bytes, and  *)
(* for a root table the addresses in it.  Addresses are model values, and  *)
(* the contents of a table are its own business.                           *)
(***************************************************************************)
EXTENDS Integers, Sequences, FiniteSetsExt

CONSTANTS
    IntSpan,    \* values of an int
    NULL        \* no address

\* A power of two in C; this is what matters here.
ASSUME AcpiConstants == IntSpan \in Nat /\ IntSpan % 8 = 0 /\ IntSpan >= 64

\* A size_t is twice as wide as an int.
SizeSpan == IntSpan * IntSpan

\* Assigning a size_t to an int.
ToInt(n) == LET low == n % IntSpan
            IN  IF low >= IntSpan \div 2 THEN low - IntSpan ELSE low

\* stivale2_get_tag: the list of tags is a sequence; the first that matches.
stivale2_get_tag(tags, id) ==
    LET hits == {i \in DOMAIN tags : tags[i].identifier = id}
    IN  IF hits = {} THEN NULL ELSE tags[Min(hits)].value

-----------------------------------------------------------------------------
(* Checksums. *)

\* Mutant: the second half of the table is not part of the checksum.
ValidateRsdpChecksumV1(rsdp) == rsdp.sum1 % 256 = 0

\* sum1 and sum2 are the sums of the first 20 bytes and of the other 16.
ValidateRsdpChecksum(rsdp) ==
    /\ rsdp.sum1 % 256 = 0
    /\ rsdp.revision # 0 => (rsdp.sum1 + rsdp.sum2) % 256 = 0

ValidateSdtChecksum(table) == table.sum % 256 = 0

-----------------------------------------------------------------------------
(* The root table. *)

\* The static SDT_HEAD before InitSdt.
NoSdt == [length |-> 0, next |-> <<>>, uses_xsdt |-> FALSE]

\* InitSdt: an extended table is used from revision 2 on.  Whether the root
\* table is valid is computed and returned, but nobody looks at it.
InitSdt(rsdp, tables) ==
    LET uses_xsdt == rsdp.revision >= 2
        root == tables[IF uses_xsdt THEN rsdp.xsdt_addr ELSE rsdp.rsdt_addr]
    IN  [length |-> root.length, next |-> root.next, uses_xsdt |-> uses_xsdt]

\* InitAcpi, InitRsdp: SDT_HEAD afterwards.
InitAcpi(rsdp, tables) ==
    IF ValidateRsdpChecksum(rsdp) THEN InitSdt(rsdp, tables) ELSE NoSdt

\* The header of a table has 36 bytes.  A shorter length wraps around.
num_entries(sdt) ==
    ToInt(((sdt.length - 36) % SizeSpan) \div (IF sdt.uses_xsdt THEN 8 ELSE 4))

\* The address of the first valid table with that signature.
FindTable(sdt, tables, table_id) ==
    LET hits == {i \in 1 .. num_entries(sdt) :
                    LET table == tables[sdt.next[i]]
                    IN  table.signature = table_id /\ ValidateSdtChecksum(table)}
    IN  IF hits = {} THEN NULL ELSE sdt.next[Min(hits)]
=============================================================================
