----------------------------- MODULE MCPrograms -----------------------------
(***************************************************************************)
(* 4 GiB are 48 pages, in three regions, with two pages of memory above.   *)
(* The higher half starts at page 64, the kernel at 128.  Frames come from *)
(* page 8 on; a range of the bootloader is next to the program, the frame  *)
(* buffer in the region of the stack.                                      *)
(***************************************************************************)
EXTENDS Programs

Memory ==
    <<[base |-> 8, bound |-> 40, type |-> "USABLE"],
      [base |-> 14, bound |-> 15, type |-> "BOOTLOADER_RECLAIMABLE"],
      [base |-> 40, bound |-> 42, type |-> "FRAMEBUFFER"],
      [base |-> 48, bound |-> 50, type |-> "USABLE"]>>

AnyLimit == 0 .. 38

Pages48 == 0 .. 49 \cup 64 .. 113 \cup 128 .. 130
KernelRanges == <<[base |-> 128, length |-> 2], [base |-> 130, length |-> 1]>>
KernelBase == [physical_base_address |-> 4, virtual_base_address |-> 128]

Segment(type, offset, vaddr, size) ==
    [type |-> type, offset |-> offset, vaddr |-> vaddr, file_size |-> size,
     mem_size |-> size]

\* Two units per page: the first segment fills page 1, the second page 3 and
\* half of page 4.
Aligned ==
    [magic |-> TRUE, size |-> 5,
     phdrs |-> <<Segment("LOAD", 0, 2, 2), Segment("NOTE", 1, 0, 1),
                 Segment("LOAD", 2, 6, 3)>>]

\* As the program in iso_root/initrd.ustar is: the second segment starts where
\* the first ends in the file, and in the middle of a page.
Packed ==
    [magic |-> TRUE, size |-> 2,
     phdrs |-> <<Segment("LOAD", 0, 2, 1), Segment("LOAD", 1, 5, 1)>>]

Entry(name, type, len, image) ==
    [name |-> name, type |-> type, len |-> len, elf |-> image]
File(name, len, image) == Entry(name, "USTAR_REGULAR", len, image)
Dir(name) == Entry(name, "USTAR_DIR", 0, NoFile)
Fetch(image) == File("fetch.elf", 511, image)

Disk(files) == <<[string |-> "other", begin |-> <<Zero>>],
                 [string |-> "initrd", begin |-> Blocks(files)]>>

\* The program as it is; with directories or another file in front, another
\* file behind, twice; a file that is no program, one too large for the heap,
\* a disk with a directory and a file of the same name only, and no disk.
Disks ==
    {Disk(<<Fetch(Packed)>>),
     Disk(<<File("fetch.elf", 512, Aligned), File("readme", 1, NoFile)>>),
     Disk(<<Dir("."), Dir("userspace"), Fetch(Aligned), Fetch(Packed)>>),
     Disk(<<File("readme", 1, NoFile), Fetch(Aligned)>>),
     Disk(<<Fetch(NoFile)>>),
     Disk(<<File("fetch.elf", 8184, Aligned)>>),
     Disk(<<Dir("."), File(".", 0, NoFile)>>),
     <<[string |-> "other", begin |-> <<Zero>>]>>}
=============================================================================
