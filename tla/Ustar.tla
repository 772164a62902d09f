------------------------------- MODULE Ustar --------------------------------
(***************************************************************************)
(* The reader of the initial ram disk (vfs/ustar.c).  An archive is a      *)
(* sequence of 512-byte blocks: the header of each file, the blocks of the *)
(* file behind it, and two zero blocks at the end.                         *)
(***************************************************************************)
EXTENDS Integers, SequencesExt

BLOCK_SIZE == 512

\* A file: its name, its length in bytes (0 for a directory) and its type.
Header(file) == [kind |-> "ustar", file |-> file]
Data(file, i) == [kind |-> "data", file |-> file, i |-> i]
Zero == [kind |-> "zero"]

\* Null pointers to blocks, and to results.
Nothing == <<>>
NULLDIR == [arr_size |-> 0]

\* The length rounded up to blocks.
NumBlocks(file) ==
    file.len \div BLOCK_SIZE + (IF file.len % BLOCK_SIZE = 0 THEN 0 ELSE 1)

\* The blocks of an archive that holds these files.
Blocks(files) ==
    FoldLeft(LAMBDA bs, f : bs \o <<Header(f)>> \o [i \in 1 .. NumBlocks(f) |-> Data(f, i)],
             <<>>, files)
      \o <<Zero, Zero>>

\* ustar_from_module: the first module of that name, NULL for none.
ustar_from_module(mods, name) ==
    IF \E i \in DOMAIN mods : mods[i].string = name
    THEN SelectSeq(mods, LAMBDA mod : mod.string = name)[1].begin
    ELSE Nothing

\* The step to the next header counts the blocks of the file, one at least,
\* but not its header.
NextHeader(blocks, p) ==
    p + (IF NumBlocks(blocks[p].file) > 0 THEN NumBlocks(blocks[p].file) ELSE 1)

\* Where the loop stands before its nth turn.
Turn(blocks, n) ==
    LET at[k \in 1 .. n] == IF k = 1 THEN 1 ELSE NextHeader(blocks, at[k - 1])
    IN  at[n]

\* The loop ends at a block without the signature.  Turns counts the turns it
\* takes, each at a header.
Turns(blocks) ==
    LET seen[n \in 1 .. Len(blocks)] ==
          IF blocks[Turn(blocks, n)].kind # "ustar" THEN n - 1
          ELSE IF n = Len(blocks) THEN n ELSE seen[n + 1]
    IN  seen[1]

\* Mutant: the data returned starts at the header.
ustar_readHeader(blocks, name) ==
    LET hits == {n \in 1 .. Turns(blocks) : blocks[Turn(blocks, n)].file.name = name}
        p == Turn(blocks, CHOOSE n \in hits : \A k \in hits : n <= k)
    IN  IF hits = {} THEN Nothing
        ELSE SubSeq(blocks, p, p + NumBlocks(blocks[p].file) - 1)

\* ustar_read: the data behind the first header met that has the name.
ustar_read(blocks, name) ==
    LET hits == {n \in 1 .. Turns(blocks) : blocks[Turn(blocks, n)].file.name = name}
        p == Turn(blocks, CHOOSE n \in hits : \A k \in hits : n <= k)
    IN  IF hits = {} THEN Nothing
        ELSE SubSeq(blocks, p + 1, p + NumBlocks(blocks[p].file))

\* Where the copy of len bytes goes, counted from the start of the memory that
\* kalloc returned: res is kalloc(len) + 1.
Written(len) == 1 .. len

\* The slots that the array of results has for the nth of them: it is doubled
\* when more than that many, without this one, have been stored.
ArraySize(n) ==
    LET size[k \in 0 .. n] ==
          IF k = 0 THEN 1
          ELSE IF k - 1 > size[k - 1] THEN 2 * size[k - 1] ELSE size[k - 1]
    IN  size[n]

\* ustar_readdir: the headers of that name met, if a directory is among them;
\* the directory itself is not a result.  The nth result is stored in slot n,
\* counted from 0, of an array of so many.
ustar_readdir(blocks, dirname) ==
    LET met == [n \in 1 .. Turns(blocks) |-> blocks[Turn(blocks, n)].file]
        named == SelectSeq(met, LAMBDA file : file.name = dirname)
        isDir(file) == file.type = "USTAR_DIR"
        results == SelectSeq(named, LAMBDA file : ~isDir(file))
    IN  IF \E n \in DOMAIN named : isDir(named[n])
        THEN [results |-> results, arr_size |-> ArraySize(Len(results))]
        ELSE NULLDIR
=============================================================================
