----------------------------- MODULE MCPrograms -----------------------------
(***************************************************************************)
(* The user programs, mkfs and exec() in one run.  They share no state:     *)
(* each behaviour is one of one part, while the others stay in an initial   *)
(* state.  The state spaces add up.                                         *)
(***************************************************************************)
EXTENDS Shell

CONSTANTS
  HDR, NALLOC, HeapTop, MaxBytes,                                   \* Umalloc
  BUFSZ, FileArgs, Patterns, Texts,                                 \* Filters
  BSIZE, NDIRECT, NINDIRECT, FSSIZE, NMETA, Inputs,                 \* Mkfs
  W, PGSIZE, NFRAME, AddrSpace, MAXARG, USERSTACK, ALIGN,           \* Exec
  Programs, Argvs, MaxCalls

VARIABLES
  part,                                                             \* which one runs
  typed,                                                            \* a line to be parsed
  arena, allocated,
  prog, argv, file, rest, buf, count, out, lost, status,
  files, arg, left, disk, inode, freeinode, freeblock, bitmap, mkpc,
  mem, tf, image, call, before, calls

U == INSTANCE Umalloc
F == INSTANCE Filters
M == INSTANCE Mkfs
X == INSTANCE Exec

umVars == <<arena, allocated>>
fiVars == <<prog, argv, file, rest, buf, count, out, lost, status>>
mkVars == <<files, arg, left, disk, inode, freeinode, freeblock, bitmap, mkpc>>
exVars == <<mem, tf, image, call, before, calls>>

Some(S) == CHOOSE x \in S : TRUE
UpTo(S, n) == UNION { [1 .. i -> S] : i \in 0 .. n }

(* Instances. *)

MCScripts == {
  <<<<"(", "a", "&", ";", "a", ">", "a", ")", "|", "a">>>>,
  <<<<"a", "|", "a", "|", "a">>>>,
  <<<<"a", "|", "a", "|", "a", "|", "a">>>>,
  <<<<"a", "|", "a", "&">>, <<"a">>>>,
  <<<<"a", ")">>, <<>>, <<"a", "<", "a", ";", "a">>>> }
MCFileArgs == {
  <<<<"a", "nl", "b">>, <<"a", " ", "b", "nl">>>>,
  <<<<"nl", "a", "a", "nl", "b", "nl">>>>,
  <<<<"a", "b", " ", "a", "nl">>, <<"b", "nl">>>> }
MCPatterns == UpTo({"a", ".", "*", "^", "$"}, 3)
MCTexts == UpTo({"a", "b", "$"}, 3)
File(name, n) == [name |-> name, data |-> [i \in 1 .. n |-> i]]
MCInputs == { <<File("a", i), File("b", j)>> : i \in 0 .. 9, j \in 0 .. 5 }
            \cup {<<File("a", 1), File("b", 2), File("c", 3), File("d", 1)>>}
Seg(vaddr, memsz, filesz, w) ==
  [load |-> TRUE, vaddr |-> vaddr, memsz |-> memsz, filesz |-> filesz, w |-> w]
Elf(segs) == [elf |-> TRUE, segs |-> segs]
MCProgs == {
  [elf |-> FALSE, segs |-> <<>>],
  Elf(<<Seg(0, 3, 3, FALSE), Seg(4, 5, 1, TRUE)>>),                 \* text and data
  Elf(<<Seg(0, 6, 6, FALSE), [Seg(0, 0, 0, FALSE) EXCEPT !.load = FALSE], Seg(4, 2, 2, FALSE)>>),
  Elf(<<Seg(0, 4, 4, FALSE), Seg(60, 8, 2, FALSE)>>),               \* wraps
  Elf(<<Seg(0, 0, 0, FALSE)>>),                                     \* empty
  Elf(<<Seg(4, 4, 4, FALSE), Seg(8, 2, 3, FALSE)>>),                \* memsz < filesz
  Elf(<<Seg(4, 2, 2, FALSE), Seg(9, 2, 2, FALSE)>>) }               \* not aligned
MCArgvs == {<<>>, <<2, 1>>, <<1, 1, 1>>, <<4, 4>>}

MCInit ==
  /\ part \in {"shell", "parser", "malloc", "filter", "mkfs", "exec"}
  /\ ShInit /\ (part # "shell" => input = Some(Scripts))
  /\ U!UmInit
  /\ F!FiInit /\ (part # "filter" => prog.name = "cat" /\ argv = Some(FileArgs))
  /\ M!MkInit /\ (part # "mkfs" => files = Some(Inputs))
  /\ X!ExInit
  /\ typed \in IF part = "parser" THEN UpTo(Token, 4) ELSE {<<>>}

MCNext ==
  /\ UNCHANGED <<part, typed>>
  /\ \/ part = "shell" /\ ShNext /\ UNCHANGED <<umVars, fiVars, mkVars, exVars>>
     \/ part = "malloc" /\ U!UmNext /\ UNCHANGED <<shvars, fiVars, mkVars, exVars>>
     \/ part = "filter" /\ F!FiNext /\ UNCHANGED <<shvars, umVars, mkVars, exVars>>
     \/ part = "mkfs" /\ M!MkNext /\ UNCHANGED <<shvars, umVars, fiVars, exVars>>
     \/ part = "exec" /\ X!ExNext /\ UNCHANGED <<shvars, umVars, fiVars, mkVars>>

MCSpec ==
  MCInit /\ [][MCNext]_<<part, typed, shvars, umVars, fiVars, mkVars, exVars>> /\ ShFairness

(* Properties of the parts. *)

\* parsecmd() gives every line of up to four tokens, and every line of the scripts, the
\* one tree that the grammar of sh.c gives it.
ParsesLikeGrammar == ParsedLikeGrammar(typed) /\ ParsedLikeGrammar(line)

\* Programs run with three descriptors, every wait(0) of the shell has the children it
\* is for, and init keeps one shell.
ProcessesRight == StdFdsOnly /\ ChildrenAwaited /\ OneShell

\* The free list of malloc() is one circle in order of addresses, and free and
\* allocated blocks tile what sbrk() gave: nothing is lost or handed out twice.
HeapSound == U!HeapSound

\* match() of grep.c finds exactly the texts that its pattern describes.
MatcherExact == F!MatcherExact

\* What cat, wc and grep write does not depend on how read() cuts their input.
OutputWhole == F!OutputWhole

\* iappend() of mkfs gives a block to one place only, the bitmap marks all of them, and
\* files and root directory read back as they were given.
ImageSound == M!ImageSound

\* exec() neither leaks nor shares a frame, on any of its paths, and afterwards the
\* frame table agrees with the page table.
FramesAccounted == X!FramesAccounted

\* exec() leaves the old image as it was until it can no longer fail, ends its
\* transaction and lets go of the inode exactly once, and reaches none of the panics of
\* the page-table code.
AllOrNothing == X!AllOrNothing

\* exec() puts the arguments into the new stack, above its guard page.
StackSound == X!StackSound
=============================================================================
