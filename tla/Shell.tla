------------------------------- MODULE Shell -------------------------------
(***************************************************************************)
(* The shell (user/sh.c) and init (user/init.c): the recursive-descent      *)
(* parser, runcmd() in the processes that it forks, the prompt, and the     *)
(* restart of the shell.                                                    *)
(*                                                                         *)
(* A line is a sequence of tokens; a word is known by its position.  The    *)
(* programs are a writer, a filter that copies its input to its output, and *)
(* one that exits at once; which of them a word names is chosen at exec().  *)
(* Reading from the console returns an end of file.                         *)
(***************************************************************************)
EXTENDS Naturals, Sequences, SequencesExt, FiniteSets, FiniteSetsExt

CONSTANTS
  MAXARGS,     \* length of argv[], the terminating 0 included
  NPROC,       \* slots of the process table
  NOFILE,      \* descriptors of a process
  NPIPE,       \* pipes that can exist at a time
  PIPESIZE,    \* bytes that a pipe holds
  MaxWrite,    \* bytes that a writer writes
  Scripts,     \* what may be typed: sequences of lines
  None         \* no command, no descriptor

-----------------------------------------------------------------------------
(* Parsing.  A parse function returns the command and the next position.     *)

Redirection == {"<", ">", ">>"}
Token == {"a", "|", "&", ";", "(", ")"} \cup Redirection

execcmd == [type |-> "EXEC", argv |-> <<>>]
redircmd(c, word, mode) ==
  [type |-> "REDIR", cmd |-> c, file |-> word, fd |-> IF mode = "<" THEN 0 ELSE 1, mode |-> mode]
pipecmd(l, r) == [type |-> "PIPE", left |-> l, right |-> r]
listcmd(l, r) == [type |-> "LIST", left |-> l, right |-> r]
backcmd(c) == [type |-> "BACK", cmd |-> c]

\* panic() ends the process that parses.
SyntaxPanic == [cmd |-> [type |-> "panic"], at |-> 0]
Failed(r) == r.cmd.type = "panic"

peek(s, i, toks) == i <= Len(s) /\ s[i] \in toks

RECURSIVE parse(_, _, _)
RECURSIVE parseredirs(_, _, _), parseargs(_, _, _, _), ParseBack(_, _, _), AddArg(_, _)
RECURSIVE nulterminate(_)

parseredirs(c, s, i) ==
  IF ~peek(s, i, Redirection) THEN [cmd |-> c, at |-> i]
  ELSE IF ~peek(s, i + 1, {"a"}) THEN SyntaxPanic
  ELSE parseredirs(redircmd(c, i + 1, s[i]), s, i + 2)

\* cmd->argv[argc] = q, in the EXEC node below the redirections parsed so far.
AddArg(c, q) == IF c.type = "EXEC" THEN [c EXCEPT !.argv = Append(@, q)]
                                   ELSE [c EXCEPT !.cmd = AddArg(@, q)]

\* After the redirections behind a word, the next word is argument argc.
NextArg(r, s, argc) == IF Failed(r) THEN r ELSE parseargs(r.cmd, s, r.at, argc)

\* The loop over the words of a command with one argument too many allowed.
parseargsOver(c, s, i, argc) ==
  IF i > Len(s) \/ peek(s, i, {"|", ")", "&", ";"}) THEN [cmd |-> c, at |-> i]
  ELSE IF s[i] # "a" \/ argc >= MAXARGS THEN SyntaxPanic
  ELSE NextArg(parseredirs(AddArg(c, i), s, i + 1), s, argc + 1)

\* The loop of parseexec().
parseargs(c, s, i, argc) ==
  IF i > Len(s) \/ peek(s, i, {"|", ")", "&", ";"}) THEN [cmd |-> c, at |-> i]
  ELSE IF s[i] # "a" \/ argc + 1 >= MAXARGS THEN SyntaxPanic
  ELSE NextArg(parseredirs(AddArg(c, i), s, i + 1), s, argc + 1)

CloseBlock(r, s) ==
  IF Failed(r) \/ ~peek(s, r.at, {")"}) THEN SyntaxPanic
  ELSE parseredirs(r.cmd, s, r.at + 1)

parseblock(s, i) == CloseBlock(parse("line", s, i + 1), s)

parseexec(s, i) ==
  IF peek(s, i, {"("}) THEN parseblock(s, i) ELSE NextArg(parseredirs(execcmd, s, i), s, 0)

Join(node(_, _), l, r) ==
  IF Failed(r) THEN r ELSE [cmd |-> node(l.cmd, r.cmd), at |-> r.at]

PipeRest(l, s) ==
  IF Failed(l) \/ ~peek(s, l.at, {"|"}) THEN l
  ELSE Join(pipecmd, l, parse("pipe", s, l.at + 1))

parsepipe(s, i) == PipeRest(parseexec(s, i), s)

ParseBack(c, s, i) ==
  IF peek(s, i, {"&"}) THEN ParseBack(backcmd(c), s, i + 1) ELSE [cmd |-> c, at |-> i]

ListRest(l, s) ==
  IF ~peek(s, l.at, {";"}) THEN l ELSE Join(listcmd, l, parse("line", s, l.at + 1))

LineRest(l, s) == IF Failed(l) THEN l ELSE ListRest(ParseBack(l.cmd, s, l.at), s)

parseline(s, i) == LineRest(parsepipe(s, i), s)

\* The recursive calls go through one operator.
parse(what, s, i) == IF what = "line" THEN parseline(s, i) ELSE parsepipe(s, i)

\* The words whose end nulterminate() marks.
nulterminate(c) ==
  CASE c.type = "EXEC" -> Range(c.argv)
    [] c.type = "REDIR" -> nulterminate(c.cmd) \cup {c.file}
    [] c.type \in {"PIPE", "LIST"} -> nulterminate(c.left) \cup nulterminate(c.right)
    [] c.type = "BACK" -> nulterminate(c.cmd)
    [] OTHER -> {}

\* Anything left over is a syntax error.
parsecmd(s) ==
  LET r == parseline(s, 1) IN IF r.at <= Len(s) THEN SyntaxPanic.cmd ELSE r.cmd

Parsed == [s \in UNION { Range(t) : t \in Scripts } |-> parsecmd(s)]

-----------------------------------------------------------------------------
(* What the parser should accept: the grammar                                *)
(*   line = pipe {"&"} [";" line]      pipe = exec ["|" pipe]                *)
(*   exec = {word | redir} | "(" line ")" {redir}                            *)
(* as the trees that a stretch lo .. hi of the line has.                     *)

RECURSIVE Trees(_, _, _, _)

RedirsIn(s, lo, hi) == { i \in lo .. hi : s[i] \in Redirection }
WithRedirs(c, s, lo, hi) ==
  FoldLeft(LAMBDA t, i : redircmd(t, i + 1, s[i]), c, SetToSortSeq(RedirsIn(s, lo, hi), <))
RedirsComplete(s, lo, hi) == \A i \in RedirsIn(s, lo, hi) : i < hi /\ s[i + 1] = "a"
FileWords(s, lo, hi) == { i + 1 : i \in RedirsIn(s, lo, hi) }

Simple(s, lo, hi) ==
  LET args == (lo .. hi) \ (RedirsIn(s, lo, hi) \cup FileWords(s, lo, hi))
  IN  IF /\ \A i \in lo .. hi : s[i] \in Redirection \cup {"a"}
         /\ RedirsComplete(s, lo, hi)
         /\ Cardinality(args) < MAXARGS
      THEN { WithRedirs([execcmd EXCEPT !.argv = SetToSortSeq(args, <)], s, lo, hi) } ELSE {}

Block(s, lo, hi) == UNION {
  { WithRedirs(t, s, k + 1, hi) : t \in Trees("line", s, lo + 1, k - 1) } :
    k \in { k \in lo + 1 .. hi : /\ s[lo] = "(" /\ s[k] = ")"
                                /\ RedirsComplete(s, k + 1, hi)
                                /\ (k + 1 .. hi) = RedirsIn(s, k + 1, hi) \cup FileWords(s, k + 1, hi) } }

ExecTrees(s, lo, hi) == Simple(s, lo, hi) \cup Block(s, lo, hi)

PipeTrees(s, lo, hi) == ExecTrees(s, lo, hi) \cup UNION {
  { pipecmd(l, r) : l \in ExecTrees(s, lo, k - 1), r \in Trees("pipe", s, k + 1, hi) } :
    k \in { k \in lo .. hi : s[k] = "|" } }

BackTrees(s, lo, hi) == PipeTrees(s, lo, hi) \cup
  (IF lo <= hi /\ s[hi] = "&" THEN { backcmd(t) : t \in Trees("back", s, lo, hi - 1) } ELSE {})

LineTrees(s, lo, hi) == BackTrees(s, lo, hi) \cup UNION {
  { listcmd(l, r) : l \in BackTrees(s, lo, k - 1), r \in Trees("line", s, k + 1, hi) } :
    k \in { k \in lo .. hi : s[k] = ";" } }

Trees(what, s, lo, hi) ==
  CASE what = "line" -> LineTrees(s, lo, hi)
    [] what = "back" -> BackTrees(s, lo, hi)
    [] what = "pipe" -> PipeTrees(s, lo, hi)

-----------------------------------------------------------------------------
(* The processes. *)

Pid == 1 .. NPROC
Initpid == 1
Fd == 0 .. NOFILE - 1

VARIABLES
  proc,    \* the process table; a slot stands for the pid
  bytes,   \* bytes in each pipe
  line,    \* buf of the shell
  input,   \* the lines that are still to be typed
  shell    \* the pid that init remembers of the shell

shvars == <<proc, bytes, line, input, shell>>

\* A process: where it is in its program, the command that runcmd() works on, the
\* variable p of runcmd(), its descriptors, and what a program still has to write.
Unused == [st |-> "UNUSED", parent |-> None, pc |-> "", cmd |-> None, p |-> <<>>,
           fd |-> [d \in Fd |-> None], left |-> 0]
Console == [on |-> "console"]
Read(n) == [on |-> "read", pipe |-> n]
Write(n) == [on |-> "write", pipe |-> n]

\* When init exits the kernel panics.
Live(p) == proc[p].st = "LIVE" /\ proc[Initpid].pc # "exited"
At(p, pc) == Live(p) /\ proc[p].pc = pc
AtCmd(p, type) == At(p, "run") /\ proc[p].cmd.type = type
Children(p) == { q \in Pid : proc[q].st # "UNUSED" /\ proc[q].parent = p }
Zombies(p) == { q \in Children(p) : proc[q].st = "ZOMBIE" }
Free == { p \in Pid : proc[p].st = "UNUSED" }

\* The descriptors that hold an object, and the pipes that nobody holds.
Held(o) == \E p \in Pid, d \in Fd : proc[p].fd[d] = o
FreePipes == { n \in 1 .. NPIPE : ~Held(Read(n)) /\ ~Held(Write(n)) }

FreeFds(fd) == { d \in Fd : fd[d] = None }
open(fd, o) == [fd EXCEPT ![Min(FreeFds(fd))] = o]
close(fd, d) == [fd EXCEPT ![d] = None]
dup(fd, d) == open(fd, fd[d])

\* init has opened the console and is about to start the shell.
ShInit ==
  /\ proc = [p \in Pid |-> IF p # Initpid THEN Unused ELSE
       [Unused EXCEPT !.st = "LIVE", !.pc = "start",
                      !.fd = [d \in Fd |-> IF d < 3 THEN Console ELSE None]]]
  /\ bytes = [n \in 1 .. NPIPE |-> 0]
  /\ line = <<>> /\ input \in Scripts /\ shell = None

Become(p, rec) ==
  /\ proc' = [proc EXCEPT ![p] = rec]
  /\ UNCHANGED <<bytes, line, input, shell>>

\* exit(): descriptors are closed and children go to init.
Exit(p) ==
  /\ proc' = [q \in Pid |->
       IF q = p THEN [Unused EXCEPT !.st = "ZOMBIE", !.parent = proc[p].parent]
       ELSE IF q \in Children(p) THEN [proc[q] EXCEPT !.parent = Initpid] ELSE proc[q]]
  /\ UNCHANGED <<bytes, line, input, shell>>

\* fork1(): the child is a copy that goes on as child; without a slot panic() exits.
fork1(p, child, parent) ==
  IF Free = {} THEN Exit(p)
  ELSE /\ proc' = [proc EXCEPT ![p] = parent, ![Min(Free)] = [child EXCEPT !.parent = p]]
       /\ UNCHANGED <<bytes, line, input, shell>>

\* wait(0) takes any child that has exited, and fails without children.
wait(p, rec) ==
  IF Children(p) = {} THEN Become(p, rec)
  ELSE \E q \in Zombies(p) :
    /\ proc' = [proc EXCEPT ![p] = rec, ![q] = Unused]
    /\ UNCHANGED <<bytes, line, input, shell>>

-----------------------------------------------------------------------------
(* runcmd(). *)

\* EXEC: the program of argv[0] replaces the shell, unless there is none.
RunExec(p) ==
  /\ AtCmd(p, "EXEC")
  /\ \/ proc[p].cmd.argv # <<>> /\ \E prog \in {"writer", "filter", "quit"} :
          Become(p, [proc[p] EXCEPT !.pc = prog, !.cmd = None,
                                    !.left = IF prog = "writer" THEN MaxWrite ELSE 0])
     \/ Exit(p)

RunRedir(p) == LET c == proc[p].cmd IN
  /\ AtCmd(p, "REDIR")
  /\ \/ Become(p, [proc[p] EXCEPT !.fd = open(close(@, c.fd), [on |-> "file", word |-> c.file]),
                                  !.cmd = c.cmd])
     \/ Exit(p)

RunList(p) ==
  /\ AtCmd(p, "LIST")
  /\ fork1(p, [proc[p] EXCEPT !.cmd = @.left], [proc[p] EXCEPT !.pc = "list"])

ListWait(p) ==
  /\ At(p, "list")
  /\ wait(p, [proc[p] EXCEPT !.pc = "run", !.cmd = @.right])

\* PIPE: pipe(p) takes the two lowest descriptors.
RunPipe(p) == LET n == Min(FreePipes)
                  r == Min(FreeFds(proc[p].fd))
                  w == Min(FreeFds(proc[p].fd) \ {r}) IN
  /\ AtCmd(p, "PIPE")
  /\ IF FreePipes = {} \/ Cardinality(FreeFds(proc[p].fd)) < 2 THEN Exit(p) ELSE
     /\ proc' = [proc EXCEPT ![p].fd = [@ EXCEPT ![r] = Read(n), ![w] = Write(n)],
                             ![p].p = <<r, w>>, ![p].pc = "fork left"]
     /\ bytes' = [bytes EXCEPT ![n] = 0]
     /\ UNCHANGED <<line, input, shell>>

ForkLeft(p) ==
  /\ At(p, "fork left")
  /\ fork1(p, [proc[p] EXCEPT !.pc = "be left"], [proc[p] EXCEPT !.pc = "fork right"])

ForkRight(p) ==
  /\ At(p, "fork right")
  /\ fork1(p, [proc[p] EXCEPT !.pc = "be right"], [proc[p] EXCEPT !.pc = "close"])

CloseBoth(fd, p) == close(close(fd, p[1]), p[2])

\* The left child forgets to close the pipe's own descriptors.
LeftChildOpen(p) == LET rec == proc[p] IN
  /\ At(p, "be left")
  /\ Become(p, [rec EXCEPT !.fd = dup(close(@, 1), rec.p[2]),
                           !.p = <<>>, !.pc = "run", !.cmd = @.left])

\* The children make one end their standard output or input.
LeftChild(p) == LET rec == proc[p] IN
  /\ At(p, "be left")
  /\ Become(p, [rec EXCEPT !.fd = CloseBoth(dup(close(@, 1), rec.p[2]), rec.p),
                           !.p = <<>>, !.pc = "run", !.cmd = @.left])

RightChild(p) == LET rec == proc[p] IN
  /\ At(p, "be right")
  /\ Become(p, [rec EXCEPT !.fd = CloseBoth(dup(close(@, 0), rec.p[1]), rec.p),
                           !.p = <<>>, !.pc = "run", !.cmd = @.right])

\* A runcmd() that waits for its pipeline with the ends still open.
PipeCloseNot(p) == LET rec == proc[p] IN
  /\ At(p, "close")
  /\ Become(p, [rec EXCEPT !.pc = "wait 2"])

PipeClose(p) == LET rec == proc[p] IN
  /\ At(p, "close")
  /\ Become(p, [rec EXCEPT !.fd = CloseBoth(@, rec.p), !.p = <<>>, !.pc = "wait 2"])

PipeWait(p) ==
  \/ At(p, "wait 2") /\ wait(p, [proc[p] EXCEPT !.pc = "wait 1"])
  \/ At(p, "wait 1") /\ wait(p, [proc[p] EXCEPT !.pc = "done"])

\* BACK: nobody waits for the command.
RunBack(p) ==
  /\ AtCmd(p, "BACK")
  /\ fork1(p, [proc[p] EXCEPT !.cmd = @.cmd], [proc[p] EXCEPT !.pc = "done"])

Done(p) == At(p, "done") /\ Exit(p)

Runcmd(p) ==
  \/ RunExec(p) \/ RunRedir(p) \/ RunList(p) \/ ListWait(p) \/ RunPipe(p) \/ ForkLeft(p)
  \/ ForkRight(p) \/ LeftChild(p) \/ RightChild(p) \/ PipeClose(p) \/ PipeWait(p)
  \/ RunBack(p) \/ Done(p)

-----------------------------------------------------------------------------
(* The programs that the commands name, on the kernel's pipes. *)

\* write(1, ...) blocks on a full pipe and fails when nobody can read it.
Put(p, rec) == LET o == proc[p].fd[1] IN
  IF o.on # "write" THEN Become(p, rec)
  ELSE IF ~Held(Read(o.pipe)) THEN Exit(p)
  ELSE /\ bytes[o.pipe] < PIPESIZE
       /\ bytes' = [bytes EXCEPT ![o.pipe] = @ + 1]
       /\ proc' = [proc EXCEPT ![p] = rec]
       /\ UNCHANGED <<line, input, shell>>

WriterStep(p) ==
  /\ At(p, "writer")
  /\ IF proc[p].left = 0 THEN Exit(p) ELSE Put(p, [proc[p] EXCEPT !.left = @ - 1])

\* read(0, ...) blocks on an empty pipe that somebody can still write to.
FilterRead(p) == LET o == proc[p].fd[0] IN
  /\ At(p, "filter")
  /\ IF o.on # "read" THEN Exit(p)
     ELSE \/ /\ bytes[o.pipe] > 0
             /\ bytes' = [bytes EXCEPT ![o.pipe] = @ - 1]
             /\ proc' = [proc EXCEPT ![p].pc = "copy"]
             /\ UNCHANGED <<line, input, shell>>
          \/ bytes[o.pipe] = 0 /\ ~Held(Write(o.pipe)) /\ Exit(p)

FilterWrite(p) == At(p, "copy") /\ Put(p, [proc[p] EXCEPT !.pc = "filter"])

QuitStep(p) == At(p, "quit") /\ Exit(p)

Program(p) == WriterStep(p) \/ FilterRead(p) \/ FilterWrite(p) \/ QuitStep(p)

-----------------------------------------------------------------------------
(* main() of the shell and of init. *)

\* getcmd(): a line; the end of file ends the shell.
Getcmd(p) ==
  /\ At(p, "prompt")
  /\ input # <<>>
  /\ line' = Head(input) /\ input' = Tail(input)
  /\ proc' = [proc EXCEPT ![p].pc = "got"]
  /\ UNCHANGED <<bytes, shell>>

GetcmdEof(p) == At(p, "prompt") /\ input = <<>> /\ Exit(p)

\* A blank line is skipped, as is cd, which changes only the shell's own directory;
\* otherwise a child parses and runs the line.
RunLine(p) ==
  /\ At(p, "got")
  /\ IF line = <<>> THEN Become(p, [proc[p] EXCEPT !.pc = "prompt"])
     ELSE fork1(p, [proc[p] EXCEPT !.pc = "parse"], [proc[p] EXCEPT !.pc = "sh wait"])

Parse(p) == LET c == Parsed[line] IN
  /\ At(p, "parse")
  /\ IF c.type = "panic" THEN Exit(p) ELSE Become(p, [proc[p] EXCEPT !.pc = "run", !.cmd = c])

ShWait(p) == At(p, "sh wait") /\ wait(p, [proc[p] EXCEPT !.pc = "prompt"])

\* init forks the child that becomes the shell, and exits when it cannot.
InitFork == LET p == Initpid IN
  /\ At(p, "start")
  /\ IF Free = {} THEN Become(p, [proc[p] EXCEPT !.pc = "exited"])
     ELSE /\ proc' = [proc EXCEPT ![p].pc = "init wait",
                                  ![Min(Free)] = [proc[p] EXCEPT !.pc = "exec sh", !.parent = p]]
          /\ shell' = Min(Free)
          /\ UNCHANGED <<bytes, line, input>>

\* exec("sh") may fail; main() of the shell opens the console until three
\* descriptors are open, which they are.
ExecSh(p) ==
  /\ At(p, "exec sh")
  /\ Become(p, [proc[p] EXCEPT !.pc = "prompt"]) \/ Exit(p)

\* An init that waits for its shell only.
InitWaitShell == LET p == Initpid IN
  /\ At(p, "init wait")
  /\ IF Children(p) = {} THEN Become(p, [proc[p] EXCEPT !.pc = "exited"])
     ELSE /\ shell \in Zombies(p)
          /\ proc' = [proc EXCEPT ![shell] = Unused, ![p].pc = "start"]
          /\ UNCHANGED <<bytes, line, input, shell>>

\* wait() of init: the shell, which it starts again, or a process without a parent.
InitWait == LET p == Initpid IN
  /\ At(p, "init wait")
  /\ IF Children(p) = {} THEN Become(p, [proc[p] EXCEPT !.pc = "exited"])
     ELSE \E q \in Zombies(p) :
       /\ proc' = [proc EXCEPT ![q] = Unused,
                               ![p].pc = IF q = shell THEN "start" ELSE "init wait"]
       /\ UNCHANGED <<bytes, line, input, shell>>

Main(p) == RunLine(p) \/ Parse(p) \/ ShWait(p) \/ ExecSh(p)

ShNext ==
  \/ \E p \in Pid : Runcmd(p) \/ Program(p) \/ Main(p) \/ Getcmd(p) \/ GetcmdEof(p)
  \/ InitFork \/ InitWait

\* Every process that can go on does; nobody has to type.
ShFairness ==
  /\ \A p \in Pid : WF_shvars(Runcmd(p) \/ Program(p) \/ Main(p))
  /\ WF_shvars(InitFork \/ InitWait)

ShSpec == ShInit /\ [][ShNext]_shvars /\ ShFairness

-----------------------------------------------------------------------------
(* Properties. *)

\* parsecmd() finds the one tree that the grammar gives a line, panics exactly when
\* there is none, and nulterminate() ends every word of it.
ParsedLikeGrammar(s) == LET c == parsecmd(s) IN
  IF c.type = "panic" THEN LineTrees(s, 1, Len(s)) = {}
  ELSE /\ LineTrees(s, 1, Len(s)) = {c}
       /\ nulterminate(c) = { i \in 1 .. Len(s) : s[i] = "a" }

\* Programs start and run with their three standard descriptors and nothing else:
\* runcmd() leaks no end of a pipe, which would hide the end of file from its reader.
StdFdsOnly == \A p \in Pid : proc[p].pc \in {"writer", "filter", "copy", "quit"} =>
  { d \in Fd : proc[p].fd[d] # None } = 0 .. 2

\* wait(0) does not say for whom: it is right because a process that waits has exactly
\* the children it waits for, and the shell at its prompt has none, whatever runs in
\* the background and whatever failed.
ChildrenAwaited == \A p \in Pid : LET n == Cardinality(Children(p)) IN
  /\ proc[p].pc \in {"sh wait", "list", "wait 1"} => n = 1
  /\ proc[p].pc = "wait 2" => n = 2
  /\ proc[p].pc \in {"prompt", "got"} => n = 0

\* init keeps one shell: another one only after it has reaped the last.
OneShell ==
  /\ Cardinality({ p \in Pid : proc[p].pc \in {"exec sh", "prompt", "got", "sh wait"} }) <= 1
  /\ proc[Initpid].pc = "init wait" => proc[shell].parent = Initpid

\* The prompt comes back: a foreground command ends when its programs do, in every
\* pipeline, also when a program stops reading early or a fork fails.
PromptReturns ==
  (\E p \in Pid : At(p, "sh wait")) ~> ~(\E p \in Pid : At(p, "sh wait"))

\* What ran in the background is reaped by init in the end, unless shells go on
\* ending one after the other.
ZombiesReaped ==
  <>[](\E p \in Pid : proc[p].pc \in {"prompt", "got", "sh wait"})
    => []<>(\A p \in Pid : proc[p].st = "ZOMBIE" => proc[p].parent # Initpid)
=============================================================================
