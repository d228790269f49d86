------------------------------ MODULE Filters ------------------------------
(***************************************************************************)
(* The programs that read their input in pieces: user/cat.c, user/wc.c and  *)
(* user/grep.c with its matcher.  read() returns any part of what is left,  *)
(* as it does for pipes and the console.                                    *)
(***************************************************************************)
EXTENDS Naturals, Sequences, SequencesExt, FiniteSetsExt

CONSTANTS
  BUFSZ,      \* sizeof(buf)
  FileArgs,   \* the files that may be named: sequences of contents
  Patterns,   \* regular expressions
  Texts       \* lines that the matcher is tried on

NL == "nl"
Space == {" ", NL}

VARIABLES
  prog,      \* the program and, for grep, its pattern
  argv,      \* contents of the files
  file,      \* index of the file being read
  rest,      \* what is left of it
  buf,       \* the beginning of a line that grep keeps
  count,     \* l, w, c and inword of wc
  out,       \* what was written to standard output
  lost,      \* a failed read or write that grep did not notice
  status     \* "open", "read", "done" or "failed"

fivars == <<prog, argv, file, rest, buf, count, out, lost, status>>

-----------------------------------------------------------------------------
(* The matcher of grep.c. *)

RECURSIVE matchhere(_, _), matchstar(_, _, _)

matchhere(re, text) ==
  IF re = <<>> THEN TRUE
  ELSE IF Len(re) > 1 /\ re[2] = "*" THEN matchstar(re[1], SubSeq(re, 3, Len(re)), text)
  ELSE IF re = <<"$">> THEN text = <<>>
  ELSE /\ text # <<>> /\ re[1] \in {".", Head(text)}
       /\ matchhere(Tail(re), Tail(text))

\* A matchstar() that needs at least one character.
matchstarPlus(c, re, text) ==
  /\ text # <<>> /\ c \in {".", Head(text)}
  /\ matchhere(re, Tail(text)) \/ matchstar(c, re, Tail(text))

matchstar(c, re, text) ==
  \/ matchhere(re, text)
  \/ text # <<>> /\ c \in {".", Head(text)} /\ matchstar(c, re, Tail(text))

match(re, text) ==
  IF re # <<>> /\ re[1] = "^" THEN matchhere(Tail(re), text)
  ELSE \E i \in 1 .. Len(text) + 1 : matchhere(re, SubSeq(text, i, Len(text)))

-----------------------------------------------------------------------------
(* The programs. *)

NoCount == [l |-> 0, w |-> 0, c |-> 0, inword |-> FALSE]

FiInit ==
  /\ prog \in { [name |-> n, pattern |-> <<>>] : n \in {"cat", "wc"} }
              \cup { [name |-> "grep", pattern |-> re] : re \in Patterns }
  /\ argv \in FileArgs
  /\ file = 1 /\ rest = <<>> /\ buf = <<>> /\ count = NoCount /\ out = <<>> /\ lost = FALSE /\ status = "open"

\* The body of wc's loop.
Count(n, ch) == [l |-> IF ch = NL THEN n.l + 1 ELSE n.l,
                 w |-> IF ch \notin Space /\ ~n.inword THEN n.w + 1 ELSE n.w,
                 c |-> n.c + 1,
                 inword |-> ch \notin Space]

\* The end of the last complete line of a buffer.
LastNL(b) == Max({0} \cup { i \in 1 .. Len(b) : b[i] = NL })

RECURSIVE Lines(_)

\* The complete lines at the beginning of a buffer, without their newlines.
Lines(b) ==
  IF \A i \in 1 .. Len(b) : b[i] # NL THEN <<>>
  ELSE LET q == Min({ i \in 1 .. Len(b) : b[i] = NL })
       IN  <<SubSeq(b, 1, q - 1)>> \o Lines(SubSeq(b, q + 1, Len(b)))

Matching(re, lines) ==
  FlattenSeq([i \in 1 .. Len(lines) |-> IF match(re, lines[i]) THEN Append(lines[i], NL) ELSE <<>>])

\* How much read() is asked for: grep keeps a byte for the '\0' and the line it has.
Room == IF prog.name = "grep" THEN BUFSZ - Len(buf) - 1 ELSE BUFSZ

\* main() opens the next file, or has read them all.
Open ==
  /\ status = "open"
  /\ IF file > Len(argv) THEN status' = "done" /\ UNCHANGED rest
     ELSE \/ status' = "failed" /\ UNCHANGED rest
          \/ status' = "read" /\ rest' = argv[file]
  /\ UNCHANGED <<prog, argv, file, buf, count, out, lost>>

\* grep that forgets the beginning of a line at the end of its buffer.
GrepBufDrop(b) == <<>>

\* What grep moves to the front of its buffer.
GrepBuf(b) == SubSeq(b, LastNL(b) + 1, Len(b))

\* A read() of n bytes and the body of the loop.  A write() may stop early: cat then
\* exits, grep does not look.
ReadSome == \E n \in 1 .. Min({Room, Len(rest)}) :
  LET chunk == SubSeq(rest, 1, n) IN
  /\ status = "read"
  /\ rest' = SubSeq(rest, n + 1, Len(rest))
  /\ \/ /\ prog.name = "cat"
        /\ \/ out' = out \o chunk /\ UNCHANGED status
           \/ status' = "failed" /\ \E k \in 0 .. n - 1 : out' = out \o SubSeq(chunk, 1, k)
        /\ UNCHANGED <<buf, count, lost>>
     \/ /\ prog.name = "wc"
        /\ count' = FoldLeft(Count, count, chunk)
        /\ UNCHANGED <<buf, out, lost, status>>
     \/ /\ prog.name = "grep"
        /\ \/ out' = out \o Matching(prog.pattern, Lines(buf \o chunk)) /\ UNCHANGED lost
           \/ /\ Matching(prog.pattern, Lines(buf \o chunk)) # <<>>
              /\ lost' = TRUE /\ UNCHANGED out
        /\ buf' = GrepBuf(buf \o chunk)
        /\ UNCHANGED <<count, status>>
  /\ UNCHANGED <<prog, argv, file>>

\* read() returns 0: at the end of the file, or because it was asked for nothing.
ReadEnd ==
  /\ status = "read"
  /\ rest = <<>> \/ Room = 0
  /\ out' = IF prog.name = "wc" THEN Append(out, <<count.l, count.w, count.c>>) ELSE out
  /\ buf' = <<>> /\ count' = NoCount /\ rest' = <<>>
  /\ file' = file + 1 /\ status' = "open"
  /\ UNCHANGED <<prog, argv, lost>>

\* read() fails: cat and wc exit, grep goes to the next file.
ReadError ==
  /\ status = "read"
  /\ IF prog.name = "grep"
     THEN status' = "open" /\ file' = file + 1 /\ buf' = <<>> /\ rest' = <<>> /\ lost' = TRUE
     ELSE status' = "failed" /\ UNCHANGED <<file, buf, rest, lost>>
  /\ UNCHANGED <<prog, argv, count, out>>

FiNext == Open \/ ReadSome \/ ReadEnd \/ ReadError

FiSpec == FiInit /\ [][FiNext]_fivars

-----------------------------------------------------------------------------
(* Properties. *)

\* A pattern as a sequence of characters with or without a star, between anchors.
RECURSIVE Items(_)
Items(re) ==
  IF re = <<>> THEN <<>>
  ELSE IF Len(re) > 1 /\ re[2] = "*"
  THEN <<[ch |-> re[1], star |-> TRUE]>> \o Items(SubSeq(re, 3, Len(re)))
  ELSE <<[ch |-> re[1], star |-> FALSE]>> \o Items(Tail(re))

\* A text matches when it can be cut into pieces, one for each character of the
\* pattern, between a start and an end that the anchors fix.
Matches(re, text) ==
  LET bol == re # <<>> /\ re[1] = "^"
      all == Items(IF bol THEN Tail(re) ELSE re)
      eol == all # <<>> /\ Last(all) = [ch |-> "$", star |-> FALSE]
      items == IF eol THEN Front(all) ELSE all
      Fits(it, piece) ==
        /\ it.star \/ Len(piece) = 1
        /\ it.ch = "." \/ \A i \in 1 .. Len(piece) : piece[i] = it.ch
  IN  \E cut \in [0 .. Len(items) -> 0 .. Len(text)] :
        /\ bol => cut[0] = 0
        /\ eol => cut[Len(items)] = Len(text)
        /\ \A k \in 1 .. Len(items) :
             /\ cut[k - 1] <= cut[k]
             /\ Fits(items[k], SubSeq(text, cut[k - 1] + 1, cut[k]))

\* match() of grep.c finds exactly the texts that the pattern describes.
MatcherExact == status = "open" /\ file = 1 /\ prog.name = "grep" =>
  \A t \in Texts : match(prog.pattern, t) <=> Matches(prog.pattern, t)

\* The words of a text: places where one begins.
WordStarts(s) == { i \in 1 .. Len(s) : s[i] \notin Space /\ (i = 1 \/ s[i - 1] \in Space) }
NLs(s) == { i \in 1 .. Len(s) : s[i] = NL }

\* What the whole of a file should make the program write.
Expected(s) ==
  CASE prog.name = "cat" -> s
    [] prog.name = "wc" -> << <<Cardinality(NLs(s)), Cardinality(WordStarts(s)), Len(s)>> >>
    [] prog.name = "grep" ->
         FlattenSeq([i \in 1 .. Len(Lines(s)) |->
           IF Matches(prog.pattern, Lines(s)[i]) THEN Append(Lines(s)[i], NL) ELSE <<>>])

\* Lines that grep's buffer can hold, newline included.
Fitting(s) == prog.name = "grep" =>
  \A i \in 1 .. Len(s) : i - LastNL(SubSeq(s, 1, i - 1)) < BUFSZ

ExpectedAll == FlattenSeq([i \in 1 .. Len(argv) |-> Expected(argv[i])])

\* The output of cat, wc and grep does not depend on how read() cuts the files: it is
\* always a beginning of what the whole files call for, and all of it in the end, as
\* long as every line fits grep's buffer and no failure went unnoticed.
OutputWhole == (\A i \in 1 .. Len(argv) : Fitting(argv[i])) /\ ~lost =>
  /\ IsPrefix(out, ExpectedAll)
  /\ status = "done" => out = ExpectedAll
=============================================================================
