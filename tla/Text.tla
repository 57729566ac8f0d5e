-------------------------------- MODULE Text --------------------------------
(* The helpers for memory and text: drivers/utils.c, the splitting of a        *)
(* command line and of a path, and the names of directory entries.  A string   *)
(* is the sequence of its character codes without the final zero, memory a     *)
(* function from addresses to bytes; a loop is the fold of its body, or a      *)
(* recursive function.                                                         *)
EXTENDS Integers, SequencesExt

CONSTANTS MAX_ARGUMENTS,
          IntSize,                \* number of values of an int, 2^32
          MaxText, MaxNumber      \* bounds on the strings and numbers that are checked

Space == 32
Plus == 43
Minus == 45
Dot == 46
Slash == 47
Digit(d) == 48 + d
UpTo(n) == [i \in 1 .. n |-> i]

-----------------------------------------------------------------------------
(* Memory *)

CopyByte(mem, dst, src) == [mem EXCEPT ![dst] = mem[src]]
memcpy(mem, dst, src, len) ==
  FoldLeft(LAMBDA m, i : CopyByte(m, dst + i - 1, src + i - 1), mem, UpTo(len))
memmove(mem, dst, src, len) ==
  IF dst < src THEN memcpy(mem, dst, src, len)
  ELSE FoldLeft(LAMBDA m, i : CopyByte(m, dst + len - i, src + len - i), mem, UpTo(len))
memset(mem, dst, val, len) == [a \in DOMAIN mem |-> IF a \in dst .. dst + len - 1 THEN val ELSE mem[a]]

\* The difference at the first byte that differs.
memcmp(a, b, len) ==
  LET differ == {i \in 1 .. len : a[i] # b[i]} IN
  IF differ = {} THEN 0 ELSE a[Min(differ)] - b[Min(differ)]

\* Both stop at the first zero; the character after the last one is it.
CharAt(str, i) == IF i <= Len(str) THEN str[i] ELSE 0
strcmp(a, b) ==
  LET stop == Min({i \in 1 .. Len(a) + 1 : CharAt(a, i) # CharAt(b, i) \/ CharAt(a, i) = 0}) IN
  CharAt(a, stop) - CharAt(b, stop)

starts_with(str, prefix) == IsPrefix(prefix, str)

\* Everything before the last slash; NULL is no string.
find_last_slash(str) == SelectLastInSeq(str, LAMBDA ch : ch = Slash)

toupper(ch) == IF ch \in 97 .. 122 THEN ch - 32 ELSE ch
tolower(ch) == IF ch \in 65 .. 90 THEN ch + 32 ELSE ch

-----------------------------------------------------------------------------
(* Numbers *)

\* The digits, the least significant last, as many as get_num_length counts.
get_num_length(num) == CHOOSE n \in 1 .. 20 : num < 10^n /\ (n = 1 \/ num >= 10^(n - 1))
uint64_to_string(number) ==
  LET length == get_num_length(number) IN
  [i \in 1 .. length |-> Digit((number \div 10^(length - i)) % 10)]

\* Overflow goes round; no digits at all is a valid zero.
Signed(value) == LET v == value % IntSize IN IF v >= IntSize \div 2 THEN v - IntSize ELSE v
NoNumber == [valid |-> FALSE, value |-> 0]
atoi(str) ==
  LET signed == str # <<>> /\ str[1] \in {Plus, Minus}
      digits == IF signed THEN Tail(str) ELSE str
      value == FoldLeft(LAMBDA v, ch : Signed(v * 10 + ch - Digit(0)), 0, digits)
  IN IF \E i \in DOMAIN digits : digits[i] \notin Digit(0) .. Digit(9) THEN NoNumber
     ELSE [valid |-> TRUE, value |-> IF signed /\ str[1] = Minus THEN Signed(-value) ELSE value]

-----------------------------------------------------------------------------
(* Splitting *)

\* One character of parse_command: a space ends an argument unless none has begun.
KeepsStart(s, command, i) ==                                         \* mutant
  IF command[i] # Space THEN s
  ELSE IF i # s.start /\ Len(s.arguments) < MAX_ARGUMENTS
    THEN [arguments |-> Append(s.arguments, SubSeq(command, s.start, i - 1)), start |-> i + 1]
    ELSE s
SplitAt(s, command, i) ==
  IF command[i] # Space THEN s
  ELSE [arguments |-> IF i # s.start /\ Len(s.arguments) < MAX_ARGUMENTS
                        THEN Append(s.arguments, SubSeq(command, s.start, i - 1)) ELSE s.arguments,
        start |-> i + 1]
parse_command(command) ==
  LET s == FoldLeft(LAMBDA t, i : SplitAt(t, command, i), [arguments |-> <<>>, start |-> 1],
                    UpTo(Len(command)))
  IN IF s.start <= Len(command) /\ Len(s.arguments) < MAX_ARGUMENTS
       THEN Append(s.arguments, SubSeq(command, s.start, Len(command))) ELSE s.arguments

\* The names FAT_OpenAbsolute looks up one after the other: what is between slashes, the
\* empty ones skipped.
NameEnds(s) == IF s.name = <<>> THEN s.done ELSE Append(s.done, s.name)
NextChar(s, ch) ==
  IF ch = Slash THEN [done |-> NameEnds(s), name |-> <<>>]
                ELSE [done |-> s.done, name |-> Append(s.name, ch)]
Components(path) ==
  LET split[i \in 0 .. Len(path)] ==
        IF i = 0 THEN [done |-> <<>>, name |-> <<>>] ELSE NextChar(split[i - 1], path[i])
  IN NameEnds(split[Len(path)])

\* The name of a directory entry, eight and three characters filled with spaces: trailing
\* spaces are no part of the name, and the first one in the extension ends it.
Base(name) ==
  SubSeq(name, 1, SelectLastInSeq(SubSeq(name, 1, 8), LAMBDA ch : ch # Space))
Extension(name) ==
  LET gap == SelectInSeq(SubSeq(name, 9, 11), LAMBDA ch : ch = Space) IN
  SubSeq(name, 9, IF gap = 0 THEN 11 ELSE 8 + gap - 1)
read_entry_name(name) ==
  IF name[9] = Space THEN Base(name) ELSE Base(name) \o <<Dot>> \o Extension(name)

\* Two names are one whatever the case of their letters.
SameName(a, b) == Len(a) = Len(b) /\ \A i \in DOMAIN a : tolower(a[i]) = tolower(b[i])

-----------------------------------------------------------------------------
(* Properties *)

\* memmove copies what was there before, however source and destination overlap.
MovesIntact ==
  LET mem == [a \in 0 .. MaxText |-> a] IN
  \A dst, src \in 0 .. MaxText : \A len \in 0 .. MaxText + 1 - (IF dst > src THEN dst ELSE src) :
    memmove(mem, dst, src, len) =
      [a \in DOMAIN mem |-> IF a \in dst .. dst + len - 1 THEN mem[a - dst + src] ELSE mem[a]]

\* A command line is split into its words: the longest runs without a space, in their
\* order, as many as there is room for; and a path likewise, without a limit.
Lines(separator) == UNION {[1 .. n -> {separator, 97, 98}] : n \in 0 .. MaxText}
Words(line, separator) ==
  LET starts == {i \in DOMAIN line : line[i] # separator /\ (i = 1 \/ line[i - 1] = separator)}
      ends(i) == Min({j \in i .. Len(line) : j = Len(line) \/ line[j + 1] = separator})
  IN [k \in 1 .. Cardinality(starts) |->
        LET i == CHOOSE s \in starts : Cardinality({t \in starts : t <= s}) = k
        IN SubSeq(line, i, ends(i))]
SplitsIntoWords ==
  /\ \A line \in Lines(Space) :
       parse_command(line) = SubSeq(Words(line, Space), 1, Min({MAX_ARGUMENTS, Len(Words(line, Space))}))
  /\ \A path \in Lines(Slash) : Components(path) = Words(path, Slash)

\* What a number is written as reads as that number, and strcmp calls two strings equal
\* only if they are.
ReadsBack ==
  /\ \A n \in 0 .. MaxNumber : atoi(uint64_to_string(n)) = [valid |-> TRUE, value |-> n]
  /\ \A a, b \in UNION {[1 .. n -> {97, 98}] : n \in 0 .. 3} : (strcmp(a, b) = 0) <=> (a = b)
TextHandled == MovesIntact /\ SplitsIntoWords /\ ReadsBack
=============================================================================
