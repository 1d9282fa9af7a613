---------------------------- MODULE PrintFmt ----------------------------
(***************************************************************************)
(* Formatted output: lib/print.c vprintfmt and its helpers, with the two   *)
(* output functions of user programs, debugf (user/lib/debugf.c), which    *)
(* collects characters in a buffer, and printf (user/lib/fprintf.c), which *)
(* writes each piece to a descriptor.  The kernel's printk is vprintfmt    *)
(* with an output function that keeps nothing.                             *)
(*                                                                         *)
(* A call is given items: literal text, or a directive with its argument.  *)
(* Render spells them out as the format string that the code parses, and   *)
(* Expected says what they mean.  Words have W bits, signed in two's       *)
(* complement.  One step is one call of the output function.               *)
(***************************************************************************)
EXTENDS Integers, Sequences, SequencesExt, FiniteSets

CONSTANTS
  W,           \* bits of an int, and of a long: the same on this machine
  BUF_LEN,     \* debugf.c BUF_LEN
  Widths,      \* widths used in directives; 0 is none
  Convs,       \* conversions used
  MaxText      \* bound on the items before, or behind, the one in question

ConstantsOK ==
  /\ W \in Nat \ {0, 1} /\ BUF_LEN \in Nat \ {0} /\ MaxText \in Nat
  /\ Widths \subseteq 0..99 /\ Convs \subseteq {"b", "d", "o", "u", "x", "X", "c", "s", "%"}

DigitChars == <<"0", "1", "2", "3", "4", "5", "6", "7", "8", "9">>
Lower == DigitChars \o <<"a", "b", "c", "d", "e", "f">>
Upper == DigitChars \o <<"A", "B", "C", "D", "E", "F">>
NUL == "NUL"
MaxOf(a, b) == IF a < b THEN b ELSE a
Spaces(n) == [i \in 1..n |-> " "]

Signed == -(2^(W - 1)) .. 2^(W - 1) - 1
Unsigned(n) == n % 2^W
Wrap(n) == IF n % 2^W < 2^(W - 1) THEN n % 2^W ELSE (n % 2^W) - 2^W

\* Literal text, and directives: flags, width, the letter l, and an argument
\* that is a word, a character or a string.
Literal == {[conv |-> "text", arg |-> <<"t", "v">>]}
ArgsOf(conv) == CASE conv = "c" -> {"q"} [] conv = "s" -> {<<>>, <<"p", "q">>}
                  [] conv = "%" -> {NUL} [] OTHER -> Signed
Directive ==
  UNION {[conv : {c}, minus : BOOLEAN, zero : BOOLEAN, width : Widths,
          long : BOOLEAN, arg : ArgsOf(c)] : c \in Convs}
Filler == Literal \cup {[conv |-> "s", minus |-> FALSE, zero |-> FALSE, width |-> 3,
                        long |-> FALSE, arg |-> <<"p">>]}

\* What a call is given: any directive, with fillers before or behind it.
Fillers == BoundedSeq(Filler, MaxText)
Calls == {a \o <<d>> : a \in Fillers, d \in Directive}
           \cup {<<d>> \o b : b \in Fillers, d \in Directive}
Fetches(item) == item.conv \notin {"text", "%"}

DecimalOf(n) == IF n < 10 THEN <<DigitChars[n + 1]>>
                ELSE <<DigitChars[(n \div 10) + 1], DigitChars[(n % 10) + 1]>>
Render(item) ==
  IF item.conv = "text" THEN item.arg
  ELSE <<"%">> \o (IF item.minus THEN <<"-">> ELSE <<>>)
         \o (IF item.zero THEN <<"0">> ELSE <<>>)
         \o (IF item.width = 0 THEN <<>> ELSE DecimalOf(item.width))
         \o (IF item.long THEN <<"l">> ELSE <<>>) \o <<item.conv>>

VARIABLES
  how,         \* the function called: "debugf" or "printf"
  items,       \* history: what the caller means
  fmt,         \* the format string, with its terminator
  pos,         \* how far vprintfmt has come in it
  args,        \* the arguments not yet fetched
  pending,     \* strings still to be passed to the output function
  pc,
  buf,         \* debug_ctx: the characters collected
  ret,         \* print_ctx.ret; -1 stands for any error
  shown,       \* history: what the system calls of this call have put out
  writes       \* history: how many there were

vars == <<how, items, fmt, pos, args, pending, pc, buf, ret, shown, writes>>

Char == Range(Upper) \cup Range(Lower)
          \cup {" ", "-", "%", "l", "t", "v", "p", "q", NUL} \cup Convs

TypeOK ==
  /\ how \in {"debugf", "printf"}
  /\ fmt \in Seq(Char) /\ pos \in DOMAIN fmt
  /\ pending \in Seq(Seq(Char))
  /\ pc \in {"scan", "directive", "flush", "done"}
  /\ buf \in Seq(Char) /\ Len(buf) <= BUF_LEN
  /\ ret \in -1..Len(shown) /\ writes \in Nat

Init ==
  /\ how \in {"debugf", "printf"}
  /\ items \in Calls
  /\ \E lone \in {<<>>, <<"%">>} :      \* a percent sign with nothing behind it
       /\ lone # <<>> => Len(items) = 1
       /\ fmt = FlattenSeq([i \in DOMAIN items |-> Render(items[i])]) \o lone \o <<NUL>>
  /\ args = LET f == SelectSeq(items, Fetches) IN [i \in DOMAIN f |-> f[i].arg]
  /\ pos = 1 /\ pending = <<>> /\ pc = "scan"
  /\ buf = <<>> /\ ret = 0 /\ shown = <<>> /\ writes = 0

-----------------------------------------------------------------------------
\* print_num's digits, least significant first (print.c:230-240).
Digits(u, base, table) ==
  LET d[n \in 0..u] == <<table[(n % base) + 1]>>
                         \o (IF n \div base = 0 THEN <<>> ELSE d[n \div base])
  IN d[u]

\* Faulty variant: the sign is not moved.
Pad_sign_left(s, neg, length, ladjust, padc) ==
  s \o [i \in 1..(length - Len(s)) |-> IF ladjust THEN " " ELSE padc]

\* The padding (print.c:252-264): a negative number that is filled up with
\* zeros has its sign moved to the end.
Pad(s, neg, length, ladjust, padc) ==
  LET c == IF ladjust THEN " " ELSE padc IN
  IF neg /\ ~ladjust /\ c = "0"
    THEN Append(Front(s) \o [i \in 1..(length - Len(s)) |-> "0"], "-")
    ELSE s \o [i \in 1..(length - Len(s)) |-> c]

\* The reversal (print.c:266-281): all of the string, or what is not padding.
Reversed(s, end) == [i \in DOMAIN s |-> IF i <= end THEN s[end + 1 - i] ELSE s[i]]

print_num(u, base, neg, length, ladjust, padc, upcase) ==
  LET digits == Digits(u, base, IF upcase THEN Upper ELSE Lower)
      actual == IF neg THEN Append(digits, "-") ELSE digits
      len == MaxOf(length, Len(actual))
  IN Reversed(Pad(actual, neg, len, ladjust, padc), IF ladjust THEN Len(actual) ELSE len)

\* print_str and print_char put out their padding one by one.
print_str(s, length, ladjust) ==
  LET pad == [i \in 1..(MaxOf(length, Len(s)) - Len(s)) |-> <<" ">>]
  IN IF ladjust THEN <<s>> \o pad ELSE Append(pad, s)
print_char(c, length, ladjust) == print_str(<<c>>, length, ladjust)

-----------------------------------------------------------------------------
\* The first position from i on whose character is not in S.
Skip(i, S) == CHOOSE j \in i..Len(fmt) : /\ fmt[j] \notin S
                                         /\ \A k \in i..(j - 1) : fmt[k] \in S

\* "scan for the next '%'" and "flush the string found so far".
scan ==
  /\ pc = "scan" /\ pending = <<>>
  /\ LET end == Skip(pos, Char \ {"%", NUL}) IN
       /\ pending' = <<SubSeq(fmt, pos, end - 1)>>
       /\ pos' = IF fmt[end] = NUL THEN end ELSE end + 1
       /\ pc' = IF fmt[end] = NUL THEN "flush" ELSE "directive"
  /\ UNCHANGED <<how, items, fmt, args, buf, ret, shown, writes>>

\* Flags, width and length of the directive at position i (print.c:43-73).
Parse(i) ==
  LET i1 == IF fmt[i] = "-" THEN i + 1 ELSE i
      i2 == IF fmt[i1] = "0" THEN i1 + 1 ELSE i1
      i3 == Skip(i2, Range(DigitChars))
      digit(c) == CHOOSE d \in 0..9 : DigitChars[d + 1] = c
  IN [ladjust |-> i1 > i, padc |-> IF i2 > i1 THEN "0" ELSE " ",
      width |-> FoldLeft(LAMBDA w, c : w * 10 + digit(c), 0, SubSeq(fmt, i2, i3 - 1)),
      at |-> IF fmt[i3] = "l" THEN i3 + 1 ELSE i3]

Base(conv) == CASE conv = "b" -> 2 [] conv = "o" -> 8
                [] conv \in {"d", "u"} -> 10 [] conv \in {"x", "X"} -> 16

\* The strings a directive puts out, given its argument (print.c:75-160).
Outs(p, conv, arg) ==
  CASE conv = "d" /\ arg < 0 ->
         <<print_num(Unsigned(Wrap(0 - arg)), 10, TRUE, p.width, p.ladjust, p.padc, FALSE)>>
    [] conv \in {"b", "o", "u", "x", "X"} \/ (conv = "d" /\ arg >= 0) ->
         <<print_num(Unsigned(arg), Base(conv), FALSE, p.width, p.ladjust, p.padc, conv = "X")>>
    [] conv = "c" -> print_char(arg, p.width, p.ladjust)
    [] conv = "s" -> print_str(arg, p.width, p.ladjust)

directive ==
  /\ pc = "directive" /\ pending = <<>>
  /\ LET p == Parse(pos)
         conv == fmt[p.at]
     IN CASE conv = NUL -> pos' = p.at /\ UNCHANGED <<pending, args>>
          [] conv \in {"b", "d", "o", "u", "x", "X", "c", "s"} ->
               /\ pending' = Outs(p, conv, Head(args))
               /\ pos' = p.at + 1 /\ args' = Tail(args)
          [] OTHER -> pending' = << <<conv>> >> /\ pos' = p.at + 1 /\ UNCHANGED args
  /\ pc' = "scan"
  /\ UNCHANGED <<how, items, fmt, buf, ret, shown, writes>>

\* debug_output (debugf.c:22-35): one step empties the buffer once.
debug_output ==
  /\ how = "debugf" /\ pending # <<>>
  /\ LET s == Head(pending)
         n == BUF_LEN - Len(buf)
     IN IF Len(s) > n
          THEN /\ shown' = shown \o buf \o SubSeq(s, 1, n) /\ writes' = writes + 1
               /\ buf' = <<>> /\ pending' = <<SubSeq(s, n + 1, Len(s))>> \o Tail(pending)
          ELSE /\ buf' = buf \o s /\ pending' = Tail(pending)
               /\ UNCHANGED <<shown, writes>>
  /\ UNCHANGED <<how, items, fmt, pos, args, pc, ret>>

\* print_output (fprintf.c:9-20).  write may fail, or write less than asked,
\* for which half stands here.
print_output ==
  /\ how = "printf" /\ pending # <<>>
  /\ pending' = Tail(pending)
  /\ IF ret < 0 THEN UNCHANGED <<ret, shown, writes>>
     ELSE \/ ret' = -1 /\ UNCHANGED <<shown, writes>>
          \/ \E r \in {Len(Head(pending)), (Len(Head(pending)) + 1) \div 2} :
               /\ ret' = ret + r /\ writes' = writes + 1
               /\ shown' = shown \o SubSeq(Head(pending), 1, r)
  /\ UNCHANGED <<how, items, fmt, pos, args, pc, buf>>

\* vdebugf flushes what is left; vfprintf returns (debugf.c:41, fprintf.c:27).
finish ==
  /\ pc = "flush" /\ pending = <<>>
  /\ pc' = "done"
  /\ shown' = shown \o buf /\ buf' = <<>>
  /\ writes' = IF buf = <<>> THEN writes ELSE writes + 1
  /\ UNCHANGED <<how, items, fmt, pos, args, pending, ret>>

Next == scan \/ directive \/ debug_output \/ print_output \/ finish

Spec == Init /\ [][Next]_vars

-----------------------------------------------------------------------------
\* What an item means, most significant digit first.
NumberText(item) ==
  LET v == IF item.conv # "d" THEN Unsigned(item.arg)
           ELSE IF item.arg < 0 THEN -item.arg ELSE item.arg
      base == Base(item.conv)
      n == CHOOSE k \in 1..W : base^k > v /\ \A j \in 1..(k - 1) : base^j <= v
      table == IF item.conv = "X" THEN Upper ELSE Lower
      digits == [i \in 1..n |-> table[((v \div base^(n - i)) % base) + 1]]
      sign == IF item.conv = "d" /\ item.arg < 0 THEN <<"-">> ELSE <<>>
      fill == MaxOf(0, item.width - n - Len(sign))
  IN CASE item.minus -> sign \o digits \o Spaces(fill)
       [] ~item.minus /\ item.zero -> sign \o [i \in 1..fill |-> "0"] \o digits
       [] OTHER -> Spaces(fill) \o sign \o digits
Expected ==
  LET text(item) ==
        LET s == IF item.conv = "c" THEN <<item.arg>> ELSE item.arg
            fill == Spaces(MaxOf(0, item.width - Len(s)))
        IN IF item.minus THEN s \o fill ELSE fill \o s
      one(item) == CASE item.conv = "text" -> item.arg
                     [] item.conv = "%" -> <<"%">>
                     [] item.conv \in {"c", "s"} -> text(item)
                     [] OTHER -> NumberText(item)
  IN FlattenSeq([i \in DOMAIN items |-> one(items[i])])

\* A debugf that has returned has shown what its items mean, to the last
\* character, and so has a printf that returns its full length: vprintfmt's
\* parsing, print_num's digits, padding and reversal, the buffer's flushes.
OutputRight ==
  pc = "done" /\ (how = "debugf" \/ ret = Len(Expected)) => shown = Expected

\* A message that fits debugf's buffer goes out in one system call, so that
\* no other environment's output comes between its characters.
DebugInOnePiece == how = "debugf" /\ Len(Expected) <= BUF_LEN => writes <= 1

\* printf tells how many characters were written; once a write has failed it
\* reports the error and writes nothing more (fprintf.c:11-19).
PrintfTold == [][how = "printf" =>
                  /\ ret < 0 => ret' < 0 /\ shown' = shown
                  /\ ret' >= 0 => ret' = Len(shown')]_vars
=============================================================================
