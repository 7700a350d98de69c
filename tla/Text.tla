--------------------------------- MODULE Text ---------------------------------
(***************************************************************************)
(* The library's replacement of the C library's text functions:            *)
(* src/src/stdio/string.c, the conversions of stdio.c, and the formatting  *)
(* of integers and strings by the printf family (printf.c,                 *)
(* printf_internal.c, printf_gadget.h).  A character is a TLA+ string of   *)
(* length one, a string is a sequence of them without its NUL.             *)
(***************************************************************************)
EXTENDS Integers, Sequences, FiniteSets, SequencesExt, TLC

CONSTANT BufSize   \* RCSW_CONFIG_STDIO_PRINTF_BUFSIZE

ASSUME BufSizeAssumption == BufSize \in Nat \ {0}

Lesser(m, n) == IF m < n THEN m ELSE n
Cut(s, n) == SubSeq(s, 1, Lesser(n, Len(s)))
Times(c, n) == [i \in 1 .. n |-> c]

-----------------------------------------------------------------------------
\* stdio_strstr: where the needle first starts, 0 for NULL.
StrStr(haystack, needle) ==
  LET fits(i) == \A k \in DOMAIN needle : haystack[i + k - 1] = needle[k]
      at == {i \in 1 .. Len(haystack) - Len(needle) + 1 : fits(i)}
  IN  IF needle = <<>> THEN 1 ELSE IF at = {} THEN 0 ELSE Min(at)

\* stdio_strchr
StrChr(haystack, c) == SelectInSeq(haystack, LAMBDA h : h = c)

\* stdio_strrep of a pattern that is not empty: an empty one is found again
\* and again at the same place.
RECURSIVE StrRep(_, _, _)
StrRep(s, pattern, replacement) ==
  LET at == StrStr(s, pattern)
  IN  IF at = 0 THEN s
      ELSE SubSeq(s, 1, at - 1) \o replacement
             \o StrRep(SubSeq(s, at + Len(pattern), Len(s)), pattern, replacement)

\* stdio_strrev: swaps from both ends.
StrRev(s) ==
  FoldLeft(LAMBDA t, i : [t EXCEPT ![i] = t[Len(s) + 1 - i], ![Len(s) + 1 - i] = t[i]],
           s, [i \in 1 .. Len(s) \div 2 |-> i])

\* stdio_strncpy: the n characters of dest; without a NUL when src fills them.
StrNCpy(src, n) == Cut(src, n) \o Times("NUL", n - Lesser(n, Len(src)))

\* Where two strings, their NULs included, differ first; 0 for nowhere.
FirstDiff(s, t) ==
  LET a == Append(s, "NUL")  b == Append(t, "NUL")
      at == {i \in DOMAIN a \cap DOMAIN b : a[i] # b[i]}
  IN  IF at = {} THEN 0 ELSE Min(at)

\* stdio_strcmp: which characters the difference returned is of.  They are
\* the first ones, wherever the strings differ.
StrCmp(s, t) == IF FirstDiff(s, t) = 0 THEN <<"NUL", "NUL">>
                ELSE <<Append(s, "NUL")[1], Append(t, "NUL")[1]>>

\* stdio_strncmp, of strings that differ in their first n characters or have
\* that many: it does not stop at a NUL.
StrNCmp(s, t, n) ==
  LET at == FirstDiff(s, t)
  IN  IF at = 0 \/ at > n THEN <<"NUL", "NUL">> ELSE <<Append(s, "NUL")[at], Append(t, "NUL")[at]>>

-----------------------------------------------------------------------------
HexDigits == <<"0", "1", "2", "3", "4", "5", "6", "7", "8", "9", "a", "b", "c", "d", "e", "f">>
DigitOf == [c \in Range(HexDigits) |-> CHOOSE d \in 0 .. 15 : HexDigits[d + 1] = c]
Digit(c) == IF c \in DOMAIN DigitOf THEN DigitOf[c] ELSE -1

\* The digits of n with the lowest first, none for 0.
RECURSIVE DigitsUp(_, _)
DigitsUp(n, base) ==
  IF n = 0 THEN <<>> ELSE <<HexDigits[(n % base) + 1]>> \o DigitsUp(n \div base, base)

\* The value of the digits up to the first character that is none.
NumberOf(digits, base) ==
  FoldLeft(LAMBDA s, c : IF ~s.go \/ Digit(c) \notin 0 .. base - 1 THEN [s EXCEPT !.go = FALSE]
                         ELSE [s EXCEPT !.n = @ * base + Digit(c)],
           [go |-> TRUE, n |-> 0], digits).n

\* stdio_atoi: spaces, a sign, and in base 16 two characters are skipped.
Atoi(s, base) ==
  LET blanks == SelectInSeq(s, LAMBDA c : c # " ") - 1
      from   == IF blanks = -1 THEN <<>> ELSE SubSeq(s, blanks + 1, Len(s))
      signed == from # <<>> /\ Head(from) \in {"+", "-"}
      rest   == IF signed THEN Tail(from) ELSE from
      n      == NumberOf(IF base = 16 THEN SubSeq(rest, 3, Len(rest)) ELSE rest, base)
  IN  IF signed /\ Head(from) = "-" THEN -n ELSE n

\* stdio_itoad: a sign always, but for zero.
Itoad(n) ==
  IF n = 0 THEN <<"0">>
  ELSE <<IF n < 0 THEN "-" ELSE "+">> \o StrRev(DigitsUp(IF n < 0 THEN -n ELSE n, 10))

\* stdio_itoax: as many digits as the thresholds say, from the last.
Itoax(n, add_0x) ==
  LET n_digits == Min({k \in 1 .. 7 : n < 16 ^ k})
  IN  (IF add_0x THEN <<"0", "x">> ELSE <<>>)
        \o [k \in 1 .. n_digits |-> HexDigits[((n \div 16 ^ (n_digits - k)) % 16) + 1]]

-----------------------------------------------------------------------------
\* A conversion specification, %[flags][width][.precision] of an integer in a
\* base: 2 (b), 8 (o), 10 (d with SIGNED, u), 16 (x).
Specs(flags, widths, precisions) ==
  [flags : SUBSET flags, width : widths, precision : precisions, base : {2, 8, 10, 16}]

Has(s, flag) == flag \in s.flags

\* The flags format_string_loop drops before it prints an integer.
KeptFlags(s) ==
  s.flags \ ((IF s.base = 10 THEN {"HASH"} ELSE {})
             \cup (IF Has(s, "PRECISION") THEN {"ZEROPAD"} ELSE {})
             \cup (IF Has(s, "SIGNED") THEN {} ELSE {"PLUS", "SPACE"}))

\* out_reversed
OutReversed(buf, width, flags) ==
  LET fill == Times(" ", width - Lesser(width, Len(buf)))
  IN  (IF {"LEFT", "ZEROPAD"} \cap flags = {} THEN fill ELSE <<>>)
        \o Reverse(buf) \o (IF "LEFT" \in flags THEN fill ELSE <<>>)

ZerosTo(buf, n) == Cut(buf \o Times("0", n - Lesser(n, Len(buf))), IF n > Len(buf) THEN BufSize ELSE Len(buf))

HexPrefix(base) == CASE base = 16 -> <<"x", "0">> [] base = 2 -> <<"b", "0">> [] OTHER -> <<"0">>
Sign(negative, s) ==
  IF negative THEN <<"-">> ELSE IF Has(s, "PLUS") THEN <<"+">>
  ELSE IF Has(s, "SPACE") THEN <<" ">> ELSE <<>>

\* Mutant of Finalized: no padding digit is taken back for the prefix.
FinalizedFull(buf, negative, s) ==
  LET room   == IF Sign(negative, s) = <<>> \/ s.width = 0 THEN 0 ELSE 1
      width  == IF ~Has(s, "LEFT") /\ Has(s, "ZEROPAD") THEN s.width - room ELSE s.width
      zeroed == IF ~Has(s, "LEFT") /\ Has(s, "ZEROPAD") THEN ZerosTo(buf, width) ELSE buf
      padded == ZerosTo(zeroed, s.precision)
      hash   == Has(s, "HASH") /\ ~(s.base = 8 /\ Len(padded) > Len(buf))
  IN  OutReversed(Cut(padded \o (IF hash THEN HexPrefix(s.base) ELSE <<>>) \o Sign(negative, s), BufSize),
                  width, s.flags)

\* print_integer_finalization of the digits, lowest first: zeros up to the
\* width or precision, of which the prefix takes its place back, the prefix
\* and the sign.  Whatever the buffer has no room for is left out.
Finalized(buf, negative, s) ==
  LET room   == IF Sign(negative, s) = <<>> \/ s.width = 0 THEN 0 ELSE 1
      width  == IF ~Has(s, "LEFT") /\ Has(s, "ZEROPAD") THEN s.width - room ELSE s.width
      zeroed == IF ~Has(s, "LEFT") /\ Has(s, "ZEROPAD") THEN ZerosTo(buf, width) ELSE buf
      padded == ZerosTo(zeroed, s.precision)
      hash   == Has(s, "HASH") /\ ~(s.base = 8 /\ Len(padded) > Len(buf))
      taken  == IF hash /\ ~Has(s, "PRECISION") /\ Len(padded) \in {s.precision, width}
                THEN Lesser(Len(padded) - Len(buf), Len(HexPrefix(s.base))) ELSE 0
  IN  OutReversed(Cut(SubSeq(padded, 1, Len(padded) - taken)
                        \o (IF hash THEN HexPrefix(s.base) ELSE <<>>) \o Sign(negative, s), BufSize),
                  width, s.flags)

\* print_integer
PrintInteger(value, negative, s) ==
  IF value # 0 THEN Finalized(Cut(DigitsUp(value, s.base), BufSize), negative, s)
  ELSE LET hashless == [s EXCEPT !.flags = @ \ {"HASH"}]
       IN  IF ~Has(s, "PRECISION") THEN Finalized(<<"0">>, negative, hashless)
           ELSE Finalized(<<>>, negative, IF s.base = 16 THEN hashless ELSE s)

\* The integer cases of format_string_loop; a negative value only if SIGNED.
PrintValue(value, s) ==
  PrintInteger(IF value < 0 THEN -value ELSE value, value < 0, [s EXCEPT !.flags = KeptFlags(s)])

\* The %s case: padding to the width around as much as the precision allows.
PrintString(p, s) ==
  LET out  == IF Has(s, "PRECISION") THEN Cut(p, s.precision) ELSE p
      fill == Times(" ", s.width - Lesser(s.width, Len(out)))
  IN  IF Has(s, "LEFT") THEN out \o fill ELSE fill \o out

-----------------------------------------------------------------------------
Dropped(s, n) == SubSeq(s, n + 1, Len(s))
\* How many characters at the start of s are in a set.
Leading(s, set) ==
  LET other == SelectInSeq(s, LAMBDA c : c \notin set) IN IF other = 0 THEN Len(s) ELSE other - 1
StartsWith(f, c) == f # <<>> /\ Head(f) = c

FlagOf(c) == CASE c = "0" -> "ZEROPAD" [] c = "-" -> "LEFT" [] c = "+" -> "PLUS"
               [] c = " " -> "SPACE" [] c = "#" -> "HASH"
FlagChars == {"0", "-", "+", " ", "#"}

\* parse_flags: the flags, and the format behind them.
ParseFlags(f) ==
  LET n == Leading(f, FlagChars) IN [flags |-> {FlagOf(f[i]) : i \in 1 .. n}, f |-> Dropped(f, n)]

\* A width or a precision: digits (stdio_atou), or an argument.
Field(f, args) ==
  LET n == Leading(f, {HexDigits[d] : d \in 1 .. 10})
  IN  IF StartsWith(f, "*") THEN [n |-> Head(args), f |-> Tail(f), args |-> Tail(args)]
      ELSE [n |-> NumberOf(Cut(f, n), 10), f |-> Dropped(f, n), args |-> args]

WithWidth(p, w) ==
  [f |-> w.f, args |-> w.args, width |-> IF w.n < 0 THEN -w.n ELSE w.n,
   flags |-> p.flags \cup (IF w.n < 0 THEN {"LEFT"} ELSE {})]

WithPrecision(p) ==
  LET q == Field(Tail(p.f), p.args)
  IN  IF ~StartsWith(p.f, ".") THEN p @@ [precision |-> 0]
      ELSE [f |-> q.f, args |-> q.args, width |-> p.width,
            flags |-> p.flags \cup {"PRECISION"}, precision |-> IF q.n > 0 THEN q.n ELSE 0]

\* h and hh count; l, ll, j, z and t do not to integers without bounds.
WithLength(p) ==
  LET n == Leading(p.f, {"l", "h", "j", "z", "t"})
  IN  p @@ [rest |-> Dropped(p.f, n), bits |-> IF ~StartsWith(p.f, "h") THEN 0 ELSE IF n = 2 THEN 8 ELSE 16]

\* What is between % and the specifier.
ParseSpec(f, args) ==
  LET p == ParseFlags(f) IN WithLength(WithPrecision(WithWidth(p, Field(p.f, args))))

\* The conversion to short or char, signed or not, that a length asks for.
Narrowed(n, bits, signed) ==
  IF bits = 0 THEN n
  ELSE LET low == n % 2 ^ bits IN IF signed /\ low >= 2 ^ (bits - 1) THEN low - 2 ^ bits ELSE low

BaseOf(c) == CASE c = "x" -> 16 [] c = "o" -> 8 [] c = "b" -> 2 [] OTHER -> 10

\* One specifier c with argument arg.
Converted(p, c, arg) ==
  LET s == [flags |-> p.flags \cup (IF c \in {"d", "i"} THEN {"SIGNED"} ELSE {}),
            width |-> p.width, precision |-> p.precision, base |-> BaseOf(c)]
  IN  CASE c = "s" -> PrintString(arg, s)
        [] c = "c" -> PrintString(<<arg>>, [s EXCEPT !.flags = @ \ {"PRECISION"}])
        [] OTHER -> PrintValue(Narrowed(arg, p.bits, c \in {"d", "i"}), s)

\* format_string_loop of a format whose specifications are complete; a
\* character that is no specifier, % among them, stands for itself.
RECURSIVE Format(_, _)
Format(f, args) ==
  IF f = <<>> THEN <<>>
  ELSE IF Head(f) # "%" THEN <<Head(f)>> \o Format(Tail(f), args)
  ELSE LET p == ParseSpec(Tail(f), args)
           c == Head(p.rest)
       IN  IF c \in {"d", "i", "u", "x", "o", "b", "c", "s"}
           THEN Converted(p, c, Head(p.args)) \o Format(Tail(p.rest), Tail(p.args))
           ELSE <<c>> \o Format(Tail(p.rest), p.args)

\* stdio_snprintf of formatted characters into n cells: every character is
\* counted, and the first n at most are written, of which the NUL takes the
\* place of the last if need be.
Snprintf(chars, n) ==
  [pos |-> Len(chars),
   buffer |-> IF n = 0 THEN <<>> ELSE Append(Cut(chars, n - 1), "NUL")]

\* What C says of the same conversion: precision digits at least, the prefix
\* of the alternative form, the sign, and the width filled with spaces on one
\* side or with zeros behind the prefix.
AsInC(value, s) ==
  LET all    == StrRev(DigitsUp(IF value < 0 THEN -value ELSE value, s.base))
      least  == IF Has(s, "PRECISION") THEN s.precision ELSE 1
      digits == Times("0", least - Lesser(least, Len(all))) \o all
      prefix == IF ~Has(s, "HASH") \/ s.base = 10 THEN <<>>
                ELSE IF s.base = 8 THEN (IF digits # <<>> /\ Head(digits) = "0" THEN <<>> ELSE <<"0">>)
                ELSE IF value = 0 THEN <<>> ELSE <<"0", IF s.base = 16 THEN "x" ELSE "b">>
      sign   == IF value < 0 THEN <<"-">> ELSE IF ~Has(s, "SIGNED") THEN <<>>
                ELSE IF Has(s, "PLUS") THEN <<"+">> ELSE IF Has(s, "SPACE") THEN <<" ">> ELSE <<>>
      length == Len(sign \o prefix \o digits)
      fill(c) == Times(c, s.width - Lesser(s.width, length))
  IN  IF Has(s, "LEFT") THEN sign \o prefix \o digits \o fill(" ")
      ELSE IF Has(s, "ZEROPAD") /\ ~Has(s, "PRECISION") THEN sign \o prefix \o fill("0") \o digits
      ELSE fill(" ") \o sign \o prefix \o digits
=============================================================================
