------------------------------ MODULE Library -------------------------------
(***************************************************************************)
(* The functions the rest of the kernel is built on: utils/string.c,       *)
(* Reverse, Itoa and RoundToNearestMultiple of utils/misc.c, the           *)
(* formatting of utils/printf.c and PackRgb of graphics_types.c.           *)
(*                                                                         *)
(* The functions that write run over a small memory, byte by byte, in the  *)
(* order of the code, since source and destination may overlap.  The       *)
(* others are operators on that memory, on numbers, or on format strings.  *)
(* A state is a memory before or after one call.                           *)
(***************************************************************************)
EXTENDS Integers, SequencesExt

CONSTANTS
    Size,       \* bytes in the memory
    MaxChar,    \* characters are 0 .. MaxChar; 0 ends a string
    MaxNumber,  \* the largest number that is formatted
    Formats,    \* format strings, sequences of characters
    Span,       \* values of a uint32_t, for RoundToNearestMultiple
    LongSpan,   \* values of a uint64_t, for PrintK
    Multiples, Channels, FrameBuffers

ASSUME LibraryConstants ==
    /\ {Size, MaxChar, MaxNumber, Span, LongSpan} \subseteq Nat \ {0}
    /\ MaxNumber < LongSpan
    /\ Multiples \subseteq Nat \ {0}

VARIABLES
    mem,        \* the memory
    last        \* the call made: its name, arguments and the memory before it

vars == <<mem, last>>

Addresses == 0 .. Size - 1
Memories == [Addresses -> 0 .. MaxChar]
NoCall == [fn |-> "none"]
Fits(at, n) == at + n <= Size

\* The values of the index of a loop over n bytes.
Upwards(n) == [k \in 1 .. n |-> k - 1]
Downwards(n) == [k \in 1 .. n |-> n - k]

-----------------------------------------------------------------------------
(* utils/string.c *)

memset(m, dest, val, len) ==
    FoldLeft(LAMBDA x, k : [x EXCEPT ![dest + k] = val], m, Upwards(len))

\* Mutant: always from the first byte on, as in memcpy.
memmoveForward(m, dst, src, size) ==
    FoldLeft(LAMBDA x, k : [x EXCEPT ![dst + k] = x[src + k]], m, Upwards(size))

memmove(m, dst, src, size) ==
    FoldLeft(LAMBDA x, k : [x EXCEPT ![dst + k] = x[src + k]], m,
             IF dst < src THEN Upwards(size) ELSE Downwards(size))

\* A string starts at s if there is a 0 behind it.
IsString(m, s) == \E k \in s .. Size - 1 : m[k] = 0

strlen(m, s) ==
    LET count[k \in s .. Size - 1] == IF m[k] = 0 THEN 0 ELSE 1 + count[k + 1]
    IN  count[s]

\* Mutant: the end of the first string is not looked at.
strcmpRunsOn(m, X, Y) ==
    LET diff[k \in 0 .. Size] ==
          IF X + k >= Size \/ Y + k >= Size THEN 0
          ELSE IF m[X + k] # m[Y + k] THEN m[X + k] - m[Y + k] ELSE diff[k + 1]
    IN  diff[0]

strcmp(m, X, Y) ==
    LET diff[k \in 0 .. Size] ==
          IF m[X + k] = 0 \/ m[X + k] # m[Y + k] THEN m[X + k] - m[Y + k]
          ELSE diff[k + 1]
    IN  diff[0]

strncmp(m, s1, s2, n) ==
    LET diff[k \in 0 .. n] ==
          IF k = n THEN 0
          ELSE IF m[s1 + k] = 0 \/ m[s1 + k] # m[s2 + k] THEN m[s1 + k] - m[s2 + k]
          ELSE diff[k + 1]
    IN  diff[0]

\* The copy ends with the 0 that is read, and may run into its own source.
strcpy(m, destination, source) ==
    LET n == strlen(m, source)
    IN  [FoldLeft(LAMBDA x, k : [x EXCEPT ![destination + k] = x[source + k]], m, Upwards(n))
           EXCEPT ![destination + n] = 0]

-----------------------------------------------------------------------------
(* utils/misc.c *)

\* Reverse: bytes are swapped from both ends.
Reversed(m, str, length) ==
    FoldLeft(LAMBDA x, k : [x EXCEPT ![str + k] = x[str + length - 1 - k],
                                     ![str + length - 1 - k] = x[str + k]],
             m, Upwards(length \div 2))

\* The digits of n > 0, the lowest first.
Digits(n, base) ==
    LET digits[k \in 0 .. n] ==
          IF k = 0 THEN <<>> ELSE <<k % base>> \o digits[k \div base]
    IN  digits[n]

\* Minus is the character '-'.
Minus == -1

Itoa(n) ==
    IF n = 0 THEN <<0>>
    ELSE Reverse(Digits(IF n < 0 THEN -n ELSE n, 10) \o IF n < 0 THEN <<Minus>> ELSE <<>>)

\* The mask has 32 bits, so that the upper half of num is lost.
RoundToNearestMultiple(num, multiple) ==
    (((num + multiple - 1) % Span) \div multiple) * multiple

-----------------------------------------------------------------------------
(* utils/printf.c *)

\* The loop writes one digit at least.
Convert(num, base) == IF num = 0 THEN <<0>> ELSE Reverse(Digits(num, base))

\* What %d prints of a number.  The argument is taken as a uint64_t, so that the
\* test for a minus sign fails.
Decimal(n) == Convert(n % LongSpan, 10)

\* oct2bin of vfs/ustar.c: the value of size octal digits, which it reads from
\* the first to the last.
oct2bin(str, size) ==
    LET n[k \in 0 .. size] == IF k = 0 THEN 0 ELSE n[k - 1] * 8 + str[k]
    IN  n[size]

\* What is printed: characters, and arguments by their number.
Char(c) == [c |-> c, arg |-> 0]
Argument(type, arg) == [c |-> type, arg |-> arg]
Types == {"c", "d", "o", "h", "s"}

\* Mutant: the loop goes on with the type of the conversion.
FormattedStays(str) ==
    LET out[t \in 1 .. Len(str) + 3, arg \in 1 .. Len(str) + 1] ==
          IF t > Len(str) THEN <<>>
          ELSE <<Char(str[t])>> \o
               IF t + 1 < Len(str) /\ str[t + 1] = "%"
               THEN <<Argument(str[t + 2], arg)>> \o out[t + 2, arg + 1]
               ELSE out[t + 1, arg]
    IN  out[1, 1]

\* PrintK: a character is written before the next one is compared with '%',
\* at the start and behind every conversion.
Formatted(str) ==
    LET out[t \in 1 .. Len(str) + 3, arg \in 1 .. Len(str) + 1] ==
          IF t > Len(str) THEN <<>>
          ELSE <<Char(str[t])>> \o
               IF t + 1 < Len(str) /\ str[t + 1] = "%"
               THEN IF str[t + 2] \in Types
                    THEN <<Argument(str[t + 2], arg)>> \o out[t + 3, arg + 1]
                    ELSE out[t + 3, arg]
               ELSE out[t + 1, arg]
    IN  out[1, 1]

-----------------------------------------------------------------------------
(* graphics/graphics_types.c *)

\* ABS_RIGHT_SHIFT by 8 - size, which is unsigned: the processor takes it
\* modulo 32.  Then all but size + 1 bits are cleared.
Channel(value, size) == (value \div 2 ^ ((8 - size) % 32)) % 2 ^ (size + 1)

\* Mutant: the value is not made to fit its channel.
PackRgbWide(rgb, fb) ==
    IF fb.bpp # 32 THEN 0
    ELSE rgb.r * 2 ^ fb.red.shift + rgb.g * 2 ^ fb.green.shift + rgb.b * 2 ^ fb.blue.shift

\* The channels do not overlap, so the bitwise or is a sum.
PackRgb(rgb, fb) ==
    IF fb.bpp # 32 THEN 0
    ELSE Channel(rgb.r, fb.red.size) * 2 ^ fb.red.shift
           + Channel(rgb.g, fb.green.size) * 2 ^ fb.green.shift
           + Channel(rgb.b, fb.blue.size) * 2 ^ fb.blue.shift

-----------------------------------------------------------------------------
(* Calls. *)

Init == mem \in Memories /\ last = NoCall

Write(fn, args, after) ==
    /\ last = NoCall
    /\ mem' = after
    /\ last' = [fn |-> fn, args |-> args, old |-> mem]

\* Copying must not overtake its source: nothing would end it.
Writes ==
    \E a \in Addresses, b \in Addresses, n \in 0 .. Size :
        \/ Fits(a, n) /\ b <= MaxChar /\ Write("memset", <<a, b, n>>, memset(mem, a, b, n))
        \/ Fits(a, n) /\ Fits(b, n) /\ Write("memmove", <<a, b, n>>, memmove(mem, a, b, n))
        \/ /\ IsString(mem, b) /\ n = strlen(mem, b) /\ Fits(a, n + 1)
           /\ a <= b \/ a > b + n
           /\ Write("strcpy", <<a, b, n>>, strcpy(mem, a, b))
        \/ b = 0 /\ Fits(a, n) /\ Write("Reverse", <<a, b, n>>, Reversed(mem, a, n))

\* Functions that do not touch the memory are called on one of them.
Compute(fn, args, out) ==
    /\ last = NoCall
    /\ mem = [a \in Addresses |-> 0] /\ UNCHANGED mem
    /\ last' = [fn |-> fn, args |-> args, out |-> out]

Computes ==
    \/ \E n \in -MaxNumber .. MaxNumber :
          Compute("Itoa", n, Itoa(n)) \/ Compute("Decimal", n, Decimal(n))
    \/ \E n \in 0 .. MaxNumber, base \in {8, 10, 16} :
          Compute("Convert", <<n, base>>, Convert(n, base))
    \/ \E n \in 0 .. 2 * Span, d \in Multiples :
          Compute("RoundToNearestMultiple", <<n, d>>, RoundToNearestMultiple(n, d))
    \/ \E str \in Formats : Compute("PrintK", str, Formatted(str))
    \/ \E r \in Channels, g \in Channels, b \in Channels, fb \in FrameBuffers :
          LET rgb == [r |-> r, g |-> g, b |-> b]
          IN  Compute("PackRgb", [rgb |-> rgb, fb |-> fb], PackRgb(rgb, fb))

Next == Writes \/ Computes

Spec == Init /\ [][Next]_vars

-----------------------------------------------------------------------------
(* Properties. *)

\* The functions that write change exactly the bytes they should, to what the
\* source held before the call, however the two overlap.
WritesExact ==
    last.fn \in {"memset", "memmove", "strcpy", "Reverse"} =>
        LET dest == last.args[1]
            src == last.args[2]
            n == last.args[3]
            at(k) == CASE last.fn = "memset" -> src
                       [] last.fn = "memmove" -> last.old[src + k]
                       [] last.fn = "strcpy" -> last.old[src + k]
                       [] OTHER -> last.old[dest + n - 1 - k]
            len == IF last.fn = "strcpy" THEN n + 1 ELSE n
        IN  mem = [a \in Addresses |->
                      IF a \in dest .. dest + len - 1 THEN at(a - dest) ELSE last.old[a]]

\* The string at s, without its end.
StringAt(s) ==
    LET end == CHOOSE k \in s .. Size - 1 :
                  mem[k] = 0 /\ \A j \in s .. k - 1 : mem[j] # 0
    IN  [k \in 1 .. end - s |-> mem[s + k - 1]]

\* x comes before y in a dictionary.
Before(x, y) ==
    \E k \in 0 .. Len(x) :
        /\ k < Len(y) /\ SubSeq(x, 1, k) = SubSeq(y, 1, k)
        /\ k = Len(x) \/ x[k + 1] < y[k + 1]

\* strcmp orders strings as a dictionary does; strncmp does so with what is
\* left of them after n characters.  ustar_read compares with n one larger than
\* the length of a name: it finds equal names only.
Comparisons ==
    last = NoCall => \A s \in Addresses, t \in Addresses :
      (IsString(mem, s) /\ IsString(mem, t)) =>
        LET x == StringAt(s)
            y == StringAt(t)
            cut(z, n) == IF Len(z) <= n THEN z ELSE SubSeq(z, 1, n)
        IN  /\ strlen(mem, s) = Len(x)
            /\ strcmp(mem, s, t) < 0 <=> Before(x, y)
            /\ strcmp(mem, s, t) > 0 <=> Before(y, x)
            /\ \A n \in 0 .. Size :
                  /\ strncmp(mem, s, t, n) < 0 <=> Before(cut(x, n), cut(y, n))
                  /\ strncmp(mem, s, t, n) > 0 <=> Before(cut(y, n), cut(x, n))
            /\ strncmp(mem, s, t, Len(x) + 1) = 0 <=> x = y

\* The value of a sequence of digits.
Value(digits, base) == FoldLeft(LAMBDA v, d : v * base + d, 0, digits)

\* A number that is printed can be read back: the digits are in order, none is
\* missing, and there are no leading zeros (misc.c: "Handle 0 explicitly,
\* otherwise empty string is printed for 0").  oct2bin reads octal ones back.
NumbersReadable ==
    /\ last.fn = "Convert" =>
          /\ Value(last.out, last.args[2]) = last.args[1]
          /\ last.out # <<>> /\ (Len(last.out) > 1 => Head(last.out) # 0)
          /\ last.args[2] = 8 => oct2bin(last.out, Len(last.out)) = last.args[1]
    /\ (last.fn = "Decimal" /\ last.args >= 0) => last.out = Itoa(last.args)
    /\ last.fn = "Itoa" =>
          LET n == last.args
              digits == IF n < 0 THEN Tail(last.out) ELSE last.out
          IN  /\ n < 0 => Head(last.out) = Minus
              /\ digits # <<>> /\ \A k \in DOMAIN digits : digits[k] \in 0 .. 9
              /\ Value(digits, 10) = IF n < 0 THEN -n ELSE n
              /\ Len(digits) > 1 => Head(digits) # 0

\* %d prints what Itoa makes of a number, with its sign.  Refuted by the
\* negative ones, which come out as 2^64 + n.
NegativesPrinted == last.fn = "Decimal" => last.out = Itoa(last.args)

\* What printf prints: each conversion is replaced by the next argument.
Printf(str) ==
    LET conversions(t) == {k \in 1 .. t : k > 1 /\ str[k - 1] = "%"}
        token(t) == IF t \in conversions(t) THEN <<Argument(str[t], Cardinality(conversions(t)))>>
                    ELSE IF str[t] = "%" THEN <<>> ELSE <<Char(str[t])>>
    IN  FoldLeft(LAMBDA out, t : out \o token(t), <<>>, [t \in 1 .. Len(str) |-> t])

\* A conversion at the start of a format, or right behind another one.
Crowded(str) ==
    \E t \in DOMAIN str : str[t] = "%" /\ (t = 1 \/ (t > 2 /\ str[t - 2] = "%"))

\* PrintK prints what printf does, unless a conversion is the first thing in
\* the format or follows another one.
FormatsRight ==
    (last.fn = "PrintK" /\ ~Crowded(last.args)) => last.out = Printf(last.args)

\* Together: what the kernel prints is what it was asked to print.
PrintedRight == NumbersReadable /\ FormatsRight

\* The same for every format: refuted by the one of PrintPageAttrs, which
\* starts with a conversion.
FormatsAllRight == last.fn = "PrintK" => last.out = Printf(last.args)

\* For a multiple that is a power of two the result is the next multiple, as
\* long as it fits in 32 bits.
RoundsUp ==
    last.fn = "RoundToNearestMultiple" =>
        LET n == last.args[1]
            d == last.args[2]
        IN  n + d <= Span =>
                last.out % d = 0 /\ last.out >= n /\ last.out - n < d

\* Each channel of the packed colour is the upper bits of its value, for
\* channels of up to eight bits (graphics_types.c: "right-shifting them by the
\* difference between their current size (8) and their desired size").
ColoursPacked ==
    last.fn = "PackRgb" =>
        LET fb == last.args.fb
            rgb == last.args.rgb
            field(ch) == (last.out \div 2 ^ ch.shift) % 2 ^ ch.size
            right(v, ch) == ch.size <= 8 => field(ch) = v \div 2 ^ (8 - ch.size)
        IN  fb.bpp = 32 =>
                right(rgb.r, fb.red) /\ right(rgb.g, fb.green) /\ right(rgb.b, fb.blue)

\* Together: masks and shifts keep the bits that they are to keep.
MasksRight == RoundsUp /\ ColoursPacked

\* The same for wider ones, which should be "left shift by the absolute value
\* of that difference": refuted by ten bits, which are all zero.
WideColoursPacked ==
    last.fn = "PackRgb" =>
        LET red == last.args.fb.red
        IN  red.size > 8 =>
                (last.out \div 2 ^ red.shift) % 2 ^ red.size
                    = last.args.rgb.r * 2 ^ (red.size - 8)
=============================================================================
