------------------------------ MODULE CLibrary ------------------------------
(***************************************************************************)
(* The pure functions of the system: numerals, strings and formats of the  *)
(* C library (Userland/libc) and of the kernel (strings.c, fonts.c), the   *)
(* colour escapes (ansiColors.c), memcpy, and the way of the modules from  *)
(* the image tool (ModulePacker) into memory (moduleLoader.c, kernel.c).   *)
(* A character is its code, a string a sequence of codes without the NUL.  *)
(* Each behaviour has one input, from a set that the module enumerates.    *)
(***************************************************************************)
EXTENDS Integers, Sequences, SequencesExt, FiniteSets

CONSTANTS INT_BITS,     \* width of int; long is twice as wide
          MAX_PROCESSES \* PIDs are below this
ASSUME CLibraryAssumption == INT_BITS \in Nat /\ INT_BITS > 4 /\ MAX_PROCESSES \in Nat

VARIABLE input

INT_MAX == 2^(INT_BITS - 1) - 1
LONG_MAX == 2^(2 * INT_BITS - 1) - 1
Int32(x) == ((x + INT_MAX + 1) % 2^INT_BITS) - INT_MAX - 1
UInt64(x) == x % 2^(2 * INT_BITS)

NUL == 0
ESC == 27
Percent == 37
Minus == 45
Plus == 43
Digits == 48..57
Letter(c) == CASE c = "b" -> 98 [] c = "c" -> 99 [] c = "d" -> 100 [] c = "l" -> 108
               [] c = "o" -> 111 [] c = "s" -> 115 [] c = "u" -> 117 [] c = "x" -> 120
               [] c = "m" -> 109 [] c = "[" -> 91 [] c = ";" -> 59
Ch(s, i) == IF i <= Len(s) THEN s[i] ELSE NUL

-----------------------------------------------------------------------------
(* Numerals.                                                                *)

\* The loop of uintToBase, before the string is reversed.
RECURSIVE Remainders(_, _)
Remainders(value, base) ==
    LET r == value % base
        c == IF r < 10 THEN r + 48 ELSE r + 65 - 10 IN
    <<c>> \o (IF value \div base = 0 THEN <<>> ELSE Remainders(value \div base, base))
uintToBase(value, base) == Reverse(Remainders(value, base))

\* %d and the like: the negation is an int's, so INT_MIN stays negative.
printBase(num, base) ==
    IF num < 0 THEN <<Minus>> \o uintToBase(UInt64(Int32(-num)), base) ELSE uintToBase(num, base)
\* %ld: the smallest value is a case of its own.
printLongBase(num, base) == IF num < 0 THEN <<Minus>> \o uintToBase(-num, base) ELSE uintToBase(num, base)

\* C's division rounds towards zero.
Quot(a, b) == IF a < 0 THEN -((-a) \div b) ELSE a \div b
RECURSIVE ItoaDigits(_, _)
ItoaDigits(value, base) ==
    LET r == value - base * Quot(value, base)
        c == IF r < 10 THEN r + 48 ELSE r - 10 + 97 IN
    IF value = 0 THEN <<>> ELSE <<c>> \o ItoaDigits(Quot(value, base), base)
itoa(value, base) ==
    LET negative == value < 0 /\ base = 10
        v == IF negative THEN Int32(-value) ELSE value IN
    IF value = 0 THEN <<48>>
    ELSE Reverse(ItoaDigits(v, base) \o (IF negative THEN <<Minus>> ELSE <<>>))

\* The digits from position i on, and their value in an int.
DigitsAt(s, i) == {j \in i..Len(s) : \A k \in i..j : s[k] \in Digits}
ValueAt(s, i) == FoldLeft(LAMBDA n, c : Int32(n * 10 + c - 48), 0,
                          SubSeq(s, i, i + Cardinality(DigitsAt(s, i)) - 1))
atoi(s) ==
    LET blanks == Cardinality({j \in 1..Len(s) : \A k \in 1..j : s[k] \in {32, 9, 10}})
        at0 == blanks + 1
        signed == Ch(s, at0) \in {Minus, Plus} IN
    Int32((IF Ch(s, at0) = Minus THEN -1 ELSE 1) * ValueAt(s, IF signed THEN at0 + 1 ELSE at0))
\* satoi of the test programs: anything but digits makes it 0.
satoi(s) ==
    LET first == IF Ch(s, 1) = Minus THEN 2 ELSE 1 IN
    IF \E i \in first..Len(s) : s[i] \notin Digits THEN 0
    ELSE (IF first = 2 THEN -1 ELSE 1) * ValueAt(s, first)
\* sscanf(s, "%d", &n): how many numbers it reports, and n unless it is not set.
sscanf(s) ==
    LET first == IF Ch(s, 1) = Minus THEN 2 ELSE 1 IN
    IF Ch(s, 1) # Minus /\ Ch(s, 1) \notin Digits THEN [read |-> 0, set |-> FALSE, n |-> 0]
    ELSE [read |-> IF DigitsAt(s, first) = {} THEN 0 ELSE 1, set |-> TRUE,
          n |-> Int32((IF first = 2 THEN -1 ELSE 1) * ValueAt(s, first))]

\* The kernel's num_to_str: it counts the digits, then fills them in from the back.
\* (Numbers here have at most ten digits.)  Mutant: the count is one short.
BadDecimalLen(num) == Cardinality({k \in 1..9 : num \div 10^k > 0})
DecimalLen(num) == 1 + Cardinality({k \in 1..9 : num \div 10^k > 0})
num_to_str(num) ==
    LET len == DecimalLen(num) IN [k \in 1..len |-> 48 + ((num \div 10^(len - k)) % 10)]

-----------------------------------------------------------------------------
(* Strings.                                                                 *)

\* Where a comparison stops: at the first difference or at an end.
Stop(s, t) == CHOOSE i \in 1..(Len(s) + 1) :
    /\ Ch(s, i) # Ch(t, i) \/ Ch(s, i) = NUL
    /\ \A j \in 1..(i - 1) : Ch(s, j) = Ch(t, j)
strcmp(s, t) == Ch(s, Stop(s, t)) - Ch(t, Stop(s, t))
_toupper(c) == IF c \in 97..122 THEN c - 32 ELSE c
Upper(s) == [i \in DOMAIN s |-> _toupper(s[i])]
strcasecmp(s, t) == LET i == Stop(Upper(s), Upper(t)) IN Ch(s, i) - Ch(t, i)
catenate(dest, src) == dest \o src
build_wait_semaphore_name(pid) ==
    IF pid \in 0..(MAX_PROCESSES - 1) THEN catenate(<<119, 97, 105, 116, 95>>, num_to_str(pid)) ELSE <<>>

-----------------------------------------------------------------------------
(* printf.  The result of a run is what is written, each character with its *)
(* colours, the colours left set, the arguments left, and how it ended:     *)
(* "", "hang" at an escape without '[', "overrun" past the format's end,    *)
(* "garbage" with a missing argument.                                       *)

Default == [text |-> 15, back |-> 0]
\* The table of colours: 30-37 and 90-97 for the text, ten more for the background.
setANSIProp(col, prop) ==
    LET back == prop \in 40..47 \cup 100..107
        p == IF back THEN prop - 10 ELSE prop
        c == IF p \in 30..37 THEN p - 30 ELSE p - 82 IN
    CASE p = 0 -> Default
      [] p \in 30..37 \cup 90..97 -> IF back THEN [col EXCEPT !.back = c] ELSE [col EXCEPT !.text = c]
      [] OTHER -> col
\* From position i, after "\e[": properties separated by ';' up to an 'm'.
RECURSIVE parseANSI(_, _, _, _)
parseANSI(st, f, i, prop) ==
    LET set == [st EXCEPT !.col = setANSIProp(@, prop)] IN
    CASE i > Len(f) -> [st |-> [st EXCEPT !.end = "overrun"], i |-> i]
      [] f[i] = Letter("m") -> [st |-> set, i |-> i + 1]
      [] f[i] = Letter(";") -> parseANSI(set, f, i + 1, 0)
      [] OTHER -> parseANSI(st, f, i + 1, (prop * 10 + f[i] - 48) % 256)

Write(st, s) == [st EXCEPT !.out = @ \o [k \in DOMAIN s |-> [c |-> s[k], col |-> st.col]]]
\* One conversion at position i, which is after the '%'.
RECURSIVE vfprintf(_, _, _)
Conversion(st, f, i) ==
    LET d == Ch(f, i)
        e == Ch(f, i + 1)
        long == d = Letter("l") /\ e \in {Letter("d"), Letter("u"), Letter("x")}
        arg == Head(st.args)
        rest == [st EXCEPT !.args = Tail(@)]
        base == CASE d = Letter("x") -> 16 [] d = Letter("d") -> 10 [] d = Letter("o") -> 8 [] OTHER -> 2 IN
    CASE d = NUL -> [st EXCEPT !.end = "overrun"]
      [] d = Percent -> Write(st, <<Percent>>)
      [] d = Letter("l") /\ ~long -> Write(st, <<d>>)
      [] st.args = <<>> /\ (long \/ d \in {Letter(c) : c \in {"x", "d", "o", "b", "c", "s"}}) ->
            [st EXCEPT !.end = "garbage"]
      [] d \in {Letter(c) : c \in {"x", "d", "o", "b"}} -> Write(rest, printBase(arg, base))
      [] long /\ e = Letter("d") -> Write(rest, printLongBase(arg, 10))
      [] long -> Write(rest, uintToBase(UInt64(arg), IF e = Letter("x") THEN 16 ELSE 10))
      [] d = Letter("c") -> Write(rest, <<arg>>)
      \* the argument of %s is a format again, without arguments
      [] d = Letter("s") -> [vfprintf([rest EXCEPT !.args = <<>>], arg, 1) EXCEPT !.args = rest.args]
      [] OTHER -> st
vfprintf(st, f, i) ==
    LET c == Ch(f, i)
        long == Ch(f, i + 1) = Letter("l") /\ Ch(f, i + 2) \in {Letter("d"), Letter("u"), Letter("x")} IN
    CASE st.end # "" \/ c = NUL -> st
      [] c = ESC /\ (Ch(f, i + 1) # Letter("[") \/ Ch(f, i + 2) = NUL) -> [st EXCEPT !.end = "hang"]
      [] c = ESC -> LET p == parseANSI(st, f, i + 2, 0) IN vfprintf(p.st, f, p.i)
      [] c = Percent -> vfprintf(Conversion(st, f, i + 1), f, IF long THEN i + 3 ELSE i + 2)
      [] OTHER -> vfprintf(Write(st, <<c>>), f, i + 1)
printf(f, args) == vfprintf([out |-> <<>>, col |-> Default, args |-> args, end |-> ""], f, 1)
Printed(r) == [i \in DOMAIN r.out |-> r.out[i].c]

-----------------------------------------------------------------------------
(* Memory and the image.                                                    *)

\* memcpy by words of W bytes when everything is aligned, else by bytes, forwards.
WORD == 4
memcpy(mem, d, s, len) ==
    LET w == IF d % WORD = 0 /\ s % WORD = 0 /\ len % WORD = 0 THEN WORD ELSE 1
        move(m, i) == [a \in DOMAIN m |-> IF a \in (d + i * w)..(d + i * w + w - 1) THEN m[a - d + s] ELSE m[a]]
    IN  FoldLeft(move, mem, [i \in 1..(len \div w) |-> i - 1])
memset(mem, d, c, len) == [a \in DOMAIN mem |-> IF a \in d..(d + len - 1) THEN c ELSE mem[a]]

\* An uint32_t in the image, low byte first.
Bytes(n) == <<n % 256, (n \div 256) % 256, 0, 0>>
readUint32(mem, a) == mem[a] + 256 * mem[a + 1]
\* buildImage: the kernel, how many modules, and each module after its size.
buildImage(files) ==
    FoldLeft(LAMBDA image, f : image \o Bytes(Len(f)) \o f,
             Head(files) \o Bytes(Len(files) - 1), Tail(files))
\* loadModules: each module to its target.
loadModules(mem, payload, targets) ==
    LET step(st, target) ==
            LET size == readUint32(st.mem, st.at) IN
            [mem |-> memcpy(st.mem, target, st.at + 4, size), at |-> st.at + 4 + size]
        n == readUint32(mem, payload) IN
    FoldLeft(step, [mem |-> mem, at |-> payload + 4], SubSeq(targets, 1, n)).mem
\* main's table has one entry, the shell's (at a small address here).
shellModuleAddress == 40
\* The bss begins where the kernel's binary ends, so it is cleared after the modules
\* that lie there have been copied.
initializeKernelBinary(mem, endOfKernelBinary, endOfKernel) ==
    memset(loadModules(mem, endOfKernelBinary, <<shellModuleAddress>>), endOfKernelBinary, 0,
           endOfKernel - endOfKernelBinary)

-----------------------------------------------------------------------------
(* The inputs.                                                              *)

Text == UNION {[1..n -> {65, 97, 66}] : n \in 0..3}
Longs == {-LONG_MAX - 1, -LONG_MAX, -INT_MAX - 1, -1, 0, 9, 10, INT_MAX + 1, LONG_MAX}
Props == {0, 30, 37, 40, 47, 90, 97, 100, 107, 1, 38, 48, 255}
\* The kernel, and the shell if the image has it.
Files == UNION {[1..n -> UNION {[1..k -> {7, 9}] : k \in 0..3}] : n \in 1..2}
CLibraryInit ==
    \/ \E n \in (-INT_MAX - 1)..INT_MAX, base \in {2, 8, 10, 16} :
         input = [kind |-> "number", n |-> n, base |-> base]
    \/ \E n \in Longs : input = [kind |-> "long", n |-> n]
    \/ \E s, t \in Text : input = [kind |-> "strings", s |-> s, t |-> t]
    \/ \E p, q \in 0..(MAX_PROCESSES - 1) : input = [kind |-> "pids", p |-> p, q |-> q]
    \/ \E p, q \in Props, s \in Text : input = [kind |-> "colour", p |-> p, q |-> q, s |-> s]
    \/ \E d, s \in 0..8, len \in 0..8 : input = [kind |-> "copy", d |-> d, s |-> s, len |-> len]
    \/ \E files \in Files : input = [kind |-> "image", files |-> files]

-----------------------------------------------------------------------------
(* Properties.                                                              *)

\* A number that is printed or converted, by either library, is read back as itself
\* by every parser, except INT_MIN.
NumeralsRoundTrip(n, base) ==
    LET s == printBase(n, base)
        plain == IF n < 0 THEN Tail(s) ELSE s
        value(c) == IF c \in Digits THEN c - 48 ELSE c - 55
        read == FoldLeft(LAMBDA v, c : v * base + value(c), 0, plain) IN
    n # -INT_MAX - 1 =>
        /\ (IF n < 0 THEN -read ELSE read) = n
        /\ base = 10 => /\ itoa(n, 10) = s /\ (n >= 0 => num_to_str(n) = s)
                        /\ {atoi(s), satoi(s)} = {n}
                        /\ sscanf(s) = [read |-> 1, set |-> TRUE, n |-> n]
                        /\ Printed(printf(<<Percent, Letter("d")>>, <<n>>)) = s
LongsRoundTrip(n) ==
    LET s == Printed(printf(<<Percent, Letter("l"), Letter("d"), 33>>, <<n>>))
        read == FoldLeft(LAMBDA v, c : v * 10 + c - 48, 0, SelectSeq(s, LAMBDA c : c \in Digits)) IN
    Last(s) = 33 /\ (IF Head(s) = Minus THEN -read ELSE read) = n

\* Comparisons decide equality (up to case), order ASCII text, and %s prints its text.
StringsCompare(s, t) ==
    /\ (strcmp(s, t) = 0) = (s = t)
    /\ (strcasecmp(s, t) = 0) = (Upper(s) = Upper(t))
    /\ (strcmp(s, t) < 0) = (s # t /\ (IsPrefix(s, t) \/ \E i \in DOMAIN s \cap DOMAIN t :
                                s[i] < t[i] /\ \A j \in 1..(i - 1) : s[j] = t[j]))
    /\ Printed(printf(<<Percent, Letter("s"), 32, Percent, Letter("s")>>, <<s, t>>)) = s \o <<32>> \o t

\* No two processes wait on one semaphore's name.
WaitNamesDiffer(p, q) ==
    (strcmp(build_wait_semaphore_name(p), build_wait_semaphore_name(q)) = 0) = (p = q)

\* Text between a colour escape and a reset is printed whole and in those colours, and
\* the default colours are back after it.
ColoursHold(p, q, s) ==
    LET f == <<ESC, Letter("[")>> \o itoa(p, 10) \o <<Letter(";")>> \o itoa(q, 10) \o <<Letter("m")>>
             \o s \o <<ESC, Letter("["), 48, Letter("m")>>
        r == printf(f, <<>>) IN
    /\ Printed(r) = s /\ r.col = Default /\ r.end = ""
    /\ \A i \in DOMAIN s : r.out[i].col = setANSIProp(setANSIProp(Default, p), q)

\* memcpy copies between areas that do not overlap, whatever their alignment.
CopyIsExact(d, s, len) ==
    LET mem == [a \in 0..16 |-> a] IN
    (d + len <= s \/ s + len <= d) =>
        \A i \in 0..(len - 1) : memcpy(mem, d, s, len)[d + i] = mem[s + i]

\* The shell's module, packed behind the kernel, is in its place, whole, after boot.
ImageLoads(files) ==
    LET image == buildImage(files)
        memory == [a \in 0..60 |-> IF a < Len(image) THEN image[a + 1] ELSE 255]
        kernel == Len(Head(files))
        booted == initializeKernelBinary(memory, kernel, kernel + 9) IN
    Len(files) = 2 => \A i \in DOMAIN files[2] : booted[shellModuleAddress + i - 1] = files[2][i]

\* The pure functions compute what their callers take them to compute.
TextIsExact ==
    CASE input.kind = "number" -> NumeralsRoundTrip(input.n, input.base)
      [] input.kind = "long" -> LongsRoundTrip(input.n)
      [] input.kind = "strings" -> StringsCompare(input.s, input.t)
      [] input.kind = "pids" -> WaitNamesDiffer(input.p, input.q)
      [] input.kind = "colour" -> ColoursHold(input.p, input.q, input.s)
      [] input.kind = "copy" -> CopyIsExact(input.d, input.s, input.len)
      [] input.kind = "image" -> ImageLoads(input.files)
      [] OTHER -> TRUE

=============================================================================
