-------------------------------- MODULE Texts --------------------------------
(***************************************************************************)
(* Numbers and times as the program prints them and reads them back        *)
(* (utils.cpp).  A printed number is the record of its fields; only where  *)
(* a text is read back is it a sequence of digits.                         *)
(***************************************************************************)
EXTENDS Integers, SequencesExt

KILO == 1024
MEGA == 1048576
GIGA == 1073741824

\* Round half away from zero, for quantities that are never negative
Rounded(n, d) == (2 * n + d) \div (2 * d)

\* The size in hundredths of its unit: B, KB, MB, GB, TB.  A size of exactly 1024 of a unit
\* keeps it.  Above 1024 TB the letter is the end of the text, and the size is in letters of
\* nothing: bound of the model, Units.
Units == 5
formatSize(size, roundResult) ==
    LET Fits(idx) == size <= 1024 ^ (idx + 1)
        idx == CHOOSE i \in 0..(Units - 1) : Fits(i) /\ \A j \in 0..(i - 1) : ~Fits(j)
        mn  == 1024 ^ idx
    IN [unit |-> <<"B", "KB", "MB", "GB", "TB">>[idx + 1],
        hundredths |-> IF roundResult THEN 100 * Rounded(size, mn) ELSE Rounded(100 * size, mn)]

\* <n>g+<n>m+<n>k+<n>, parts that are zero left out
Parts(size) == [g |-> size \div GIGA,
                m |-> (size % GIGA) \div MEGA,
                k |-> (size % MEGA) \div KILO,
                b |-> size % KILO]
formatFileSize(size) ==
    LET p == Parts(size)
        shown == SelectSeq(<<<<p.g, "g">>, <<p.m, "m">>, <<p.k, "k">>>>, LAMBDA x : x[1] # 0)
    IN IF p.b # 0 \/ shown = <<>> THEN Append(shown, <<p.b, "">>) ELSE shown

\* What a size printed by parts stands for
Total(p) == p.g * GIGA + p.m * MEGA + p.k * KILO + p.b

sec2hours(sec) == [hours |-> (sec \div 60) \div 60, minutes |-> (sec \div 60) % 60, seconds |-> sec % 60]

----------------------------------------------------------------------------
(* Time stamps: ten digits of seconds, a point, nine digits of nanoseconds *)

Digits(n, width) == [i \in 1..width |-> (n \div 10 ^ (width - i)) % 10]

getTimestamp(ts) == [sec |-> Digits(ts.sec, 10), nsec |-> Digits(ts.nsec, 9)]

\* strtoll with base 0 and strtol behind it.  A number that starts with 0 is octal and ends at
\* the first digit it cannot have; what is left of it is then read as the nanoseconds.  Where
\* nothing is left the nanoseconds start with the point: 0.
Number(digits, base) == FoldLeft(LAMBDA n, d : base * n + d, 0, digits)
str2timestamp(text) ==
    LET base == IF text.sec[1] = 0 THEN 8 ELSE 10
        bad  == {i \in DOMAIN text.sec : text.sec[i] >= base}
        used == IF bad = {} THEN Len(text.sec)
                ELSE (CHOOSE i \in bad : \A j \in bad : i <= j) - 1
        rest == SubSeq(text.sec, used + 1, Len(text.sec))
    IN [sec |-> Number(SubSeq(text.sec, 1, used), base), nsec |-> Number(rest, 10)]

\* sscanf and atol read both numbers as decimal ones; printed as a date
timestamp2str(text) == [sec |-> Number(text.sec, 10), nsec |-> Number(text.nsec, 10)]

\* stat: size -1 and no time stamp if there is no such file.  files: a function from names to
\* size and mtime; normPath has made the name
fileInfo(files, path) ==
    IF path \notin DOMAIN files THEN [size |-> -1, timestamp |-> <<>>]
    ELSE [size |-> files[path].size, timestamp |-> getTimestamp(files[path].mtime)]

----------------------------------------------------------------------------
(* The bar of a scan that counts elements (StatusBar)                      *)

\* A bar: the fields of its format in order ("int", "long" or "str")
StatusBar(fields, maxElem, showStep, maxSize) ==
    IF showStep # 0 /\ maxElem <= 0 /\ maxSize <= 0 THEN [fatal |-> TRUE]
    ELSE [fatal |-> FALSE, fields |-> fields, maxElements |-> maxElem, maxVolume |-> maxSize,
          step |-> IF showStep > 1 THEN showStep ELSE 1, elements |-> 0, volume |-> 0]

Field(bar, i) ==
    LET first == \A j \in 1..(i - 1) : bar.fields[j] # bar.fields[i]
    IN CASE bar.fields[i] = "int"  -> IF first THEN bar.elements ELSE bar.maxElements
         [] bar.fields[i] = "long" -> IF first THEN bar.volume ELSE bar.maxVolume
         [] OTHER -> IF bar.volume = 0 /\ bar.maxVolume = 0 THEN "none"
                     ELSE formatSize(IF first THEN bar.volume ELSE bar.maxVolume, FALSE)

\* A line at every step of the elements, and at the end of them or of the volume
Shown(bar) == \/ bar.maxElements # 0 /\ bar.elements = bar.maxElements
              \/ bar.maxVolume # 0 /\ bar.volume = bar.maxVolume
              \/ bar.elements % bar.step = 0

show(bar, showStatusBar, plusElements, plusVolume) ==
    IF ~showStatusBar THEN [bar |-> bar, line |-> <<>>]
    ELSE LET new == [bar EXCEPT !.elements = @ + plusElements, !.volume = @ + plusVolume]
         IN [bar |-> new, line |-> IF Shown(new) THEN [i \in DOMAIN bar.fields |-> Field(new, i)] ELSE <<>>]
=============================================================================
