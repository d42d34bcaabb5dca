----------------------------- MODULE SliceHeader -----------------------------
(***************************************************************************)
(* The header of a slice file as text: written with placeholders when the  *)
(* file is created, written again over itself when the slice is complete   *)
(* (writeHeader), and read back word by word (loadSliceHeader,             *)
(* verifySliceFiles).                                                      *)
(*                                                                         *)
(* A line is its words with its length in bytes.  A word is a text or a    *)
(* number printed into a field, and the first word of a file's name knows  *)
(* its disk.  A row is one of slpos: disk, dseq, fsize, start, mtime and   *)
(* name, a sequence of words.                                              *)
(***************************************************************************)
EXTENDS Integers, SequencesExt, FiniteSets

SLICE_ID_SIZE    == 28
TIMESTAMP_SIZE   == 20
HASH_SIZE_DIGITS == 16
FILE_SIZE_DIGITS == 16

Word(text) == [text |-> text, num |-> 0]
Num(n)     == [text |-> "number", num |-> n]

\* Fields of letters: the placeholders of the first header, and the hash of an empty file
Placeholder(letter) == Word(letter)
EmptyHash == Word("0")

HEADER_INIT  == 1
HEADER_WRITE == 2
HEADER_DUMP  == 3

\* ORDER BY disk, dseq
InOrder(rows) == SetToSortSeq(rows, LAMBDA p, q : p.disk < q.disk \/ (p.disk = q.disk /\ p.dseq < q.dseq))

Line(words, len) == [words |-> words, len |-> len]

\* width: bytes of a name
FileLine(mode, r, mtime, hash, width) ==
    IF mode = HEADER_DUMP THEN Line(<<Num(r.fsize)>> \o r.name, FILE_SIZE_DIGITS + 2 + width[r.name])
    ELSE Line(<<Num(r.fsize), mtime, hash>> \o r.name,
              FILE_SIZE_DIGITS + TIMESTAMP_SIZE + HASH_SIZE_DIGITS + 4 + width[r.name])

\* The rest of the line is filled up to a multiple of 8, with a whole 8 if it is one already
EohLine(cs, sid, before) ==
    LET hs == before + 3 + (FILE_SIZE_DIGITS - 4) + FILE_SIZE_DIGITS \div 2 + SLICE_ID_SIZE + 3
    IN Line(<<Word("EOH"), Num(cs.sliceSize), Num(cs.filesCount), sid>>, (hs - before) + 8 - (hs % 8))

Size(lines) == FoldLeft(LAMBDA n, l : n + l.len, 0, lines)

\* Mutant: the first header already ends with the id of the slice
eohSidAtOnce(cs, mode) == cs.sliceId

\* What the header ends with: letters until it is complete
eohSid(cs, mode) == IF mode = HEADER_INIT THEN Placeholder("S") ELSE cs.sliceId

\* cs.hash: what findHash4seq finds by disk and dseq; now: size and mtime of the files now, by
\* name (size -1: not accessible).  hs 0: cancelGen, the slice is given up.
writeHeader(cs, mode, rows, now, width) ==
    LET sorted == InOrder(rows)
        hash(r) == IF r.fsize > 0 THEN cs.hash[<<r.disk, r.dseq>>] ELSE EmptyHash
        file(r) == IF mode = HEADER_WRITE THEN FileLine(mode, r, now[r.name].mtime, hash(r), width)
                   ELSE FileLine(mode, r, Placeholder("T"), Placeholder("H"), width)
        lines == <<Line(<<Word("ParitySlice:"), cs.sliceId, Word("fill:"), Num(cs.fillFactor)>>,
                        13 + SLICE_ID_SIZE + 8 + 4)>>
                 \o [k \in DOMAIN sorted |-> file(sorted[k])]
        all == Append(lines, EohLine(cs, eohSid(cs, mode), Size(lines)))
        changed == \E r \in rows : \/ now[r.name] # [size |-> r.fsize, mtime |-> r.mtime]
                                   \/ r.fsize > 0 /\ <<r.disk, r.dseq>> \notin DOMAIN cs.hash
    IN IF mode = HEADER_WRITE /\ (changed \/ Size(all) # cs.headerSize)
       THEN [hs |-> 0, lines |-> IF changed THEN <<>> ELSE all]
       ELSE [hs |-> Size(all), lines |-> all]

----------------------------------------------------------------------------
(* Reading                                                                 *)

\* Tokens of a line; with maxTokens the last one is the rest of the line, blanks included
decodeHeaderLine(words, maxTokens) ==
    IF maxTokens = 0 \/ Len(words) < maxTokens THEN [i \in DOMAIN words |-> <<words[i]>>]
    ELSE Append([i \in 1..(maxTokens - 1) |-> <<words[i]>>], SubSeq(words, maxTokens, Len(words)))

atol(tok) == tok[1].num

\* ssize, files and sid of an EOH line, nothing of another one
decodeEOHline(words) ==
    LET tok == decodeHeaderLine(words, 0)
    IN IF Len(tok) # 4 \/ tok[1] # <<Word("EOH")>> THEN {}
       ELSE {[sid |-> tok[4][1], sl_size |-> atol(tok[2]), sl_files |-> atol(tok[3])]}

\* A file: its lines and, if a tail was written, the place of it and the id it has.
\* diskOf: disk of the first word of a name (-1: not one).  disks: number of data disks.
\* st: rows so far, bytes so far of each disk.
loadFile(st, words, diskOf, disks) ==
    LET tok == decodeHeaderLine(words, 4)
        d   == IF Len(tok) < 4 THEN -1 ELSE diskOf[tok[4][1]]
    IN IF d \notin 0..(disks - 1) THEN [st EXCEPT !.bad = TRUE]
       ELSE [st EXCEPT
               !.rows = Append(@, [disk |-> d, dseq |-> Len(@) + 1, fsize |-> atol(tok[1]), start |-> st.dsize[d],
                                   mtime |-> tok[2][1], name |-> tok[4]]),
               !.hash = Append(@, tok[3][1]),
               !.dsize[d] = @ + atol(tok[1])]

\* bad: not loaded.  The rows and the sizes, numbered in the order of the lines
loadSliceHeader(file, sid, diskOf, disks) ==
    LET lines == file.lines
        isEOH(k) == lines[k].words[1] = Word("EOH")
        eoh  == {k \in 2..Len(lines) : isEOH(k) /\ \A j \in 2..(k - 1) : ~isEOH(j)}
        at   == CHOOSE k \in eoh : TRUE
        tok  == decodeHeaderLine(lines[at].words, 4)
        one(st, l) == IF st.bad THEN st ELSE loadFile(st, l.words, diskOf, disks)
        st   == FoldLeft(one, [rows |-> <<>>, hash |-> <<>>, dsize |-> [d \in 0..(disks - 1) |-> 0],
                               bad |-> FALSE], SubSeq(lines, 2, at - 1))
        size == CHOOSE n \in Range(st.dsize) : \A m \in Range(st.dsize) : n >= m
        hs   == Size(SubSeq(lines, 1, at))
        first == IF lines = <<>> THEN <<>> ELSE decodeHeaderLine(lines[1].words, 0)
        bad  == [bad |-> TRUE]
    IN IF Len(first) # 4 \/ eoh = {} THEN bad
       ELSE IF \/ first[1] # <<Word("ParitySlice:")>> \/ first[2] # <<sid>> \/ first[3] # <<Word("fill:")>>
               \/ st.bad
               \/ tok[4] # <<sid>>
               \/ atol(tok[3]) # Len(st.rows) \/ atol(tok[2]) # size
               \/ file.tail # [at |-> hs + size, sid |-> sid]
       THEN bad
       ELSE [bad |-> FALSE, rows |-> st.rows, hash |-> st.hash, headerSize |-> hs, sliceSize |-> size,
             filesCount |-> Len(st.rows), fillFactor |-> atol(first[4])]

\* The same with a slice that is in the database: line after line is compared with the rows
checkSliceHeader(file, sid, diskOf, disks, rows) ==
    LET h  == loadSliceHeader(file, sid, diskOf, disks)
        db == InOrder(rows)
        Seen(r) == <<r.disk, r.fsize, r.mtime, r.name>>
    IN IF h.bad THEN FALSE
       ELSE Len(h.rows) <= Len(db) /\ \A k \in DOMAIN h.rows : Seen(h.rows[k]) = Seen(db[k])

\* What grep finds in the slice files, each behind the file's name unless there is one file
\* only.  0: in order, -1: not.  sid is the key of disk_slices; a line without EOH fields or a
\* second one with its sid is fatal.
verifySliceFiles(files, slhead) ==
    LET found == FlattenSeq([k \in DOMAIN files |->
                   SelectSeq(files[k].lines, LAMBDA l : l.words[1] = Word("EOH"))])
        eoh   == [k \in DOMAIN found |-> decodeEOHline(found[k].words)]
        wrong == {h \in slhead : \E k \in DOMAIN eoh : \E d \in eoh[k] :
                    d.sid = h.sid /\ (h.ssize # d.sl_size \/ h.files # d.sl_files)}
        same  == {k \in DOMAIN eoh : \E j \in 1..(k - 1) :
                    \E d \in eoh[k], e \in eoh[j] : d.sid = e.sid}
    IN IF (found # <<>> /\ Len(files) = 1) \/ same # {} \/ \E k \in DOMAIN eoh : eoh[k] = {} THEN "fatal"
       ELSE IF wrong = {} THEN "verified" ELSE "inconsistent"
=============================================================================
