------------------------------- MODULE FileIO -------------------------------
(***************************************************************************)
(* Reading and writing whole buffers (utils.cpp readFD, writeFD), files    *)
(* opened by name and the programs whose output is read (linux.cpp         *)
(* suid_popen).  A system call is its outcome: a number of bytes, AGAIN    *)
(* (EAGAIN, EWOULDBLOCK, EINTR) or FAILED (another errno).                 *)
(***************************************************************************)
EXTENDS Integers, SequencesExt, FiniteSets

CONSTANTS MaxBytes, MaxCalls   \* bounds of the cases at the end

AGAIN  == -1
FAILED == -2

Least(n, m) == IF n <= m THEN n ELSE m

\* A transfer under way: rest bytes are missing, lbuf is the place of the next one in the
\* buffer, pos the one in the file
Start(size) == [rest |-> size, lbuf |-> 0, pos |-> 0, buf |-> [i \in 1..size |-> 0], file |-> <<>>,
                done |-> FALSE, errno |-> FALSE]

\* Mutant: the next call continues at the start of the buffer
bufferStart(st, n) == st.lbuf

\* The next call continues behind what was transferred
advance(st, n) == st.lbuf + n

\* One call of read: of data it delivers what there is, at most what was asked for
readCall(st, data, outcome) ==
    LET n == Least(outcome, Least(st.rest, Len(data) - st.pos))
    IN IF st.done \/ st.rest = 0 \/ outcome = AGAIN THEN st
       ELSE IF outcome = FAILED THEN [st EXCEPT !.done = TRUE, !.errno = TRUE]
       ELSE IF n = 0 THEN [st EXCEPT !.done = TRUE]
       ELSE [st EXCEPT !.rest = @ - n, !.lbuf = advance(st, n), !.pos = @ + n,
                       !.buf = [i \in DOMAIN @ |-> IF i \in (st.lbuf + 1)..(st.lbuf + n)
                                                   THEN data[st.pos + i - st.lbuf] ELSE @[i]]]

\* calls: the outcomes until the transfer ends
readFD(data, size, calls) ==
    LET st == FoldLeft(LAMBDA s, o : readCall(s, data, o), Start(size), calls)
    IN [rv |-> IF st.errno THEN FAILED ELSE size - st.rest, buf |-> st.buf, ended |-> st.done \/ st.rest = 0]

writeCall(st, data, outcome) ==
    LET n == Least(outcome, st.rest)
    IN IF st.done \/ st.rest = 0 \/ outcome = AGAIN THEN st
       ELSE IF outcome = FAILED THEN [st EXCEPT !.done = TRUE, !.errno = TRUE]
       ELSE IF n = 0 THEN [st EXCEPT !.done = TRUE]
       ELSE [st EXCEPT !.rest = @ - n, !.lbuf = advance(st, n),
                       !.file = @ \o SubSeq(data, st.lbuf + 1, st.lbuf + n)]

writeFD(data, calls) ==
    LET st == FoldLeft(LAMBDA s, o : writeCall(s, data, o), Start(Len(data)), calls)
    IN [rv |-> IF st.errno THEN FAILED ELSE Len(data) - st.rest, file |-> st.file,
        ended |-> st.done \/ st.rest = 0]

----------------------------------------------------------------------------
(* Files by name.  files: a function from paths to their lines; a path is  *)
(* a directory and a name.                                                 *)

\* opens, by mode: one that creates makes an empty file, "w" empties one that is there.  A
\* file that cannot be opened ends the program where it is needed.
openAt(files, path, creates, truncates, refused, fatal) ==
    IF refused \/ (path \notin DOMAIN files /\ ~creates)
    THEN [rv |-> IF fatal THEN "fatal" ELSE "none", files |-> files]
    ELSE [rv |-> "open",
          files |-> IF path \notin DOMAIN files \/ truncates
                    THEN [p \in DOMAIN files \cup {path} |-> IF p = path THEN <<>> ELSE files[p]]
                    ELSE files]

unlinkAt(files, path) == [p \in DOMAIN files \ {path} |-> files[p]]

\* A position is a number of lines.  The position is the one before in any case.
linesInFile(lines, pos, fromBegin) == IF fromBegin THEN Len(lines) ELSE Len(lines) - pos

----------------------------------------------------------------------------
(* Programs whose output is read.  A list of those that were not closed    *)
(* with suid_pclose, the last one first: stream and process.               *)

suid_popen(pidlist, type, fails, fp, pid) ==
    IF type \notin {"r", "w"} \/ fails THEN [fp |-> "none", pidlist |-> pidlist, closed |-> {}]
    ELSE [fp |-> fp, pidlist |-> <<[fp |-> fp, pid |-> pid]>> \o pidlist,
          closed |-> {pidlist[k].fp : k \in DOMAIN pidlist}]   \* in the new process

\* -1: not in the list, or there is no such process to wait for
suid_pclose(pidlist, fp, exited) ==
    LET found == {k \in DOMAIN pidlist : pidlist[k].fp = fp /\ \A j \in 1..(k - 1) : pidlist[j].fp # fp}
    IN IF found = {} THEN [rv |-> -1, pidlist |-> pidlist]
       ELSE LET k == CHOOSE k \in found : TRUE
            IN [rv |-> IF pidlist[k].pid \in DOMAIN exited THEN exited[pidlist[k].pid] ELSE -1,
                pidlist |-> SubSeq(pidlist, 1, k - 1) \o SubSeq(pidlist, k + 1, Len(pidlist))]

getOutput(pidlist, fails, fp, pid) ==
    LET p == suid_popen(pidlist, "r", fails, fp, pid)
    IN [p EXCEPT !.fp = IF p.fp = "none" THEN "fatal" ELSE p.fp]

\* A line without its end, or the end of the output: there the stream is closed with pclose,
\* which leaves it in the list.  len -1: no more, or an error (fatal)
getOutputLine(lines, error) ==
    IF lines = <<>> THEN [len |-> -1, closed |-> TRUE, fatal |-> error, rest |-> <<>>]
    ELSE [len |-> Len(Head(lines)), closed |-> FALSE, fatal |-> FALSE, rest |-> Tail(lines)]

----------------------------------------------------------------------------
(* All ways to transfer MaxBytes bytes in at most MaxCalls calls, where    *)
(* WholeOrError does not hold                                              *)

Outcomes == UNION {[1..n -> {FAILED, AGAIN} \cup 0..MaxBytes] : n \in 1..MaxCalls}

\* What was read is the start of the file, and all of it unless the file ended or a call failed
ReadsAll(data, size, calls) ==
    LET r == readFD(data, size, calls)
    IN r.ended /\ r.rv >= 0 =>
          /\ SubSeq(r.buf, 1, r.rv) = SubSeq(data, 1, r.rv)
          /\ r.rv < Least(size, Len(data)) => 0 \in {calls[i] : i \in DOMAIN calls}

WritesAll(data, calls) ==
    LET w == writeFD(data, calls)
    IN w.ended /\ w.rv >= 0 =>
          /\ w.file = SubSeq(data, 1, w.rv)
          /\ w.rv < Len(data) => 0 \in {calls[i] : i \in DOMAIN calls}

Torn == {x \in (0..MaxBytes) \X (1..MaxBytes) \X Outcomes :
           LET data == [i \in 1..x[1] |-> i]
           IN ~ReadsAll(data, x[2], x[3]) \/ ~WritesAll(data, x[3])}
=============================================================================
