---------------------------- MODULE UtilityProofs ----------------------------
(***************************************************************************)
(* Facts about the numbers a run prints, for every value, and about the    *)
(* reserve of the control files in the configuration directory: what       *)
(* copyConfig leaves there, for any files.  Then the log: where a program  *)
(* of one thread can write a text behind its status bar.  Last, the loops  *)
(* over the bytes of a file, for any bytes and any pieces: the hash that   *)
(* is computed while a file is read, and reading and writing whole buffers.*)
(***************************************************************************)
EXTENDS Progress, Shell, Logger, BlockHash, FileIO, SumTheorems, SequenceTheorems, TLAPS

\* The counters of a run as initTCA makes them and statusBar changes them
TCA == [files2process : Nat, data2process : Nat, filesProcessed : Nat, filesSkipped : Nat,
        dataProcessed : Nat, lastProcessed : Nat, start : Nat, lastTime : Nat,
        speedStartTime : Nat, speedBytesStart : Nat, dataTick : Nat,
        operationCanceled : BOOLEAN, raport : Nat]

----------------------------------------------------------------------------
(* A size printed by its parts (formatFileSize) is the size, and no part   *)
(* but the first reaches the unit above it.                                *)

THEOREM PartsAddUp ==
    ASSUME NEW size \in Nat
    PROVE  /\ Total(Parts(size)) = size
           /\ Parts(size).m < 1024 /\ Parts(size).k < 1024 /\ Parts(size).b < 1024
<1> DEFINE g == size \div 1073741824
           r == size % 1073741824
           s == size % 1048576
<1>1. size = g * 1073741824 + r /\ r \in Nat /\ r < 1073741824 /\ g \in Nat
  BY SMT
<1>2. r = (r \div 1048576) * 1048576 + (r % 1048576)
      /\ r % 1048576 \in Nat /\ r % 1048576 < 1048576 /\ r \div 1048576 \in Nat /\ r \div 1048576 < 1024
  BY <1>1, SMT
<1>3. s = r % 1048576
  BY <1>1, SMT
<1>4. s = (s \div 1024) * 1024 + (s % 1024) /\ s % 1024 \in Nat /\ s % 1024 < 1024
      /\ s \div 1024 \in Nat /\ s \div 1024 < 1024
  BY <1>2, <1>3, SMT
<1>5. s % 1024 = size % 1024
  BY SMT
<1> QED
  BY <1>1, <1>2, <1>3, <1>4, <1>5, SMT DEF Parts, Total, KILO, MEGA, GIGA

\* A time is printed as hours, minutes below 60 and seconds below 60 that add up to it
\* (sec2hours).
THEOREM HoursAddUp ==
    ASSUME NEW sec \in Nat
    PROVE  LET t == sec2hours(sec)
           IN 3600 * t.hours + 60 * t.minutes + t.seconds = sec /\ t.minutes < 60 /\ t.seconds < 60
<1>1. sec = 60 * (sec \div 60) + (sec % 60) /\ sec % 60 < 60 /\ sec % 60 \in Nat /\ sec \div 60 \in Nat
  BY SMT
<1>2. sec \div 60 = 60 * ((sec \div 60) \div 60) + ((sec \div 60) % 60) /\ (sec \div 60) % 60 < 60 /\ (sec \div 60) % 60 \in Nat
  BY <1>1, SMT
<1> QED
  BY <1>1, <1>2 DEF sec2hours

LEMMA TickSize ==
    ASSUME NEW bytes \in Nat
    PROVE  Tick(bytes) \in Nat /\ MEGA <= Tick(bytes) /\ Tick(bytes) <= GIGA
<1>1. bytes \div 100 \in Nat
  BY SMT
<1> QED
  BY <1>1, SMT DEF Tick, MEGA, GIGA

\* Whatever the size of a run: a bar that moves before the run is complete moves either in a new
\* second or after more than a megabyte of data, and after more than a gigabyte it always moves
\* (initTCA, statusBar).
THEOREM BarMoves ==
    ASSUME NEW bytes \in Nat, NEW tca \in TCA, tca.dataTick = Tick(bytes), NEW now \in Nat
    PROVE  LET diff == tca.dataProcessed - tca.lastProcessed
           IN /\ Due(tca, now) /\ now = tca.lastTime /\ ~AtEnd(tca) => diff > MEGA
              /\ diff > GIGA => Due(tca, now)
<1>1. MEGA <= tca.dataTick /\ tca.dataTick <= GIGA
  BY TickSize
<1>2. tca.dataTick \in Nat /\ tca.dataProcessed \in Nat /\ tca.lastProcessed \in Nat
  BY DEF TCA
<1> QED
  BY <1>1, <1>2, SMT DEF Due, MEGA, GIGA

----------------------------------------------------------------------------
(* The bar never shows the current speed: speedStartTime is the start of   *)
(* the run to begin with, and the branch that would change it is the one   *)
(* it would have to have left (backup.cpp:1866-1876).                      *)

LEMMA SpeedStays ==
    ASSUME NEW tca \in TCA, tca.speedStartTime = tca.start, NEW bspeed, NEW now \in Nat
    PROVE  /\ Speed(tca, bspeed, now).tca = tca
           /\ \/ Speed(tca, bspeed, now).bspeed = bspeed
              \/ now # tca.start /\ Speed(tca, bspeed, now).bspeed = tca.dataProcessed \div (now - tca.start)
  BY DEF Speed

\* What is shown after any number of calls is the mean speed of the run.
THEOREM MeanSpeedOnly ==
    ASSUME NEW tca \in TCA, tca.speedStartTime = tca.start, NEW bspeed, NEW now \in Nat, NEW shown \in BOOLEAN
    PROVE  LET r == statusBar(tca, bspeed, now, shown)
           IN /\ r.tca \in TCA /\ r.tca.speedStartTime = r.tca.start /\ r.tca.start = tca.start
              /\ \/ r.bspeed = bspeed
                 \/ now # tca.start /\ r.bspeed = tca.dataProcessed \div (now - tca.start)
<1> DEFINE next == [tca EXCEPT !.lastTime = now, !.lastProcessed = tca.dataProcessed]
<1>1. next \in TCA /\ next.speedStartTime = next.start /\ next.start = tca.start
      /\ next.dataProcessed = tca.dataProcessed
  BY DEF TCA
<1>2. CASE tca.operationCanceled \/ (~shown /\ ~AtEnd(tca)) \/ ~Due(tca, now)
  BY <1>2 DEF statusBar
<1>3. CASE ~(tca.operationCanceled \/ (~shown /\ ~AtEnd(tca)) \/ ~Due(tca, now))
  <2>1. /\ statusBar(tca, bspeed, now, shown).tca = Speed(next, bspeed, now).tca
        /\ statusBar(tca, bspeed, now, shown).bspeed = Speed(next, bspeed, now).bspeed
    BY <1>3, Zenon DEF statusBar
  <2> HIDE DEF next
  <2> QED
    BY <2>1, <1>1, SpeedStays
<1> QED
  BY <1>2, <1>3

\* The run starts that way.
THEOREM SpeedStart ==
    ASSUME NEW files \in Nat, NEW bytes \in Nat, NEW now \in Nat
    PROVE  initTCA(files, bytes, now) \in TCA
           /\ initTCA(files, bytes, now).speedStartTime = initTCA(files, bytes, now).start
<1>1. Tick(bytes) \in Nat
  BY TickSize
<1> QED
  BY <1>1 DEF initTCA, TCA

----------------------------------------------------------------------------
(* The reserve.                                                            *)

CONSTANTS Dir, Name, Data

File == [dir : Dir, name : Name, of : Data, regular : BOOLEAN]

\* A configuration directory of its own, that is there
Apart(config, dirs, notDirs) ==
    /\ config.configDir \in Dir \cap dirs /\ config.configDir \notin notDirs
    /\ config.workDir \in Dir /\ config.workDir # config.configDir

----------------------------------------------------------------------------
LEMMA Cleaned ==
    ASSUME NEW files \in SUBSET File, NEW config, NEW dirs, NEW notDirs, Apart(config, dirs, notDirs)
    PROVE  /\ cleanDir(files, dirs, notDirs, config.configDir, Name, {}).files \subseteq files
           /\ \A f \in cleanDir(files, dirs, notDirs, config.configDir, Name, {}).files :
                 f.dir = config.configDir => ~f.regular
           /\ \A f \in files : f.dir # config.configDir =>
                 f \in cleanDir(files, dirs, notDirs, config.configDir, Name, {}).files
  BY DEF cleanDir, Apart, File

\* A file of a directory to copy, and its copy
Source(f, src, names, refused) == f.dir = src /\ f.name \in names /\ f.name \notin refused
CopyOf(f, dst) == [f EXCEPT !.dir = dst]

LEMMA Copied ==
    ASSUME NEW files, NEW src, NEW dst, src # dst, NEW names, NEW refused
    PROVE  /\ \A f \in files : Source(f, src, names, refused)
                 => CopyOf(f, dst) \in copyFiles(files, src, names, dst, refused)
           /\ \A f \in copyFiles(files, src, names, dst, refused) :
                 f \in files \/ \E g \in files : Source(g, src, names, refused) /\ f = CopyOf(g, dst)
           /\ \A f \in files : f.dir # dst => f \in copyFiles(files, src, names, dst, refused)
  BY DEF copyFiles, Source, CopyOf

\* The copy made after the lists of files are loaded (planer.cpp:609) takes every control file
\* of the reserve away and brings none but the configuration: from there to the end of the run
\* that copies all of them there is no reserve of the database, and a run that fails leaves none.
THEOREM ReserveGap ==
    ASSUME NEW files \in SUBSET File, NEW config, NEW dirs, NEW notDirs, Apart(config, dirs, notDirs),
           NEW refused
    PROVE  \A f \in copyConfig(config, files, dirs, notDirs, Name, TRUE, FALSE, refused).files :
              f.dir = config.configDir /\ f.regular => f.name \in Conf
<1> DEFINE clean == cleanDir(files, dirs, notDirs, config.configDir, Name, {}).files
           copy  == copyFiles(clean, config.workDir, Conf, config.configDir, refused)
<1>1. config.workDir # config.configDir
  BY DEF Apart
<1>2. copyConfig(config, files, dirs, notDirs, Name, TRUE, FALSE, refused).files = copy
  BY <1>1 DEF copyConfig, World
<1>3. clean \subseteq File /\ \A f \in clean : f.dir = config.configDir => ~f.regular
  BY Cleaned
<1>4. \A f \in copy : \/ f \in clean
                     \/ \E g \in clean : Source(g, config.workDir, Conf, refused) /\ f = CopyOf(g, config.configDir)
  BY <1>1, Copied
<1>5. \A g \in File : Source(g, config.workDir, Conf, refused) => CopyOf(g, config.configDir).name \in Conf
  BY DEF Source, CopyOf, File
<1> QED
  BY <1>2, <1>3, <1>4, <1>5, Zenon

\* The copy at the end of a run: the reserve has what the working directory has, but for files
\* that could not be copied, and every control file in it is a copy of the current one.  What
\* could not be copied is not kept in its older form either.
THEOREM ReserveIsCurrent ==
    ASSUME NEW files \in SUBSET File, NEW config, NEW dirs, NEW notDirs, Apart(config, dirs, notDirs),
           NEW refused
    PROVE  LET after == copyConfig(config, files, dirs, notDirs, Name, FALSE, FALSE, refused).files
               Saved(f) == Source(f, config.workDir, Control \cup Conf, refused)
           IN /\ \A f \in files : Saved(f) => CopyOf(f, config.configDir) \in after
              /\ \A f \in after : f.dir = config.configDir /\ f.regular =>
                    \E g \in files : Saved(g) /\ f = CopyOf(g, config.configDir)
              /\ \A f \in files : f.dir = config.workDir => f \in after
<1> DEFINE clean == cleanDir(files, dirs, notDirs, config.configDir, Name, {}).files
           copy  == copyFiles(clean, config.workDir, Control \cup Conf, config.configDir, refused)
           Saved(f) == Source(f, config.workDir, Control \cup Conf, refused)
<1>1. config.workDir # config.configDir
  BY DEF Apart
<1>2. copyConfig(config, files, dirs, notDirs, Name, FALSE, FALSE, refused).files = copy
  BY <1>1 DEF copyConfig, World
<1>3. /\ clean \subseteq files
      /\ \A f \in clean : f.dir = config.configDir => ~f.regular
      /\ \A f \in files : f.dir # config.configDir => f \in clean
  BY Cleaned
<1>4. /\ \A f \in clean : Saved(f) => CopyOf(f, config.configDir) \in copy
      /\ \A f \in copy : f \in clean \/ \E g \in clean : Saved(g) /\ f = CopyOf(g, config.configDir)
      /\ \A f \in clean : f.dir # config.configDir => f \in copy
  BY <1>1, Copied
<1>5. \A f : Saved(f) => f.dir = config.workDir
  BY DEF Source
<1> HIDE DEF clean, copy, Saved
<1>6. \A f \in files : Saved(f) => CopyOf(f, config.configDir) \in copy
  <2> SUFFICES ASSUME NEW f \in files, Saved(f)
               PROVE  CopyOf(f, config.configDir) \in copy
    OBVIOUS
  <2>1. f.dir # config.configDir
    BY <1>1, <1>5
  <2>2. f \in clean
    BY <1>3, <2>1
  <2> QED
    BY <1>4, <2>2
<1>7. \A f \in copy : f.dir = config.configDir /\ f.regular =>
         \E g \in files : Saved(g) /\ f = CopyOf(g, config.configDir)
  BY <1>3, <1>4, Zenon
<1>8. \A f \in files : f.dir = config.workDir => f \in copy
  BY <1>1, <1>3, <1>4, Zenon
<1> QED
  BY <1>2, <1>6, <1>7, <1>8, Zenon DEF Saved

----------------------------------------------------------------------------
(* The destinations of the log and their status bars.                      *)

\* Streams of the table are different ones
Distinct == \A j, k \in DOMAIN callbacks : callbacks[j].dest = callbacks[k].dest => j = k

\* The stream of an entry has its cursor behind a bar
Bar(k) == cursor[callbacks[k].dest] = "bar"

\* A message has copied the offset of entry k and not stored it yet
Back(e, k) == e.phase = "back" /\ e.slot = k

\* A bar is known: to the table, or, while its offset is on the way there, to the thread, or to
\* the message the thread was interrupted in
Known(t) == \A k \in DOMAIN callbacks :
              Bar(k) => IF Back(ev[t], k) THEN ev[t].open
                        ELSE IF Back(under[t], k) THEN under[t].open
                        ELSE callbacks[k].open

\* A message that writes does so to an entry; what exitProg and the handler log are no bars;
\* nothing waits for the end of no message
Slots(e) == /\ e.phase \in {"write", "back"} => e.slot \in DOMAIN callbacks
            /\ e.phase = "back" => e.open = e.bar
            /\ e.then # "caller" => ~e.bar
            /\ e.phase = "none" => e.then = "caller"

\* A message that is about to write knows of the bar it finds, unless it has interrupted the one
\* that knows of it
Writing(t) == /\ ev[t].phase = "write" /\ Bar(ev[t].slot) =>
                    IF Back(under[t], ev[t].slot) THEN under[t].open ELSE ev[t].open
              /\ under[t].phase = "write" /\ Bar(under[t].slot) => under[t].open

\* Only the handler interrupts, and only once
Inside(t) == under[t].phase # "none" => handled /\ ev[t].then # "caller"

\* Streams that are not in the table have no bar
Elsewhere == \A d \in Dest : (\A k \in DOMAIN callbacks : callbacks[k].dest # d) => cursor[d] = "start"

\* No standard stream is in the table unless one is noted
StdNoted == stdOnList = {} => \A k \in DOMAIN callbacks : callbacks[k].dest \notin Std

IInv(t) == /\ TypeOK /\ Distinct /\ Known(t) /\ Slots(ev[t]) /\ Slots(under[t])
           /\ Writing(t) /\ Inside(t) /\ Elsewhere /\ StdNoted

\* What the changes of an entry and of an event leave them.
LEMMA EntrySet ==
    ASSUME NEW cb \in Callback
    PROVE  /\ \A l \in Levels : LET new == [cb EXCEPT !.level = l]
                               IN new \in Callback /\ new.dest = cb.dest /\ new.open = cb.open
           /\ \A q \in BOOLEAN : LET new == [cb EXCEPT !.quiet = q]
                                IN new \in Callback /\ new.dest = cb.dest /\ new.open = cb.open
           /\ \A o \in BOOLEAN : LET new == [cb EXCEPT !.open = o]
                                IN new \in Callback /\ new.dest = cb.dest /\ new.open = o
  BY DEF Callback

LEMMA NoEventType == NoEvent \in Event
  BY SMTT(30) DEF Event, NoEvent, MAX_CALLBACKS, Levels, LOG_TRACE, LOG_FATAL

LEMMA InfoType ==
    ASSUME NEW then \in {"exit", "second", "resume"}
    PROVE  Info(then) \in Event /\ Info(then).phase = "next" /\ Info(then).then = then /\ ~Info(then).bar
  <1>1. LOG_INFO \in Levels BY DEF Levels, LOG_TRACE, LOG_INFO, LOG_FATAL
  <1>2. /\ NoEvent \in [phase : {"none"}, slot : {1}, level : Levels, bar : {FALSE}, open : {FALSE}, then : {"caller"}]
        /\ 1 \in 1..(MAX_CALLBACKS + 1)
    BY SMTT(30) DEF NoEvent, MAX_CALLBACKS, Levels, LOG_TRACE, LOG_FATAL
  <1> QED BY <1>1, <1>2 DEF Info, Event

LEMMA EventSet ==
    ASSUME NEW e \in Event
    PROVE  /\ \A l \in Levels, b \in BOOLEAN :
                LET new == [e EXCEPT !.phase = "next", !.level = l, !.bar = b]
                IN new \in Event /\ new.phase = "next" /\ new.then = e.then
           /\ \A o \in BOOLEAN : /\ [e EXCEPT !.phase = "write", !.open = o] \in Event
                                /\ [e EXCEPT !.phase = "back", !.open = o] \in Event
           /\ \A n \in 1..(MAX_CALLBACKS + 1) : /\ [e EXCEPT !.phase = "next", !.slot = n] \in Event
                                               /\ [e EXCEPT !.slot = n] \in Event
  BY DEF Event

\* A function on the places of a table is a table of the same length.
LEMMA Mapped == ASSUME NEW S, NEW n \in Nat, NEW f \in [1..n -> S] PROVE f \in Seq(S) /\ Len(f) = n
  <1>1. f \in Seq(S) BY SeqDef
  <1> QED BY <1>1, LenProperties

\* An entry added for a stream that is not in the table leaves all entries as they were.
LEMMA Added ==
    ASSUME NEW cbs \in Seq(Callback), Len(cbs) <= MAX_CALLBACKS, NEW d \in Dest, NEW l \in Levels
    PROVE  LET new == add_callback(cbs, d, l) IN
           /\ new \in Seq(Callback) /\ Len(new) <= MAX_CALLBACKS
           /\ DOMAIN cbs \subseteq DOMAIN new
           /\ \A k \in DOMAIN cbs : new[k] = cbs[k]
           /\ \A k \in DOMAIN new \ DOMAIN cbs : new[k].dest = d /\ ~new[k].open /\ k = Len(cbs) + 1
  <1> DEFINE e == [dest |-> d, level |-> l, quiet |-> FALSE, open |-> FALSE]
             new == add_callback(cbs, d, l)
  <1>1. e \in Callback BY DEF Callback
  <1>2. CASE Len(cbs) < MAX_CALLBACKS
    <2>1. new = Append(cbs, e) BY <1>2 DEF add_callback
    <2>2. /\ new \in Seq(Callback) /\ Len(new) = Len(cbs) + 1
          /\ \A k \in 1..Len(cbs) : new[k] = cbs[k]
          /\ new[Len(cbs) + 1] = e
      BY <1>1, <2>1, AppendProperties
    <2>3. DOMAIN cbs = 1..Len(cbs) /\ DOMAIN new = 1..(Len(cbs) + 1) BY <2>2, LenProperties
    <2> QED BY <2>2, <2>3, <1>2 DEF MAX_CALLBACKS
  <1>3. CASE ~(Len(cbs) < MAX_CALLBACKS)
    BY <1>3 DEF add_callback
  <1> QED BY <1>2, <1>3

\* Another level or another quiet flag leaves the streams and their bars as they were.
LEMMA SameStreams ==
    ASSUME NEW t \in Thread, IInv(t), callbacks' \in Seq(Callback), Len(callbacks') = Len(callbacks),
           \A k \in DOMAIN callbacks : /\ callbacks'[k].dest = callbacks[k].dest
                                       /\ callbacks'[k].open = callbacks[k].open,
           UNCHANGED <<stdOnList, cursor, glued, ended, under, handled>>,
           \/ UNCHANGED ev
           \/ /\ ev[t].phase = "none" /\ ev' \in [Thread -> Event] /\ ev'[t].phase = "next"
              /\ ev'[t].then = "caller"
    PROVE  IInv(t)'
  <1>1. DOMAIN callbacks' = DOMAIN callbacks BY DEF IInv, TypeOK
  <1>2. TypeOK' BY DEF IInv, TypeOK
  <1>3. Distinct' BY <1>1 DEF IInv, Distinct
  <1>4. Known(t)' BY <1>1 DEF IInv, Known, Back, Bar
  <1>5. Slots(ev[t])' /\ Slots(under[t])' BY <1>1 DEF IInv, Slots
  <1>6. Writing(t)' BY <1>1 DEF IInv, Writing, Back, Bar, Slots
  <1>7. Inside(t)' BY DEF IInv, Inside, Slots
  <1>8. Elsewhere' BY <1>1 DEF IInv, Elsewhere
  <1>9. StdNoted' BY <1>1 DEF IInv, StdNoted
  <1> QED BY <1>2, <1>3, <1>4, <1>5, <1>6, <1>7, <1>8, <1>9 DEF IInv

\* The same with one more entry, for a stream that is not in the table.
LEMMA OneMore ==
    ASSUME NEW t \in Thread, IInv(t), NEW d \in Dest, NEW l \in Levels,
           \A k \in DOMAIN callbacks : callbacks[k].dest # d,
           callbacks' = add_callback(callbacks, d, l),
           stdOnList' \in SUBSET Dest, stdOnList' = {} => stdOnList = {} /\ d \notin Std,
           UNCHANGED <<cursor, glued, ended, under, handled>>,
           ev[t].phase = "none", ev' \in [Thread -> Event], ev'[t].phase \in {"none", "next"},
           ev'[t].then = "caller"
    PROVE  IInv(t)'
  <1>1. callbacks \in Seq(Callback) /\ Len(callbacks) <= MAX_CALLBACKS BY DEF IInv, TypeOK
  <1> DEFINE new == callbacks'
  <1>2. /\ new \in Seq(Callback) /\ Len(new) <= MAX_CALLBACKS
        /\ DOMAIN callbacks \subseteq DOMAIN new
        /\ \A k \in DOMAIN callbacks : new[k] = callbacks[k]
        /\ \A k \in DOMAIN new \ DOMAIN callbacks :
             new[k].dest = d /\ ~new[k].open /\ k = Len(callbacks) + 1
    BY <1>1, Added, SMTT(30)
  <1>3. cursor[d] = "start" BY DEF IInv, Elsewhere
  <1>a. under[t].phase = "none" BY DEF IInv, Inside, Slots
  <1> HIDE DEF new
  <1>4. TypeOK' BY <1>2 DEF IInv, TypeOK, new
  <1>5. Distinct' BY <1>2 DEF IInv, Distinct, new
  <1>6. Known(t)' BY <1>2, <1>3, <1>a DEF IInv, Known, Back, Bar, new
  <1>7. Slots(ev[t])' /\ Slots(under[t])' BY <1>2, <1>a DEF IInv, Slots, new
  <1>8. Writing(t)' BY <1>a DEF Writing
  <1>9. Inside(t)' BY <1>a DEF Inside
  <1>10. Elsewhere' BY <1>2 DEF IInv, Elsewhere, new
  <1>11. StdNoted' BY <1>2 DEF IInv, StdNoted, new
  <1> QED BY <1>4, <1>5, <1>6, <1>7, <1>8, <1>9, <1>10, <1>11 DEF IInv

LEMMA LoggerInit == ASSUME NEW t \in Thread, Init PROVE IInv(t)
  <1>1. TypeOK
    <2>1. callbacks \in Seq(Callback) /\ Len(callbacks) <= MAX_CALLBACKS
      BY EmptySeq DEF Init, MAX_CALLBACKS
    <2>2. ev \in [Thread -> Event] /\ under \in [Thread -> Event] BY NoEventType DEF Init
    <2> QED BY <2>1, <2>2 DEF Init, TypeOK
  <1> QED BY <1>1 DEF Init, IInv, NoEvent, Distinct, Known, Slots, Writing, Inside, Elsewhere, StdNoted

LEMMA LoggerStep ==
    ASSUME Std \subseteq Dest, NEW t \in Thread, Thread = {t}, IInv(t), [Next]_vars
    PROVE  IInv(t)'
  <1> USE DEF IInv
  <1>0. callbacks \in Seq(Callback) /\ Len(callbacks) <= MAX_CALLBACKS /\ ev \in [Thread -> Event]
        /\ under \in [Thread -> Event] /\ ev[t] \in Event /\ under[t] \in Event
    BY DEF TypeOK
  <1>c. \A k \in DOMAIN callbacks : /\ callbacks[k] \in Callback
                                    /\ callbacks[k].dest \in Dest /\ callbacks[k].open \in BOOLEAN
    <2>1. \A k \in DOMAIN callbacks : callbacks[k] \in Callback BY <1>0
    <2> QED BY <2>1 DEF Callback
  <1>1. ASSUME NEW d \in Dest, NEW l \in Levels, log_add_fp(d, l) PROVE IInv(t)'
    <2>1. stdOnList' \in SUBSET Dest /\ (stdOnList' = {} => stdOnList = {} /\ d \notin Std)
      BY <1>1 DEF log_add_fp, TypeOK
    <2>2. ev[t].phase = "none" /\ ev[t].then = "caller" BY <1>1 DEF log_add_fp, Idle, Slots
    <2> HIDE DEF IInv
    <2> QED BY <1>0, <1>1, <2>1, <2>2, OneMore DEF log_add_fp
  <1>2. ASSUME NEW l \in Levels, NEW i \in 0..(MAX_CALLBACKS - 1), log_set_level(l, i) PROVE IInv(t)'
    <2> DEFINE cb == [callbacks[i + 1] EXCEPT !.level = l]
    <2>0. i + 1 \in 1..Len(callbacks) /\ cb \in Callback BY <1>0, <1>2, EntrySet DEF log_set_level
    <2>1. callbacks' = [callbacks EXCEPT ![i + 1] = cb] BY <1>2 DEF log_set_level
    <2> HIDE DEF cb
    <2>2. callbacks' \in Seq(Callback) /\ Len(callbacks') = Len(callbacks) BY <1>0, <2>0, <2>1, ExceptSeq
    <2> USE DEF cb
    <2>3. \A k \in DOMAIN callbacks : callbacks'[k].dest = callbacks[k].dest /\ callbacks'[k].open = callbacks[k].open
      BY <1>0, <2>1 DEF Callback
    <2> HIDE DEF IInv
    <2> QED BY <1>2, <2>2, <2>3, SameStreams DEF log_set_level
  <1>3. ASSUME NEW d \in Dest, NEW m \in BOOLEAN, log_set_quiet(d, m) PROVE IInv(t)'
    <2>1. callbacks' = setQuiet(callbacks, d, m) BY <1>3 DEF log_set_quiet
    <2>2. \A k \in DOMAIN callbacks : callbacks'[k] \in Callback /\ callbacks'[k].dest = callbacks[k].dest
                                      /\ callbacks'[k].open = callbacks[k].open
      BY <1>0, <2>1, EntrySet DEF setQuiet
    <2>3. callbacks' \in [1..Len(callbacks) -> Callback] BY <1>0, <2>1, <2>2 DEF setQuiet
    <2>4. callbacks' \in Seq(Callback) /\ Len(callbacks') = Len(callbacks) BY <1>0, <2>3, Mapped
    <2> HIDE DEF IInv
    <2> QED BY <1>3, <2>2, <2>4, SameStreams DEF log_set_quiet
  <1>4. ASSUME NEW l \in Levels, NEW b \in BOOLEAN, NEW err \in Std, log_log(t, l, b, err) PROVE IInv(t)'
    <2>1. ev[t].phase = "none" BY <1>4 DEF log_log, Idle
    <2>2. ev' \in [Thread -> Event] /\ ev'[t].phase = "next" /\ ev'[t].then = "caller"
      <3> DEFINE new == [NoEvent EXCEPT !.phase = "next", !.level = l, !.bar = b]
      <3>1. ev' = [ev EXCEPT ![t] = new] BY <1>4 DEF log_log
      <3>2. new \in Event /\ new.phase = "next" /\ new.then = "caller"
        <4>1. NoEvent.then = "caller" BY DEF NoEvent
        <4> QED BY <4>1, NoEventType, EventSet
      <3> HIDE DEF new
      <3>3. ev \in [Thread -> Event] BY <1>0
      <3> QED BY <1>0, <3>1, <3>2, <3>3
    <2>3. CASE l < LOG_FATAL
      <3>1. UNCHANGED <<callbacks, stdOnList, cursor, glued, ended, under, handled>> BY <1>4, <2>3 DEF log_log
      <3> HIDE DEF IInv
      <3> QED BY <1>0, <2>1, <2>2, <3>1, SameStreams
    <2>4. CASE ~(l < LOG_FATAL) /\ stdOnList = {}
      <3>1. /\ callbacks' = add_callback(callbacks, err, LOG_FATAL) /\ stdOnList' = {err}
            /\ UNCHANGED <<cursor, glued, ended, under, handled>>
        BY <1>4, <2>4 DEF log_log
      <3>2. \A k \in DOMAIN callbacks : callbacks[k].dest # err BY <2>4 DEF StdNoted
      <3>3. LOG_FATAL \in Levels BY DEF LOG_FATAL, LOG_TRACE, Levels
      <3> HIDE DEF IInv
      <3> QED BY <2>1, <2>2, <3>1, <3>2, <3>3, OneMore
    <2>5. CASE ~(l < LOG_FATAL) /\ stdOnList # {}
      <3> DEFINE quiet(k) == IF callbacks[k].dest \in stdOnList THEN [callbacks[k] EXCEPT !.quiet = FALSE]
                             ELSE callbacks[k]
      <3>1. /\ callbacks' = [k \in DOMAIN callbacks |-> quiet(k)]
            /\ UNCHANGED <<stdOnList, cursor, glued, ended, under, handled>>
        BY <1>4, <2>5 DEF log_log
      <3>2. \A k \in DOMAIN callbacks : quiet(k) \in Callback /\ quiet(k).dest = callbacks[k].dest
                                        /\ quiet(k).open = callbacks[k].open
        BY <1>c, EntrySet
      <3> HIDE DEF quiet
      <3>3. callbacks' \in [1..Len(callbacks) -> Callback] BY <1>0, <3>1, <3>2
      <3>4. callbacks' \in Seq(Callback) /\ Len(callbacks') = Len(callbacks) BY <1>0, <3>3, Mapped
      <3> HIDE DEF IInv
      <3> QED BY <2>1, <2>2, <3>1, <3>2, <3>4, SameStreams
    <2> QED BY <2>3, <2>4, <2>5
  <1>5. ASSUME nextCallback(t) PROVE IInv(t)'
    <2> USE <1>5 DEF nextCallback
    <2> DEFINE k0 == ev[t].slot
               wr == [ev[t] EXCEPT !.phase = "write", !.open = callbacks[k0].open]
               skip == [ev[t] EXCEPT !.slot = k0 + 1]
    <2>0. k0 \in DOMAIN callbacks /\ k0 + 1 \in 1..(MAX_CALLBACKS + 1) BY <1>0 DEF MAX_CALLBACKS
    <2>1. wr \in Event /\ skip \in Event
      <3>1. callbacks[k0].open \in BOOLEAN BY <1>c, <2>0
      <3> QED BY <1>0, <2>0, <3>1, EventSet
    <2>2. /\ wr.phase = "write" /\ wr.slot = k0 /\ wr.open = callbacks[k0].open
          /\ wr.then = ev[t].then /\ wr.bar = ev[t].bar
          /\ skip.phase = "next" /\ skip.then = ev[t].then /\ skip.bar = ev[t].bar
      BY <1>0 DEF Event
    <2>3. /\ ev' = [ev EXCEPT ![t] = IF Accepts(callbacks[k0], ev[t]) THEN wr ELSE skip]
          /\ UNCHANGED <<callbacks, stdOnList, cursor, glued, ended, under, handled>>
      OBVIOUS
    <2> HIDE DEF wr, skip, nextCallback
    <2>4. ev' \in [Thread -> Event] /\ (ev'[t] = wr \/ ev'[t] = skip) BY <1>0, <2>1, <2>3
    <2>5. TypeOK' BY <2>3, <2>4 DEF TypeOK
    <2>6. ~Back(ev[t], k0) BY <1>5 DEF nextCallback, Back
    <2>7. Known(t)' BY <1>5, <2>2, <2>3, <2>4 DEF Known, Back, Bar, nextCallback
    <2>8. Slots(ev[t])' /\ Slots(under[t])' BY <2>0, <2>2, <2>3, <2>4 DEF Slots
    <2>9. Writing(t)' BY <2>0, <2>2, <2>3, <2>4, <2>6 DEF Writing, Known, Bar, Back
    <2>10. Inside(t)' BY <1>5, <2>2, <2>3, <2>4 DEF Inside, nextCallback
    <2> QED BY <2>3, <2>5, <2>7, <2>8, <2>9, <2>10 DEF Distinct, Elsewhere, StdNoted
  <1>6. ASSUME file_callback(t) PROVE IInv(t)'
    <2> USE <1>6 DEF file_callback
    <2> DEFINE k0 == ev[t].slot
    <2>0. k0 \in DOMAIN callbacks BY DEF Slots
    <2>a. ev[t].bar \in BOOLEAN BY <1>0 DEF Event
    <2>b. ev' \in [Thread -> Event] BY <1>0, <2>a, EventSet
    <2>c. callbacks[k0].dest \in Dest BY <1>c, <2>0
    <2>1. TypeOK' BY <2>b, <2>c DEF TypeOK
    <2>d. /\ ev'[t].phase = "back" /\ ev'[t].slot = k0 /\ ev'[t].open = ev[t].bar
          /\ ev'[t].then = ev[t].then /\ ev'[t].bar = ev[t].bar
      BY <1>0 DEF Event
    <2>e. \A k \in DOMAIN callbacks :
            Bar(k)' <=> IF k = k0 THEN ev[t].bar ELSE Bar(k)
      BY <1>0, <2>0, <2>a, <2>c DEF Bar, Distinct, TypeOK
    <2>f. UNCHANGED <<callbacks, stdOnList, under, handled>> OBVIOUS
    <2>2. Known(t)' BY <2>d, <2>e, <2>f DEF Known, Back
    <2>3. Slots(ev[t])' /\ Slots(under[t])' BY <2>0, <2>d, <2>f DEF Slots
    <2>4. Writing(t)'
      <3>1. CASE under[t].phase = "write"
        <4>1. ~ev[t].bar BY <3>1 DEF Inside, Slots
        <4>2. under[t].slot \in DOMAIN callbacks BY <3>1 DEF Slots
        <4> QED BY <4>1, <4>2, <2>d, <2>e, <2>f DEF Writing
      <3>2. CASE under[t].phase # "write"
        BY <3>2, <2>d, <2>f DEF Writing
      <3> QED BY <3>1, <3>2
    <2>5. Inside(t)' BY <2>d, <2>f DEF Inside
    <2>6. Elsewhere' BY <1>0, <2>0 DEF Elsewhere, TypeOK
    <2> QED BY <2>1, <2>2, <2>3, <2>4, <2>5, <2>6, <2>f DEF Distinct, StdNoted
  <1>7. ASSUME storeOffset(t) PROVE IInv(t)'
    <2> USE <1>7 DEF storeOffset
    <2> DEFINE k0 == ev[t].slot
    <2>0. k0 \in DOMAIN callbacks /\ k0 \in 1..2 BY <1>0 DEF Slots, Event, MAX_CALLBACKS
    <2> DEFINE cb == [callbacks[k0] EXCEPT !.open = ev[t].open]
    <2>a. k0 \in 1..Len(callbacks) /\ cb \in Callback
      <3>1. ev[t].open \in BOOLEAN BY <1>0 DEF Event
      <3> QED BY <1>0, <1>c, <2>0, <3>1, EntrySet
    <2>b. callbacks' = [callbacks EXCEPT ![k0] = cb] OBVIOUS
    <2> HIDE DEF cb
    <2>1. callbacks' \in Seq(Callback) /\ Len(callbacks') = Len(callbacks) BY <1>0, <2>a, <2>b, ExceptSeq
    <2> USE DEF cb
    <2>2. \A k \in DOMAIN callbacks : callbacks'[k].dest = callbacks[k].dest
      BY <1>0, <2>0 DEF Callback
    <2> DEFINE next == [ev[t] EXCEPT !.phase = "next", !.slot = k0 + 1]
    <2>3. /\ ev' = [ev EXCEPT ![t] = next]
          /\ UNCHANGED <<stdOnList, cursor, glued, ended, under, handled>>
      OBVIOUS
    <2>4. next \in Event /\ next.phase = "next" /\ next.then = ev[t].then /\ next.bar = ev[t].bar
      <3>1. k0 + 1 \in 1..(MAX_CALLBACKS + 1) BY <2>0 DEF MAX_CALLBACKS
      <3>2. next \in Event BY <1>0, <3>1, EventSet
      <3> QED BY <1>0, <3>2 DEF Event
    <2> HIDE DEF next
    <2>5. ev' \in [Thread -> Event] /\ ev'[t] = next BY <1>0, <2>3, <2>4
    <2>6. TypeOK' BY <2>1, <2>3, <2>5 DEF TypeOK
    <2>7. DOMAIN callbacks' = DOMAIN callbacks BY <1>0, <2>1
    <2>8. \A k \in DOMAIN callbacks : callbacks'[k].open = IF k = k0 THEN ev[t].open ELSE callbacks[k].open
      BY <1>0, <2>0 DEF Callback
    <2>9. \A k \in DOMAIN callbacks : Bar(k)' <=> Bar(k) BY <2>2, <2>3 DEF Bar
    <2>10. Back(ev[t], k0) BY DEF Back
    <2> HIDE DEF storeOffset
    <2>11. Known(t)'
      <3> SUFFICES ASSUME NEW k \in DOMAIN callbacks, Bar(k)
                   PROVE  IF Back(under[t], k) THEN under[t].open ELSE callbacks'[k].open
        BY <2>3, <2>4, <2>5, <2>7, <2>9 DEF Known, Back
      <3>1. CASE k = k0
        <4>1. ev[t].open BY <3>1, <2>10 DEF Known
        <4>2. callbacks'[k].open BY <3>1, <4>1, <2>8
        <4>3. Back(under[t], k) => under[t].open
          <5>1. ev[t].open = ev[t].bar BY <2>10 DEF Slots, Back
          <5>2. under[t].phase # "none" => ~ev[t].bar BY DEF Inside, Slots
          <5> QED BY <4>1, <5>1, <5>2 DEF Back
        <4> QED BY <4>2, <4>3
      <3>2. CASE k # k0
        BY <3>2, <2>8 DEF Known, Back
      <3> QED BY <3>1, <3>2
    <2>12. Slots(ev[t])' /\ Slots(under[t])' BY <2>3, <2>4, <2>5, <2>7 DEF Slots
    <2>13. Writing(t)' BY <2>3, <2>4, <2>5, <2>9 DEF Writing, Slots
    <2>14. Inside(t)' BY <1>7, <2>3, <2>4, <2>5 DEF Inside, storeOffset
    <2> QED BY <2>2, <2>3, <2>6, <2>7, <2>11, <2>12, <2>13, <2>14 DEF Distinct, Elsewhere, StdNoted
  <1>8. ASSUME logged(t) PROVE IInv(t)'
    <2>f. UNCHANGED <<callbacks, stdOnList, cursor, glued, handled>> BY <1>8 DEF logged
    <2>u. ended' \in BOOLEAN BY <1>8 DEF logged, TypeOK
    <2>1. ASSUME NEW th \in {"exit", "resume"}, ev' = [ev EXCEPT ![t] = Info(th)], UNCHANGED under
          PROVE  IInv(t)'
      <3>1. Info(th) \in Event /\ Info(th).phase = "next" /\ Info(th).then = th /\ ~Info(th).bar
        BY InfoType
      <3>2. ev' \in [Thread -> Event] /\ ev'[t] = Info(th) BY <1>0, <2>1, <3>1
      <3>3. TypeOK' BY <2>1, <2>f, <2>u, <3>2 DEF TypeOK
      <3>p. ev[t].phase = "next" BY <1>8 DEF logged
      <3>4. Known(t)' BY <2>1, <2>f, <3>1, <3>2, <3>p DEF Known, Back, Bar
      <3>5. Slots(ev[t])' /\ Slots(under[t])' BY <2>1, <2>f, <3>1, <3>2 DEF Slots
      <3>6. Writing(t)' BY <2>1, <2>f, <3>1, <3>2 DEF Writing, Bar
      <3>7. Inside(t)' BY <2>1, <2>f, <3>1, <3>2 DEF Inside
      <3> QED BY <2>f, <3>3, <3>4, <3>5, <3>6, <3>7 DEF Distinct, Elsewhere, StdNoted
    <2>2. ASSUME ev[t].then = "caller", ev' = [ev EXCEPT ![t] = NoEvent], UNCHANGED under
          PROVE  IInv(t)'
      <3>1. NoEvent.phase = "none" /\ NoEvent.then = "caller" BY DEF NoEvent
      <3>2. ev' \in [Thread -> Event] /\ ev'[t] = NoEvent BY <1>0, <2>2, NoEventType
      <3>3. TypeOK' BY <2>2, <2>f, <2>u, <3>2 DEF TypeOK
      <3>p. ev[t].phase = "next" BY <1>8 DEF logged
      <3>4. Known(t)' BY <2>2, <2>f, <3>1, <3>2, <3>p DEF Known, Back, Bar
      <3>5. Slots(ev[t])' /\ Slots(under[t])' BY <2>2, <2>f, <3>1, <3>2 DEF Slots
      <3>6. Writing(t)' BY <2>2, <2>f, <3>1, <3>2 DEF Writing, Bar
      <3>7. Inside(t)' BY <2>2, <2>f, <3>1, <3>2 DEF Inside
      <3> QED BY <2>f, <3>3, <3>4, <3>5, <3>6, <3>7 DEF Distinct, Elsewhere, StdNoted
    <2>3. ASSUME UNCHANGED <<ev, under>> PROVE IInv(t)'
      BY <2>3, <2>f, <2>u DEF TypeOK, Distinct, Known, Back, Bar, Slots, Writing, Inside, Elsewhere, StdNoted
    <2>4. ASSUME ev' = [ev EXCEPT ![t] = under[t]], under' = [under EXCEPT ![t] = NoEvent] PROVE IInv(t)'
      <3>1. NoEvent.phase = "none" /\ NoEvent.then = "caller" BY DEF NoEvent
      <3>2. /\ ev' \in [Thread -> Event] /\ ev'[t] = under[t]
            /\ under' \in [Thread -> Event] /\ under'[t] = NoEvent
        BY <1>0, <2>4, NoEventType
      <3>3. TypeOK' BY <2>f, <2>u, <3>2 DEF TypeOK
      <3>p. ev[t].phase = "next" BY <1>8 DEF logged
      <3>4. Known(t)' BY <2>f, <3>1, <3>2, <3>p DEF Known, Back, Bar
      <3>5. Slots(ev[t])' /\ Slots(under[t])' BY <2>f, <3>1, <3>2 DEF Slots
      <3>6. Writing(t)' BY <2>f, <3>1, <3>2 DEF Writing, Bar, Back
      <3>7. Inside(t)' BY <2>f, <3>1, <3>2 DEF Inside
      <3> QED BY <2>f, <3>3, <3>4, <3>5, <3>6, <3>7 DEF Distinct, Elsewhere, StdNoted
    <2> QED BY <1>8, <2>1, <2>2, <2>3, <2>4, Zenon DEF logged
  <1>9. ASSUME NEW long \in BOOLEAN, intHandler(t, long) PROVE IInv(t)'
    <2> DEFINE th == IF long THEN "second" ELSE "exit"
    <2>f. UNCHANGED <<callbacks, stdOnList, cursor, glued, ended>> /\ handled' = TRUE /\ ~handled
      BY <1>9 DEF intHandler
    <2>1. Info(th) \in Event /\ Info(th).phase = "next" /\ Info(th).then = th /\ ~Info(th).bar
      BY InfoType
    <2>2. th # "caller" OBVIOUS
    <2>3. ev' = [ev EXCEPT ![t] = Info(th)] /\ under' = [under EXCEPT ![t] = ev[t]]
      BY <1>9 DEF intHandler
    <2> HIDE DEF th
    <2>4. /\ ev' \in [Thread -> Event] /\ ev'[t] = Info(th)
          /\ under' \in [Thread -> Event] /\ under'[t] = ev[t]
      BY <1>0, <2>1, <2>3
    <2>5. TypeOK' BY <2>f, <2>4 DEF TypeOK
    <2>6. under[t].phase = "none" BY <2>f DEF Inside
    <2>7. Known(t)' BY <2>f, <2>1, <2>4, <2>6 DEF Known, Back, Bar
    <2>8. Slots(ev[t])' /\ Slots(under[t])' BY <2>f, <2>1, <2>4 DEF Slots
    <2>9. Writing(t)' BY <2>f, <2>1, <2>4, <2>6 DEF Writing, Bar, Back
    <2>10. Inside(t)' BY <2>f, <2>1, <2>2, <2>4 DEF Inside
    <2> QED BY <2>f, <2>5, <2>7, <2>8, <2>9, <2>10 DEF Distinct, Elsewhere, StdNoted
  <1>10. CASE UNCHANGED vars
    BY <1>10 DEF vars, TypeOK, Distinct, Known, Back, Bar, Slots, Writing, Inside, Elsewhere, StdNoted
  <1> HIDE DEF IInv
  <1> QED BY <1>1, <1>2, <1>3, <1>4, <1>5, <1>6, <1>7, <1>8, <1>9, <1>10 DEF Next

\* What a step that glues a text finds.
LEMMA LoggerGlue ==
    ASSUME NEW t \in Thread, Thread = {t}, IInv(t), [Next]_vars, NEW d \in glued' \ glued
    PROVE  under[t].phase = "back" /\ under[t].open /\ callbacks[under[t].slot].dest = d
  <1>1. glued' # glued OBVIOUS
  <1>2. file_callback(t)
    BY <1>1 DEF Next, vars, log_add_fp, log_set_level, log_set_quiet, log_log, nextCallback, storeOffset,
               logged, intHandler
  <1>3. /\ ev[t].phase = "write" /\ cursor[d] = "bar" /\ ~ev[t].open
        /\ d = callbacks[ev[t].slot].dest
    BY <1>2 DEF file_callback
  <1>4. Bar(ev[t].slot) BY <1>3 DEF Bar
  <1> QED BY <1>3, <1>4 DEF IInv, Writing, Back

\* With one thread that logs a text is put behind a status bar in one case only, whatever the
\* levels, the quiet flags and the order of bars and messages: SIGINT has come between the bar's
\* text and the store of its lineOffset, and the text is the handler's or exitProg's
\* (logger.cpp:227-228, intHandler).
THEOREM OneThreadGlues ==
    ASSUME Std \subseteq Dest, NEW t \in Thread, Thread = {t}
    PROVE  Spec => GluedByInterrupt
  <1>1. Init => IInv(t) BY LoggerInit
  <1>2. IInv(t) /\ [Next]_vars => IInv(t)' BY LoggerStep
  <1>3. IInv(t) /\ [Next]_vars => [ByInterrupt]_vars
    BY LoggerGlue DEF ByInterrupt
  <1> QED BY <1>1, <1>2, <1>3, PTL DEF Spec, GluedByInterrupt

----------------------------------------------------------------------------
(* The hash of a file does not depend on the pieces it is read in.         *)

\* The first q stripes of u
Whole(u, q) == [j \in 1..q |-> Slice(u, (j - 1) * Stripe, Stripe)]

LEMMA StripesWhole == ASSUME NEW u, NEW len PROVE Stripes(u, len) = Whole(u, len \div Stripe)
  BY DEF Stripes, Whole

\* f is a table of n entries.
IsTable(f, n) == f = [j \in 1..n |-> f[j]]

LEMMA Table == ASSUME NEW n \in Nat, NEW f, IsTable(f, n)
               PROVE  \E S : f \in Seq(S) /\ Len(f) = n
  <1> DEFINE S == {f[j] : j \in 1..n}
  <1>1. f \in [1..n -> S] BY DEF IsTable
  <1> HIDE DEF S
  <1>2. f \in Seq(S) /\ Len(f) = n BY <1>1
  <1> QED BY <1>2

\* A table of q1 entries followed by one of q2
LEMMA Tables ==
    ASSUME NEW q1 \in Nat, NEW q2 \in Nat, NEW f, NEW g, NEW h,
           IsTable(f, q1), IsTable(g, q2), IsTable(h, q1 + q2),
           \A j \in 1..q1 : h[j] = f[j], \A j \in 1..q2 : h[q1 + j] = g[j]
    PROVE  f \o g = h
  <1>1. PICK A : f \in Seq(A) /\ Len(f) = q1 BY Table
  <1>2. PICK B : g \in Seq(B) /\ Len(g) = q2 BY Table
  <1>3. \E C : h \in Seq(C) /\ Len(h) = q1 + q2
    <2>1. q1 + q2 \in Nat OBVIOUS
    <2> QED BY <2>1, Table
  <1>4. PICK C : h \in Seq(C) /\ Len(h) = q1 + q2 BY <1>3
  <1>5. PICK S : f \in Seq(S) /\ g \in Seq(S) /\ h \in Seq(S)
    <2>1. f \in Seq(A \cup B \cup C) BY <1>1
    <2>2. g \in Seq(A \cup B \cup C) BY <1>2
    <2>3. h \in Seq(A \cup B \cup C) BY <1>4
    <2> QED BY <2>1, <2>2, <2>3
  <1> DEFINE e == f \o g
  <1>6. e \in Seq(S) /\ Len(e) = q1 + q2
    <2>1. f \o g \in Seq(S) BY <1>5
    <2>2. Len(f \o g) = Len(f) + Len(g) BY <1>5
    <2> QED BY <1>1, <1>2, <2>1, <2>2
  <1>7. \A j \in 1..q1 : e[j] = f[j] BY <1>1, <1>2, <1>5
  <1>8. \A j \in 1..q2 : e[q1 + j] = g[j] BY <1>1, <1>2, <1>5
  <1> HIDE DEF e
  <1>9. ASSUME NEW j \in 1..(q1 + q2) PROVE e[j] = h[j]
    <2>1. CASE j <= q1
      <3>1. j \in 1..q1 BY <2>1
      <3> QED BY <1>7, <3>1
    <2>2. CASE j > q1
      <3>1. j - q1 \in 1..q2 /\ j = q1 + (j - q1) BY <2>2
      <3>2. PICK d \in 1..q2 : j = q1 + d BY <3>1
      <3>3. e[q1 + d] = g[d] /\ h[q1 + d] = g[d] BY <1>8
      <3> QED BY <3>2, <3>3
    <2> QED BY <2>1, <2>2
  <1>10. e = h BY <1>4, <1>5, <1>6, <1>9
  <1> QED BY <1>10 DEF e

LEMMA Division ==
    ASSUME NEW n \in Nat
    PROVE  /\ n \div Stripe \in Nat /\ (n % Stripe) \in 0..(Stripe - 1)
           /\ n = Stripe * (n \div Stripe) + (n % Stripe)
  <1>1. n \div 32 \in Nat OBVIOUS
  <1>2. (n % 32) \in 0..31 OBVIOUS
  <1>3. n = 32 * (n \div 32) + (n % 32) OBVIOUS
  <1> QED BY <1>1, <1>2, <1>3 DEF Stripe

LEMMA Quotient ==
    ASSUME NEW q \in Nat, NEW r \in 0..(Stripe - 1)
    PROVE  (Stripe * q + r) \div Stripe = q /\ (Stripe * q + r) % Stripe = r
  BY DEF Stripe

\* Stripes taken from what lies behind the first q1 stripes of u
LEMMA MoreStripes ==
    ASSUME NEW u, NEW v, NEW q1 \in Nat, NEW q2 \in Nat,
           \A k \in 1..(Stripe * q2) : v[k] = u[Stripe * q1 + k]
    PROVE  Whole(u, q1) \o Whole(v, q2) = Whole(u, q1 + q2)
  <1> DEFINE f == Whole(u, q1)
             g == Whole(v, q2)
             h == Whole(u, q1 + q2)
  <1>1. IsTable(f, q1) /\ IsTable(g, q2) /\ IsTable(h, q1 + q2) BY DEF Whole, IsTable
  <1>2. \A j \in 1..q1 : h[j] = f[j] BY DEF Whole
  <1>3. ASSUME NEW j \in 1..q2 PROVE h[q1 + j] = g[j]
    <2>1. g[j] = Slice(v, (j - 1) * Stripe, Stripe) BY DEF Whole
    <2>2. h[q1 + j] = Slice(u, (q1 + j - 1) * Stripe, Stripe) BY DEF Whole
    <2>3. ASSUME NEW k \in 1..Stripe
          PROVE  v[(j - 1) * Stripe + k] = u[(q1 + j - 1) * Stripe + k]
      <3>1. (j - 1) * Stripe + k \in 1..(Stripe * q2) BY DEF Stripe
      <3>2. Stripe * q1 + ((j - 1) * Stripe + k) = (q1 + j - 1) * Stripe + k BY DEF Stripe
      <3> QED BY <3>1, <3>2
    <2> QED BY <2>1, <2>2, <2>3 DEF Slice
  <1> HIDE DEF f, g, h
  <1>4. \A j \in 1..q2 : h[q1 + j] = g[j] BY <1>3
  <1>5. f \o g = h BY <1>1, <1>2, <1>4, Tables
  <1> QED BY <1>5 DEF f, g, h

\* The state after the bytes s: the stripes of s, and what is left over in the buffer
Fed(st, s) ==
    /\ st = [acc |-> Whole(s, Len(s) \div Stripe), total_len |-> Len(s), buffer |-> st.buffer,
             bufferedSize |-> Len(s) % Stripe]
    /\ IsTable(st.buffer, Stripe)
    /\ \A k \in 1..(Len(s) % Stripe) : st.buffer[k] = s[Stripe * (Len(s) \div Stripe) + k]

LEMMA Joined ==
    ASSUME NEW s \in Seq(Bytes), NEW t \in Seq(Bytes)
    PROVE  /\ s \o t \in Seq(Bytes) /\ Len(s \o t) = Len(s) + Len(t)
           /\ \A k \in 1..Len(s) : (s \o t)[k] = s[k]
           /\ \A k \in 1..Len(t) : (s \o t)[Len(s) + k] = t[k]
  OBVIOUS

LEMMA BytesCopied ==
    ASSUME NEW b, NEW at \in Int, NEW t, NEW len \in Int
    PROVE  /\ IsTable(memcpy(b, at, t, len), Stripe)
           /\ \A k \in 1..Stripe :
                  memcpy(b, at, t, len)[k] = IF k > at /\ k <= at + len THEN t[k - at] ELSE b[k]
  BY DEF memcpy, IsTable

LEMMA FedParts ==
    ASSUME NEW st, NEW s, Fed(st, s)
    PROVE  /\ st.acc = Whole(s, Len(s) \div Stripe) /\ st.total_len = Len(s)
           /\ st.bufferedSize = Len(s) % Stripe
           /\ st = [acc |-> st.acc, total_len |-> st.total_len, buffer |-> st.buffer,
                    bufferedSize |-> st.bufferedSize]
  <1> DEFINE w == Whole(s, Len(s) \div Stripe)
             n == Len(s)
             r == Len(s) % Stripe
             b == st.buffer
  <1>1. st = [acc |-> w, total_len |-> n, buffer |-> b, bufferedSize |-> r] BY DEF Fed
  <1> HIDE DEF w, n, r, b
  <1>2. st.acc = w /\ st.total_len = n /\ st.bufferedSize = r /\ st.buffer = b BY <1>1
  <1>3. st = [acc |-> st.acc, total_len |-> st.total_len, buffer |-> st.buffer, bufferedSize |-> st.bufferedSize]
    BY <1>1, <1>2
  <1> QED BY <1>2, <1>3 DEF w, n, r

LEMMA FedBack ==
    ASSUME NEW s, NEW q, NEW r, NEW c, Len(s) \div Stripe = q, Len(s) % Stripe = r,
           IsTable(c, Stripe), \A k \in 1..r : c[k] = s[Stripe * q + k]
    PROVE  Fed([acc |-> Whole(s, q), total_len |-> Len(s), buffer |-> c, bufferedSize |-> r], s)
  BY DEF Fed

\* Too few bytes for the next stripe are kept.
LEMMA UpdateKeeps ==
    ASSUME NEW s \in Seq(Bytes), NEW t \in Seq(Bytes), NEW st, Fed(st, s),
           Len(t) < Stripe - st.bufferedSize
    PROVE  Fed(update(st, t), s \o t)
  <1> DEFINE a == Len(s)
             b == Len(t)
             q == a \div Stripe
             r == a % Stripe
             u == s \o t
             c == memcpy(st.buffer, r, t, b)
  <1>1. a \in Nat /\ b \in Nat OBVIOUS
  <1> HIDE DEF a, b, q, r, u, c
  <1>2. q \in Nat /\ r \in 0..(Stripe - 1) /\ a = Stripe * q + r BY <1>1, Division DEF q, r
  <1>3. /\ st.acc = Whole(s, q) /\ st.total_len = a /\ st.bufferedSize = r
        /\ st = [acc |-> st.acc, total_len |-> st.total_len, buffer |-> st.buffer,
                 bufferedSize |-> st.bufferedSize]
        /\ \A k \in 1..r : st.buffer[k] = s[Stripe * q + k]
    BY FedParts DEF Fed, a, q, r
  <1>4. update(st, t) = [acc |-> st.acc, total_len |-> a + b, buffer |-> c, bufferedSize |-> r + b]
    <2>1. b < Stripe - st.bufferedSize BY DEF b
    <2> QED BY <1>3, <2>1 DEF update, b, c
  <1>5. /\ Len(u) = a + b /\ \A k \in 1..a : u[k] = s[k]
        /\ \A k \in 1..b : u[a + k] = t[k]
    BY Joined DEF a, b, u
  <1>6. r + b \in 0..(Stripe - 1) 
    <2>1. b < Stripe - r BY <1>3 DEF b
    <2> QED BY <1>1, <1>2, <2>1 DEF Stripe
  <1>7. /\ IsTable(c, Stripe)
        /\ \A k \in 1..Stripe : c[k] = IF k > r /\ k <= r + b THEN t[k - r] ELSE st.buffer[k]
    BY <1>1, <1>2, BytesCopied DEF c
  <1>8. Len(u) = Stripe * q + (r + b) BY <1>1, <1>2, <1>5 DEF Stripe
  <1>9. Len(u) \div Stripe = q /\ Len(u) % Stripe = r + b BY <1>2, <1>6, <1>8, Quotient
  <1>10. Whole(u, q) = Whole(s, q)
    <2>1. ASSUME NEW j \in 1..q PROVE Slice(u, (j - 1) * Stripe, Stripe) = Slice(s, (j - 1) * Stripe, Stripe)
      <3>1. \A k \in 1..Stripe : (j - 1) * Stripe + k \in 1..a BY <1>2 DEF Stripe
      <3> QED BY <1>5, <3>1 DEF Slice
    <2> QED BY <2>1 DEF Whole
  <1>11. ASSUME NEW k \in 1..(r + b) PROVE c[k] = u[Stripe * q + k]
    <2>1. k \in 1..Stripe BY <1>1, <1>2, <1>6 DEF Stripe
    <2>2. CASE k <= r
      <3>1. k \in 1..r /\ Stripe * q + k \in 1..a BY <1>2, <2>2 DEF Stripe
      <3>2. c[k] = st.buffer[k] BY <1>2, <1>7, <2>1, <2>2
      <3> QED BY <1>3, <1>5, <3>1, <3>2
    <2>3. CASE k > r
      <3>1. k - r \in 1..b /\ a + (k - r) = Stripe * q + k BY <1>1, <1>2, <2>3 DEF Stripe
      <3>2. c[k] = t[k - r] BY <1>1, <1>2, <1>7, <2>1, <2>3
      <3> QED BY <1>5, <3>1, <3>2
    <2> QED BY <1>2, <2>2, <2>3
  <1>12. Fed(update(st, t), u)
    <2>1. st.acc = Whole(u, q) /\ Len(u) = a + b BY <1>3, <1>5, <1>10
    <2> QED BY <1>3, <1>4, <1>7, <1>9, <1>11, <2>1, FedBack
  <1> QED BY <1>12 DEF u

LEMMA SliceAt ==
    ASSUME NEW s, NEW n, NEW len \in Nat, NEW k \in 1..len PROVE Slice(s, n, len)[k] = s[n + k]
  BY DEF Slice

\* The buffer is filled up first, and what is left over after the last stripe is kept.
LEMMA UpdateTakes ==
    ASSUME NEW s \in Seq(Bytes), NEW t \in Seq(Bytes), NEW st, Fed(st, s),
           Len(t) >= Stripe - st.bufferedSize
    PROVE  Fed(update(st, t), s \o t)
  <1> DEFINE a      == Len(s)
             b      == Len(t)
             q      == a \div Stripe
             r      == a % Stripe
             u      == s \o t
             take   == IF r > 0 THEN Stripe - r ELSE 0
             filled == memcpy(st.buffer, r, t, take)
             m      == b - take
             q2     == m \div Stripe
             r2     == m % Stripe
             more   == Slice(t, take, m)
             used   == take + q2 * Stripe
             acc1   == IF take > 0 THEN consumeLong(st.acc, filled, Stripe) ELSE st.acc
             acc2   == IF m >= Stripe THEN consumeLong(acc1, more, m) ELSE acc1
             last   == Slice(t, used, b - used)
             c      == memcpy(filled, 0, last, b - used)
             q1     == IF r > 0 THEN q + 1 ELSE q
  <1>1. a \in Nat /\ b \in Nat OBVIOUS
  <1> HIDE DEF a, b, q, r, u, take, filled, m, q2, r2, more, used, acc1, acc2, last, c, q1
  <1>2. q \in Nat /\ r \in 0..(Stripe - 1) /\ a = Stripe * q + r BY <1>1, Division DEF q, r
  <1>3. /\ st.acc = Whole(s, q) /\ st.total_len = a /\ st.bufferedSize = r
        /\ \A k \in 1..r : st.buffer[k] = s[Stripe * q + k]
    BY FedParts DEF Fed, a, q, r
  <1>4. update(st, t) = [acc |-> acc2, total_len |-> a + b, buffer |-> c, bufferedSize |-> b - used]
    <2>1. b >= Stripe - st.bufferedSize BY DEF b
    <2>2. Stripe - st.bufferedSize \in Int /\ ~(b < Stripe - st.bufferedSize) BY <1>1, <1>2, <1>3, <2>1 DEF Stripe
    <2>3. take = IF st.bufferedSize > 0 THEN Stripe - st.bufferedSize ELSE 0 BY <1>3 DEF take
    <2>4. filled = memcpy(st.buffer, st.bufferedSize, t, take) BY <1>3 DEF filled
    <2> QED BY <1>3, <2>2, <2>3, <2>4 DEF update, b, m, q2, more, used, acc1, acc2, last, c
  <1>5. /\ Len(u) = a + b /\ \A k \in 1..a : u[k] = s[k]
        /\ \A k \in 1..b : u[a + k] = t[k]
    BY Joined DEF a, b, u
  <1>6. take \in 0..(Stripe - 1) /\ m \in Nat
    <2>1. b >= Stripe - r BY <1>3 DEF b
    <2> QED BY <1>1, <1>2, <2>1 DEF take, m, Stripe
  <1>7. q1 \in Nat /\ a + take = Stripe * q1 BY <1>2 DEF q1, take, Stripe
  <1>8. q2 \in Nat /\ r2 \in 0..(Stripe - 1) /\ m = Stripe * q2 + r2 BY <1>6, Division DEF q2, r2
  <1>9. r2 = b - used /\ used \in Nat BY <1>1, <1>6, <1>8 DEF used, m, Stripe
  <1>10. \A k \in 1..Stripe : filled[k] = IF k > r /\ k <= r + take THEN t[k - r] ELSE st.buffer[k]
    <2>1. r \in Int /\ take \in Int BY <1>2, <1>6
    <2> QED BY <2>1, BytesCopied DEF filled
  <1>11. /\ IsTable(c, Stripe)
         /\ \A k \in 1..r2 : c[k] = last[k]
    <2>1. /\ IsTable(c, Stripe)
          /\ \A k \in 1..Stripe : c[k] = IF k > 0 /\ k <= 0 + (b - used) THEN last[k - 0] ELSE filled[k]
      <3>1. 0 \in Int /\ b - used \in Int BY <1>1, <1>9
      <3> QED BY <3>1, BytesCopied DEF c
    <2>2. ASSUME NEW k \in 1..r2 PROVE c[k] = last[k]
      <3>1. k \in Nat /\ k > 0 /\ k <= r2 /\ r2 < Stripe /\ Stripe \in Nat BY <1>8 DEF Stripe
      <3>2. k \in 1..Stripe /\ k <= 0 + r2 /\ k - 0 = k BY <1>8, <3>1
      <3> QED BY <1>9, <2>1, <3>1, <3>2
    <2> QED BY <2>1, <2>2
  <1>12. \A k \in 1..m : more[k] = t[take + k] BY <1>6, SliceAt DEF more
  <1>13. \A k \in 1..r2 : last[k] = t[used + k]
    <2>1. b - used \in Nat BY <1>8, <1>9
    <2> QED BY <1>9, <2>1, SliceAt DEF last
  <1>14. acc1 = IF take > 0 THEN Whole(s, q) \o Whole(filled, 1) ELSE Whole(s, q)
    <2>1. Stripe \div Stripe = 1 BY DEF Stripe
    <2> QED BY <1>3, <2>1, StripesWhole DEF consumeLong, acc1
  <1>15. acc2 = IF m >= Stripe THEN acc1 \o Whole(more, q2) ELSE acc1
    BY StripesWhole DEF consumeLong, acc2, q2
  <1>16. Whole(u, q) = Whole(s, q)
    <2>1. ASSUME NEW j \in 1..q PROVE Slice(u, (j - 1) * Stripe, Stripe) = Slice(s, (j - 1) * Stripe, Stripe)
      <3>1. \A k \in 1..Stripe : (j - 1) * Stripe + k \in 1..a BY <1>2 DEF Stripe
      <3> QED BY <1>5, <3>1 DEF Slice
    <2> QED BY <2>1 DEF Whole
  <1>17. acc1 = Whole(u, q1)
    <2>1. CASE r > 0
      <3>1. take > 0 /\ q1 = q + 1 /\ r + take = Stripe /\ r + take = 32 BY <1>2, <2>1 DEF take, q1, Stripe
      <3>2. ASSUME NEW k \in 1..(Stripe * 1) PROVE filled[k] = u[Stripe * q + k]
        <4>1. k \in 1..Stripe BY DEF Stripe
        <4>2. CASE k <= r
          <5>1. k \in 1..r /\ Stripe * q + k \in 1..a BY <1>2, <4>1, <4>2 DEF Stripe
          <5>2. filled[k] = st.buffer[k] BY <1>2, <1>10, <4>1, <4>2
          <5> QED BY <1>3, <1>5, <5>1, <5>2
        <4>3. CASE k > r
          <5>1. k - r \in 1..b /\ a + (k - r) = Stripe * q + k
            <6>1. k <= r + take /\ take <= b BY <1>1, <1>2, <1>6, <3>1, <4>1 DEF m, Stripe
            <6> QED BY <1>1, <1>2, <1>6, <4>1, <4>3, <6>1 DEF Stripe
          <5>2. filled[k] = t[k - r] BY <1>2, <1>6, <1>10, <3>1, <4>1, <4>3
          <5> QED BY <1>5, <5>1, <5>2
        <4> QED BY <1>2, <4>1, <4>2, <4>3 DEF Stripe
      <3>3. Whole(u, q) \o Whole(filled, 1) = Whole(u, q + 1)
        <4>1. 1 \in Nat OBVIOUS
        <4> QED BY <1>2, <3>2, <4>1, MoreStripes
      <3> QED BY <1>14, <1>16, <3>1, <3>3
    <2>2. CASE ~(r > 0)
      BY <1>14, <1>16, <2>2 DEF take, q1
    <2> QED BY <2>1, <2>2
  <1>18. acc2 = Whole(u, q1 + q2)
    <2>1. ASSUME NEW k \in 1..(Stripe * q2) PROVE more[k] = u[Stripe * q1 + k]
      <3>1. k \in 1..m /\ take + k \in 1..b /\ a + (take + k) = Stripe * q1 + k
        BY <1>1, <1>6, <1>7, <1>8 DEF m, Stripe
      <3> QED BY <1>5, <1>12, <3>1
    <2>2. Whole(u, q1) \o Whole(more, q2) = Whole(u, q1 + q2) BY <1>7, <1>8, <2>1, MoreStripes
    <2>3. CASE m >= Stripe BY <1>15, <1>17, <2>2, <2>3
    <2>4. CASE ~(m >= Stripe)
      <3>1. q2 = 0 /\ q1 + q2 = q1 BY <1>6, <1>7, <1>8, <2>4 DEF Stripe
      <3> QED BY <1>15, <1>17, <2>4, <3>1
    <2> QED BY <2>3, <2>4
  <1>19. Len(u) = Stripe * (q1 + q2) + r2 BY <1>1, <1>5, <1>6, <1>7, <1>8 DEF m, Stripe
  <1>20. Len(u) \div Stripe = q1 + q2 /\ Len(u) % Stripe = r2
    BY <1>7, <1>8, <1>19, Quotient
  <1>21. ASSUME NEW k \in 1..r2 PROVE c[k] = u[Stripe * (q1 + q2) + k]
    <2>1. used + k \in 1..b /\ a + (used + k) = Stripe * (q1 + q2) + k
      BY <1>1, <1>6, <1>7, <1>8, <1>9 DEF m, used, Stripe
    <2> QED BY <1>5, <1>11, <1>13, <2>1
  <1>22. Fed(update(st, t), u)
    BY <1>4, <1>5, <1>9, <1>11, <1>18, <1>20, <1>21, FedBack
  <1> QED BY <1>22 DEF u

LEMMA Update ==
    ASSUME NEW s \in Seq(Bytes), NEW t \in Seq(Bytes), NEW st, Fed(st, s)
    PROVE  Fed(update(st, t), s \o t)
  <1>1. Len(s) \in Nat /\ Len(t) \in Nat OBVIOUS
  <1>2. st.bufferedSize \in 0..(Stripe - 1) BY <1>1, FedParts, Division
  <1>3. Len(t) < Stripe - st.bufferedSize \/ Len(t) >= Stripe - st.bufferedSize
    <2>1. \A x, y \in Int : x < y \/ x >= y OBVIOUS
    <2>2. \A b \in 0..(Stripe - 1) : Stripe - b \in Int BY DEF Stripe
    <2>3. Stripe - st.bufferedSize \in Int BY <1>2, <2>2
    <2> QED BY <1>1, <2>1, <2>3
  <1> QED BY <1>3, UpdateKeeps, UpdateTakes

LEMMA Groups ==
    ASSUME NEW r \in 0..31
    PROVE  /\ r \div 8 \in Nat /\ (r % 8) \div 4 \in Nat /\ (r % 4) \in Nat
           /\ (r \div 8) * 8 + ((r % 8) \div 4) * 4 + (r % 4) = r
  <1>1. r \div 8 \in Nat /\ (r % 8) \in 0..7 /\ r = 8 * (r \div 8) + (r % 8) OBVIOUS
  <1>2. \A x \in 0..7 : x \div 4 \in Nat /\ (x % 4) \in 0..3 /\ x = 4 * (x \div 4) + (x % 4) OBVIOUS
  <1>3. (r % 4) = (r % 8) % 4 BY <1>1
  <1> QED BY <1>1, <1>2, <1>3

\* finalize looks at no more than what is left over.
LEMMA FinalizeSame ==
    ASSUME NEW h, NEW s, NEW t, NEW len \in Nat, \A k \in 1..(len % Stripe) : s[k] = t[k]
    PROVE  finalize(h, s, len) = finalize(h, t, len)
  <1> DEFINE rest   == len % Stripe
             eights == rest \div 8
             four   == (rest % 8) \div 4
  <1>1. rest \in 0..31 BY Division DEF Stripe
  <1> HIDE DEF rest
  <1>2. /\ eights \in Nat /\ four \in Nat /\ rest % 4 \in Nat
        /\ eights * 8 <= rest /\ eights * 8 + four * 4 <= rest
        /\ eights * 8 + four * 4 + (rest % 4) <= rest
    BY <1>1, Groups
  <1> HIDE DEF eights, four
  <1>3. ASSUME NEW j \in 1..eights PROVE Slice(s, (j - 1) * 8, 8) = Slice(t, (j - 1) * 8, 8)
    <2>1. \A k \in 1..8 : (j - 1) * 8 + k \in 1..rest BY <1>1, <1>2
    <2> QED BY <2>1 DEF Slice, rest
  <1>4. ASSUME NEW j \in 1..four PROVE Slice(s, eights * 8, 4) = Slice(t, eights * 8, 4)
    <2>1. \A k \in 1..4 : eights * 8 + k \in 1..rest BY <1>1, <1>2
    <2> QED BY <2>1 DEF Slice, rest
  <1>5. ASSUME NEW j \in 1..(rest % 4) PROVE s[eights * 8 + four * 4 + j] = t[eights * 8 + four * 4 + j]
    <2>1. eights * 8 + four * 4 + j \in 1..rest BY <1>1, <1>2
    <2> QED BY <2>1 DEF rest
  <1>6. /\ [j \in 1..eights |-> Slice(s, (j - 1) * 8, 8)] = [j \in 1..eights |-> Slice(t, (j - 1) * 8, 8)]
        /\ [j \in 1..four |-> Slice(s, eights * 8, 4)] = [j \in 1..four |-> Slice(t, eights * 8, 4)]
        /\ [j \in 1..(rest % 4) |-> s[eights * 8 + four * 4 + j]]
             = [j \in 1..(rest % 4) |-> t[eights * 8 + four * 4 + j]]
    BY <1>3, <1>4, <1>5
  <1> QED BY <1>6 DEF finalize, rest, eights, four

LEMMA NoBytes == <<>> \in Seq(Bytes) /\ Len(<<>>) = 0 /\ \A u : Whole(u, 0) = <<>>
  <1>1. 1..0 = {} OBVIOUS
  <1> QED BY <1>1 DEF Whole

LEMMA Digest ==
    ASSUME NEW s \in Seq(Bytes), NEW st, Fed(st, s)
    PROVE  digest(st) = XXH64(s)
  <1> DEFINE n == Len(s)
             q == n \div Stripe
             rest == Slice(s, q * Stripe, n - q * Stripe)
  <1>1. n \in Nat OBVIOUS
  <1>2. q \in Nat /\ (n % Stripe) \in 0..(Stripe - 1) /\ n = Stripe * q + (n % Stripe)
    BY <1>1, Division
  <1>3. st.acc = Whole(s, q) /\ st.total_len = n BY FedParts
  <1>4. \A k \in 1..(n % Stripe) : st.buffer[k] = s[Stripe * q + k] BY DEF Fed
  <1>5. consumeLong(initAccs, s, n) = Whole(s, q)
    <2>1. Whole(s, 0) \o Whole(s, q) = Whole(s, 0 + q)
      <3>1. 0 \in Nat /\ \A k \in 1..(Stripe * q) : s[k] = s[Stripe * 0 + k] BY DEF Stripe
      <3> HIDE DEF q
      <3> QED BY <1>2, <3>1, MoreStripes
    <2>2. 0 + q = q BY <1>2
    <2> QED BY <2>1, <2>2, NoBytes, StripesWhole DEF consumeLong, initAccs
  <1> DEFINE h == IF n >= Stripe THEN mergeAccs(Whole(s, q)) ELSE <<"seed", Seed>>
  <1>6. XXH64(s) = finalize(<<h, n>>, rest, n) BY <1>5 DEF XXH64, endian_align
  <1>7. digest(st) = finalize(<<h, n>>, st.buffer, n) BY <1>3 DEF digest
  <1> HIDE DEF h, q, n
  <1>8. ASSUME NEW k \in 1..(n % Stripe) PROVE st.buffer[k] = rest[k]
    <2>1. /\ n - q * Stripe \in Nat /\ k \in 1..(n - q * Stripe) /\ q * Stripe + k = Stripe * q + k
      BY <1>1, <1>2 DEF Stripe
    <2>2. rest[k] = s[q * Stripe + k] BY <2>1, SliceAt
    <2> QED BY <1>4, <2>1, <2>2
  <1> HIDE DEF rest
  <1>9. finalize(<<h, n>>, st.buffer, n) = finalize(<<h, n>>, rest, n) BY <1>1, <1>8, FinalizeSame
  <1> QED BY <1>6, <1>7, <1>9

LEMMA StartFed == Fed(startBlockHash, <<>>)
  <1> DEFINE c == [k \in 1..Stripe |-> 0]
  <1>1. 0 \div Stripe = 0 /\ 0 % Stripe = 0 BY DEF Stripe
  <1>2. Len(<<>>) \div Stripe = 0 /\ Len(<<>>) % Stripe = 0 BY <1>1, NoBytes
  <1>3. IsTable(c, Stripe) BY DEF IsTable
  <1>4. \A k \in 1..0 : c[k] = <<>>[Stripe * 0 + k] OBVIOUS
  <1> HIDE DEF c
  <1>5. Fed([acc |-> Whole(<<>>, 0), total_len |-> Len(<<>>), buffer |-> c, bufferedSize |-> 0], <<>>)
    BY <1>2, <1>3, <1>4, FedBack
  <1> QED BY <1>5, NoBytes DEF startBlockHash, reset, initAccs, c

LEMMA WholeSlice ==
    ASSUME NEW s \in Seq(Bytes), NEW len \in 0..Len(s)
    PROVE  /\ Slice(s, 0, len) \in Seq(Bytes) /\ Len(Slice(s, 0, len)) = len
           /\ \A k \in 1..len : Slice(s, 0, len)[k] = s[k]
  <1> DEFINE f == Slice(s, 0, len)
  <1>1. \A k \in 1..len : f[k] = s[k] /\ s[k] \in Bytes BY DEF Slice
  <1>2. f \in [1..len -> Bytes] BY <1>1 DEF Slice
  <1> HIDE DEF f
  <1>3. f \in Seq(Bytes) /\ Len(f) = len BY <1>2
  <1> QED BY <1>1, <1>3 DEF f

LEMMA HashOfAll == ASSUME NEW s \in Seq(Bytes) PROVE getHash(s, Len(s)) = XXH64(s)
  <1>1. Len(s) \in Nat OBVIOUS
  <1>2. Slice(s, 0, Len(s)) \in Seq(Bytes) /\ Len(Slice(s, 0, Len(s))) = Len(s)
        /\ \A k \in 1..Len(s) : Slice(s, 0, Len(s))[k] = s[k]
    BY <1>1, WholeSlice
  <1>3. Slice(s, 0, Len(s)) = s BY <1>2
  <1> QED BY <1>3 DEF getHash

\* The hash of a file read in pieces - reads of any length, reads that return nothing and reads
\* that fail among them - is the hash of the file in one block, however the pieces lie over the
\* stripes that XXH64_update keeps back (utils.cpp startBlockHash, updateBlockHash, getBlockHash).
THEOREM BlockHashOneShot ==
    ASSUME NEW n \in Nat, NEW piece \in [1..n -> Seq(Bytes)], NEW len \in [1..n -> Int],
           \A i \in 1..n : len[i] <= Len(piece[i]),
           NEW st, NEW file, st[0] = startBlockHash, file[0] = <<>>,
           \A i \in 1..n : /\ st[i] = updateBlockHash(st[i - 1], piece[i], len[i])
                           /\ file[i] = IF len[i] > 0 THEN file[i - 1] \o Slice(piece[i], 0, len[i])
                                        ELSE file[i - 1]
    PROVE  /\ getBlockHash(st[n]) = getHash(file[n], Len(file[n]))
           /\ getHashStateLen(st[n]) = Len(file[n])
  <1> DEFINE Good == {i \in Nat : i <= n => file[i] \in Seq(Bytes) /\ Fed(st[i], file[i])}
  <1>1. 0 \in Good BY NoBytes, StartFed
  <1>2. ASSUME NEW i \in Nat, i \in Good PROVE i + 1 \in Good
    <2> SUFFICES ASSUME i + 1 <= n PROVE file[i + 1] \in Seq(Bytes) /\ Fed(st[i + 1], file[i + 1])
      OBVIOUS
    <2>1. i + 1 \in 1..n /\ i <= n /\ (i + 1) - 1 = i OBVIOUS
    <2> DEFINE p == piece[i + 1]
               l == len[i + 1]
    <2>2. file[i] \in Seq(Bytes) /\ Fed(st[i], file[i]) BY <1>2, <2>1
    <2>3. p \in Seq(Bytes) /\ l \in Int /\ l <= Len(p) BY <2>1
    <2>4. /\ st[i + 1] = updateBlockHash(st[i], p, l)
          /\ file[i + 1] = IF l > 0 THEN file[i] \o Slice(p, 0, l) ELSE file[i]
      BY <2>1
    <2> HIDE DEF p, l
    <2>5. CASE l > 0
      <3>1. Slice(p, 0, l) \in Seq(Bytes)
        <4>1. l \in 0..Len(p) BY <2>3, <2>5
        <4> QED BY <2>3, <4>1, WholeSlice
      <3>2. st[i + 1] = update(st[i], Slice(p, 0, l)) BY <2>4, <2>5 DEF updateBlockHash
      <3>3. file[i + 1] = file[i] \o Slice(p, 0, l) BY <2>4, <2>5
      <3> QED BY <2>2, <3>1, <3>2, <3>3, Update, Joined
    <2>6. CASE ~(l > 0)
      BY <2>2, <2>4, <2>6 DEF updateBlockHash
    <2> QED BY <2>5, <2>6
  <1> HIDE DEF Good
  <1>3. Nat \subseteq Good BY <1>1, <1>2, NatInduct
  <1>4. file[n] \in Seq(Bytes) /\ Fed(st[n], file[n]) BY <1>3 DEF Good
  <1> QED BY <1>4, Digest, FedParts, HashOfAll DEF getBlockHash, getHashStateLen

----------------------------------------------------------------------------
(* Whole buffers are read and written.  o: what the calls of read or write *)
(* come to, st: the transfer before the first and after each of them.      *)

\* A call fails, is to be repeated, or would move that many bytes.
CallOutcomes == {FAILED, AGAIN} \cup Nat

\* Of data so much was moved as the counters say, and a transfer that is over without an error
\* is at the end of the data or had a call that moved nothing: stalls are those calls.
Moved(st, data, size, stalls) ==
    /\ st = [rest |-> size - st.lbuf, lbuf |-> st.lbuf, pos |-> st.pos, buf |-> st.buf, file |-> st.file,
             done |-> st.done, errno |-> st.errno]
    /\ st.lbuf \in 0..size /\ st.lbuf <= Len(data)
    /\ st.done \in BOOLEAN /\ st.errno \in BOOLEAN
    /\ st.done /\ ~st.errno => st.lbuf = Len(data) \/ stalls # {}

\* readFD: the buffer holds the bytes read, at their places.
ReadSoFar(st, data, size) ==
    /\ st.pos = st.lbuf /\ IsTable(st.buf, size)
    /\ \A k \in 1..st.lbuf : st.buf[k] = data[k]

\* writeFD: the file holds the bytes written.
WrittenSoFar(st, data, Sign) ==
    /\ st.file \in Seq(Sign) /\ Len(st.file) = st.lbuf
    /\ \A k \in 1..st.lbuf : st.file[k] = data[k]

\* Call i moved nothing.
StallAt(i, outcome) == {c \in {i} : outcome = 0}

LEMMA LeastType == ASSUME NEW n \in Nat, NEW m \in Nat
                   PROVE  Least(n, m) \in Nat /\ Least(n, m) <= n /\ Least(n, m) <= m /\ Least(n, m) \in {n, m}
  BY DEF Least

\* The ends of a transfer: a call fails, or moves nothing.
Failed(st)  == [st EXCEPT !.done = TRUE, !.errno = TRUE]
Stopped(st) == [st EXCEPT !.done = TRUE]

Transfer(r, l, p, b, f, d, x) ==
    [rest |-> r, lbuf |-> l, pos |-> p, buf |-> b, file |-> f, done |-> d, errno |-> x]

IsTransfer(st, r, l, p, b, f, d, x) == st = Transfer(r, l, p, b, f, d, x)

LEMMA EndedRecord ==
    \A r, l, p, b, f, d, x, st : IsTransfer(st, r, l, p, b, f, d, x) =>
        IsTransfer(Failed(st), r, l, p, b, f, TRUE, TRUE) /\ IsTransfer(Stopped(st), r, l, p, b, f, TRUE, x)
  <1> TAKE r, l, p, b, f, d, x, st
  <1> HAVE IsTransfer(st, r, l, p, b, f, d, x)
  <1>0. st = Transfer(r, l, p, b, f, d, x) BY DEF IsTransfer
  <1>1. \A y : [st EXCEPT !.done = y] = Transfer(r, l, p, b, f, y, x)
    BY <1>0 DEF Transfer
  <1>2. \A y, z : [Transfer(r, l, p, b, f, y, x) EXCEPT !.errno = z] = Transfer(r, l, p, b, f, y, z)
    BY DEF Transfer
  <1>3. \A y, z : [st EXCEPT !.done = y, !.errno = z] = [[st EXCEPT !.done = y] EXCEPT !.errno = z]
    OBVIOUS
  <1>4. \A y, z : [st EXCEPT !.done = y, !.errno = z] = Transfer(r, l, p, b, f, y, z)
    BY <1>1, <1>2, <1>3, Zenon
  <1> QED BY <1>1, <1>4, Zenon DEF Failed, Stopped, IsTransfer

\* A call that ends the transfer
Ends(st, st1, data, stalls) ==
    st1 = Failed(st) \/ (st1 = Stopped(st) /\ (stalls # {} \/ st.lbuf = Len(data)))

SameBytes(st, st1) == st1.lbuf = st.lbuf /\ st1.pos = st.pos /\ st1.buf = st.buf /\ st1.file = st.file

LEMMA NotMoved ==
    ASSUME NEW st, NEW size, NEW data, NEW stalled, NEW stalls, stalled \subseteq stalls,
           Moved(st, data, size, stalled), NEW st1, Ends(st, st1, data, stalls)
    PROVE  Moved(st1, data, size, stalls) /\ SameBytes(st, st1)
  <1>1. \E r, l, p, b, f, d, x : /\ st = Transfer(r, l, p, b, f, d, x) /\ l \in 0..size /\ l <= Len(data)
                                 /\ r = size - l /\ d \in BOOLEAN /\ x \in BOOLEAN
                                 /\ st.lbuf = l /\ st.pos = p /\ st.buf = b /\ st.file = f
    BY DEF Moved, Transfer
  <1>2. PICK r, l, p, b, f, d, x : /\ st = Transfer(r, l, p, b, f, d, x) /\ l \in 0..size /\ l <= Len(data)
                                   /\ r = size - l /\ d \in BOOLEAN /\ x \in BOOLEAN
                                   /\ st.lbuf = l /\ st.pos = p /\ st.buf = b /\ st.file = f
    BY <1>1
  <1> DEFINE e == IF st1 = Failed(st) THEN TRUE ELSE x
  <1>4. st1 = Transfer(r, l, p, b, f, TRUE, e)
    <2>1. IsTransfer(st, r, l, p, b, f, d, x) BY <1>2 DEF IsTransfer
    <2>2. IsTransfer(Failed(st), r, l, p, b, f, TRUE, TRUE) /\ IsTransfer(Stopped(st), r, l, p, b, f, TRUE, x)
      BY <2>1, EndedRecord, Zenon
    <2> QED BY <2>2, Zenon DEF IsTransfer, Ends
  <1>9. e \in BOOLEAN /\ (~e => stalls # {} \/ l = Len(data)) BY <1>2 DEF Ends
  <1> HIDE DEF e
  <1>5. /\ st1.lbuf = l /\ st1.pos = p /\ st1.buf = b /\ st1.file = f /\ st1.done = TRUE /\ st1.errno = e
    <2>1. \A y, z : st1 = Transfer(r, l, p, b, f, y, z)
              => /\ st1.lbuf = l /\ st1.pos = p /\ st1.buf = b /\ st1.file = f
                 /\ st1.done = y /\ st1.errno = z
      BY DEF Transfer
    <2> QED BY <1>4, <2>1, Zenon
  <1>6. st1 = [rest |-> size - st1.lbuf, lbuf |-> st1.lbuf, pos |-> st1.pos, buf |-> st1.buf,
               file |-> st1.file, done |-> st1.done, errno |-> st1.errno]
    BY <1>2, <1>4, <1>5 DEF Transfer
  <1>7. st1.done /\ ~st1.errno => st1.lbuf = Len(data) \/ stalls # {}
    BY <1>5, <1>9, Zenon
  <1>8. Moved(st1, data, size, stalls)
    BY <1>2, <1>5, <1>6, <1>7, <1>9 DEF Moved
  <1> QED BY <1>2, <1>5, <1>8 DEF SameBytes

LEMMA ReadCallStep ==
    ASSUME NEW data, Len(data) \in Nat, NEW size \in Nat, NEW st, NEW o \in CallOutcomes,
           NEW stalled, NEW i, Moved(st, data, size, stalled), ReadSoFar(st, data, size)
    PROVE  /\ Moved(readCall(st, data, o), data, size, stalled \cup StallAt(i, o))
           /\ ReadSoFar(readCall(st, data, o), data, size)
  <1> DEFINE n   == Least(o, Least(st.rest, Len(data) - st.pos))
             new == [k \in DOMAIN st.buf |-> IF k \in (st.lbuf + 1)..(st.lbuf + n)
                                             THEN data[st.pos + k - st.lbuf] ELSE st.buf[k]]
             l   == st.lbuf
             st1 == readCall(st, data, o)
             stalls == stalled \cup StallAt(i, o)
  <1>1. /\ l \in 0..size /\ l <= Len(data) /\ st.pos = l /\ st.rest = size - l
        /\ st.done \in BOOLEAN /\ st.errno \in BOOLEAN
        /\ IsTable(st.buf, size) /\ \A k \in 1..l : st.buf[k] = data[k]
    BY DEF Moved, ReadSoFar
  <1>2. DOMAIN st.buf = 1..size BY <1>1 DEF IsTable
  <1>3. CASE st1 = st
    <2>1. Moved(st, data, size, stalls) BY DEF Moved
    <2> QED BY <1>3, <2>1
  <1>4. CASE ~st.done /\ st.rest # 0 /\ o = FAILED
    <2>1. st1 = Failed(st) BY <1>4 DEF readCall, FAILED, AGAIN, Failed
    <2>2. stalled \subseteq stalls OBVIOUS
    <2> HIDE DEF st1, stalls
    <2>3. Ends(st, st1, data, stalls) BY <2>1 DEF Ends
    <2>4. Moved(st1, data, size, stalls) /\ SameBytes(st, st1) BY <2>2, <2>3, NotMoved
    <2>5. ReadSoFar(st1, data, size) BY <1>1, <2>4 DEF ReadSoFar, SameBytes
    <2> QED BY <2>4, <2>5 DEF st1, stalls
  <1>5. CASE ~st.done /\ st.rest # 0 /\ o \in Nat
    <2>1. n \in Nat /\ n <= size - l /\ n <= Len(data) - l /\ (n = 0 => o = 0 \/ l = Len(data))
      <3>1. size - l \in Nat /\ Len(data) - l \in Nat /\ size - l # 0 BY <1>1, <1>5
      <3>2. n = Least(o, Least(size - l, Len(data) - l)) BY <1>1
      <3> DEFINE m == Least(size - l, Len(data) - l)
      <3>3. m \in Nat /\ m <= size - l /\ m <= Len(data) - l /\ m \in {size - l, Len(data) - l}
        BY <3>1, LeastType
      <3> HIDE DEF m, n
      <3>4. n = Least(o, m) BY <3>2 DEF m
      <3>5. n \in Nat /\ n <= o /\ n <= m /\ n \in {o, m} BY <1>5, <3>3, <3>4, LeastType
      <3> QED BY <1>1, <1>5, <3>1, <3>3, <3>5
    <2>2. st1 = IF n = 0 THEN [st EXCEPT !.done = TRUE]
                ELSE [st EXCEPT !.rest = st.rest - n, !.lbuf = l + n, !.pos = st.pos + n, !.buf = new]
      BY <1>5 DEF readCall, advance, FAILED, AGAIN
    <2>3. IsTable(new, size) /\ \A k \in 1..size : new[k] = IF k \in (l + 1)..(l + n)
                                                           THEN data[l + k - l] ELSE st.buf[k]
      BY <1>1, <1>2 DEF IsTable
    <2> HIDE DEF st1, n, new
    <2>4. CASE n = 0
      <3>1. o = 0 => i \in StallAt(i, o) BY DEF StallAt
      <3>2. stalled \subseteq stalls /\ (stalls # {} \/ l = Len(data)) BY <2>1, <2>4, <3>1
      <3>4. st1 = Stopped(st) BY <2>2, <2>4 DEF Stopped
      <3>5. Ends(st, st1, data, stalls) BY <3>2, <3>4 DEF Ends
      <3> HIDE DEF stalls
      <3>7. Moved(st1, data, size, stalls) /\ SameBytes(st, st1) BY <3>2, <3>5, NotMoved
      <3>6. ReadSoFar(st1, data, size) BY <1>1, <3>7 DEF ReadSoFar, SameBytes
      <3> QED BY <3>6, <3>7 DEF st1, stalls
    <2>5. CASE n # 0
      <3> DEFINE r == size - l
      <3>1. st = [rest |-> r, lbuf |-> l, pos |-> l, buf |-> st.buf, file |-> st.file,
                  done |-> st.done, errno |-> st.errno]
        BY <1>1 DEF Moved
      <3>2. st1 = [st EXCEPT !.rest = r - n, !.lbuf = l + n, !.pos = l + n, !.buf = new]
        BY <1>1, <2>2, <2>5
      <3> HIDE DEF r
      <3>3. st1 = [rest |-> r - n, lbuf |-> l + n, pos |-> l + n, buf |-> new, file |-> st.file,
                   done |-> st.done, errno |-> st.errno]
        BY <3>1, <3>2
      <3>4. r - n = size - (l + n) /\ l + n \in 0..size /\ l + n <= Len(data)
        BY <1>1, <2>1 DEF r
      <3>5. ASSUME NEW k \in 1..(l + n) PROVE new[k] = data[k]
        <4>1. k \in 1..size BY <1>1, <2>1, <3>4
        <4>2. CASE k <= l
          <5>1. k \in 1..l /\ k \notin (l + 1)..(l + n) BY <1>1, <4>2
          <5> QED BY <1>1, <2>3, <4>1, <5>1
        <4>3. CASE k > l
          <5>1. k \in (l + 1)..(l + n) /\ l + k - l = k BY <1>1, <2>1, <4>3
          <5> QED BY <2>3, <4>1, <5>1
        <4> QED BY <1>1, <2>1, <4>2, <4>3
      <3>6. /\ st1.lbuf = l + n /\ st1.pos = l + n /\ st1.buf = new /\ st1.file = st.file
            /\ st1.done = st.done /\ st1.errno = st.errno
        BY <3>3
      <3>7. Moved(st1, data, size, stalls)
        BY <1>1, <1>5, <3>3, <3>4, <3>6 DEF Moved
      <3>8. ReadSoFar(st1, data, size) BY <2>3, <3>5, <3>6 DEF ReadSoFar
      <3> QED BY <3>7, <3>8 DEF st1
    <2> QED BY <2>4, <2>5
  <1>6. st1 = st \/ (~st.done /\ st.rest # 0 /\ o # AGAIN)
    BY DEF readCall
  <1> QED BY <1>3, <1>4, <1>5, <1>6 DEF CallOutcomes

\* g is f and the next n of data.
IsExtended(g, f, data, n) == g = f \o SubSeq(data, Len(f) + 1, Len(f) + n)

StartOf(f, data) == \A k \in 1..Len(f) : f[k] = data[k]

LEMMA Appended ==
    ASSUME NEW Sign, NEW data \in Seq(Sign), NEW f \in Seq(Sign), NEW n \in Nat, Len(f) + n <= Len(data),
           StartOf(f, data), NEW g, IsExtended(g, f, data, n)
    PROVE  g \in Seq(Sign) /\ Len(g) = Len(f) + n /\ StartOf(g, data)
  <1> DEFINE l == Len(f)
             t == SubSeq(data, l + 1, l + n)
  <1>1. l \in Nat /\ Len(data) \in Nat OBVIOUS
  <1>2. t \in Seq(Sign) /\ Len(t) = n /\ \A k \in 1..n : t[k] = data[l + k]
    <2> HIDE DEF l
    <2>1. l + 1 \in Int /\ l + n \in Int /\ (l + n) - (l + 1) + 1 = n BY <1>1
    <2>2. \A k \in (l + 1)..(l + n) : data[k] \in Sign
      <3>1. \A k \in (l + 1)..(l + n) : k \in 1..Len(data) BY <1>1 DEF l
      <3> QED BY <3>1
    <2>3. /\ t \in Seq(Sign) /\ Len(t) = IF l + 1 <= l + n THEN (l + n) - (l + 1) + 1 ELSE 0
          /\ \A k \in 1..((l + n) - (l + 1) + 1) : t[k] = data[(l + 1) + k - 1]
      BY <2>1, <2>2, SubSeqProperties
    <2> HIDE DEF t
    <2>4. \A k \in 1..n : (l + 1) + k - 1 = l + k BY <1>1
    <2> QED BY <1>1, <2>1, <2>3, <2>4
  <1> HIDE DEF t
  <1>3. g = f \o t BY DEF t, IsExtended
  <1>4. g \in Seq(Sign) /\ Len(g) = l + n
    <2>1. f \o t \in Seq(Sign) /\ Len(f \o t) = Len(f) + Len(t) BY <1>2
    <2> QED BY <1>2, <1>3, <2>1
  <1>5. ASSUME NEW k \in 1..(l + n) PROVE g[k] = data[k]
    <2>1. CASE k <= l
      <3>1. k \in 1..l BY <1>1, <2>1
      <3>2. f[k] = data[k] BY <3>1 DEF StartOf
      <3>3. (f \o t)[k] = f[k] BY <1>2, <3>1
      <3> QED BY <1>3, <3>2, <3>3
    <2>2. CASE k > l
      <3>1. k - l \in 1..n /\ k = l + (k - l) BY <1>1, <2>2
      <3>2. PICK j \in 1..n : k = l + j BY <3>1
      <3>3. g[l + j] = t[j] BY <1>2, <1>3
      <3> QED BY <1>2, <3>2, <3>3
    <2> QED BY <1>1, <2>1, <2>2
  <1> QED BY <1>4, <1>5 DEF StartOf

LEMMA WriteCallStep ==
    ASSUME NEW Sign, NEW data \in Seq(Sign), NEW size \in 0..Len(data), NEW st, NEW o \in CallOutcomes,
           NEW stalled, NEW i, Moved(st, data, size, stalled), WrittenSoFar(st, data, Sign)
    PROVE  /\ Moved(writeCall(st, data, o), data, size, stalled \cup StallAt(i, o))
           /\ WrittenSoFar(writeCall(st, data, o), data, Sign)
  <1> DEFINE n   == Least(o, st.rest)
             l   == st.lbuf
             new == st.file \o SubSeq(data, l + 1, l + n)
             st1 == writeCall(st, data, o)
             stalls == stalled \cup StallAt(i, o)
  <1>1. /\ size \in Nat /\ l \in 0..size /\ st.rest = size - l
        /\ st.done \in BOOLEAN /\ st.errno \in BOOLEAN
        /\ st.file \in Seq(Sign) /\ Len(st.file) = l /\ \A k \in 1..l : st.file[k] = data[k]
    BY DEF Moved, WrittenSoFar
  <1>2. Moved(st, data, size, stalled) OBVIOUS
  <1>3. CASE st1 = st
    <2>1. Moved(st, data, size, stalls) BY DEF Moved
    <2> QED BY <1>3, <2>1
  <1>4. CASE ~st.done /\ st.rest # 0 /\ o = FAILED
    <2>1. st1 = Failed(st) BY <1>4 DEF writeCall, FAILED, AGAIN, Failed
    <2>2. stalled \subseteq stalls OBVIOUS
    <2> HIDE DEF st1, stalls
    <2>3. Ends(st, st1, data, stalls) BY <2>1 DEF Ends
    <2>4. Moved(st1, data, size, stalls) /\ SameBytes(st, st1) BY <1>2, <2>2, <2>3, NotMoved
    <2>5. WrittenSoFar(st1, data, Sign) BY <1>1, <2>4 DEF WrittenSoFar, SameBytes
    <2> QED BY <2>4, <2>5 DEF st1, stalls
  <1>5. CASE ~st.done /\ st.rest # 0 /\ o \in Nat
    <2>1. n \in Nat /\ n <= size - l /\ (n = 0 => o = 0)
      <3>1. size - l \in Nat /\ size - l # 0 BY <1>1, <1>5
      <3>2. n = Least(o, size - l) BY <1>1
      <3> HIDE DEF n
      <3>3. n \in Nat /\ n <= size - l /\ n \in {o, size - l} BY <1>5, <3>1, <3>2, LeastType
      <3> QED BY <3>1, <3>3
    <2>2. st1 = IF n = 0 THEN [st EXCEPT !.done = TRUE]
                ELSE [st EXCEPT !.rest = st.rest - n, !.lbuf = l + n, !.file = new]
      BY <1>5 DEF writeCall, advance, FAILED, AGAIN
    <2> HIDE DEF n
    <2>3. new \in Seq(Sign) /\ Len(new) = l + n /\ \A k \in 1..(l + n) : new[k] = data[k]
      <3>1. Len(st.file) + n <= Len(data) BY <1>1, <2>1
      <3>2. IsExtended(new, st.file, data, n) BY <1>1 DEF IsExtended
      <3>4. StartOf(st.file, data) BY <1>1 DEF StartOf
      <3> HIDE DEF new, n
      <3>3. new \in Seq(Sign) /\ Len(new) = Len(st.file) + n /\ StartOf(new, data)
        BY <1>1, <2>1, <3>1, <3>2, <3>4, Appended
      <3> QED BY <1>1, <3>3 DEF StartOf
    <2> HIDE DEF st1, n, new
    <2>4. CASE n = 0
      <3>1. o = 0 => i \in StallAt(i, o) BY DEF StallAt
      <3>2. stalled \subseteq stalls /\ (stalls # {} \/ l = Len(data)) BY <2>1, <2>4, <3>1
      <3>4. st1 = Stopped(st) BY <2>2, <2>4 DEF Stopped
      <3>5. Ends(st, st1, data, stalls) BY <3>2, <3>4 DEF Ends
      <3> HIDE DEF stalls
      <3>7. Moved(st1, data, size, stalls) /\ SameBytes(st, st1) BY <3>2, <3>5, NotMoved
      <3>6. WrittenSoFar(st1, data, Sign) BY <1>1, <3>7 DEF WrittenSoFar, SameBytes
      <3> QED BY <3>6, <3>7 DEF st1, stalls
    <2>5. CASE n # 0
      <3> DEFINE r == size - l
      <3>1. st = [rest |-> r, lbuf |-> l, pos |-> st.pos, buf |-> st.buf, file |-> st.file,
                  done |-> st.done, errno |-> st.errno]
        BY <1>1 DEF Moved
      <3>2. st1 = [st EXCEPT !.rest = r - n, !.lbuf = l + n, !.file = new]
        BY <1>1, <2>2, <2>5
      <3> HIDE DEF r
      <3>3. st1 = [rest |-> r - n, lbuf |-> l + n, pos |-> st.pos, buf |-> st.buf, file |-> new,
                   done |-> st.done, errno |-> st.errno]
        BY <3>1, <3>2
      <3>4. r - n = size - (l + n) /\ l + n \in 0..size
        BY <1>1, <2>1 DEF r
      <3>6. /\ st1.lbuf = l + n /\ st1.pos = st.pos /\ st1.buf = st.buf /\ st1.file = new
            /\ st1.done = st.done /\ st1.errno = st.errno
        BY <3>3
      <3>7. Moved(st1, data, size, stalls)
        BY <1>1, <1>5, <3>3, <3>4, <3>6 DEF Moved
      <3>8. WrittenSoFar(st1, data, Sign) BY <2>3, <3>6 DEF WrittenSoFar
      <3> QED BY <3>7, <3>8 DEF st1
    <2> QED BY <2>4, <2>5
  <1>6. st1 = st \/ (~st.done /\ st.rest # 0 /\ o # AGAIN)
    BY DEF writeCall
  <1> QED BY <1>3, <1>4, <1>5, <1>6 DEF CallOutcomes

LEMMA Started ==
    ASSUME NEW Sign, NEW data \in Seq(Sign), NEW size \in Nat
    PROVE  /\ Moved(Start(size), data, size, {}) /\ ReadSoFar(Start(size), data, size)
           /\ WrittenSoFar(Start(size), data, Sign)
  <1> DEFINE b == [i \in 1..size |-> 0]
             st == Start(size)
  <1>1. IsTable(b, size) BY DEF IsTable
  <1> HIDE DEF b
  <1>2. st = Transfer(size, 0, 0, b, <<>>, FALSE, FALSE) BY DEF Start, Transfer, b
  <1> HIDE DEF st
  <1>3. /\ st.lbuf = 0 /\ st.pos = 0 /\ st.buf = b /\ st.file = <<>> /\ st.rest = size
        /\ st.done = FALSE /\ st.errno = FALSE
    BY <1>2 DEF Transfer
  <1>4. 0 \in 0..size /\ size - 0 = size /\ Len(data) \in Nat /\ 0 <= Len(data) OBVIOUS
  <1>5. Moved(st, data, size, {}) BY <1>2, <1>3, <1>4 DEF Moved, Transfer
  <1>6. ReadSoFar(st, data, size) /\ WrittenSoFar(st, data, Sign)
    BY <1>1, <1>3 DEF ReadSoFar, WrittenSoFar
  <1> QED BY <1>5, <1>6 DEF st

\* readFD over any file and any outcomes of its calls - short reads, interrupted ones, the end of
\* the file in between: what it returned is the start of the file, and unless a call failed or
\* delivered nothing, the transfer is over only with all that was asked for or all the file has.
THEOREM ReadsWhole ==
    ASSUME NEW Sign, NEW data \in Seq(Sign), NEW size \in Nat, NEW n \in Nat, NEW o \in [1..n -> CallOutcomes],
           NEW st, st[0] = Start(size), \A i \in 1..n : st[i] = readCall(st[i - 1], data, o[i])
    PROVE  LET rv == size - st[n].rest
           IN /\ \A k \in 1..rv : st[n].buf[k] = data[k]
              /\ (st[n].done \/ st[n].rest = 0) /\ ~st[n].errno /\ (\A i \in 1..n : o[i] # 0)
                     => rv = Least(size, Len(data))
  <1> DEFINE stalls(m) == {i \in 1..m : o[i] = 0}
             Good == {i \in Nat : i <= n => Moved(st[i], data, size, stalls(i)) /\ ReadSoFar(st[i], data, size)}
  <1>s. stalls(0) = {} OBVIOUS
  <1>t. \A i \in Nat : stalls(i + 1) = stalls(i) \cup StallAt(i + 1, o[i + 1]) BY DEF StallAt
  <1>u. (\A i \in 1..n : o[i] # 0) => stalls(n) = {} OBVIOUS
  <1> HIDE DEF stalls
  <1>1. 0 \in Good
    <2> QED BY <1>s, Started
  <1>2. ASSUME NEW i \in Nat, i \in Good PROVE i + 1 \in Good
    <2> SUFFICES ASSUME i + 1 <= n
                 PROVE  Moved(st[i + 1], data, size, stalls(i + 1)) /\ ReadSoFar(st[i + 1], data, size)
      OBVIOUS
    <2>1. i + 1 \in 1..n /\ i <= n /\ (i + 1) - 1 = i OBVIOUS
    <2>2. Moved(st[i], data, size, stalls(i)) /\ ReadSoFar(st[i], data, size) BY <1>2, <2>1
    <2>3. o[i + 1] \in CallOutcomes BY <2>1
    <2>4. stalls(i + 1) = stalls(i) \cup StallAt(i + 1, o[i + 1]) BY <1>t
    <2>5. Len(data) \in Nat OBVIOUS
    <2>6. /\ Moved(readCall(st[i], data, o[i + 1]), data, size, stalls(i) \cup StallAt(i + 1, o[i + 1]))
          /\ ReadSoFar(readCall(st[i], data, o[i + 1]), data, size)
      BY <2>2, <2>3, <2>5, ReadCallStep
    <2>7. st[i + 1] = readCall(st[i], data, o[i + 1]) BY <2>1
    <2> QED BY <2>4, <2>6, <2>7
  <1> HIDE DEF Good
  <1>3. Nat \subseteq Good BY <1>1, <1>2, NatInduct
  <1>4. Moved(st[n], data, size, stalls(n)) /\ ReadSoFar(st[n], data, size) BY <1>3 DEF Good
  <1> DEFINE fin == st[n]
  <1> HIDE DEF fin
  <1>5. /\ fin.lbuf \in 0..size /\ fin.lbuf <= Len(data) /\ fin.rest = size - fin.lbuf
        /\ (fin.done /\ ~fin.errno => fin.lbuf = Len(data) \/ stalls(n) # {})
        /\ \A k \in 1..fin.lbuf : fin.buf[k] = data[k]
    BY <1>4 DEF Moved, ReadSoFar, fin
  <1>6. Len(data) \in Nat /\ size - fin.rest = fin.lbuf BY <1>5
  <1>7. ASSUME fin.done \/ fin.rest = 0, ~fin.errno, \A i \in 1..n : o[i] # 0
        PROVE  fin.lbuf = Least(size, Len(data))
    <2>1. stalls(n) = {} BY <1>u, <1>7
    <2>2. fin.lbuf = Len(data) \/ fin.lbuf = size BY <1>5, <1>7, <2>1
    <2> QED BY <1>5, <1>6, <2>2 DEF Least
  <1> QED BY <1>5, <1>6, <1>7 DEF fin

\* writeFD likewise: the file is the start of the buffer, and all of it unless a call failed or
\* wrote nothing.
THEOREM WritesWhole ==
    ASSUME NEW Sign, NEW data \in Seq(Sign), NEW n \in Nat, NEW o \in [1..n -> CallOutcomes],
           NEW st, st[0] = Start(Len(data)), \A i \in 1..n : st[i] = writeCall(st[i - 1], data, o[i])
    PROVE  LET rv == Len(data) - st[n].rest
           IN /\ Len(st[n].file) = rv /\ \A k \in 1..rv : st[n].file[k] = data[k]
              /\ (st[n].done \/ st[n].rest = 0) /\ ~st[n].errno /\ (\A i \in 1..n : o[i] # 0)
                     => st[n].file = data
  <1> DEFINE stalls(m) == {i \in 1..m : o[i] = 0}
             size == Len(data)
             Good == {i \in Nat : i <= n => Moved(st[i], data, size, stalls(i)) /\ WrittenSoFar(st[i], data, Sign)}
  <1>0. size \in Nat OBVIOUS
  <1>v. size \in 0..Len(data) BY <1>0
  <1>s. stalls(0) = {} OBVIOUS
  <1>t. \A i \in Nat : stalls(i + 1) = stalls(i) \cup StallAt(i + 1, o[i + 1]) BY DEF StallAt
  <1>u. (\A i \in 1..n : o[i] # 0) => stalls(n) = {} OBVIOUS
  <1> HIDE DEF stalls
  <1>1. 0 \in Good
    <2> QED BY <1>0, <1>s, Started
  <1>2. ASSUME NEW i \in Nat, i \in Good PROVE i + 1 \in Good
    <2> SUFFICES ASSUME i + 1 <= n
                 PROVE  Moved(st[i + 1], data, size, stalls(i + 1)) /\ WrittenSoFar(st[i + 1], data, Sign)
      OBVIOUS
    <2>1. i + 1 \in 1..n /\ i <= n /\ (i + 1) - 1 = i OBVIOUS
    <2>2. Moved(st[i], data, size, stalls(i)) /\ WrittenSoFar(st[i], data, Sign) BY <1>2, <2>1
    <2>3. o[i + 1] \in CallOutcomes BY <2>1
    <2>4. stalls(i + 1) = stalls(i) \cup StallAt(i + 1, o[i + 1]) BY <1>t
    <2>6. /\ Moved(writeCall(st[i], data, o[i + 1]), data, size, stalls(i) \cup StallAt(i + 1, o[i + 1]))
          /\ WrittenSoFar(writeCall(st[i], data, o[i + 1]), data, Sign)
      BY <2>2, <2>3, <1>v, WriteCallStep
    <2>7. st[i + 1] = writeCall(st[i], data, o[i + 1]) BY <2>1
    <2> QED BY <2>4, <2>6, <2>7
  <1> HIDE DEF Good
  <1>3. Nat \subseteq Good BY <1>1, <1>2, NatInduct
  <1>4. Moved(st[n], data, size, stalls(n)) /\ WrittenSoFar(st[n], data, Sign) BY <1>3 DEF Good
  <1> DEFINE fin == st[n]
  <1> HIDE DEF fin
  <1>5. /\ fin.lbuf \in 0..size /\ fin.rest = size - fin.lbuf
        /\ (fin.done /\ ~fin.errno => fin.lbuf = size \/ stalls(n) # {})
        /\ fin.file \in Seq(Sign) /\ Len(fin.file) = fin.lbuf /\ \A k \in 1..fin.lbuf : fin.file[k] = data[k]
    BY <1>4 DEF Moved, WrittenSoFar, fin
  <1>6. size - fin.rest = fin.lbuf BY <1>0, <1>5
  <1>7. ASSUME fin.done \/ fin.rest = 0, ~fin.errno, \A i \in 1..n : o[i] # 0
        PROVE  fin.file = data
    <2>1. stalls(n) = {} BY <1>u, <1>7
    <2>2. fin.lbuf = size BY <1>0, <1>5, <1>7, <2>1
    <2> QED BY <1>5, <2>2
  <1> QED BY <1>5, <1>6, <1>7 DEF fin

=============================================================================
