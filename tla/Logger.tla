------------------------------- MODULE Logger -------------------------------
(***************************************************************************)
(* The log (logger.cpp): up to two destinations, each with the place its   *)
(* status bar starts at (lineOffset).  A message that starts with CR is a  *)
(* bar: it overwrites the bar before it and leaves the cursor behind its   *)
(* text.  The next ordinary message ends that line first.                  *)
(*                                                                         *)
(* log_log copies lineOffset out of the table, writes under the lock of    *)
(* the stream, and copies it back: three steps, and only the second one is *)
(* alone.  A stream is where its cursor is: at the start of a line or      *)
(* behind a bar.                                                           *)
(*                                                                         *)
(* The handler of SIGINT logs in the thread it interrupts, whatever that   *)
(* thread was doing: its messages come between any two of these steps (an  *)
(* interrupt inside the text of a message is taken as one behind it), and  *)
(* the interrupted message goes on after them with what it had read.       *)
(***************************************************************************)
EXTENDS Integers, Sequences

CONSTANTS Thread, Dest,
          Std          \* stdout and stderr

MAX_CALLBACKS == 2

LOG_TRACE == 1
LOG_DEBUG == 2
LOG_INFO  == 3
LOG_WARN  == 4
LOG_FATAL == 6
Levels    == LOG_TRACE..LOG_FATAL

VARIABLES callbacks,  \* the table
          stdOnList,  \* the standard stream in it, as a set of at most one
          ev,         \* what each thread is logging
          cursor,     \* of each destination: "start" or "bar"
          glued,      \* destinations where a text was put behind the bar's, on its line
          ended,      \* the program has ended
          under,      \* what each thread was logging when SIGINT came
          handled     \* SIGINT has come: it is ignored from then on

vars == <<callbacks, stdOnList, ev, cursor, glued, ended, under, handled>>

\* then: what follows a message: the caller goes on, the program exits, or the handler logs its
\* second message or returns
NoEvent == [phase |-> "none", slot |-> 1, level |-> LOG_TRACE, bar |-> FALSE, open |-> FALSE, then |-> "caller"]
Callback == [dest : Dest, level : Levels, quiet : BOOLEAN, open : BOOLEAN]
Event == [phase : {"none", "next", "write", "back"}, slot : 1..(MAX_CALLBACKS + 1), level : Levels,
          bar : BOOLEAN, open : BOOLEAN, then : {"caller", "exit", "second", "resume"}]

\* A log_info of exitProg or of the handler
Info(then) == [NoEvent EXCEPT !.phase = "next", !.level = LOG_INFO, !.then = then]

Init == /\ callbacks = <<>> /\ stdOnList = {} /\ glued = {} /\ ended = FALSE
        /\ ev = [t \in Thread |-> NoEvent]
        /\ cursor = [d \in Dest |-> "start"]
        /\ under = [t \in Thread |-> NoEvent] /\ handled = FALSE

Running == ~ended
Idle(t) == ev[t].phase = "none"

\* The table with one more entry, if there is room
add_callback(cbs, d, level) ==
    IF Len(cbs) < MAX_CALLBACKS THEN Append(cbs, [dest |-> d, level |-> level, quiet |-> FALSE, open |-> FALSE])
    ELSE cbs

\* A stream is added once, while the program starts
log_add_fp(d, level) ==
    /\ Running /\ \A t \in Thread : Idle(t)
    /\ \A k \in DOMAIN callbacks : callbacks[k].dest # d
    /\ callbacks' = add_callback(callbacks, d, level)
    /\ stdOnList' = IF stdOnList = {} /\ d \in Std THEN {d} ELSE stdOnList
    /\ UNCHANGED <<ev, cursor, glued, ended, under, handled>>

log_set_level(level, idx) ==
    /\ Running /\ (idx + 1) \in DOMAIN callbacks
    /\ callbacks' = [callbacks EXCEPT ![idx + 1] = [@ EXCEPT !.level = level]]
    /\ UNCHANGED <<stdOnList, ev, cursor, glued, ended, under, handled>>

\* The first entry of the stream
setQuiet(cbs, d, mode) ==
    [k \in DOMAIN cbs |-> IF cbs[k].dest = d /\ \A j \in 1..(k - 1) : cbs[j].dest # d
                          THEN [cbs[k] EXCEPT !.quiet = mode] ELSE cbs[k]]

log_set_quiet(d, mode) ==
    /\ Running
    /\ callbacks' = setQuiet(callbacks, d, mode)
    /\ UNCHANGED <<stdOnList, ev, cursor, glued, ended, under, handled>>

\* A fatal message is shown in any case: on the standard stream of the table, or on stderr,
\* err, if there is none and room for it.
log_log(t, level, bar, err) ==
    /\ Running /\ Idle(t)
    /\ ev' = [ev EXCEPT ![t] = [NoEvent EXCEPT !.phase = "next", !.level = level, !.bar = bar]]
    /\ IF level < LOG_FATAL THEN UNCHANGED <<callbacks, stdOnList>>
       ELSE IF stdOnList = {}
       THEN /\ callbacks' = add_callback(callbacks, err, LOG_FATAL)
            /\ stdOnList' = {err}
       ELSE /\ callbacks' = [k \in DOMAIN callbacks |->
                               IF callbacks[k].dest \in stdOnList THEN [callbacks[k] EXCEPT !.quiet = FALSE]
                               ELSE callbacks[k]]
            /\ UNCHANGED stdOnList
    /\ UNCHANGED <<cursor, glued, ended, under, handled>>

Accepts(cb, e) == e.level >= cb.level /\ ~cb.quiet

\* The next entry of the table.
nextCallback(t) ==
    LET e == ev[t]
    IN /\ Running /\ e.phase = "next" /\ e.slot \in DOMAIN callbacks
       /\ ev' = [ev EXCEPT ![t] = IF Accepts(callbacks[e.slot], e)
                                 THEN [e EXCEPT !.phase = "write", !.open = callbacks[e.slot].open]
                                 ELSE [e EXCEPT !.slot = @ + 1]]
       /\ UNCHANGED <<callbacks, stdOnList, cursor, glued, ended, under, handled>>

\* Behind the last one log_log returns.  A fatal message calls exitProg instead, which logs once
\* more and exits.
logged(t) ==
    LET e == ev[t]
    IN /\ Running /\ e.phase = "next" /\ e.slot \notin DOMAIN callbacks
       /\ \/ e.level >= LOG_FATAL /\ ev' = [ev EXCEPT ![t] = Info("exit")] /\ UNCHANGED <<ended, under>>
          \/ e.level < LOG_FATAL /\ e.then = "caller" /\ ev' = [ev EXCEPT ![t] = NoEvent] /\ UNCHANGED <<ended, under>>
          \/ e.then = "exit" /\ ended' = TRUE /\ UNCHANGED <<ev, under>>
          \/ e.then = "second" /\ ev' = [ev EXCEPT ![t] = Info("resume")] /\ UNCHANGED <<ended, under>>
          \/ /\ e.then = "resume"
             /\ ev' = [ev EXCEPT ![t] = under[t]]
             /\ under' = [under EXCEPT ![t] = NoEvent]
             /\ UNCHANGED ended
       /\ UNCHANGED <<callbacks, stdOnList, cursor, glued, handled>>

\* SIGINT, in any thread, once.  During a long run the handler logs two messages and returns,
\* otherwise it calls exitProg.
intHandler(t, long) ==
    /\ Running /\ ~handled
    /\ handled' = TRUE
    /\ under' = [under EXCEPT ![t] = ev[t]]
    /\ ev' = [ev EXCEPT ![t] = Info(IF long THEN "second" ELSE "exit")]
    /\ UNCHANGED <<callbacks, stdOnList, cursor, glued, ended>>

\* Where the text starts: a bar goes to the start of the one before it if the thread knows of
\* one, a message to the next line if the thread knows of a bar.  Otherwise it starts at the
\* cursor.  Debug messages bring their own end of line, the others get one.
file_callback(t) ==
    LET e == ev[t]
        d == callbacks[e.slot].dest
    IN /\ Running /\ e.phase = "write"
       /\ glued' = IF cursor[d] = "bar" /\ ~e.open THEN glued \cup {d} ELSE glued
       /\ cursor' = [cursor EXCEPT ![d] = IF e.bar THEN "bar" ELSE "start"]
       /\ ev' = [ev EXCEPT ![t] = [e EXCEPT !.phase = "back", !.open = e.bar]]
       /\ UNCHANGED <<callbacks, stdOnList, ended, under, handled>>

storeOffset(t) ==
    LET e == ev[t]
    IN /\ Running /\ e.phase = "back"
       /\ callbacks' = [callbacks EXCEPT ![e.slot] = [@ EXCEPT !.open = e.open]]
       /\ ev' = [ev EXCEPT ![t] = [e EXCEPT !.phase = "next", !.slot = @ + 1]]
       /\ UNCHANGED <<stdOnList, cursor, glued, ended, under, handled>>

Next == \/ \E d \in Dest, l \in Levels : log_add_fp(d, l)
        \/ \E l \in Levels, i \in 0..(MAX_CALLBACKS - 1) : log_set_level(l, i)
        \/ \E d \in Dest, m \in BOOLEAN : log_set_quiet(d, m)
        \/ \E t \in Thread, l \in Levels, b \in BOOLEAN, err \in Std : log_log(t, l, b, err)
        \/ \E t \in Thread : nextCallback(t) \/ file_callback(t) \/ storeOffset(t) \/ logged(t)
        \/ \E t \in Thread, long \in BOOLEAN : intHandler(t, long)

Spec == Init /\ [][Next]_vars

----------------------------------------------------------------------------

TypeOK == /\ callbacks \in Seq(Callback) /\ Len(callbacks) <= MAX_CALLBACKS
          /\ stdOnList \in SUBSET Dest
          /\ ev \in [Thread -> Event]
          /\ cursor \in [Dest -> {"start", "bar"}]
          /\ glued \in SUBSET Dest
          /\ ended \in BOOLEAN /\ handled \in BOOLEAN
          /\ under \in [Thread -> Event]

\* A text is put behind that of a bar, on its line, only where SIGINT has interrupted log_log
\* between the bar's text and the store of its lineOffset.
ByInterrupt == \A d \in glued' \ glued : \E t \in Thread :
                  under[t].phase = "back" /\ under[t].open /\ callbacks[under[t].slot].dest = d

GluedByInterrupt == [][ByInterrupt]_vars
=============================================================================
