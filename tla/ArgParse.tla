----------------------------- MODULE ArgParse ------------------------------
(***************************************************************************)
(* argparse_parse (argparse.c): options and their values are taken out of  *)
(* the argument vector, everything else stays in order.  An argument is a  *)
(* sequence of symbols: dashes, letters, "=", "no-" and words.  No option  *)
(* has a name that another one begins with, so that prefix_skip compares   *)
(* one symbol; no argument ends in "=".                                    *)
(***************************************************************************)
EXTENDS Integers, SequencesExt

CONSTANTS
    Options,    \* set of [short, long, type, field]; "" for no name
    Switches,   \* the bool fields of CONFIG in the order they lie in memory
    Number      \* words that are numbers -> their value

NoOption == [short |-> "", long |-> "", type |-> "none", field |-> ""]
Fields   == {o.field : o \in {p \in Options : p.type # "boolean"}}
At(field) == CHOOSE i \in DOMAIN Switches : Switches[i] = field
Padding  == <<0, 0, 0>>

\* out: arguments that are no options; opt: fields given, <<>> is NULL; sw: bytes of the
\* switches and the padding behind them; optvalue: left over from --switch=value;
\* pending: option whose value is the next argument; ended: "--" was seen
argparse_init(on) ==
    [out |-> <<>>, opt |-> [f \in Fields |-> <<>>],
     sw |-> [i \in DOMAIN Switches |-> IF Switches[i] \in on THEN 1 ELSE 0] \o Padding,
     optvalue |-> <<>>, pending |-> NoOption, ended |-> FALSE, exit |-> FALSE]

On(st, field) == st.sw[At(field)] # 0

----------------------------------------------------------------------------
(* argparse_getvalue.  A switch is one byte, the code adds to four.        *)

plusOne(i, b) ==
    LET low == CHOOSE j \in i..(i + 3) : b[j] # 255 /\ \A k \in i..(j - 1) : b[k] = 255
    IN [j \in DOMAIN b |-> IF j \in i..(low - 1) THEN 0 ELSE IF j = low THEN b[j] + 1 ELSE b[j]]

\* 0 - 1 is set to 0 again; otherwise the byte borrows from the switches behind it
minusOne(i, b) ==
    IF \A j \in i..(i + 3) : b[j] = 0 THEN b
    ELSE LET low == CHOOSE j \in i..(i + 3) : b[j] # 0 /\ \A k \in i..(j - 1) : b[k] = 0
         IN [j \in DOMAIN b |-> IF j \in i..(low - 1) THEN 255
                                ELSE IF j = low THEN b[j] - 1 ELSE b[j]]

switch(st, o, unset) ==
    [st EXCEPT !.sw = IF unset THEN minusOne(At(o.field), @) ELSE plusOne(At(o.field), @)]

\* What strtol takes for a whole number
IsNumber(v) == v = <<>> \/ (Len(v) = 1 /\ v[1] \in DOMAIN Number)

\* Mutant: the value of an option remains in optvalue
storeKeeping(st, o, value) ==
    [st EXCEPT !.opt[o.field] = value, !.optvalue = value, !.pending = NoOption,
               !.exit = o.type = "integer" /\ ~IsNumber(value)]

store(st, o, value) ==
    [st EXCEPT !.opt[o.field] = value, !.optvalue = <<>>, !.pending = NoOption,
               !.exit = o.type = "integer" /\ ~IsNumber(value)]

\* optvalue is the rest of the argument, or of an earlier one
getvalue(st, o, unset) ==
    IF o.type = "boolean" THEN switch(st, o, unset)
    ELSE IF st.optvalue # <<>> THEN store(st, o, st.optvalue)
    ELSE [st EXCEPT !.pending = o]

----------------------------------------------------------------------------
Exit(st) == [st EXCEPT !.exit = TRUE]

\* -abc: switches, up to an option that takes the rest as its value
short_opt(st, letters) ==
    LET match(k) == {o \in Options : o.short = letters[k]}
        isSwitch(k) == \E o \in match(k) : o.type = "boolean"
        last == {k \in DOMAIN letters : ~isSwitch(k) /\ \A j \in 1..(k - 1) : isSwitch(j)}
        n    == IF last = {} THEN Len(letters) ELSE (CHOOSE k \in last : TRUE) - 1
        set  == FoldLeft(LAMBDA s, l : switch(s, CHOOSE o \in Options : o.short = l, FALSE),
                         [st EXCEPT !.optvalue = <<>>], SubSeq(letters, 1, n))
    IN IF last = {} THEN set
       ELSE IF match(n + 1) = {} THEN Exit(set)
       ELSE getvalue([set EXCEPT !.optvalue = SubSeq(letters, n + 2, Len(letters))],
                     CHOOSE o \in match(n + 1) : TRUE, FALSE)

\* --name, --name=value, --no-name
long_opt(st, text) ==
    LET unset == text[1] = "no-"
        name  == text[IF unset THEN 2 ELSE 1]
        rest  == SubSeq(text, IF unset THEN 3 ELSE 2, Len(text))
        match == {o \in Options : /\ o.long = name
                                  /\ unset => o.type = "boolean"
                                  /\ rest = <<>> \/ rest[1] = "="}
    IN IF match = {} THEN Exit(st)
       ELSE getvalue(IF rest = <<>> THEN st ELSE [st EXCEPT !.optvalue = Tail(rest)],
                     CHOOSE o \in match : TRUE, unset)

argument(st, arg) ==
    CASE st.exit -> st
      [] ~st.exit /\ st.pending # NoOption -> store(st, st.pending, arg)
      [] ~st.exit /\ st.pending = NoOption /\ (st.ended \/ arg[1] # "-" \/ Len(arg) = 1) ->
           [st EXCEPT !.out = Append(@, arg)]
      [] OTHER ->
           CASE arg[2] # "-"                  -> short_opt(st, Tail(arg))
             [] arg[2] = "-" /\ Len(arg) = 2  -> [st EXCEPT !.ended = TRUE]
             [] OTHER                         -> long_opt(st, SubSeq(arg, 3, Len(arg)))

\* on: the switches that are set before
argparse_parse(argv, on) ==
    LET st == FoldLeft(argument, argparse_init(on), argv)
    IN IF st.pending # NoOption THEN Exit(st) ELSE st
=============================================================================
