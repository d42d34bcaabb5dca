--------------------------------- MODULE Sql ---------------------------------
(***************************************************************************)
(* The database layer (sql.cpp): a cached statement is prepared when it is *)
(* first needed, bound, stepped and reset; the first error of the library  *)
(* rolls the transaction back and ends the program.                        *)
(*                                                                         *)
(* The database is a state of its contents, content, and the one that is   *)
(* found when it is opened again, durable: they differ while a transaction *)
(* is open.                                                                *)
(***************************************************************************)
EXTENDS Integers

CONSTANTS Cmd,       \* SQL_COMMAND records of the program
          Update,    \* those of insert, update or delete (isUpdate)
          Contents,  \* states of the contents
          Empty      \* the one before the program

NONE    == 0
READY   == 1
ROW     == 2
DONE    == 3

VARIABLES content, durable,
          txn,      \* a transaction is open for writing
          stmt,     \* of each command: NONE, READY to be stepped, or what its last step returned
          bound,    \* commands whose variables are bound
          ended     \* "no", "fatal" (log_fatal), "crash" or "closed"

data == <<content, durable, txn>>
vars == <<content, durable, txn, stmt, bound, ended>>

Init == /\ content = Empty /\ durable = Empty /\ txn = FALSE
        /\ stmt = [c \in Cmd |-> NONE] /\ bound = {} /\ ended = "no"

Running == ended = "no"

isUpdate(c) == c \in Update
transactionActive == txn

rollback == content' = durable /\ txn' = FALSE /\ UNCHANGED durable

\* What an error of the library does (logSqlError, checkSqlError)
sqlError == rollback /\ ended' = "fatal" /\ UNCHANGED <<stmt, bound>>

\* A statement that is there keeps what was bound to it, a new one has nothing bound
kept(c) == IF stmt[c] = NONE THEN bound \ {c} ELSE bound

\* The statement is compiled, or it has an error
prepare(c) == /\ Running
              /\ \/ /\ stmt' = [stmt EXCEPT ![c] = READY] /\ bound' = bound \ {c}
                    /\ UNCHANGED <<data, ended>>
                 \/ sqlError

finalize(c) == /\ Running
               /\ stmt' = [stmt EXCEPT ![c] = NONE] /\ bound' = bound \ {c}
               /\ UNCHANGED <<data, ended>>

reset(c) == /\ Running
            /\ \/ /\ stmt' = [stmt EXCEPT ![c] = READY] /\ bound' = kept(c)
                  /\ UNCHANGED <<data, ended>>
               \/ stmt[c] = NONE /\ sqlError

\* given: there is a value for every variable and none is NULL
bind(c, given) == /\ Running
                  /\ \/ /\ given
                        /\ stmt' = [stmt EXCEPT ![c] = READY] /\ bound' = bound \cup {c}
                        /\ UNCHANGED <<data, ended>>
                     \/ sqlError

\* A column and the variable for it.  A number needs one.  A text leaves its address, unless
\* texts are copied (textMarker): then to a variable that was marked (SQL_MARKER) and has
\* room; one that was not crashes the message about it, which has no command to name.
Columns == {"number", "text", "null"}
Targets == {"NULL", "marked", "unmarked"}
column(type, target, textMarker) ==
    CASE type = "number" /\ target = "NULL" -> "fatal"
      [] type = "text" /\ textMarker /\ target = "unmarked" -> "crash"
      [] OTHER -> "no"

\* The next row, with one of its columns.  A transaction that is open in a crash is rolled
\* back when the database is opened again.
stepRow(c, type, target, textMarker) ==
    LET ends == column(type, target, textMarker)
    IN /\ Running
       /\ ended' = ends
       /\ IF ends = "no" THEN /\ stmt' = [stmt EXCEPT ![c] = ROW] /\ bound' = kept(c)
                              /\ UNCHANGED data
          ELSE rollback /\ UNCHANGED <<stmt, bound>>

\* What an update leaves: kept at once if no transaction is open
changed(c) == IF isUpdate(c) THEN /\ content' \in Contents
                                  /\ durable' = IF txn THEN durable ELSE content'
                                  /\ UNCHANGED txn
              ELSE UNCHANGED data

stepDone(c) == /\ Running
               /\ stmt' = [stmt EXCEPT ![c] = DONE] /\ bound' = kept(c)
               /\ changed(c)
               /\ UNCHANGED ended

stepFailed == Running /\ sqlError

\* A command that is not kept, with marked variables only or none (SQL_EXEC)
sqlImmediate(c) == /\ Running
                   /\ \/ changed(c) /\ UNCHANGED <<stmt, bound, ended>>
                      \/ sqlError

\* BEGIN IMMEDIATE is an error inside another transaction
begin == /\ Running
         /\ \/ ~txn /\ txn' = TRUE /\ UNCHANGED <<content, durable, stmt, bound, ended>>
            \/ sqlError

\* COMMIT is an error without a transaction, or if it cannot be written
commit == /\ Running
          /\ \/ /\ txn /\ txn' = FALSE /\ durable' = content
                /\ UNCHANGED <<content, stmt, bound, ended>>
             \/ sqlError

\* ROLLBACK: its result is not looked at
ROLLBACK == Running /\ rollback /\ UNCHANGED <<stmt, bound, ended>>

\* At the end an open transaction is rolled back and all statements are finalized.  Bound of
\* the model: there are not more than the 16 the code has room for.
closeDB == /\ Running
           /\ IF transactionActive THEN rollback ELSE UNCHANGED data
           /\ stmt' = [c \in Cmd |-> NONE] /\ bound' = {} /\ ended' = "closed"

Next == \/ \E c \in Cmd : \/ prepare(c) \/ finalize(c) \/ reset(c) \/ stepDone(c) \/ sqlImmediate(c)
                          \/ \E given \in BOOLEAN : bind(c, given)
                          \/ \E type \in Columns, target \in Targets, m \in BOOLEAN :
                               stepRow(c, type, target, m)
        \/ stepFailed \/ begin \/ commit \/ ROLLBACK \/ closeDB

Spec == Init /\ [][Next]_vars

----------------------------------------------------------------------------

TypeOK == /\ content \in Contents /\ durable \in Contents
          /\ txn \in BOOLEAN
          /\ stmt \in [Cmd -> {NONE, READY, ROW, DONE}]
          /\ bound \in SUBSET Cmd
          /\ ended \in {"no", "fatal", "crash", "closed"}

\* Nothing is bound to a statement that is not there
BoundIsPrepared == \A c \in bound : stmt[c] # NONE

\* Changes that are not durable belong to a transaction, and the program ends without one.
NothingHalfDone == /\ content # durable => txn
                   /\ ended # "no" => ~txn

\* What is durable changes only outside a transaction or by its commit, never by an error, a
\* rollback or the end of the program.
OnlyCommitted == [][durable' # durable => durable' = content' /\ ~txn' /\ ended' = "no"]_vars
=============================================================================
