------------------------------ MODULE SqlProofs ------------------------------
(***************************************************************************)
(* What is found in the database after the program is what was committed.  *)
(***************************************************************************)
EXTENDS Sql, TLAPS

IInv == TypeOK /\ NothingHalfDone /\ BoundIsPrepared

LEMMA SqlInit == ASSUME Empty \in Contents, Init PROVE IInv
  BY DEF Init, IInv, TypeOK, NothingHalfDone, BoundIsPrepared

LEMMA ErrorStep == ASSUME IInv, sqlError PROVE IInv'
  BY DEF IInv, TypeOK, NothingHalfDone, BoundIsPrepared, sqlError, rollback

LEMMA SqlStep == ASSUME IInv, [Next]_vars PROVE IInv'
  <1> USE DEF IInv, TypeOK, NothingHalfDone, BoundIsPrepared, data, Running, kept
  <1>1. ASSUME NEW c \in Cmd, prepare(c) PROVE IInv'
    BY <1>1, ErrorStep DEF prepare, NONE, READY
  <1>2. ASSUME NEW c \in Cmd, finalize(c) PROVE IInv'
    BY <1>2 DEF finalize
  <1>3. ASSUME NEW c \in Cmd, reset(c) PROVE IInv'
    BY <1>3, ErrorStep DEF reset, NONE, READY
  <1>4. ASSUME NEW c \in Cmd, stepDone(c) PROVE IInv'
    BY <1>4 DEF stepDone, changed, NONE, DONE
  <1>5. ASSUME NEW c \in Cmd, sqlImmediate(c) PROVE IInv'
    BY <1>5, ErrorStep DEF sqlImmediate, changed
  <1>6. ASSUME NEW c \in Cmd, NEW given \in BOOLEAN, bind(c, given) PROVE IInv'
    BY <1>6, ErrorStep DEF bind, NONE, READY
  <1>7. ASSUME NEW c \in Cmd, NEW type \in Columns, NEW target \in Targets, NEW m \in BOOLEAN,
               stepRow(c, type, target, m)
        PROVE  IInv'
    <2>1. column(type, target, m) \in {"no", "fatal", "crash"} BY DEF column
    <2>2. CASE column(type, target, m) = "no" BY <1>7, <2>2 DEF stepRow, NONE, ROW
    <2>3. CASE column(type, target, m) # "no" BY <1>7, <2>1, <2>3 DEF stepRow, rollback
    <2> QED BY <2>2, <2>3
  <1>8. CASE stepFailed BY <1>8, ErrorStep DEF stepFailed
  <1>9. CASE begin BY <1>9, ErrorStep DEF begin
  <1>10. CASE commit BY <1>10, ErrorStep DEF commit
  <1>11. CASE ROLLBACK BY <1>11 DEF ROLLBACK, rollback
  <1>12. CASE closeDB BY <1>12 DEF closeDB, rollback, transactionActive
  <1>13. CASE UNCHANGED vars BY <1>13 DEF vars
  <1> HIDE DEF IInv
  <1> QED BY <1>1, <1>2, <1>3, <1>4, <1>5, <1>6, <1>7, <1>8, <1>9, <1>10, <1>11, <1>12, <1>13 DEF Next

\* Whatever the statements, their errors and the end of the program: changes that are not
\* durable are those of an open transaction, and no transaction survives the end
\* (sql.cpp logSqlError, checkSqlError, closeDB).
THEOREM DatabaseComplete == ASSUME Empty \in Contents PROVE Spec => []NothingHalfDone
  <1>1. Init => IInv BY SqlInit
  <1>2. IInv /\ [Next]_vars => IInv' BY SqlStep
  <1>3. IInv => NothingHalfDone BY DEF IInv
  <1> QED BY <1>1, <1>2, <1>3, PTL DEF Spec

\* The contents that a later start finds change only by a commit or by a change outside a
\* transaction: no error, rollback or end of the program does it.
THEOREM DatabaseCommitted == ASSUME Empty \in Contents PROVE Spec => OnlyCommitted
  <1> DEFINE A == durable' # durable => durable' = content' /\ ~txn' /\ ended' = "no"
  <1>1. ASSUME TypeOK, [Next]_vars PROVE [A]_vars
    <2> USE DEF Running, data, TypeOK
    <2>0. SUFFICES ASSUME durable' # durable PROVE A OBVIOUS
    <2>1. ASSUME NEW c \in Cmd,
                 prepare(c) \/ finalize(c) \/ reset(c) \/ stepDone(c) \/ sqlImmediate(c)
          PROVE  A
      BY <1>1, <2>0, <2>1
      DEF prepare, finalize, reset, stepDone, sqlImmediate, changed, sqlError, rollback
    <2>2. ASSUME NEW c \in Cmd, NEW given \in BOOLEAN, bind(c, given) PROVE A
      BY <2>0, <2>2 DEF bind, sqlError, rollback
    <2>3. ASSUME NEW c \in Cmd, NEW type \in Columns, NEW target \in Targets, NEW m \in BOOLEAN,
                 stepRow(c, type, target, m)
          PROVE  A
      BY <2>0, <2>3 DEF stepRow, rollback
    <2>4. CASE stepFailed \/ begin \/ commit \/ ROLLBACK \/ closeDB
      BY <1>1, <2>0, <2>4 DEF stepFailed, begin, commit, ROLLBACK, closeDB, sqlError, rollback
    <2>5. CASE UNCHANGED vars BY <2>0, <2>5 DEF vars
    <2> QED BY <1>1, <2>1, <2>2, <2>3, <2>4, <2>5 DEF Next
  <1>2. Init => IInv BY SqlInit
  <1>3. IInv /\ [Next]_vars => IInv' BY SqlStep
  <1>4. IInv => TypeOK BY DEF IInv
  <1> QED BY <1>1, <1>2, <1>3, <1>4, PTL DEF Spec, OnlyCommitted
=============================================================================
