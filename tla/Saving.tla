------------------------------- MODULE Saving -------------------------------
(***************************************************************************)
(* Saving in a transaction (DBTransaction of database.h, Database, and its *)
(* users: savePlayer, saveHouseInfo, saveHouseItems and the loops that try *)
(* each of them three times).  A save writes a version of everything: one  *)
(* table is updated, the others are emptied and filled again.  Left out    *)
(* are a player whose row says not to save it, for whom one statement      *)
(* outside of a transaction writes when it was here (iologindata.cpp:      *)
(* 672-674), and depots that did not change, whose tables are not          *)
(* rewritten (818-866).                                                    *)
(*                                                                         *)
(* The database server is external: BEGIN opens a transaction, COMMIT and  *)
(* ROLLBACK end it, a statement outside of one is stored at once, and a    *)
(* connection that breaks takes its transaction with it.  executeQuery     *)
(* sends a statement again until it finds a server, and the library        *)
(* connects again by itself (MYSQL_OPT_RECONNECT), so that a statement     *)
(* never fails because of a broken connection; it may fail otherwise.      *)
(***************************************************************************)
EXTENDS Naturals

CONSTANTS
    Refilled,    \* tables that are emptied and filled again: 1..Refilled
    MaxSaves,    \* bound: saves
    Tries        \* how often each is tried

ASSUME SavingAssumption ==
    Refilled \in Nat /\ MaxSaves \in Nat /\ Tries \in Nat \ {0}

Tables == 0..Refilled

VARIABLES
    stored,      \* the versions of the rows in each table
    inside,      \* the same, as the open transaction sees it
    open,        \* the server has a transaction of this connection
    step,        \* statements done; 0 when no save is running
    locks,       \* how often databaseLock is locked
    version,     \* what is being saved, and how often it was tried
    tries,
    outcome,     \* what the last savePlayer returned
    broken       \* the connection broke within a transaction, and none
                 \* was completed since

SavingVars == <<stored, inside, open, step, locks, version, tries,
                outcome, broken>>

SavingTypeOK ==
    /\ stored \in [Tables -> SUBSET (0..MaxSaves)]
    /\ inside \in [Tables -> SUBSET (0..MaxSaves)]
    /\ open \in BOOLEAN /\ broken \in BOOLEAN
    /\ step \in 0..(2 * Refilled + 2)
    /\ locks \in 0..1
    /\ version \in 0..MaxSaves /\ tries \in 0..Tries
    /\ outcome \in {"saved", "failed"}

SavingInit ==
    /\ stored = [t \in Tables |-> {0}] /\ inside = stored
    /\ open = FALSE /\ step = 0 /\ locks = 0
    /\ version = 0 /\ tries = 0 /\ outcome = "saved" /\ broken = FALSE

-----------------------------------------------------------------------------
(* The n-th statement of a save: the UPDATE, then a DELETE and an INSERT   *)
(* for each of the other tables.                                           *)
Statement(n, rows) ==
    IF n = 1 THEN [rows EXCEPT ![0] = {version}]
    ELSE [rows EXCEPT ![n \div 2] =
            IF n % 2 = 0 THEN {} ELSE @ \cup {version}]

LastStatement == 2 * Refilled + 1

(* The transaction ends with the statements before it stored. *)
EndWithoutRollbackMutant(rows) ==
    /\ stored' = inside /\ inside' = inside
    /\ open' = FALSE /\ locks' = locks - 1
    /\ step' = 0

(* COMMIT stores what the transaction wrote, ROLLBACK (~DBTransaction) what*)
(* was there before; both unlock.                                          *)
End(rows) ==
    /\ stored' = rows /\ inside' = rows
    /\ open' = FALSE /\ locks' = locks - 1
    /\ step' = 0

(* A player logs out, or the game state is saved. *)
StartSaving ==
    /\ step = 0 /\ (outcome = "saved" \/ tries = Tries)
    /\ version < MaxSaves
    /\ version' = version + 1 /\ tries' = 0 /\ outcome' = "failed"
    /\ UNCHANGED <<stored, inside, open, step, locks, broken>>

(* DBTransaction::begin *)
Begin ==
    /\ step = 0 /\ outcome = "failed" /\ tries < Tries
    /\ open' = TRUE /\ locks' = locks + 1
    /\ inside' = stored /\ step' = 1 /\ tries' = tries + 1
    /\ UNCHANGED <<stored, version, outcome, broken>>

(* BEGIN fails: the destructor rolls back all the same, and unlocks what   *)
(* was never locked, which a recursive mutex of this build refuses.        *)
BeginFails ==
    /\ step = 0 /\ outcome = "failed" /\ tries < Tries
    /\ tries' = tries + 1
    /\ UNCHANGED <<stored, inside, open, step, locks, version, outcome,
                   broken>>

Execute ==
    /\ step \in 1..LastStatement
    /\ inside' = Statement(step, inside)
    /\ stored' = IF open THEN stored ELSE inside'
    /\ step' = step + 1
    /\ UNCHANGED <<open, locks, version, tries, outcome, broken>>

(* executeQuery returns false: the save returns, which rolls back. *)
ExecuteFails ==
    /\ step \in 1..LastStatement
    /\ End(stored)
    /\ UNCHANGED <<version, tries, outcome, broken>>

(* mysql_commit may fail; then nothing rolls back, the server forgets.     *)
Commit ==
    /\ step = LastStatement + 1
    /\ \/ /\ End(inside) /\ outcome' = "saved"
          /\ broken' = (broken /\ ~open)
       \/ End(stored) /\ UNCHANGED <<outcome, broken>>
    /\ UNCHANGED <<version, tries>>

(* The connection breaks and is made anew by the next statement. *)
LoseConnection ==
    /\ step > 0 /\ open
    /\ open' = FALSE /\ inside' = stored /\ broken' = TRUE
    /\ UNCHANGED <<stored, step, locks, version, tries, outcome>>

SavingNext ==
    \/ StartSaving \/ Begin \/ BeginFails \/ Execute \/ ExecuteFails \/ Commit
    \/ LoseConnection

SavingSpec == SavingInit /\ [][SavingNext]_SavingVars

-----------------------------------------------------------------------------
(* Unless a connection broke within a transaction and none was completed   *)
(* since, what is stored is one version of everything, whichever statement *)
(* or commit failed: the latest one if its save returned true, and one     *)
(* that was saved before if it did not.                                    *)
StoredWhole ==
    broken \/ \E v \in 0..version :
        /\ \A t \in Tables : stored[t] = {v}
        /\ step = 0 /\ outcome = "saved" => v = version
        /\ outcome = "failed" => v < version

(* The lock is held exactly while a transaction is running, whichever way  *)
(* it ends.                                                                *)
LockedWhileSaving == (locks = 1) <=> (step > 0)

(* Saves are sound: transactions are whole and leave no lock behind.       *)
SavingSound == SavingTypeOK /\ StoredWhole /\ LockedWhileSaving
=============================================================================
