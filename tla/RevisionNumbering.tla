-------------------------- MODULE RevisionNumbering --------------------------
(***************************************************************************)
(* Numbering of complect revisions (components/complect_revision.py).  Each*)
(* compiler worker ("maker") creates a revision in one transaction: an     *)
(* upsert takes the next number from complects_revisions_seq and keeps the *)
(* sequence row locked, the complect's code is asked from the API gateway  *)
(* over HTTP inside the transaction, and the revision row is inserted.     *)
(***************************************************************************)
EXTENDS Naturals, FiniteSets

CONSTANTS
    Maker,          \* processes that run scripts.compiler
    Complect,
    Code,           \* the complect codes the gateway may answer
    NoMaker, NoComplect, NoCode,
    MaxNumber,      \* bound: revisions of one complect
    MaxRenames,     \* bound: changes of a complect's code in the gateway
    MaxFaults       \* bound: errors and deaths of makers

ASSUME NumberingBounds == MaxNumber \in Nat /\ MaxRenames \in Nat /\ MaxFaults \in Nat
ASSUME NumberingSentinels ==
    NoMaker \notin Maker /\ NoComplect \notin Complect /\ NoCode \notin Code

VARIABLES
    last,       \* committed last_revision_number, 0 when there is no row
    seqLock,    \* the maker whose open transaction upserted the sequence row
    revisions,  \* the committed rows of complects_revisions
    codeOf,     \* the complect's code in the gateway
    pc, complect, number, code,     \* each maker's call of _create
    renames, faults

vars == <<last, seqLock, revisions, codeOf, pc, complect, number, code,
          renames, faults>>

Revision == [complect : Complect, number : Nat \ {0}, code : Code \X (Nat \ {0})]

Init ==
    /\ last      = [c \in Complect |-> 0]
    /\ seqLock   = [c \in Complect |-> NoMaker]
    /\ revisions = {}
    /\ codeOf    \in [Complect -> Code]
    /\ \A c, d \in Complect : c # d => codeOf[c] # codeOf[d]
    /\ pc        = [m \in Maker |-> "idle"]
    /\ complect  = [m \in Maker |-> NoComplect]
    /\ number    = [m \in Maker |-> 0]
    /\ code      = [m \in Maker |-> NoCode]
    /\ renames   = 0
    /\ faults    = 0

-------------------------------------------------------------------------------
(* Faulty variants of the definitions below: the properties fail on them. *)

NoRowLock(m, c) == TRUE           \* the number is read without a lock
ZeroBased(c) == last[c]           \* the first number is 0
CodeNotChecked(k) == FALSE        \* no UNIQUE on complects_revisions.code
KeptLocks(m) == seqLock           \* the session of a failed call stays open
SeqCommitsFirst(m) ==             \* the upsert is committed by itself
    [last EXCEPT ![complect[m]] = IF number[m] > @ THEN number[m] ELSE @]

-------------------------------------------------------------------------------
(* The unique index on complect_id and the row's lock make a second upsert
   of the complect wait for the end of the first transaction. *)
SeqFree(m, c) == seqLock[c] \in {NoMaker, m}

NextNumber(c) == last[c] + 1

(* Another revision has this code: the INSERT fails on the UNIQUE column. *)
CodeTaken(k) == \E r \in revisions : r.code = k

Released(m) ==
    [c \in Complect |-> IF seqLock[c] = m THEN NoMaker ELSE seqLock[c]]

(* What a rolled-back transaction leaves of the sequence. *)
AfterRollback(m) == last

RevisionCode(m) == <<code[m], number[m]>>

(* The call of _create is over. *)
End(m) ==
    /\ seqLock'  = Released(m)
    /\ pc'       = [pc       EXCEPT ![m] = "idle"]
    /\ complect' = [complect EXCEPT ![m] = NoComplect]
    /\ number'   = [number   EXCEPT ![m] = 0]
    /\ code'     = [code     EXCEPT ![m] = NoCode]

Rollback(m) ==
    /\ End(m)
    /\ last' = AfterRollback(m)
    /\ UNCHANGED <<revisions, codeOf, renames>>

-------------------------------------------------------------------------------
(* get_next_complect_revision_number *)
Upsert(m, c) ==
    /\ pc[m] = "idle"
    /\ last[c] < MaxNumber
    /\ SeqFree(m, c)
    /\ seqLock'  = [seqLock  EXCEPT ![c] = m]
    /\ pc'       = [pc       EXCEPT ![m] = "fetch"]
    /\ complect' = [complect EXCEPT ![m] = c]
    /\ number'   = [number   EXCEPT ![m] = NextNumber(c)]
    /\ UNCHANGED <<last, revisions, codeOf, code, renames, faults>>

(* get_complect_code: the gateway's answer of this moment. *)
FetchCode(m) ==
    /\ pc[m] = "fetch"
    /\ code' = [code EXCEPT ![m] = codeOf[complect[m]]]
    /\ pc'   = [pc   EXCEPT ![m] = "insert"]
    /\ UNCHANGED <<last, seqLock, revisions, codeOf, complect, number, renames,
                   faults>>

(* INSERT and COMMIT of the revision and of the sequence row together. *)
InsertTx(m) ==
    /\ pc[m] = "insert"
    /\ ~CodeTaken(RevisionCode(m))
    /\ revisions' = revisions \cup
          {[complect |-> complect[m], number |-> number[m], code |-> RevisionCode(m)]}
    /\ last' = [last EXCEPT ![complect[m]] = number[m]]
    /\ UNCHANGED <<codeOf, renames>>
    /\ End(m)

Commit(m) == InsertTx(m) /\ UNCHANGED faults

(* IntegrityError: the call raises, the session is closed. *)
CodeClash(m) ==
    /\ pc[m] = "insert"
    /\ CodeTaken(RevisionCode(m))
    /\ Rollback(m)
    /\ UNCHANGED faults

-------------------------------------------------------------------------------
(* The gateway or the database fails, or the maker's process dies: the call
   is gone and its transaction rolled back. *)
CallFails(m) ==
    /\ faults < MaxFaults
    /\ pc[m] # "idle"
    /\ faults' = faults + 1
    /\ Rollback(m)

(* The commit is applied, but its acknowledgement or the process is lost. *)
CommitUnacked(m) ==
    /\ faults < MaxFaults
    /\ InsertTx(m)
    /\ faults' = faults + 1

(* An editor renames the complect; codes stay unique in the gateway. *)
Rename(c, k) ==
    /\ renames < MaxRenames
    /\ \A d \in Complect : codeOf[d] # k
    /\ codeOf' = [codeOf EXCEPT ![c] = k]
    /\ renames' = renames + 1
    /\ UNCHANGED <<last, seqLock, revisions, pc, complect, number, code, faults>>

Next ==
    \/ \E m \in Maker :
          \/ \E c \in Complect : Upsert(m, c)
          \/ FetchCode(m) \/ Commit(m) \/ CodeClash(m)
          \/ CallFails(m) \/ CommitUnacked(m)
    \/ \E c \in Complect, k \in Code : Rename(c, k)

Spec == Init /\ [][Next]_vars

(* A begun call goes on: the gateway answers and the database executes. *)
FairSpec ==
    /\ Spec
    /\ \A m \in Maker : WF_vars(FetchCode(m) \/ Commit(m) \/ CodeClash(m))

-------------------------------------------------------------------------------
(* Types of the tables and of the calls. *)
TypeOK ==
    /\ last      \in [Complect -> Nat]
    /\ seqLock   \in [Complect -> Maker \cup {NoMaker}]
    /\ revisions \subseteq Revision
    /\ codeOf    \in [Complect -> Code]
    /\ pc        \in [Maker -> {"idle", "fetch", "insert"}]
    /\ complect  \in [Maker -> Complect \cup {NoComplect}]
    /\ number    \in [Maker -> Nat]
    /\ code      \in [Maker -> Code \cup {NoCode}]
    /\ renames   \in Nat
    /\ faults    \in Nat

(* The committed numbers of a complect are 1 .. last_revision_number: a call
   that fails after the upsert gives its number back, none is skipped. *)
Gapless ==
    \A c \in Complect :
        {r.number : r \in {x \in revisions : x.complect = c}} = 1 .. last[c]

(* No two revisions of a complect share a number, and no two revisions of
   any complects share a code, whatever the renames. *)
RevisionsDistinct ==
    \A r, s \in revisions :
        r # s => r.code # s.code /\ (r.complect = s.complect => r.number # s.number)

(* A revision is never changed or removed, and the next one of its complect
   has a larger number. *)
AppendOnly ==
    [][/\ revisions \subseteq revisions'
       /\ \A r \in revisions' \ revisions : r.number > last[r.complect]]_vars

(* A call of _create ends, and the sequence row is free again: calls that
   failed, clashed or died leave no lock behind. *)
SequenceFreed ==
    \A c \in Complect : (seqLock[c] # NoMaker) ~> (seqLock[c] = NoMaker)

==============================================================================
