----------------------- MODULE RevisionNumberingProofs -----------------------
(***************************************************************************)
(* Proofs about RevisionNumbering, for every set of makers and complects   *)
(* and every value of the bounds.                                          *)
(***************************************************************************)
EXTENDS RevisionNumbering, TLAPS

(* A call that has begun works for a complect, and inserts a code. *)
CallTyped ==
    \A m \in Maker :
        /\ pc[m] # "idle" => complect[m] \in Complect
        /\ pc[m] = "insert" => code[m] \in Code

(* A call works with a number nobody else can commit: it is the successor of
   the committed one until the call ends. *)
NumberReserved ==
    \A m \in Maker : pc[m] # "idle" =>
        number[m] = last[complect[m]] + 1 /\ seqLock[complect[m]] = m

(* Gapless, number by number: the form the induction works on. *)
NumbersFilled ==
    /\ \A r \in revisions : r.number \in 1 .. last[r.complect]
    /\ \A c \in Complect : \A n \in 1 .. last[c] :
          \E r \in revisions : r.complect = c /\ r.number = n

IInv == TypeOK /\ CallTyped /\ NumberReserved /\ NumbersFilled /\ RevisionsDistinct

-------------------------------------------------------------------------------
(* The empty tables satisfy the invariant. *)
LEMMA InitIInv == Init => IInv
BY DEF Init, IInv, TypeOK, CallTyped, NumberReserved, NumbersFilled, RevisionsDistinct

(* A rollback only removes the call: nothing it did is visible. *)
LEMMA RollbackIInv ==
    ASSUME NEW m \in Maker, IInv, Rollback(m), faults' \in Nat
    PROVE  IInv'
<1> USE DEF Rollback, End, Released, AfterRollback, IInv
<1>1. TypeOK'
      BY NumberingSentinels DEF TypeOK
<1>2. CallTyped' /\ NumberReserved'
      BY NumberingSentinels DEF TypeOK, CallTyped, NumberReserved
<1>3. NumbersFilled' /\ RevisionsDistinct'
      BY DEF NumbersFilled, RevisionsDistinct
<1>4. QED BY <1>1, <1>2, <1>3

(* The commit adds the one revision that follows the last one. *)
LEMMA InsertIInv ==
    ASSUME NEW m \in Maker, IInv, InsertTx(m), faults' \in Nat
    PROVE  IInv'
<1> DEFINE c == complect[m]
           new == [complect |-> c, number |-> number[m], code |-> RevisionCode(m)]
<1>1. /\ c \in Complect /\ code[m] \in Code
      /\ number[m] = last[c] + 1 /\ seqLock[c] = m
      /\ last[c] \in Nat
      BY DEF InsertTx, IInv, TypeOK, CallTyped, NumberReserved
<1>2. /\ revisions' = revisions \cup {new}
      /\ last' = [last EXCEPT ![c] = number[m]]
      /\ ~CodeTaken(new.code)
      /\ End(m) /\ UNCHANGED <<codeOf, renames>>
      BY DEF InsertTx
<1>3. new \in Revision
      BY <1>1 DEF Revision, RevisionCode
<1>4. TypeOK'
  <2>1. revisions' \subseteq Revision
        BY <1>2, <1>3 DEF IInv, TypeOK
  <2>2. last' \in [Complect -> Nat]
        BY <1>1, <1>2 DEF IInv, TypeOK
  <2>3. QED BY <1>2, <2>1, <2>2, NumberingSentinels
            DEF IInv, TypeOK, End, Released
<1>5. CallTyped'
      BY <1>2 DEF IInv, TypeOK, CallTyped, End
<1>6. NumberReserved'
  <2> SUFFICES ASSUME NEW n \in Maker, pc'[n] # "idle"
               PROVE  number'[n] = last'[complect'[n]] + 1 /\ seqLock'[complect'[n]] = n
      BY DEF NumberReserved
  <2>1. n # m /\ pc[n] # "idle" /\ complect'[n] = complect[n] /\ number'[n] = number[n]
        BY <1>2 DEF End, IInv, TypeOK
  <2>2. number[n] = last[complect[n]] + 1 /\ seqLock[complect[n]] = n
        BY <2>1 DEF IInv, NumberReserved
  <2>3. complect[n] # c /\ complect[n] \in Complect
        BY <1>1, <2>1, <2>2 DEF IInv, CallTyped
  <2>4. last'[complect[n]] = last[complect[n]]
        BY <1>2, <2>3 DEF IInv, TypeOK
  <2>5. seqLock'[complect[n]] = n
        BY <1>2, <2>1, <2>2, <2>3 DEF End, Released
  <2>6. QED BY <2>1, <2>2, <2>4, <2>5
<1>7. NumbersFilled'
  <2>1. \A d \in Complect :
            last'[d] = IF d = c THEN last[c] + 1 ELSE last[d]
        BY <1>1, <1>2 DEF IInv, TypeOK
  <2>2. \A r \in revisions' : r.number \in 1 .. last'[r.complect]
    <3> SUFFICES ASSUME NEW r \in revisions' PROVE r.number \in 1 .. last'[r.complect]
        OBVIOUS
    <3>1. CASE r = new
      <4>1. r.complect = c /\ r.number = last[c] + 1 /\ last'[c] = last[c] + 1
            BY <1>1, <2>1, <3>1
      <4>2. QED BY <1>1, <4>1
    <3>2. CASE r \in revisions
      <4>1. r.complect \in Complect /\ r.number \in 1 .. last[r.complect]
            BY <3>2 DEF IInv, TypeOK, Revision, NumbersFilled
      <4>2. QED BY <4>1, <2>1, <1>1 DEF IInv, TypeOK
    <3>3. QED BY <3>1, <3>2, <1>2
  <2>3. ASSUME NEW d \in Complect, NEW n \in 1 .. last'[d]
        PROVE  \E r \in revisions' : r.complect = d /\ r.number = n
    <3>1. CASE d = c /\ n = last[c] + 1
      <4>1. new \in revisions' /\ new.complect = d /\ new.number = n
        <5>1. new.complect = c /\ new.number = number[m]
              OBVIOUS
        <5>2. QED BY <1>1, <1>2, <3>1, <5>1
      <4>2. QED BY <4>1
    <3>2. CASE ~(d = c /\ n = last[c] + 1)
      <4>1. n \in 1 .. last[d]
            BY <1>1, <2>1, <3>2 DEF IInv, TypeOK
      <4>2. QED BY <1>2, <4>1 DEF IInv, NumbersFilled
    <3>3. QED BY <3>1, <3>2
  <2>4. QED BY <2>2, <2>3 DEF NumbersFilled
<1>8. RevisionsDistinct'
  <2>1. ASSUME NEW r \in revisions
        PROVE  r.code # new.code /\ (r.complect = c => r.number # number[m])
    <3>1. r.code # new.code
          BY <1>2 DEF CodeTaken
    <3>2. r.number \in 1 .. last[r.complect]
          BY DEF IInv, NumbersFilled
    <3>3. QED BY <1>1, <3>1, <3>2
  <2>2. \A r, s \in revisions : r # s =>
            r.code # s.code /\ (r.complect = s.complect => r.number # s.number)
        BY DEF IInv, RevisionsDistinct
  <2>3. new.complect = c /\ new.number = number[m]
        OBVIOUS
  <2>4. ASSUME NEW r \in revisions', NEW s \in revisions', r # s
        PROVE  r.code # s.code /\ (r.complect = s.complect => r.number # s.number)
    <3>1. CASE r \in revisions /\ s \in revisions
          BY <2>2, <2>4, <3>1
    <3>2. CASE r \in revisions /\ s = new
          BY <2>1, <2>3, <3>2
    <3>3. CASE r = new /\ s \in revisions
          BY <2>1, <2>3, <3>3
    <3>4. QED BY <1>2, <2>4, <3>1, <3>2, <3>3
  <2>5. QED BY <2>4 DEF RevisionsDistinct
<1>9. QED BY <1>4, <1>5, <1>6, <1>7, <1>8 DEF IInv

(* The inductive step, one step per action. *)
LEMMA StepIInv == IInv /\ [Next]_vars => IInv'
<1> SUFFICES ASSUME IInv, [Next]_vars PROVE IInv'
    OBVIOUS
<1>1. CASE UNCHANGED vars
      BY <1>1 DEF vars, IInv, TypeOK, CallTyped, NumberReserved, NumbersFilled,
         RevisionsDistinct
<1>2. ASSUME NEW m \in Maker, NEW c \in Complect, Upsert(m, c) PROVE IInv'
  <2>1. TypeOK'
        BY <1>2 DEF IInv, Upsert, TypeOK, NextNumber
  <2>2. CallTyped' /\ NumberReserved'
        BY <1>2, NumberingSentinels
           DEF IInv, Upsert, TypeOK, CallTyped, NumberReserved, NextNumber, SeqFree
  <2>3. NumbersFilled' /\ RevisionsDistinct'
        BY <1>2 DEF IInv, Upsert, NumbersFilled, RevisionsDistinct
  <2>4. QED BY <2>1, <2>2, <2>3 DEF IInv
<1>3. ASSUME NEW m \in Maker, FetchCode(m) PROVE IInv'
  <2>1. TypeOK' /\ CallTyped' /\ NumberReserved'
        BY <1>3 DEF IInv, FetchCode, TypeOK, CallTyped, NumberReserved
  <2>2. NumbersFilled' /\ RevisionsDistinct'
        BY <1>3 DEF IInv, FetchCode, NumbersFilled, RevisionsDistinct
  <2>3. QED BY <2>1, <2>2 DEF IInv
<1>4. ASSUME NEW m \in Maker, Commit(m) \/ CommitUnacked(m) PROVE IInv'
      BY <1>4, InsertIInv DEF Commit, CommitUnacked, IInv, TypeOK
<1>5. ASSUME NEW m \in Maker, CodeClash(m) \/ CallFails(m) PROVE IInv'
      BY <1>5, RollbackIInv DEF CodeClash, CallFails, IInv, TypeOK
<1>6. ASSUME NEW c \in Complect, NEW k \in Code, Rename(c, k) PROVE IInv'
      BY <1>6 DEF IInv, Rename, TypeOK, CallTyped, NumberReserved, NumbersFilled,
         RevisionsDistinct
<1>7. QED BY <1>1, <1>2, <1>3, <1>4, <1>5, <1>6 DEF Next

LEMMA IInvAlways == Spec => []IInv
BY InitIInv, StepIInv, PTL DEF Spec

-------------------------------------------------------------------------------
(* The tables and the calls keep their types. *)
THEOREM NumberingTyped == Spec => []TypeOK
<1>1. IInv => TypeOK
      BY DEF IInv
<1>2. QED BY <1>1, IInvAlways, PTL

(* However calls interleave, fail or die, the committed numbers of a complect
   are exactly 1 .. last_revision_number. *)
THEOREM NumbersAreGapless == Spec => []Gapless
<1>1. IInv => Gapless
  <2> SUFFICES ASSUME IInv, NEW c \in Complect
               PROVE  {r.number : r \in {x \in revisions : x.complect = c}} = 1 .. last[c]
      BY DEF Gapless
  <2>1. ASSUME NEW r \in revisions, r.complect = c PROVE r.number \in 1 .. last[c]
        BY <2>1 DEF IInv, NumbersFilled
  <2>2. ASSUME NEW n \in 1 .. last[c]
        PROVE  \E r \in {x \in revisions : x.complect = c} : r.number = n
        BY <2>2 DEF IInv, NumbersFilled
  <2>3. QED BY <2>1, <2>2
<1>2. QED BY <1>1, IInvAlways, PTL

(* Two revisions never share a code, nor a number within a complect. *)
THEOREM RevisionsAreDistinct == Spec => []RevisionsDistinct
<1>1. IInv => RevisionsDistinct
      BY DEF IInv
<1>2. QED BY <1>1, IInvAlways, PTL

(* The number a call works with stays the next one, under the row's lock. *)
THEOREM NumbersAreReserved == Spec => []NumberReserved
<1>1. IInv => NumberReserved
      BY DEF IInv
<1>2. QED BY <1>1, IInvAlways, PTL

(* Revisions are only added, each above the numbers of its complect. *)
THEOREM RevisionsOnlyGrow == Spec => AppendOnly
<1>1. IInv /\ [Next]_vars =>
        [/\ revisions \subseteq revisions'
         /\ \A r \in revisions' \ revisions : r.number > last[r.complect]]_vars
  <2> SUFFICES ASSUME IInv, Next
               PROVE  /\ revisions \subseteq revisions'
                      /\ \A r \in revisions' \ revisions : r.number > last[r.complect]
      OBVIOUS
  <2>1. ASSUME NEW m \in Maker, InsertTx(m)
        PROVE  /\ revisions \subseteq revisions'
               /\ \A r \in revisions' \ revisions : r.number > last[r.complect]
    <3>1. number[m] = last[complect[m]] + 1 /\ last[complect[m]] \in Nat
          BY <2>1 DEF InsertTx, IInv, TypeOK, CallTyped, NumberReserved
    <3>2. QED BY <2>1, <3>1 DEF InsertTx
  <2>2. CASE revisions' = revisions
        BY <2>2
  <2>3. QED BY <2>1, <2>2 DEF Next, Upsert, FetchCode, Commit, CodeClash,
            CallFails, CommitUnacked, Rollback, Rename
<1>2. QED BY <1>1, IInvAlways, PTL DEF Spec, AppendOnly

==============================================================================
