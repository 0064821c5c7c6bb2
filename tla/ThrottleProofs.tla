--------------------------- MODULE ThrottleProofs ---------------------------
(***************************************************************************)
(* Theorems about Throttle, for any limit, window, lockout and quota: a    *)
(* lockout is served in full, bursts of failures are bounded, and so are   *)
(* the challenges that are open.                                           *)
(***************************************************************************)
EXTENDS Throttle, SequenceTheorems, WellFoundedInduction, TLAPS

Rows == [count: 0..MaxAttempts, first: Age \cup {Null}, lock: 0..Lockout \cup {Null}]

RowsInv == row \in [Scope -> Rows]

LEMMA Numbers ==
  /\ MaxAttempts \in Nat \ {0} /\ FailureWindow \in Nat \ {0} /\ Lockout \in Nat \ {0}
  /\ Null \notin Int
  BY ConfigAssumption, NullAssumption

(* The two rows that a request writes anew.                                *)
LEMMA NewRows ==
  /\ ClearRow \in Rows /\ ClearRow.lock = Null
  /\ [count |-> 1, first |-> 0, lock |-> Null] \in Rows
  /\ [count |-> 0, first |-> Null, lock |-> Lockout] \in Rows
  BY Numbers DEF ClearRow, Rows, Age

LEMMA Checked ==
  ASSUME RowsInv, NEW s \in Scope
  PROVE  AfterAssertNotLocked(s) \in Rows
  <1>1. row[s] \in Rows /\ 0 \in 0..MaxAttempts
    BY Numbers DEF RowsInv
  <1>2. [row[s] EXCEPT !.count = 0, !.lock = Null] \in Rows
    BY <1>1 DEF Rows
  <1> QED
    BY <1>1, <1>2 DEF AfterAssertNotLocked

LEMMA Recorded ==
  ASSUME NEW r \in Rows
  PROVE  RecordFailure(r) \in Rows
  <1>1. CASE r.first = Null \/ r.first > FailureWindow
    BY <1>1, NewRows DEF RecordFailure
  <1>2. CASE ~(r.first = Null \/ r.first > FailureWindow) /\ LocksOut(r)
    BY <1>2, NewRows DEF RecordFailure
  <1>3. CASE ~(r.first = Null \/ r.first > FailureWindow) /\ ~LocksOut(r)
    <2>1. r.first # Null /\ r.first <= FailureWindow /\ r.count \in 0..MaxAttempts
      BY <1>3, Numbers DEF Rows, Age
    <2>2. r.count + 1 \in 0..MaxAttempts
      BY <1>3, <2>1, Numbers DEF LocksOut
    <2>3. RecordFailure(r) = [r EXCEPT !.count = r.count + 1]
      BY <1>3 DEF RecordFailure
    <2> QED
      BY <2>2, <2>3 DEF Rows
  <1> QED
    BY <1>1, <1>2, <1>3

(* A request that is not turned away by a lockout touches no locked row.   *)
LEMMA Unlocked ==
  ASSUME RowsInv, NEW s \in Scope, ~Locked(s), NEW new \in Rows,
         row' = [row EXCEPT ![s] = new]
  PROVE  RowsInv' /\ \A t \in Scope : Locked(t) => row'[t] = row[t]
  BY DEF RowsInv

LEMMA TickRow ==
  ASSUME RowsInv, NEW s \in Scope, Tick
  PROVE  /\ row'[s] \in Rows
         /\ Locked(s) => row'[s].lock = row[s].lock - 1
  <1> DEFINE first == Older(row[s].first)
             lock == IF Locked(s) THEN row[s].lock - 1 ELSE row[s].lock
  <1>1. row[s] \in Rows
    BY DEF RowsInv
  <1>2. first \in Age \cup {Null}
    BY <1>1, Numbers DEF Older, Rows, Age
  <1>3. lock \in 0..Lockout \cup {Null}
    BY <1>1, Numbers DEF Locked, Rows
  <1>4. row'[s] = [row[s] EXCEPT !.first = first, !.lock = lock]
    BY DEF Tick
  <1>5. Locked(s) => lock = row[s].lock - 1
    OBVIOUS
  <1> HIDE DEF first, lock
  <1> QED
    BY <1>1, <1>2, <1>3, <1>4, <1>5 DEF Rows

(* What every step does to the rows.                                       *)
LEMMA RowsStep ==
  ASSUME RowsInv, [Next]_vars
  PROVE  /\ RowsInv'
         /\ \A s \in Scope :
              Locked(s) /\ row'[s].lock # row[s].lock
                => row'[s].lock = row[s].lock - 1 \/ Rotate
  <1>1. ASSUME NEW s \in Scope, Fail(s) \/ CheckOnly(s)
        PROVE  RowsInv' /\ \A t \in Scope : Locked(t) => row'[t] = row[t]
    <2>1. ~Locked(s) /\ AfterAssertNotLocked(s) \in Rows
      BY <1>1, Checked DEF Fail, CheckOnly
    <2>2. CASE Fail(s)
      BY <2>1, <2>2, Recorded, Unlocked DEF Fail
    <2>3. CASE CheckOnly(s)
      BY <2>1, <2>3, Unlocked DEF CheckOnly
    <2> QED
      BY <1>1, <2>2, <2>3
  <1>2. CASE WrongPassword \/ WrongCode \/ RightCode \/ LoginChallenge
    BY <1>1, <1>2 DEF WrongPassword, WrongCode, RightCode, LoginChallenge, Scope
  <1>3. CASE RightPassword
    BY <1>3, NewRows, Unlocked DEF RightPassword, Scope
  <1>4. CASE Rotate
    BY <1>4, NewRows DEF Rotate, RowsInv
  <1>5. CASE Tick
    <2>1. row' = [s \in Scope |-> row'[s]]
      BY <1>5 DEF Tick
    <2> QED
      BY <1>5, <2>1, TickRow DEF RowsInv
  <1>6. CASE KeyWriteChallenge \/ KeyWrite \/ UNCHANGED vars
    BY <1>6 DEF KeyWriteChallenge, KeyWrite, vars, RowsInv
  <1> QED
    BY <1>2, <1>3, <1>4, <1>5, <1>6 DEF Next

(* A locked scope stays locked, with the same end, until the clock gets    *)
(* there or the vault is re-keyed: neither a right password nor another    *)
(* failure shortens or extends what assertNotLocked reports.               *)
THEOREM LockoutsAreServed == Spec => LockoutServed
  <1>1. Init => RowsInv
    BY NewRows DEF Init, RowsInv
  <1>2. RowsInv /\ [Next]_vars => RowsInv'
    BY RowsStep
  <1>3. RowsInv /\ [Next]_vars =>
          [\A s \in Scope :
             Locked(s) /\ row'[s].lock # row[s].lock
               => row'[s].lock = row[s].lock - 1 \/ Rotate]_vars
    BY RowsStep
  <1> QED
    BY <1>1, <1>2, <1>3, PTL DEF Spec, LockoutServed

-----------------------------------------------------------------------------
(* Dropping the oldest                                                     *)

(* A set of naturals has a least element.                                  *)
LEMMA Least ==
  ASSUME NEW T \in SUBSET Nat, T # {}
  PROVE  \E m \in T : \A k \in T : m <= k
  <1> DEFINE R == OpToRel(<, Nat)
  <1>1. \A k, m \in Nat : k < m => <<k, m>> \in R
    BY DEF OpToRel
  <1>2. IsWellFoundedOn(R, Nat)
    BY NatLessThanWellFounded
  <1> HIDE DEF R
  <1>3. PICK m \in T : \A k \in T : ~(<<k, m>> \in R)
    BY <1>2, WFMin
  <1>4. \A k \in T : ~(k < m)
    BY <1>1, <1>3
  <1> QED
    BY <1>4

LEMMA Elements ==
  ASSUME NEW V, NEW seq \in Seq(V)
  PROVE  Len(seq) \in Nat /\ \A i \in 1..Len(seq) : seq[i] \in V
  OBVIOUS

(* Where the elements of S come last, some k leads up to them.             *)
LEMMA Split ==
  ASSUME NEW V, NEW seq \in Seq(V), NEW S,
         \A i, j \in 1..Len(seq) : i <= j /\ seq[i] \in S => seq[j] \in S
  PROVE  \E k \in 0..Len(seq) :
           /\ \A i \in 1..Len(seq) : i > k <=> seq[i] \in S
           /\ Newest(seq, S) = SubSeq(seq, k + 1, Len(seq))
  <1> DEFINE Ends(k) == \A i \in 1..Len(seq) : i > k <=> seq[i] \in S
             T == {k \in 0..Len(seq) : \A i \in 1..Len(seq) : i > k => seq[i] \in S}
  <1>1. Len(seq) \in Nat
    OBVIOUS
  <1>2. Len(seq) \in T /\ T \subseteq Nat
    BY <1>1
  <1>3. PICK k \in T : \A m \in T : k <= m
    <2> HIDE DEF T
    <2> QED
      BY <1>2, Least
  <1>4. k \in 0..Len(seq) /\ \A i \in 1..Len(seq) : i > k => seq[i] \in S
    BY <1>3
  <1>5. ASSUME NEW i \in 1..Len(seq), i <= k PROVE seq[i] \notin S
    <2> SUFFICES ASSUME seq[i] \in S PROVE FALSE
      OBVIOUS
    <2>1. \A j \in 1..Len(seq) : j > i - 1 => seq[j] \in S
      BY <1>1
    <2>2. i - 1 \in T
      BY <1>1, <1>4, <1>5, <2>1
    <2>3. k <= i - 1
      <3> HIDE DEF T
      <3> QED
        BY <1>3, <2>2
    <2> QED
      BY <1>4, <1>5, <2>3
  <1>6. k \in 0..Len(seq) /\ Ends(k)
    BY <1>1, <1>4, <1>5
  <1>7. /\ (CHOOSE m \in 0..Len(seq) : Ends(m)) \in 0..Len(seq)
        /\ Ends(CHOOSE m \in 0..Len(seq) : Ends(m))
    <2> HIDE DEF Ends
    <2> QED
      BY <1>6
  <1> QED
    BY <1>7 DEF Newest

(* What is left is as ordered as the whole, and typed like it.             *)
LEMMA Suffix ==
  ASSUME NEW V, NEW seq \in Seq(V), NEW k \in 0..Len(seq)
  PROVE  LET left == SubSeq(seq, k + 1, Len(seq))
         IN  /\ left \in Seq(V) /\ Len(left) = Len(seq) - k
             /\ \A i \in 1..Len(left) : left[i] = seq[i + k]
  <1> DEFINE left == SubSeq(seq, k + 1, Len(seq))
  <1>1. Len(seq) \in Nat /\ \A i \in 1..Len(seq) : seq[i] \in V
    OBVIOUS
  <1>2. \A i \in (k + 1)..Len(seq) : seq[i] \in V
    BY <1>1
  <1>3. /\ left \in Seq(V)
        /\ Len(left) = IF k + 1 <= Len(seq) THEN Len(seq) - (k + 1) + 1 ELSE 0
        /\ \A i \in 1..(Len(seq) - (k + 1) + 1) : left[i] = seq[k + 1 + i - 1]
    BY <1>1, <1>2, SubSeqProperties
  <1> HIDE DEF left
  <1>4. Len(left) = Len(seq) - k
    BY <1>1, <1>3
  <1>5. \A i \in 1..Len(left) : left[i] = seq[i + k]
    BY <1>1, <1>3, <1>4
  <1>6. /\ left \in Seq(V) /\ Len(left) = Len(seq) - k
        /\ \A i \in 1..Len(left) : left[i] = seq[i + k]
    BY <1>3, <1>4, <1>5
  <1> QED
    BY <1>6 DEF left

-----------------------------------------------------------------------------
(* Bursts of failures                                                      *)

(* At most this many failures are still in the log when a window opens.    *)
Spared == IF MaxAttempts = 1 THEN 0 ELSE MaxAttempts - 2
MostCounted == IF MaxAttempts = 1 THEN 1 ELSE MaxAttempts - 1

Ages == Seq(0..FailureWindow)

Oldest1st(ages) == \A i, j \in 1..Len(ages) : i <= j => ages[j] <= ages[i]

(* The last failures of the log are the ones that the row counts: the one  *)
(* that opened the window, and those since.  Once that window is over,     *)
(* only the ones since are left.                                           *)
Counted(r, ages) ==
  /\ r.first = Null => ages = <<>>
  /\ r.lock # Null => r.first = Null /\ r.count = 0
  /\ r.first # Null => r.count \in 1..MostCounted
  /\ r.first # Null /\ r.first > FailureWindow => Len(ages) <= Spared
  /\ r.first # Null /\ r.first <= FailureWindow =>
       /\ r.count <= Len(ages) /\ Len(ages) - r.count <= Spared
       /\ \A i \in 1..Len(ages) :
            /\ i <= Len(ages) - r.count + 1 => ages[i] >= r.first
            /\ i > Len(ages) - r.count => ages[i] <= r.first

LogInv ==
  /\ log \in [Scope -> Ages]
  /\ \A s \in Scope : Oldest1st(log[s]) /\ Counted(row[s], log[s])

LEMMA Limit ==
  /\ Spared \in Nat /\ MostCounted \in Nat /\ MostCounted >= 1
  /\ MaxAttempts > 1 => MostCounted = MaxAttempts - 1 /\ Spared = MaxAttempts - 2
  /\ Spared + MostCounted = IF MaxAttempts = 1 THEN 1 ELSE 2 * MaxAttempts - 3
  /\ MostCounted - 1 <= Spared
  BY Numbers DEF Spared, MostCounted

LEMMA Cleared ==
  /\ <<>> \in Ages /\ Oldest1st(<<>>)
  /\ Counted(ClearRow, <<>>)
  /\ Counted([count |-> 0, first |-> Null, lock |-> Lockout], <<>>)
  BY DEF Ages, Oldest1st, Counted, ClearRow

LEMMA CheckedLog ==
  ASSUME RowsInv, NEW s \in Scope, NEW ages, Counted(row[s], ages)
  PROVE  Counted(AfterAssertNotLocked(s), ages)
  <1>1. row[s] \in Rows
    BY DEF RowsInv
  <1>2. CASE row[s].lock = 0
    <2>1. AfterAssertNotLocked(s) = [row[s] EXCEPT !.count = 0, !.lock = Null]
      BY <1>2 DEF AfterAssertNotLocked
    <2>2. row[s].first = Null /\ ages = <<>>
      BY <1>2, Numbers DEF Counted
    <2>3. /\ AfterAssertNotLocked(s).first = Null
          /\ AfterAssertNotLocked(s).lock = Null
      BY <1>1, <2>1, <2>2 DEF Rows
    <2> QED
      BY <2>2, <2>3 DEF Counted
  <1>3. CASE row[s].lock # 0
    BY <1>3 DEF AfterAssertNotLocked
  <1> QED
    BY <1>2, <1>3

(* One more failure, at age 0.                                             *)
LEMMA FailedLog ==
  ASSUME NEW r \in Rows, NEW ages \in Ages, Oldest1st(ages), Counted(r, ages),
         r.lock = Null
  PROVE  LET new == IF LocksOut(r) THEN <<>> ELSE Append(ages, 0)
         IN  new \in Ages /\ Oldest1st(new) /\ Counted(RecordFailure(r), new)
  <1>1. CASE LocksOut(r)
    <2>1. RecordFailure(r) = [count |-> 0, first |-> Null, lock |-> Lockout]
      BY <1>1, Numbers DEF LocksOut, RecordFailure, Rows, Age
    <2> QED
      BY <1>1, <2>1, Cleared
  <1>2. CASE ~LocksOut(r)
    <2> DEFINE new == Append(ages, 0)
    <2>1. /\ Len(ages) \in Nat /\ \A i \in 1..Len(ages) : ages[i] \in 0..FailureWindow
      BY Elements DEF Ages
    <2>2. /\ new \in Ages /\ Len(new) = Len(ages) + 1 /\ new[Len(ages) + 1] = 0
          /\ \A i \in 1..Len(ages) : new[i] = ages[i]
      BY Numbers DEF Ages
    <2> HIDE DEF new
    <2>3. \A i \in 1..Len(new) : new[i] \in Nat
      BY <2>1, <2>2
    <2>4. Oldest1st(new)
      <3> SUFFICES ASSUME NEW i \in 1..Len(new), NEW j \in 1..Len(new), i <= j
                   PROVE  new[j] <= new[i]
        BY DEF Oldest1st
      <3>1. CASE j = Len(ages) + 1
        BY <2>2, <2>3, <3>1
      <3>2. CASE j # Len(ages) + 1
        <4>1. i \in 1..Len(ages) /\ j \in 1..Len(ages)
          BY <2>1, <2>2, <3>2
        <4> QED
          BY <2>2, <4>1 DEF Oldest1st
      <3> QED
        BY <3>1, <3>2
    <2>5. CASE r.first = Null \/ r.first > FailureWindow
      <3>1. RecordFailure(r) = [count |-> 1, first |-> 0, lock |-> Null]
        BY <2>5 DEF RecordFailure
      <3>2. Len(ages) <= Spared
        BY <2>5, Limit, <2>1 DEF Counted
      <3>3. 1 <= Len(new) /\ Len(new) - 1 <= Spared
        BY <2>1, <2>2, <3>2, Limit
      <3>4. \A i \in 1..Len(new) : new[i] >= 0 /\ (i > Len(new) - 1 => new[i] <= 0)
        BY <2>1, <2>2, <2>3
      <3>5. 0 # Null /\ ~(0 > FailureWindow) /\ 1 \in 1..MostCounted
        BY Numbers, Limit
      <3>6. Counted([count |-> 1, first |-> 0, lock |-> Null], new)
        BY <2>1, <2>2, <3>3, <3>4, <3>5 DEF Counted
      <3> QED
        BY <1>2, <2>2, <2>4, <3>1, <3>6 DEF new
    <2>6. CASE ~(r.first = Null \/ r.first > FailureWindow)
      <3>1. RecordFailure(r) = [r EXCEPT !.count = r.count + 1]
        BY <1>2, <2>6 DEF RecordFailure
      <3>2. /\ r.first \in 0..FailureWindow /\ r.first # Null
            /\ r.count \in 1..MostCounted /\ r.count <= Len(ages)
            /\ Len(ages) - r.count <= Spared
        BY <2>6, Numbers DEF Rows, Age, Counted
      <3>3. r.count + 1 \in 1..MostCounted
        BY <1>2, <3>2, Numbers, Limit DEF LocksOut
      <3>4. \A i \in 1..Len(ages) : /\ i <= Len(ages) - r.count + 1 => ages[i] >= r.first
                                    /\ i > Len(ages) - r.count => ages[i] <= r.first
        BY <2>6, <3>2 DEF Counted
      <3>5. ASSUME NEW i \in 1..Len(new)
            PROVE  /\ i <= Len(new) - (r.count + 1) + 1 => new[i] >= r.first
                   /\ i > Len(new) - (r.count + 1) => new[i] <= r.first
        <4>1. CASE i = Len(ages) + 1
          BY <2>1, <2>2, <3>2, <4>1, Limit
        <4>2. CASE i # Len(ages) + 1
          <5>1. i \in 1..Len(ages) /\ new[i] = ages[i]
            BY <2>1, <2>2, <4>2
          <5>2. /\ i <= Len(ages) - r.count + 1 => ages[i] >= r.first
                /\ i > Len(ages) - r.count => ages[i] <= r.first
            BY <3>4, <5>1
          <5> QED
            BY <2>1, <2>2, <3>2, <5>1, <5>2, Limit
        <4> QED
          BY <4>1, <4>2
      <3>6. /\ r.count + 1 <= Len(new) /\ Len(new) - (r.count + 1) <= Spared
        BY <2>1, <2>2, <3>2, Limit
      <3>7. /\ RecordFailure(r).first = r.first /\ RecordFailure(r).count = r.count + 1
            /\ RecordFailure(r).lock = Null
        BY <3>1 DEF Rows
      <3>8. ~(r.first > FailureWindow)
        BY <2>6
      <3>9. Counted(RecordFailure(r), new)
        BY <3>2, <3>3, <3>5, <3>6, <3>7, <3>8 DEF Counted
      <3> QED
        BY <1>2, <2>2, <2>4, <3>9 DEF new
    <2> QED
      BY <2>5, <2>6
  <1> QED
    BY <1>1, <1>2

(* A tick takes every failure out of the log that leaves the window.       *)
LEMMA TickLog ==
  ASSUME RowsInv, LogInv, Tick, NEW s \in Scope
  PROVE  log'[s] \in Ages /\ Oldest1st(log'[s]) /\ Counted(row'[s], log'[s])
  <1> DEFINE ages == log[s]
             new == log'[s]
             S == 0..(FailureWindow - 1)
             n == Len(ages)
  <1>1. /\ ages \in Ages /\ Oldest1st(ages) /\ Counted(row[s], ages)
        /\ row[s] \in Rows /\ FailureWindow \in Nat \ {0}
    BY Numbers DEF LogInv, RowsInv
  <1>2. n \in Nat /\ \A i \in 1..n : ages[i] \in 0..FailureWindow
    BY <1>1, Elements DEF Ages
  <1>3. new = LET young == Newest(ages, S) IN [i \in 1..Len(young) |-> young[i] + 1]
    BY DEF Tick
  <1>4. row'[s] = [row[s] EXCEPT !.first = Older(row[s].first),
                     !.lock = IF Locked(s) THEN row[s].lock - 1 ELSE row[s].lock]
    BY DEF Tick
  <1>5. \A i, j \in 1..n : i <= j /\ ages[i] \in S => ages[j] \in S
    BY <1>1, <1>2 DEF Oldest1st
  <1> HIDE DEF ages, new, S, n
  <1>6. PICK k \in 0..n : /\ \A i \in 1..n : i > k <=> ages[i] \in S
                          /\ Newest(ages, S) = SubSeq(ages, k + 1, n)
    BY <1>1, <1>5, Split DEF Ages, n
  <1>7. /\ Newest(ages, S) \in Ages /\ Len(Newest(ages, S)) = n - k
        /\ \A i \in 1..(n - k) : Newest(ages, S)[i] = ages[i + k]
    <2> DEFINE left == Newest(ages, S)
    <2>1. ages \in Ages /\ k \in 0..Len(ages) /\ left = SubSeq(ages, k + 1, Len(ages))
      BY <1>1, <1>6 DEF n
    <2> HIDE DEF left
    <2>2. /\ left \in Ages /\ Len(left) = Len(ages) - k
          /\ \A i \in 1..Len(left) : left[i] = ages[i + k]
      BY <2>1, Suffix DEF Ages
    <2>3. /\ left \in Ages /\ Len(left) = n - k
          /\ \A i \in 1..(n - k) : left[i] = ages[i + k]
      BY <2>2 DEF n
    <2> QED
      BY <2>3 DEF left
  <1>8. new = [i \in 1..(n - k) |-> ages[i + k] + 1]
    BY <1>3, <1>7
  <1>9. \A i \in 1..(n - k) :
          i + k \in 1..n /\ new[i] = ages[i + k] + 1 /\ new[i] \in 0..FailureWindow
    <2> SUFFICES ASSUME NEW i \in 1..(n - k)
                 PROVE  /\ i + k \in 1..n /\ new[i] = ages[i + k] + 1
                        /\ new[i] \in 0..FailureWindow
      OBVIOUS
    <2>1. i + k \in 1..n /\ i + k > k
      BY <1>2, <1>6
    <2>2. ages[i + k] \in 0..(FailureWindow - 1)
      BY <1>6, <2>1 DEF S
    <2>3. new[i] = ages[i + k] + 1
      BY <1>8
    <2> QED
      BY <1>1, <2>1, <2>2, <2>3
  <1>10. new \in Ages /\ Len(new) = n - k
    <2>1. n - k \in Nat
      BY <1>2, <1>6
    <2>2. new \in [1..(n - k) -> 0..FailureWindow]
      BY <1>8, <1>9
    <2>3. new \in Ages
      BY <2>1, <2>2, SeqDef DEF Ages
    <2>4. Len(new) = n - k
      <3>1. Len(new) \in Nat /\ DOMAIN new = 1..Len(new)
        BY <2>3, LenProperties DEF Ages
      <3>2. 1..Len(new) = 1..(n - k)
        BY <2>2, <3>1
      <3> QED
        BY <2>1, <3>1, <3>2
    <2> QED
      BY <2>3, <2>4
  <1>11. Oldest1st(new)
    <2> SUFFICES ASSUME NEW i \in 1..(n - k), NEW j \in 1..(n - k), i <= j
                 PROVE  new[j] <= new[i]
      BY <1>10 DEF Oldest1st
    <2>1. /\ i + k \in 1..n /\ j + k \in 1..n /\ i + k <= j + k
          /\ new[i] = ages[i + k] + 1 /\ new[j] = ages[j + k] + 1
      BY <1>6, <1>9
    <2>2. ages[j + k] <= ages[i + k]
      BY <1>1, <2>1 DEF Oldest1st, n
    <2> QED
      BY <1>2, <2>1, <2>2
  <1>12. /\ row'[s].first = Older(row[s].first) /\ row'[s].count = row[s].count
         /\ row'[s].lock # Null => row[s].lock # Null
    BY <1>1, <1>4 DEF Rows, Locked
  <1>13. CASE row[s].first = Null
    <2>1. n = 0
      BY <1>1, <1>13 DEF Counted, n
    <2>2. k \in 0..0 /\ n - k = 0 - k
      BY <1>6, <2>1
    <2>3. n - k = 0
      BY <2>2
    <2>4. new = <<>>
      BY <1>10, <2>3, EmptySeq DEF Ages
    <2>5. row'[s].first = Null
      BY <1>12, <1>13 DEF Older
    <2>6. row'[s].lock # Null => row'[s].count = 0
      BY <1>1, <1>12 DEF Counted
    <2>7. Counted(row'[s], new)
      BY <2>4, <2>5, <2>6 DEF Counted
    <2> QED
      BY <1>10, <1>11, <2>7 DEF new
  <1>14. CASE row[s].first # Null
    <2>1. /\ row[s].first \in 0..(FailureWindow + 1) /\ row[s].count \in 1..MostCounted
          /\ row[s].lock = Null /\ row'[s].lock = Null
      BY <1>1, <1>12, <1>14 DEF Rows, Age, Counted
    <2>2. row[s].first <= FailureWindow =>
            /\ row[s].count <= n /\ n - row[s].count <= Spared
            /\ \A i \in 1..n : /\ i <= n - row[s].count + 1 => ages[i] >= row[s].first
                               /\ i > n - row[s].count => ages[i] <= row[s].first
      BY <1>1, <1>14 DEF Counted, n
    <2>3. CASE row[s].first > FailureWindow
      <3>1. row'[s].first = row[s].first /\ n <= Spared
        BY <1>1, <1>12, <1>14, <2>3 DEF Older, Counted, n
      <3>2. Len(new) <= Spared
        BY <1>2, <1>6, <1>10, <3>1, Limit
      <3>3. ~(row'[s].first <= FailureWindow)
        BY <1>1, <2>1, <2>3, <3>1
      <3>4. Counted(row'[s], new)
        BY <1>12, <1>14, <2>1, <3>1, <3>2, <3>3 DEF Counted
      <3> QED
        BY <1>10, <1>11, <3>4 DEF new
    <2>4. CASE row[s].first <= FailureWindow
      <3> DEFINE c == row[s].count
                 f == row[s].first
                 m == n - c + 1
      <3>1. /\ c \in Nat /\ c >= 1 /\ c <= n /\ n - c <= Spared /\ c <= MostCounted
            /\ f \in 0..FailureWindow
            /\ row'[s].first = f + 1 /\ row'[s].count = c
            /\ f + 1 # Null /\ row'[s].lock = Null
        BY <1>1, <1>12, <1>14, <2>1, <2>2, <2>4, Limit, Numbers DEF Older
      <3>2. \A i \in 1..n : /\ i <= m => ages[i] >= f
                            /\ i > n - c => ages[i] <= f
        BY <2>2, <2>4
      <3> HIDE DEF c, f
      <3>3. m \in 1..n /\ ages[m] = f
        <4>1. m \in 1..n /\ m <= m /\ m > n - c
          BY <1>2, <3>1
        <4>2. ages[m] >= f /\ ages[m] <= f /\ ages[m] \in 0..FailureWindow
          BY <1>2, <3>2, <4>1
        <4> QED
          BY <3>1, <4>1, <4>2
      <3>4. CASE f = FailureWindow
        <4>1. ~(ages[m] \in S)
          BY <1>1, <3>3, <3>4 DEF S
        <4>2. m <= k
          BY <1>2, <1>6, <3>1, <3>3, <4>1
        <4>3. Len(new) <= Spared
          BY <1>2, <1>6, <1>10, <3>1, <4>2, Limit
        <4>4. row'[s].first > FailureWindow /\ ~(row'[s].first <= FailureWindow)
          BY <1>1, <3>1, <3>4
        <4>5. row'[s].count \in 1..MostCounted /\ row'[s].first # Null
          BY <3>1, Limit
        <4>6. Counted(row'[s], new)
          BY <3>1, <4>3, <4>4, <4>5 DEF Counted
        <4> QED
          BY <1>10, <1>11, <4>6 DEF new
      <3>5. CASE f # FailureWindow
        <4>1. ages[m] \in S
          BY <1>1, <3>1, <3>3, <3>5 DEF S
        <4>2. m > k
          BY <1>6, <3>3, <4>1
        <4>3. c <= n - k /\ n - k - c <= Spared
          BY <1>2, <1>6, <3>1, <4>2, Limit
        <4>4. ASSUME NEW i \in 1..(n - k)
              PROVE  /\ i <= n - k - c + 1 => new[i] >= f + 1
                     /\ i > n - k - c => new[i] <= f + 1
          <5>1. /\ i + k \in 1..n /\ new[i] = ages[i + k] + 1
                /\ ages[i + k] \in 0..FailureWindow
            BY <1>2, <1>9
          <5>2. /\ i + k <= m => ages[i + k] >= f
                /\ i + k > n - c => ages[i + k] <= f
            BY <3>2, <5>1
          <5> QED
            BY <1>2, <1>6, <3>1, <5>1, <5>2
        <4>5. row'[s].count \in 1..MostCounted /\ row'[s].first # Null
          BY <3>1, Limit
        <4>6. ~(row'[s].first > FailureWindow)
          BY <1>1, <3>1, <3>5
        <4>7. Counted(row'[s], new)
          BY <1>10, <3>1, <4>3, <4>4, <4>5, <4>6 DEF Counted
        <4> QED
          BY <1>10, <1>11, <4>7 DEF new
      <3> QED
        BY <3>4, <3>5
    <2> QED
      BY <1>1, <2>1, <2>3, <2>4
  <1> QED
    BY <1>13, <1>14

LEMMA LogStep ==
  ASSUME RowsInv, LogInv, [Next]_vars
  PROVE  LogInv'
  <1>1. ASSUME NEW s \in Scope, NEW new, NEW ages \in Ages,
               row' = [row EXCEPT ![s] = new], log' = [log EXCEPT ![s] = ages],
               Oldest1st(ages), Counted(new, ages)
        PROVE  LogInv'
    <2>1. \A t \in Scope : /\ row'[t] = IF t = s THEN new ELSE row[t]
                           /\ log'[t] = IF t = s THEN ages ELSE log[t]
      BY <1>1 DEF RowsInv, LogInv
    <2>2. \A t \in Scope : Oldest1st(log'[t]) /\ Counted(row'[t], log'[t])
      BY <1>1, <2>1 DEF LogInv
    <2> QED
      BY <1>1, <2>2 DEF LogInv
  <1>2. ASSUME NEW s \in Scope, Fail(s) PROVE LogInv'
    <2> DEFINE r == AfterAssertNotLocked(s)
               new == IF LocksOut(r) THEN <<>> ELSE Append(log[s], 0)
    <2>1. log[s] \in Ages /\ Oldest1st(log[s]) /\ Counted(row[s], log[s])
      BY DEF LogInv
    <2>2. r \in Rows /\ Counted(r, log[s])
      BY <2>1, Checked, CheckedLog
    <2>3. r.lock = Null
      <3>1. row[s] \in Rows /\ row[s].lock \in {Null, 0}
        BY <1>2 DEF Fail, Locked, RowsInv
      <3> QED
        BY <3>1 DEF AfterAssertNotLocked, Rows
    <2>4. row' = [row EXCEPT ![s] = RecordFailure(r)] /\ log' = [log EXCEPT ![s] = new]
      BY <1>2 DEF Fail
    <2> HIDE DEF r
    <2>5. new \in Ages /\ Oldest1st(new) /\ Counted(RecordFailure(r), new)
      BY <2>1, <2>2, <2>3, FailedLog
    <2> HIDE DEF new
    <2> QED
      BY <1>1, <2>4, <2>5
  <1>3. ASSUME NEW s \in Scope, CheckOnly(s) PROVE LogInv'
    <2>1. log[s] \in Ages /\ Oldest1st(log[s]) /\ Counted(AfterAssertNotLocked(s), log[s])
      BY CheckedLog DEF LogInv
    <2>2. /\ row' = [row EXCEPT ![s] = AfterAssertNotLocked(s)]
          /\ log' = [log EXCEPT ![s] = log[s]]
      BY <1>3 DEF CheckOnly, LogInv
    <2> QED
      BY <1>1, <2>1, <2>2
  <1>4. CASE WrongPassword \/ WrongCode
    BY <1>2, <1>4 DEF WrongPassword, WrongCode, Scope
  <1>5. CASE RightCode \/ LoginChallenge
    BY <1>3, <1>5 DEF RightCode, LoginChallenge, Scope
  <1>6. CASE RightPassword
    BY <1>1, <1>6, Cleared DEF RightPassword, Scope
  <1>7. CASE Rotate
    BY <1>7, Cleared DEF Rotate, LogInv
  <1>8. CASE Tick
    <2>1. log' = [s \in Scope |-> log'[s]]
      BY <1>8 DEF Tick
    <2>2. \A s \in Scope :
            log'[s] \in Ages /\ Oldest1st(log'[s]) /\ Counted(row'[s], log'[s])
      BY <1>8, TickLog
    <2> QED
      BY <2>1, <2>2 DEF LogInv
  <1>9. CASE KeyWriteChallenge \/ KeyWrite \/ UNCHANGED vars
    BY <1>9 DEF KeyWriteChallenge, KeyWrite, vars, LogInv
  <1> QED
    BY <1>4, <1>5, <1>6, <1>7, <1>8, <1>9 DEF Next

-----------------------------------------------------------------------------
(* Open challenges                                                         *)

Left == Seq(-1..ChallengeTtl)

(* They expire in the order in which they were created.                    *)
Ordered(rows) ==
  /\ rows \in Left /\ Len(rows) <= MaxOpen
  /\ \A i, j \in 1..Len(rows) : i <= j => rows[i] <= rows[j]

OpenInv == open = [p \in Purpose |-> open[p]] /\ \A p \in Purpose : Ordered(open[p])

LEMMA Quota == MaxOpen \in Nat \ {0} /\ ChallengeTtl \in Nat \ {0}
  BY ConfigAssumption

LEMMA Row ==
  ASSUME NEW rows, Ordered(rows)
  PROVE  /\ Len(rows) \in Nat /\ Len(rows) <= MaxOpen
         /\ \A i \in 1..Len(rows) : rows[i] \in -1..ChallengeTtl
  BY Elements DEF Ordered, Left

LEMMA Kept ==
  ASSUME NEW rows, Ordered(rows)
  PROVE  Ordered(Newest(rows, 0..ChallengeTtl))
  <1> DEFINE S == 0..ChallengeTtl
             n == Len(rows)
             kept == Newest(rows, S)
  <1>1. n \in Nat /\ n <= MaxOpen /\ \A i \in 1..n : rows[i] \in -1..ChallengeTtl
    BY Row
  <1>2. \A i, j \in 1..n : i <= j /\ rows[i] \in S => rows[j] \in S
    BY <1>1, Quota DEF Ordered
  <1> HIDE DEF S
  <1>3. PICK k \in 0..n : Newest(rows, S) = SubSeq(rows, k + 1, n)
    BY <1>2, Split DEF Ordered, Left
  <1>4. /\ kept \in Left /\ Len(kept) = n - k
        /\ \A i \in 1..(n - k) : kept[i] = rows[i + k]
    <2>1. rows \in Left /\ k \in 0..Len(rows) /\ kept = SubSeq(rows, k + 1, n)
      BY <1>3 DEF Ordered
    <2> HIDE DEF kept
    <2>2. /\ kept \in Left /\ Len(kept) = Len(rows) - k
          /\ \A i \in 1..Len(kept) : kept[i] = rows[i + k]
      BY <2>1, Suffix DEF Left
    <2> QED
      BY <2>2
  <1> HIDE DEF kept, n
  <1>5. Len(kept) <= MaxOpen
    BY <1>1, <1>4, Quota
  <1>6. ASSUME NEW i \in 1..Len(kept), NEW j \in 1..Len(kept), i <= j
        PROVE  kept[i] <= kept[j]
    <2>1. i + k \in 1..n /\ j + k \in 1..n /\ i + k <= j + k
      BY <1>1, <1>4, <1>6
    <2>2. rows[i + k] <= rows[j + k]
      BY <2>1 DEF Ordered, n
    <2> QED
      BY <1>4, <2>2
  <1>7. Ordered(kept)
    BY <1>4, <1>5, <1>6 DEF Ordered
  <1> QED
    BY <1>7 DEF kept, S

LEMMA Added ==
  ASSUME NEW rows, Ordered(rows), QuotaLeft(rows)
  PROVE  Ordered(Append(rows, ChallengeTtl))
  <1> DEFINE new == Append(rows, ChallengeTtl)
             n == Len(rows)
  <1>1. n \in Nat /\ n < MaxOpen /\ \A i \in 1..n : rows[i] \in -1..ChallengeTtl
    BY Row DEF QuotaLeft
  <1>2. /\ new \in Left /\ Len(new) = n + 1 /\ new[n + 1] = ChallengeTtl
        /\ \A i \in 1..n : new[i] = rows[i]
    BY Quota DEF Ordered, Left
  <1> HIDE DEF new, n
  <1>3. ASSUME NEW i \in 1..(n + 1), NEW j \in 1..(n + 1), i <= j
        PROVE  new[i] <= new[j]
    <2>1. CASE j = n + 1
      <3>1. new[i] \in -1..ChallengeTtl
        <4>1. CASE i = n + 1
          BY <1>2, <4>1, Quota
        <4>2. CASE i # n + 1
          BY <1>1, <1>2, <4>2
        <4> QED
          BY <4>1, <4>2
      <3> QED
        BY <1>2, <2>1, <3>1, Quota
    <2>2. CASE j # n + 1
      <3>1. i \in 1..n /\ j \in 1..n
        BY <1>1, <1>3, <2>2
      <3>2. rows[i] <= rows[j]
        BY <1>3, <3>1 DEF Ordered, n
      <3> QED
        BY <1>2, <3>1, <3>2
    <2> QED
      BY <2>1, <2>2
  <1>4. Len(new) <= MaxOpen
    BY <1>1, <1>2, Quota
  <1>5. Ordered(new)
    BY <1>2, <1>3, <1>4 DEF Ordered
  <1> QED
    BY <1>5 DEF new

LEMMA Removed ==
  ASSUME NEW rows, Ordered(rows), NEW x \in 1..Len(rows)
  PROVE  Ordered(RemoveAt(rows, x))
  <1> DEFINE n == Len(rows)
             A == SubSeq(rows, 1, x - 1)
             B == SubSeq(rows, x + 1, n)
             new == A \o B
             From(i) == IF i < x THEN i ELSE i + 1
  <1>1. n \in Nat /\ n <= MaxOpen /\ \A i \in 1..n : rows[i] \in -1..ChallengeTtl
    BY Row
  <1>2. /\ A \in Left /\ Len(A) = x - 1 /\ \A i \in 1..(x - 1) : A[i] = rows[i]
    <2>1. /\ A \in Seq(-1..ChallengeTtl)
          /\ Len(A) = IF 1 <= x - 1 THEN (x - 1) - 1 + 1 ELSE 0
          /\ \A i \in 1..((x - 1) - 1 + 1) : A[i] = rows[1 + i - 1]
      <3>1. \A i \in 1..(x - 1) : rows[i] \in -1..ChallengeTtl
        BY <1>1
      <3> QED
        BY <1>1, <3>1, SubSeqProperties
    <2> HIDE DEF A
    <2> QED
      BY <1>1, <2>1 DEF Left
  <1>3. /\ B \in Left /\ Len(B) = n - x /\ \A i \in 1..(n - x) : B[i] = rows[i + x]
    <2>1. rows \in Left /\ x \in 0..Len(rows) /\ B = SubSeq(rows, x + 1, Len(rows))
      BY <1>1 DEF Ordered
    <2> HIDE DEF B
    <2>2. /\ B \in Left /\ Len(B) = Len(rows) - x
          /\ \A i \in 1..Len(B) : B[i] = rows[i + x]
      BY <2>1, Suffix DEF Left
    <2> QED
      BY <2>2
  <1> HIDE DEF A, B
  <1>4. /\ new \in Left /\ Len(new) = n - 1
        /\ \A i \in 1..(n - 1) : new[i] = IF i <= x - 1 THEN A[i] ELSE B[i - (x - 1)]
    <2>1. /\ new \in Left /\ Len(new) = Len(A) + Len(B)
          /\ \A i \in 1..(Len(A) + Len(B)) :
               new[i] = IF i <= Len(A) THEN A[i] ELSE B[i - Len(A)]
      BY <1>2, <1>3, ConcatProperties DEF Left
    <2>2. Len(A) + Len(B) = n - 1
      BY <1>1, <1>2, <1>3
    <2> HIDE DEF new
    <2> QED
      BY <1>2, <2>1, <2>2
  <1> HIDE DEF new
  <1>5. \A i \in 1..(n - 1) : new[i] = rows[From(i)] /\ From(i) \in 1..n
    <2> SUFFICES ASSUME NEW i \in 1..(n - 1)
                 PROVE  new[i] = rows[From(i)] /\ From(i) \in 1..n
      OBVIOUS
    <2>1. CASE i <= x - 1
      BY <1>1, <1>2, <1>4, <2>1
    <2>2. CASE ~(i <= x - 1)
      <3>1. i - (x - 1) \in 1..(n - x) /\ i - (x - 1) + x = i + 1 /\ From(i) = i + 1
        BY <1>1, <2>2
      <3>2. new[i] = B[i - (x - 1)]
        BY <1>4, <2>2
      <3> QED
        BY <1>1, <1>3, <3>1, <3>2
    <2> QED
      BY <2>1, <2>2
  <1>6. ASSUME NEW i \in 1..(n - 1), NEW j \in 1..(n - 1), i <= j
        PROVE  new[i] <= new[j]
    <2>1. From(i) <= From(j)
      BY <1>1, <1>6
    <2>2. new[i] = rows[From(i)] /\ new[j] = rows[From(j)]
          /\ From(i) \in 1..n /\ From(j) \in 1..n
      BY <1>5
    <2> HIDE DEF From
    <2> QED
      BY <2>1, <2>2 DEF Ordered
  <1>7. Len(new) <= MaxOpen
    BY <1>1, <1>4, Quota
  <1>8. Ordered(new)
    BY <1>4, <1>6, <1>7 DEF Ordered
  <1> QED
    BY <1>8 DEF RemoveAt, new, A, B

LEMMA Aged ==
  ASSUME NEW rows, Ordered(rows)
  PROVE  Ordered([i \in 1..Len(rows) |-> Later(rows[i])])
  <1> DEFINE n == Len(rows)
             new == [i \in 1..n |-> Later(rows[i])]
  <1>1. n \in Nat /\ n <= MaxOpen /\ \A i \in 1..n : rows[i] \in -1..ChallengeTtl
    BY Row
  <1>2. \A a \in -1..ChallengeTtl : Later(a) \in -1..ChallengeTtl
    BY Quota DEF Later
  <1>3. \A a, b \in -1..ChallengeTtl : a <= b => Later(a) <= Later(b)
    BY Quota DEF Later
  <1>4. new \in [1..n -> -1..ChallengeTtl]
    BY <1>1, <1>2
  <1>5. new \in Left
    BY <1>1, <1>4, SeqDef DEF Left
  <1>6. Len(new) = n
    <2>1. Len(new) \in Nat /\ DOMAIN new = 1..Len(new)
      BY <1>5, LenProperties DEF Left
    <2>2. 1..Len(new) = 1..n
      BY <1>4, <2>1
    <2> QED
      BY <1>1, <2>1, <2>2
  <1>7. ASSUME NEW i \in 1..n, NEW j \in 1..n, i <= j PROVE new[i] <= new[j]
    <2>1. rows[i] <= rows[j]
      BY <1>7 DEF Ordered
    <2> QED
      BY <1>1, <1>3, <2>1
  <1> HIDE DEF new
  <1>8. Ordered(new)
    BY <1>1, <1>5, <1>6, <1>7 DEF Ordered
  <1> QED
    BY <1>8 DEF new

LEMMA OpenStep ==
  ASSUME OpenInv, [Next]_vars
  PROVE  OpenInv'
  <1>1. CASE UNCHANGED open
    BY <1>1 DEF OpenInv
  <1>2. ASSUME NEW p \in Purpose, NEW rows, Ordered(rows), open' = [open EXCEPT ![p] = rows]
        PROVE  OpenInv'
    <2>1. \A q \in Purpose : open'[q] = IF q = p THEN rows ELSE open[q]
      BY <1>2 DEF OpenInv
    <2>2. open' = [q \in Purpose |-> open'[q]]
      BY <1>2 DEF OpenInv
    <2> QED
      BY <1>2, <2>1, <2>2 DEF OpenInv
  <1>3. ASSUME NEW p \in Purpose, Consume(p) PROVE OpenInv'
    <2>1. PICK i \in DOMAIN open[p] : open' = [open EXCEPT ![p] = RemoveAt(open[p], i)]
      BY <1>3 DEF Consume
    <2>2. Ordered(open[p])
      BY DEF OpenInv
    <2>3. i \in 1..Len(open[p])
      BY <2>1, <2>2, LenProperties DEF Ordered, Left
    <2>4. Ordered(RemoveAt(open[p], i))
      BY <2>2, <2>3, Removed
    <2> QED
      BY <1>2, <2>1, <2>4
  <1>4. ASSUME NEW p \in Purpose, CreateChallenge(p) PROVE OpenInv'
    <2> DEFINE kept == [q \in Purpose |-> Newest(open[q], 0..ChallengeTtl)]
    <2>1. \A q \in Purpose : Ordered(kept[q])
      BY Kept DEF OpenInv
    <2>2. open' = IF QuotaLeft(kept[p])
                  THEN [kept EXCEPT ![p] = Append(kept[p], ChallengeTtl)]
                  ELSE kept
      BY <1>4 DEF CreateChallenge
    <2>3. kept = [q \in Purpose |-> kept[q]]
      OBVIOUS
    <2> HIDE DEF kept
    <2>4. CASE QuotaLeft(kept[p])
      <3>1. Ordered(Append(kept[p], ChallengeTtl))
        BY <2>1, <2>4, Added
      <3>2. \A q \in Purpose :
              open'[q] = IF q = p THEN Append(kept[p], ChallengeTtl) ELSE kept[q]
        BY <2>2, <2>3, <2>4
      <3>3. open' = [q \in Purpose |-> open'[q]]
        BY <2>2, <2>3, <2>4
      <3> QED
        BY <2>1, <3>1, <3>2, <3>3 DEF OpenInv
    <2>5. CASE ~QuotaLeft(kept[p])
      BY <2>1, <2>2, <2>3, <2>5 DEF OpenInv
    <2> QED
      BY <2>4, <2>5
  <1>5. CASE Tick
    <2>1. \A p \in Purpose : Ordered([i \in 1..Len(open[p]) |-> Later(open[p][i])])
      BY Aged DEF OpenInv
    <2>2. open' = [p \in Purpose |-> [i \in 1..Len(open[p]) |-> Later(open[p][i])]]
      BY <1>5 DEF Tick
    <2>3. \A p \in Purpose : Ordered(open'[p])
      BY <2>1, <2>2
    <2>4. open' = [p \in Purpose |-> open'[p]]
      BY <2>2
    <2> QED
      BY <2>3, <2>4 DEF OpenInv
  <1> QED
    BY <1>1, <1>3, <1>4, <1>5 DEF Next, vars, WrongPassword, WrongCode, RightPassword,
       RightCode, Rotate, LoginChallenge, KeyWriteChallenge, KeyWrite, Purpose

-----------------------------------------------------------------------------
(* Theorems about the rows, the log and the challenges together            *)

ThrottleInv == RowsInv /\ LogInv /\ OpenInv

THEOREM ThrottleKept == Spec => []ThrottleInv
  <1>1. Init => ThrottleInv
    <2> SUFFICES ASSUME Init PROVE ThrottleInv
      OBVIOUS
    <2>1. RowsInv
      BY NewRows DEF Init, RowsInv
    <2>2. LogInv
      BY Cleared DEF Init, LogInv
    <2>3. Ordered(<<>>)
      BY Quota DEF Ordered, Left
    <2>4. OpenInv
      BY <2>3 DEF Init, OpenInv
    <2> QED
      BY <2>1, <2>2, <2>4 DEF ThrottleInv
  <1>2. ThrottleInv /\ [Next]_vars => ThrottleInv'
    BY RowsStep, LogStep, OpenStep DEF ThrottleInv
  <1> QED
    BY <1>1, <1>2, PTL DEF Spec

(* The row of a scope never counts beyond the limit, and a purpose never   *)
(* has more challenges than its quota (createLoginChallenge).              *)
THEOREM ThrottleTypesKept == Spec => []TypeOK
  <1>1. ThrottleInv => TypeOK
    <2> SUFFICES ASSUME ThrottleInv PROVE TypeOK
      OBVIOUS
    <2>1. open \in [Purpose -> Seq(-1..ChallengeTtl)]
      BY DEF ThrottleInv, OpenInv, Ordered, Left
    <2>2. \A p \in Purpose : Len(open[p]) <= MaxOpen
      BY DEF ThrottleInv, OpenInv, Ordered
    <2> QED
      BY <2>1, <2>2 DEF ThrottleInv, RowsInv, Rows, LogInv, Ages, TypeOK
  <1> QED
    BY <1>1, ThrottleKept, PTL

(* However failures are spread over time, fewer than twice MaxAttempts fit *)
(* into a FailureWindow without a lockout (recordFailure): the row counts  *)
(* the last of them, MaxAttempts - 1 at most, and those it does not count  *)
(* are what an earlier window left, one failure less than it counted.      *)
THEOREM BurstsAreBounded == Spec => []BurstBounded
  <1>1. ThrottleInv => BurstBounded
    <2> SUFFICES ASSUME ThrottleInv, NEW s \in Scope
                 PROVE  Len(log[s]) <= IF MaxAttempts = 1 THEN 1 ELSE 2 * MaxAttempts - 3
      BY DEF BurstBounded
    <2>1. /\ row[s] \in Rows /\ log[s] \in Ages /\ Counted(row[s], log[s])
      BY DEF ThrottleInv, RowsInv, LogInv
    <2>2. Len(log[s]) \in Nat
      BY <2>1, Elements DEF Ages
    <2>3. Len(log[s]) <= Spared + MostCounted
      <3>1. CASE row[s].first = Null
        BY <2>1, <3>1, Limit DEF Counted
      <3>2. CASE row[s].first # Null
        <4>1. row[s].first \in 0..(FailureWindow + 1) /\ row[s].count \in 1..MostCounted
          BY <2>1, <3>2 DEF Counted, Rows, Age
        <4>2. \/ Len(log[s]) <= Spared
              \/ Len(log[s]) - row[s].count <= Spared
          BY <2>1, <3>2, <4>1, Numbers DEF Counted
        <4> QED
          BY <2>2, <4>1, <4>2, Limit
      <3> QED
        BY <3>1, <3>2
    <2> QED
      BY <2>2, <2>3, Limit
  <1> QED
    BY <1>1, ThrottleKept, PTL
=============================================================================
