---------------------------- MODULE SecretsProofs ----------------------------
(***************************************************************************)
(* Theorems about Secrets, for any entries, any length of the timers and   *)
(* any number of clicks, of tasks under way and of ticks: what was         *)
(* revealed or copied is gone in time, and an edit without a new value     *)
(* writes none.                                                            *)
(***************************************************************************)
EXTENDS Secrets, FiniteSetTheorems, FunctionTheorems, WellFoundedInduction, TLAPS

Hide == [n: Number, left: 0..ClearAfter]
Clear == [n: Number, secret: Secret, left: 0..ClearAfter, due: BOOLEAN]
Shown == [secret: Secret, age: 0..MaxTicks]
Clip == [text: Secret \cup {Foreign, Blank}, age: 0..MaxTicks, stuck: BOOLEAN,
         left: BOOLEAN]
Saving ==
  [entry: Entries, cipher: Value \cup {None}, touched: BOOLEAN, live: BOOLEAN]

ValueInv ==
  /\ {value, seen} \subseteq [Entries -> Value]
  /\ drawn \in 0..acts /\ acts \in 0..MaxActs /\ ticks \in 0..MaxTicks
  /\ key \in BOOLEAN /\ mounted \in BOOLEAN

(* A value on the screen has a timer of its own, though autoHide may have  *)
(* forgotten it.                                                           *)
HidesInv ==
  /\ shown \in Shown \cup {None}
  /\ autoHide \in {t.n : t \in hides} \cup {None}
  /\ hides \subseteq Hide
  /\ shown # None =>
       shown.age <= ticks /\ \E t \in hides : t.left + shown.age <= ClearAfter

(* Only copies write to the clipboard.                                     *)
TasksInv ==
  /\ tasks \subseteq Task /\ busy \in Entries \cup {None}
  /\ \A t \in tasks : t.at = "writing" => t.kind = "copy"

(* A secret in the clipboard has a timer that will ask for it, as long as  *)
(* the page that put it there is open.                                     *)
ClipInv ==
  /\ clip \in Clip /\ clip.age <= ticks
  /\ clears \subseteq Clear
  /\ clip.text \notin {Foreign, Blank} /\ ~clip.stuck /\ ~clip.left =>
       \E c \in clears : c.secret = clip.text /\ c.left + clip.age <= ClearAfter

(* Without a key stroke the form has what was decrypted, or nothing.       *)
FormInv ==
  /\ modal \in Modal \cup {None}
  /\ fill \in Value \cup {None} /\ (fill # None => modal # None)
  /\ saving \in Saving \cup {None}
  /\ modal # None /\ ~modal.touched =>
       modal.text = IF modal.prefill = "ready" THEN modal.original ELSE None
  /\ saving # None /\ saving.live => modal # None /\ modal.submitting
  /\ saving # None /\ saving.cipher # None => saving.touched

(* The tasks that have yet to set a timer.                                 *)
Reveals == {t \in tasks : t.kind = "reveal"}
Copies == {t \in tasks : t.kind = "copy" /\ t.at # "marking"}

(* Every click brings at most one task and every task at most one timer.   *)
CountInv ==
  /\ IsFiniteSet(tasks) /\ IsFiniteSet(hides) /\ IsFiniteSet(clears)
  /\ Cardinality(tasks) <= acts
  /\ Cardinality(Reveals) + Cardinality(hides) <= acts
  /\ Cardinality(Copies) + Cardinality(clears) <= acts

SecretsInv ==
  ValueInv /\ HidesInv /\ TasksInv /\ ClipInv /\ FormInv /\ CountInv

LEMMA SecretsTypes == SecretsInv => TypeOK
  <1> SUFFICES ASSUME SecretsInv PROVE TypeOK
    OBVIOUS
  <1>1. drawn \in Value
    BY BoundsAssumption DEF SecretsInv, ValueInv, Value
  <1> QED
    BY <1>1 DEF SecretsInv, ValueInv, HidesInv, TasksInv, ClipInv, FormInv, TypeOK,
       Hide, Clear, Shown, Clip, Saving

-----------------------------------------------------------------------------
(* Counting                                                                *)

(* A set of naturals has a least element.                                  *)
LEMMA Least ==
  ASSUME NEW T \in SUBSET Nat, T # {}
  PROVE  \E m \in T : \A k \in T : m <= k
  <1> DEFINE R == OpToRel(<, Nat)
  <1>1. \A k, m \in Nat : k < m => <<k, m>> \in R
    BY DEF OpToRel
  <1>2. IsWellFoundedOn(R, Nat)
    BY NatLessThanWellFounded
  <1> HIDE DEF R
  <1>3. PICK m \in T : \A k \in T : ~(<<k, m>> \in R)
    BY <1>2, WFMin
  <1>4. \A k \in T : ~(k < m)
    BY <1>1, <1>3
  <1> QED
    BY <1>4

LEMMA CardSub ==
  ASSUME NEW S, IsFiniteSet(S), NEW T, T \subseteq S
  PROVE  /\ IsFiniteSet(T) /\ Cardinality(T) <= Cardinality(S)
         /\ Cardinality(T) \in Nat /\ Cardinality(S) \in Nat
  BY FS_Subset, FS_CardinalityType

LEMMA CardAdd ==
  ASSUME NEW S, IsFiniteSet(S), NEW x
  PROVE  /\ IsFiniteSet(S \cup {x}) /\ Cardinality(S \cup {x}) <= Cardinality(S) + 1
         /\ Cardinality(S \cup {x}) \in Nat /\ Cardinality(S) \in Nat
  BY FS_AddElement, FS_CardinalityType

LEMMA CardDrop ==
  ASSUME NEW S, IsFiniteSet(S), NEW x \in S
  PROVE  /\ IsFiniteSet(S \ {x}) /\ Cardinality(S \ {x}) = Cardinality(S) - 1
         /\ Cardinality(S \ {x}) \in Nat /\ Cardinality(S) \in Nat
  BY FS_RemoveElement, FS_CardinalityType

LEMMA CardSwap ==
  ASSUME NEW S, IsFiniteSet(S), NEW x \in S, NEW y
  PROVE  /\ IsFiniteSet((S \ {x}) \cup {y})
         /\ Cardinality((S \ {x}) \cup {y}) <= Cardinality(S)
         /\ Cardinality((S \ {x}) \cup {y}) \in Nat /\ Cardinality(S) \in Nat
  <1> DEFINE D == S \ {x}
  <1>1. /\ IsFiniteSet(D) /\ Cardinality(D) = Cardinality(S) - 1
        /\ Cardinality(D) \in Nat /\ Cardinality(S) \in Nat
    BY CardDrop
  <1> HIDE DEF D
  <1>2. /\ IsFiniteSet(D \cup {y}) /\ Cardinality(D \cup {y}) <= Cardinality(D) + 1
        /\ Cardinality(D \cup {y}) \in Nat
    BY <1>1, CardAdd
  <1>3. /\ IsFiniteSet(D \cup {y}) /\ Cardinality(D \cup {y}) <= Cardinality(S)
        /\ Cardinality(D \cup {y}) \in Nat /\ Cardinality(S) \in Nat
    BY <1>1, <1>2
  <1> QED
    BY <1>3 DEF D

LEMMA CardImage ==
  ASSUME NEW S, IsFiniteSet(S), NEW T, NEW f \in [S -> T], T = {f[s] : s \in S}
  PROVE  /\ IsFiniteSet(T) /\ Cardinality(T) <= Cardinality(S)
         /\ Cardinality(T) \in Nat /\ Cardinality(S) \in Nat
  <1>1. f \in Surjection(S, T)
    BY DEF Surjection
  <1>2. IsFiniteSet(T) /\ Cardinality(T) <= Cardinality(S)
    BY ONLY IsFiniteSet(S), <1>1, FS_Surjection
  <1> QED
    BY <1>2, FS_CardinalityType

(* While there are fewer timers than numbers, one is free.                 *)
LEMMA FreeNumber ==
  ASSUME NEW S, IsFiniteSet(S), Cardinality(S) <= MaxActs
  PROVE  Free(S) \in Number
  <1> DEFINE used == {s.n : s \in S}
             free == Number \ used
             f == [s \in S |-> s.n]
  <1>1. IsFiniteSet(used) /\ Cardinality(used) <= MaxActs /\ Cardinality(used) \in Nat
    <2>1. f \in [S -> used] /\ used = {f[s] : s \in S}
      OBVIOUS
    <2> HIDE DEF f, used
    <2>2. Cardinality(S) \in Nat
      BY FS_CardinalityType
    <2> QED
      BY <2>1, <2>2, CardImage, BoundsAssumption
  <1>2. IsFiniteSet(Number) /\ Cardinality(Number) = MaxActs + 1
    <2>1. MaxActs + 1 \in Int /\ 1 \in Int /\ ~(1 > MaxActs + 1)
      BY BoundsAssumption
    <2>2. Cardinality(1..(MaxActs + 1)) = (MaxActs + 1) - 1 + 1
      BY <2>1, FS_Interval
    <2> QED
      BY <2>1, <2>2, FS_Interval, BoundsAssumption DEF Number
  <1>3. free # {}
    <2> HIDE DEF used
    <2> SUFFICES ASSUME Number \subseteq used PROVE FALSE
      OBVIOUS
    <2> QED
      BY <1>1, <1>2, CardSub, BoundsAssumption
  <1>4. free \subseteq Nat
    BY DEF Number
  <1> HIDE DEF free
  <1>5. \E n \in free : \A k \in free : n <= k
    BY <1>3, <1>4, Least
  <1>6. (CHOOSE n \in free : \A k \in free : n <= k) \in free
    BY <1>5
  <1> QED
    BY <1>6 DEF Free, free

-----------------------------------------------------------------------------
(* What a step keeps                                                       *)

LEMMA Limits ==
  SecretsInv =>
    /\ Cardinality(tasks) \in Nat /\ Cardinality(Reveals) \in Nat
    /\ Cardinality(Copies) \in Nat /\ Cardinality(hides) \in Nat
    /\ Cardinality(clears) \in Nat /\ acts \in Nat /\ acts <= MaxActs
    /\ IsFiniteSet(Reveals) /\ IsFiniteSet(Copies)
    /\ Cardinality(hides) <= MaxActs /\ Cardinality(clears) <= MaxActs
  <1> SUFFICES ASSUME SecretsInv
      PROVE  /\ Cardinality(tasks) \in Nat /\ Cardinality(Reveals) \in Nat
             /\ Cardinality(Copies) \in Nat /\ Cardinality(hides) \in Nat
             /\ Cardinality(clears) \in Nat /\ acts \in Nat /\ acts <= MaxActs
             /\ IsFiniteSet(Reveals) /\ IsFiniteSet(Copies)
             /\ Cardinality(hides) <= MaxActs /\ Cardinality(clears) <= MaxActs
    OBVIOUS
  <1>1. IsFiniteSet(tasks) /\ IsFiniteSet(hides) /\ IsFiniteSet(clears)
    BY DEF SecretsInv, CountInv
  <1>2. Reveals \subseteq tasks /\ Copies \subseteq tasks
    BY DEF Reveals, Copies
  <1>3. /\ IsFiniteSet(Reveals) /\ IsFiniteSet(Copies)
        /\ Cardinality(Reveals) \in Nat /\ Cardinality(Copies) \in Nat
        /\ Cardinality(tasks) \in Nat
    BY <1>1, <1>2, CardSub
  <1>4. Cardinality(hides) \in Nat /\ Cardinality(clears) \in Nat
    BY <1>1, FS_CardinalityType
  <1>5. /\ Cardinality(Reveals) + Cardinality(hides) <= acts
        /\ Cardinality(Copies) + Cardinality(clears) <= acts
        /\ acts \in 0..MaxActs
    BY DEF SecretsInv, CountInv, ValueInv
  <1> QED
    BY <1>1, <1>3, <1>4, <1>5, BoundsAssumption

LEMMA FreeTimers == SecretsInv => Free(hides) \in Number /\ Free(clears) \in Number
  BY Limits, FreeNumber DEF SecretsInv, CountInv

(* A task begins only with a click, of which there are fewer than MaxActs. *)
LEMMA FreeTask == SecretsInv /\ acts < MaxActs => Free(tasks) \in Number
  <1> SUFFICES ASSUME SecretsInv, acts < MaxActs PROVE Free(tasks) \in Number
    OBVIOUS
  <1>1. IsFiniteSet(tasks) /\ Cardinality(tasks) <= acts
    BY DEF SecretsInv, CountInv
  <1>2. Cardinality(tasks) <= MaxActs
    BY <1>1, Limits, BoundsAssumption
  <1> QED
    BY <1>1, <1>2, FreeNumber

LEMMA HidesKept == SecretsInv /\ [Next]_vars => HidesInv'
  <1> SUFFICES ASSUME SecretsInv, [Next]_vars PROVE HidesInv'
    OBVIOUS
  <1> USE BoundsAssumption
  <1>a. HidesInv /\ ValueInv
    BY DEF SecretsInv
  <1>1. ASSUME UNCHANGED <<shown, autoHide, hides, ticks>> PROVE HidesInv'
    BY <1>1, <1>a DEF HidesInv
  <1>2. ASSUME shown' = None, autoHide' = None, hides' \subseteq hides PROVE HidesInv'
    BY <1>2, <1>a DEF HidesInv
  <1>3. ASSUME ClearPlaintext PROVE HidesInv'
    BY <1>2, <1>3 DEF ClearPlaintext
  <1>4. ASSUME NEW t \in tasks, Revealed(t) PROVE HidesInv'
    <2> DEFINE new == [n |-> Free(hides), left |-> ClearAfter]
    <2>1. /\ hides' = hides \cup {new} /\ autoHide' = Free(hides)
          /\ shown' = [secret |-> t.secret, age |-> 0] /\ ticks' = ticks
      BY <1>4 DEF Revealed, ScheduleHide, bounds
    <2>2. new \in Hide
      BY FreeTimers DEF Hide
    <2>3. t.secret \in Secret
      BY DEF SecretsInv, TasksInv, Task
    <2>4. shown' \in Shown /\ shown'.age = 0
      BY <2>1, <2>3 DEF Shown
    <2>5. new.n = Free(hides) /\ new.left = ClearAfter
      OBVIOUS
    <2> HIDE DEF new
    <2>6. new \in hides' /\ hides' \subseteq Hide
      BY <1>a, <2>1, <2>2 DEF HidesInv
    <2>7. autoHide' \in {h.n : h \in hides'}
      BY <2>1, <2>5, <2>6
    <2>8. new.left + shown'.age <= ClearAfter /\ shown'.age <= ticks'
      BY <1>a, <2>1, <2>4, <2>5 DEF ValueInv
    <2> QED
      BY <2>4, <2>6, <2>7, <2>8 DEF HidesInv
  <1>5. ASSUME NEW t \in hides, HideTimer(t) PROVE HidesInv'
    BY <1>2, <1>5 DEF HideTimer
  <1>6. ASSUME Saved PROVE HidesInv'
    <2>1. CASE saving.live
      BY <1>3, <1>6, <2>1 DEF Saved
    <2>2. CASE ~saving.live
      BY <1>1, <1>6, <2>2 DEF Saved, bounds
    <2> QED
      BY <2>1, <2>2
  <1>8. ASSUME Leave PROVE HidesInv'
    BY <1>2, <1>8 DEF Leave
  <1>7. ASSUME Tick PROVE HidesInv'
    <2> DEFINE Later(t) == [t EXCEPT !.left = @ - 1]
    <2>1. /\ ticks' = ticks + 1 /\ ticks < MaxTicks /\ autoHide' = autoHide
          /\ \A t \in hides : t.left > 0
          /\ hides' = {Later(t) : t \in hides}
          /\ shown' = IF shown = None THEN None ELSE [shown EXCEPT !.age = @ + 1]
      BY <1>7 DEF Tick
    <2>2. \A t \in hides :
            Later(t) \in Hide /\ Later(t).n = t.n /\ Later(t).left = t.left - 1
      BY <1>a, <2>1 DEF HidesInv, Hide
    <2> HIDE DEF Later
    <2>3. hides' \subseteq Hide /\ autoHide' \in {t.n : t \in hides'} \cup {None}
      BY <1>a, <2>1, <2>2 DEF HidesInv
    <2>4. CASE shown = None
      BY <2>1, <2>3, <2>4 DEF HidesInv
    <2>5. CASE shown # None
      <3>1. /\ shown \in Shown /\ shown.age <= ticks
            /\ ticks \in Nat
        BY <1>a, <2>5 DEF HidesInv, ValueInv
      <3>2. PICK t \in hides : t.left + shown.age <= ClearAfter
        BY <1>a, <2>5 DEF HidesInv
      <3>3. /\ shown' \in Shown /\ shown'.age = shown.age + 1
            /\ shown'.age <= ticks'
        BY <2>1, <2>5, <3>1 DEF Shown
      <3>4. t.left \in Nat /\ shown.age \in Nat
        BY <1>a, <3>1 DEF HidesInv, Hide, Shown
      <3>5. Later(t) \in hides' /\ Later(t).left + shown'.age <= ClearAfter
        BY <2>1, <2>2, <3>2, <3>3, <3>4
      <3> QED
        BY <2>3, <3>3, <3>5 DEF HidesInv
    <2> QED
      BY <2>4, <2>5
  <1> QED
    BY <1>1, <1>3, <1>4, <1>5, <1>6, <1>7, <1>8 DEF Next, vars, reveal, clipboard, form,
       values, bounds, Act, ToggleReveal, Copy, OpenEdit, EditedElsewhere, Decrypted,
       TaskFails, WriteClipboard, Copied, ReadClipboard, BlankClipboard, HideAll,
       UserCopies, Filled, FillFails, TypeValue, CloseEdit, Submit, SaveFails,
       KeyCleared, Unmount, Mount

LEMMA ValueKept == SecretsInv /\ [Next]_vars => ValueInv'
  <1> SUFFICES ASSUME SecretsInv, [Next]_vars PROVE ValueInv'
    OBVIOUS
  <1> USE BoundsAssumption
  <1>a. /\ ValueInv /\ acts \in Nat /\ drawn \in Nat /\ drawn <= acts /\ acts <= MaxActs
        /\ saving \in Saving \cup {None}
    BY DEF SecretsInv, ValueInv, FormInv
  <1>b. \A s \in Saving : Stored(value, s) \in [Entries -> Value]
    BY <1>a DEF ValueInv, Saving, Stored
  <1>1. ASSUME UNCHANGED <<key, mounted, values, ticks>>,
               acts' = acts \/ Act
        PROVE  ValueInv'
    BY <1>1, <1>a DEF ValueInv, values, Act
  <1>2. ASSUME TypeValue PROVE ValueInv'
    BY <1>2, <1>a DEF TypeValue, Act, ValueInv
  <1>3. ASSUME NEW e \in Entries, EditedElsewhere(e) PROVE ValueInv'
    <2>1. drawn' \in Value /\ drawn' \in 0..acts' /\ acts' \in 0..MaxActs
      BY <1>3, <1>a DEF EditedElsewhere, Act, Value
    <2> QED
      BY <1>3, <1>a, <2>1 DEF EditedElsewhere, Act, ValueInv
  <1>4. ASSUME Saved PROVE ValueInv'
    <2>1. saving \in Saving /\ value' = Stored(value, saving)
      BY <1>4, <1>a DEF Saved
    <2>2. value' \in [Entries -> Value]
      BY <1>b, <2>1
    <2>3. saving.entry \in Entries
      BY <2>1 DEF Saving
    <2>4. seen' \in [Entries -> Value]
      BY <1>4, <1>a, <2>2, <2>3 DEF Saved, ValueInv
    <2> QED
      BY <1>4, <1>a, <2>2, <2>4 DEF Saved, ValueInv, bounds
  <1>5. ASSUME SaveFails PROVE ValueInv'
    <2>1. saving \in Saving
      BY <1>5, <1>a DEF SaveFails
    <2>2. value' \in [Entries -> Value]
      BY <1>5, <1>a, <1>b, <2>1 DEF SaveFails, ValueInv
    <2> QED
      BY <1>5, <1>a, <2>2 DEF SaveFails, ValueInv, bounds
  <1>6. ASSUME KeyCleared \/ Unmount \/ Leave PROVE ValueInv'
    BY <1>6, <1>a DEF KeyCleared, Unmount, Leave, ValueInv, values, bounds
  <1>7. ASSUME Mount PROVE ValueInv'
    BY <1>7, <1>a DEF Mount, ValueInv, Act
  <1>8. ASSUME Tick PROVE ValueInv'
    BY <1>8, <1>a DEF Tick, ValueInv, values
  <1> QED
    BY <1>1, <1>2, <1>3, <1>4, <1>5, <1>6, <1>7, <1>8 DEF Next, vars, reveal, clipboard,
       form, values, bounds, Act, ToggleReveal, Copy, OpenEdit, Decrypted, TaskFails,
       Revealed, HideTimer, WriteClipboard, Copied, ReadClipboard, BlankClipboard,
       HideAll, UserCopies, Filled, FillFails, CloseEdit, Submit

(* The secret of a new task is one that the tab has seen.                  *)
LEMMA TasksKept == SecretsInv /\ [Next]_vars => TasksInv'
  <1> SUFFICES ASSUME SecretsInv, [Next]_vars PROVE TasksInv'
    OBVIOUS
  <1> USE BoundsAssumption
  <1>a. TasksInv /\ shown \in Shown \cup {None} /\ seen \in [Entries -> Value]
    BY DEF SecretsInv, HidesInv, ValueInv
  <1>b. \A e \in Entries : Listed(e) \in Secret /\ Listed(e).entry = e
    BY <1>a DEF Listed, Secret
  <1>1. ASSUME tasks' = tasks, busy' \in {busy, None} PROVE TasksInv'
    BY <1>1, <1>a DEF TasksInv
  <1>2. ASSUME tasks' \subseteq tasks, busy' = None
        PROVE  TasksInv'
    BY <1>2, <1>a DEF TasksInv
  <1>3. ASSUME NEW kind \in {"reveal", "copy"}, NEW secret \in Secret,
               NEW at \in {"decrypting", "writing"}, at = "writing" => kind = "copy",
               acts < MaxActs, Begin(kind, secret, at)
        PROVE  TasksInv'
    <2> DEFINE new == [n |-> Free(tasks), kind |-> kind, secret |-> secret, at |-> at]
    <2>1. new \in Task /\ (new.at = "writing" => new.kind = "copy")
      BY <1>3, FreeTask DEF Task
    <2>2. tasks' = tasks \cup {new} /\ busy' = secret.entry
      BY <1>3 DEF Begin
    <2>3. secret.entry \in Entries
      BY DEF Secret
    <2> HIDE DEF new
    <2> QED
      BY <1>a, <2>1, <2>2, <2>3 DEF TasksInv
  <1>4. ASSUME NEW e \in Entries, ToggleReveal(e) PROVE TasksInv'
    <2>1. acts < MaxActs
      BY <1>4 DEF ToggleReveal, Act
    <2>2. CASE Begin("reveal", Listed(e), "decrypting")
      BY <1>3, <1>b, <2>1, <2>2
    <2>3. CASE tasks' = tasks /\ busy' \in {busy, None}
      BY <1>1, <2>3
    <2> QED
      BY <1>4, <2>2, <2>3 DEF ToggleReveal
  <1>5. ASSUME NEW e \in Entries, Copy(e) PROVE TasksInv'
    <2>1. acts < MaxActs
      BY <1>5 DEF Copy, Act
    <2>2. CASE shown # None /\ Begin("copy", shown.secret, "writing")
      <3>1. shown.secret \in Secret
        BY <1>a, <2>2 DEF Shown
      <3> QED
        BY <1>3, <2>1, <2>2, <3>1
    <2>3. CASE Begin("copy", Listed(e), "decrypting")
      BY <1>3, <1>b, <2>1, <2>3
    <2>4. CASE tasks' = tasks /\ busy' \in {busy, None}
      BY <1>1, <2>4
    <2> QED
      BY <1>5, <2>2, <2>3, <2>4 DEF Copy
  <1>6. ASSUME NEW t \in tasks, Decrypted(t) PROVE TasksInv'
    <2> DEFINE new == [t EXCEPT !.at = IF t.kind = "reveal" THEN "marking" ELSE "writing"]
    <2>1. t \in Task
      BY <1>a DEF TasksInv
    <2>2. new \in Task /\ (new.at = "writing" => new.kind = "copy")
      BY <2>1 DEF Task
    <2>3. tasks' = (tasks \ {t}) \cup {new} /\ busy' = busy
      BY <1>6 DEF Decrypted, Replace
    <2> HIDE DEF new
    <2> QED
      BY <1>a, <2>2, <2>3 DEF TasksInv
  <1>7. ASSUME NEW t \in tasks, WriteClipboard(t) PROVE TasksInv'
    <2> DEFINE new == [t EXCEPT !.at = "marking"]
    <2>1. t \in Task
      BY <1>a DEF TasksInv
    <2>2. new \in Task /\ new.at # "writing"
      BY <2>1 DEF Task
    <2>3. tasks' = (tasks \ {t}) \cup {new} /\ busy' = busy
      BY <1>7 DEF WriteClipboard, Replace
    <2> HIDE DEF new
    <2> QED
      BY <1>a, <2>2, <2>3 DEF TasksInv
  <1>8. ASSUME NEW t \in tasks, TaskFails(t) \/ Revealed(t) \/ Copied(t) PROVE TasksInv'
    BY <1>2, <1>8 DEF TaskFails, Revealed, Copied
  <1>9. ASSUME Unmount \/ Leave PROVE TasksInv'
    BY <1>2, <1>9 DEF Unmount, Leave
  <1> QED
    BY <1>1, <1>4, <1>5, <1>6, <1>7, <1>8, <1>9 DEF Next, vars, reveal, clipboard, form,
       OpenEdit, EditedElsewhere, HideTimer, ReadClipboard, BlankClipboard, HideAll,
       UserCopies, Filled, FillFails, TypeValue, CloseEdit, Submit, Saved, SaveFails,
       KeyCleared, Mount, Tick

LEMMA ClipKept == SecretsInv /\ [Next]_vars => ClipInv'
  <1> SUFFICES ASSUME SecretsInv, [Next]_vars PROVE ClipInv'
    OBVIOUS
  <1> USE BoundsAssumption
  <1>a. ClipInv /\ ticks \in Nat /\ ticks <= MaxTicks
    BY DEF SecretsInv, ValueInv
  <1>1. ASSUME UNCHANGED <<clip, clears, ticks>> PROVE ClipInv'
    BY <1>1, <1>a DEF ClipInv
  <1>2. ASSUME NEW t \in tasks, WriteClipboard(t) PROVE ClipInv'
    <2> DEFINE new == [n |-> Free(clears), secret |-> t.secret, left |-> ClearAfter,
                       due |-> FALSE]
    <2>1. /\ clip' = [text |-> t.secret, age |-> 0, stuck |-> FALSE, left |-> FALSE]
          /\ clears' = clears \cup {new} /\ ticks' = ticks
      BY <1>2 DEF WriteClipboard, bounds
    <2>2. t.secret \in Secret
      BY DEF SecretsInv, TasksInv, Task
    <2>3. new \in Clear /\ new.secret = t.secret /\ new.left = ClearAfter
      BY <2>2, FreeTimers DEF Clear
    <2>4. clip' \in Clip /\ clip'.text = t.secret /\ clip'.age = 0
      BY <2>1, <2>2 DEF Clip
    <2> HIDE DEF new
    <2>5. new \in clears' /\ new.left + clip'.age <= ClearAfter
      BY <2>1, <2>3, <2>4
    <2> QED
      BY <1>a, <2>1, <2>3, <2>4, <2>5 DEF ClipInv
  <1>3. ASSUME NEW c \in clears, ReadClipboard(c) PROVE ClipInv'
    <2> DEFINE new == [c EXCEPT !.due = TRUE]
    <2>1. /\ clip' = clip /\ ticks' = ticks
          /\ \/ clears' = (clears \ {c}) \cup {new}
             \/ clears' = clears \ {c} /\ clip.text # c.secret
      BY <1>3 DEF ReadClipboard, ToBlank, Replace, bounds
    <2>2. c \in Clear
      BY <1>a DEF ClipInv
    <2>3. new \in Clear /\ new.secret = c.secret /\ new.left = c.left
      BY <2>2 DEF Clear
    <2> HIDE DEF new
    <2>4. clears' \subseteq Clear
      BY <1>a, <2>1, <2>3 DEF ClipInv
    <2>5. ASSUME NEW d \in clears, d.secret = clip.text, d.left + clip.age <= ClearAfter
          PROVE  \E d1 \in clears' :
                   d1.secret = clip.text /\ d1.left + clip.age <= ClearAfter
      <3>1. CASE d = c
        BY <2>1, <2>3, <2>5, <3>1
      <3>2. CASE d # c
        BY <2>1, <2>5, <3>2
      <3> QED
        BY <3>1, <3>2
    <2> QED
      BY <1>a, <2>1, <2>4, <2>5 DEF ClipInv
  <1>4. ASSUME NEW c \in clears, BlankClipboard(c) PROVE ClipInv'
    <2>1. clears' \subseteq clears /\ ticks' = ticks
      BY <1>4 DEF BlankClipboard, bounds
    <2>2. /\ clip' \in Clip /\ clip'.age <= ticks'
          /\ clip'.text \in {Foreign, Blank} \/ clip'.stuck
      <3>1. CASE clip' = [text |-> Blank, age |-> 0, stuck |-> FALSE, left |-> FALSE]
        BY <1>a, <2>1, <3>1 DEF Clip
      <3>2. CASE clip' = [clip EXCEPT !.stuck = TRUE]
        BY <1>a, <2>1, <3>2 DEF Clip, ClipInv
      <3> QED
        BY <1>4, <3>1, <3>2 DEF BlankClipboard
    <2> QED
      BY <1>a, <2>1, <2>2 DEF ClipInv
  <1>5. ASSUME UserCopies PROVE ClipInv'
    BY <1>5, <1>a DEF UserCopies, Act, ClipInv, Clip
  <1>7. ASSUME Leave PROVE ClipInv'
    <2>1. clears' = {} /\ ticks' = ticks
      BY <1>7 DEF Leave, bounds
    <2>2. /\ clip' \in Clip /\ clip'.age <= ticks'
          /\ clip'.text \in {Foreign, Blank} \/ clip'.left
      <3>1. CASE clip' = [clip EXCEPT !.left = clip.text \notin {Foreign, Blank}]
        BY <1>a, <2>1, <3>1 DEF ClipInv, Clip
      <3>2. CASE \E t \in tasks :
                   clip' = [text |-> t.secret, age |-> 0, stuck |-> FALSE, left |-> TRUE]
        <4>1. PICK t \in tasks :
                clip' = [text |-> t.secret, age |-> 0, stuck |-> FALSE, left |-> TRUE]
          BY <3>2
        <4>2. t.secret \in Secret
          BY DEF SecretsInv, TasksInv, Task
        <4> QED
          BY <1>a, <2>1, <4>1, <4>2 DEF Clip
      <3> QED
        BY <1>7, <3>1, <3>2 DEF Leave
    <2> QED
      BY <2>1, <2>2 DEF ClipInv
  <1>6. ASSUME Tick PROVE ClipInv'
    <2> DEFINE Later(c) == [c EXCEPT !.left = @ - 1]
    <2>1. /\ ticks' = ticks + 1 /\ ticks < MaxTicks
          /\ \A c \in clears : c.left > 0
          /\ clears' = {Later(c) : c \in clears}
          /\ clip' = IF clip.text \in {Foreign, Blank} \/ clip.stuck THEN clip
                     ELSE [clip EXCEPT !.age = @ + 1]
      BY <1>6 DEF Tick
    <2>2. \A c \in clears : /\ Later(c) \in Clear /\ Later(c).secret = c.secret
                            /\ Later(c).left = c.left - 1
      BY <1>a, <2>1 DEF ClipInv, Clear
    <2> HIDE DEF Later
    <2>3. clears' \subseteq Clear
      BY <2>1, <2>2
    <2>4. clip \in Clip /\ clip.age <= ticks
      BY <1>a DEF ClipInv
    <2>5. CASE clip.text \in {Foreign, Blank} \/ clip.stuck
      <3>1. clip' = clip /\ clip.age <= ticks'
        BY <1>a, <2>1, <2>4, <2>5 DEF Clip
      <3> QED
        BY <2>3, <2>4, <2>5, <3>1 DEF ClipInv
    <2>6. CASE ~(clip.text \in {Foreign, Blank} \/ clip.stuck)
      <3>2. clip' = [clip EXCEPT !.age = @ + 1]
        BY <2>1, <2>6
      <3>3. /\ clip' \in Clip /\ clip'.age = clip.age + 1 /\ clip'.text = clip.text
            /\ clip'.age <= ticks' /\ clip'.left = clip.left
        BY <1>a, <2>1, <2>4, <3>2 DEF Clip
      <3> SUFFICES ASSUME ~clip.left PROVE ClipInv'
        BY <2>3, <3>3 DEF ClipInv
      <3>1. PICK c \in clears : c.secret = clip.text /\ c.left + clip.age <= ClearAfter
        BY <1>a, <2>6 DEF ClipInv
      <3>4. c.left \in Nat /\ clip.age \in Nat
        BY <1>a, <2>4 DEF ClipInv, Clear, Clip
      <3>5. /\ Later(c) \in clears' /\ Later(c).secret = clip'.text
            /\ Later(c).left + clip'.age <= ClearAfter
        BY <2>1, <2>2, <3>1, <3>3, <3>4
      <3> QED
        BY <2>3, <3>3, <3>5 DEF ClipInv
    <2> QED
      BY <2>5, <2>6
  <1> QED
    BY <1>1, <1>2, <1>3, <1>4, <1>5, <1>6, <1>7 DEF Next, vars, reveal, clipboard, form,
       values, bounds, Act, ToggleReveal, Copy, OpenEdit, EditedElsewhere, Decrypted,
       TaskFails, Revealed, Copied, HideTimer, HideAll, Filled, FillFails, TypeValue,
       CloseEdit, Submit, Saved, SaveFails, KeyCleared, Unmount, Mount

LEMMA FormKept == SecretsInv /\ [Next]_vars => FormInv'
  <1> SUFFICES ASSUME SecretsInv, [Next]_vars PROVE FormInv'
    OBVIOUS
  <1>a. /\ FormInv /\ seen \in [Entries -> Value]
        /\ (modal # None => modal \in Modal) /\ (fill # None => fill \in Value)
        /\ (saving # None => saving \in Saving)
    BY DEF SecretsInv, ValueInv, FormInv
  <1>1. ASSUME UNCHANGED form PROVE FormInv'
    BY <1>1, <1>a DEF FormInv, form
  <1>2. ASSUME NEW e \in Entries, OpenEdit(e) PROVE FormInv'
    <2>1. /\ modal = None /\ saving' = saving
          /\ modal' = [entry |-> e, prefill |-> IF key THEN "loading" ELSE "failed",
                       original |-> None, text |-> None, touched |-> FALSE,
                       submitting |-> FALSE]
          /\ fill' = IF key THEN seen[e] ELSE None
      BY <1>2 DEF OpenEdit
    <2>2. modal' \in Modal /\ modal'.text = None /\ modal'.prefill # "ready"
      BY <2>1 DEF Modal
    <2>3. modal' # None
      BY <2>2, NoneAssumption
    <2>4. fill' \in Value \cup {None}
      BY <1>a, <2>1
    <2>5. ~(saving # None /\ saving.live)
      BY <1>a, <2>1 DEF FormInv
    <2> QED
      BY <1>a, <2>1, <2>2, <2>3, <2>4, <2>5 DEF FormInv
  <1>3. ASSUME Filled \/ FillFails PROVE FormInv'
    <2>1. fill # None /\ modal # None /\ modal \in Modal /\ fill \in Value
      BY <1>3, <1>a DEF Filled, FillFails, FormInv
    <2>2. fill' = None /\ saving' = saving
      BY <1>3 DEF Filled, FillFails
    <2>3. /\ modal' \in Modal /\ modal'.submitting = modal.submitting
          /\ modal'.text = IF modal'.prefill = "ready" THEN modal'.original ELSE None
      <3>1. CASE Filled
        BY <2>1, <3>1 DEF Filled, Modal
      <3>2. CASE FillFails
        BY <2>1, <3>2 DEF FillFails, Modal
      <3> QED
        BY <1>3, <3>1, <3>2
    <2>4. modal' # None
      BY <2>3, NoneAssumption
    <2> QED
      BY <1>a, <2>1, <2>2, <2>3, <2>4 DEF FormInv
  <1>4. ASSUME TypeValue PROVE FormInv'
    <2>1. modal \in Modal /\ fill' = fill /\ saving' = saving
      BY <1>4, <1>a DEF TypeValue
    <2>2. drawn' \in Value
      BY <1>4, BoundsAssumption DEF TypeValue, Act, SecretsInv, ValueInv, Value
    <2>3. modal' \in Modal /\ modal'.touched /\ modal'.submitting = modal.submitting
      BY <1>4, <2>1, <2>2 DEF TypeValue, Modal
    <2>4. modal' # None
      BY <2>3, NoneAssumption
    <2> QED
      BY <1>a, <2>1, <2>3, <2>4 DEF FormInv
  <1>5. ASSUME CloseEdit PROVE FormInv'
    <2>1. /\ modal # None /\ ~modal.submitting
          /\ modal' = None /\ fill' = None /\ saving' = saving
      BY <1>5 DEF CloseEdit
    <2> QED
      BY <1>a, <2>1 DEF FormInv
  <1>6. ASSUME Submit PROVE FormInv'
    <2>1. /\ modal \in Modal /\ modal # None /\ fill' = fill
          /\ modal' = [modal EXCEPT !.submitting = TRUE]
          /\ saving' = [entry |-> modal.entry, cipher |-> EditKeyValue,
                        touched |-> modal.touched, live |-> TRUE]
      BY <1>6, <1>a DEF Submit
    <2>2. /\ modal' \in Modal /\ modal'.submitting /\ modal'.touched = modal.touched
          /\ modal'.text = modal.text /\ modal'.prefill = modal.prefill
          /\ modal'.original = modal.original
      BY <2>1 DEF Modal
    <2>3. modal' # None
      BY <2>2, NoneAssumption
    <2>4. EditKeyValue \in Value \cup {None} /\ (EditKeyValue # None => modal.touched)
      <3>1. modal.text \in Value \cup {None} /\ modal.touched \in BOOLEAN
        BY <2>1 DEF Modal
      <3>2. ~modal.touched =>
              modal.text = IF modal.prefill = "ready" THEN modal.original ELSE None
        BY <1>a, <2>1 DEF FormInv
      <3> QED
        BY <3>1, <3>2 DEF EditKeyValue
    <2>5. saving' \in Saving /\ (saving'.cipher # None => saving'.touched)
      BY <2>1, <2>4 DEF Saving, Modal
    <2> QED
      BY <1>a, <2>1, <2>2, <2>3, <2>5 DEF FormInv
  <1>7. ASSUME Saved PROVE FormInv'
    <2>1. CASE saving.live
      BY <1>7, <2>1 DEF Saved, FormInv
    <2>2. CASE ~saving.live
      <3>1. modal' = modal /\ fill' = fill /\ saving' = None
        BY <1>7, <2>2 DEF Saved
      <3> QED
        BY <1>a, <3>1 DEF FormInv
    <2> QED
      BY <2>1, <2>2
  <1>8. ASSUME SaveFails PROVE FormInv'
    <2>1. saving # None /\ saving' = None /\ fill' = fill
      BY <1>8 DEF SaveFails
    <2>2. CASE saving.live
      <3>1. modal \in Modal /\ modal # None
        BY <1>a, <2>1, <2>2 DEF FormInv
      <3>2. modal' = [modal EXCEPT !.submitting = FALSE]
        BY <1>8, <2>2 DEF SaveFails
      <3>3. /\ modal' \in Modal /\ modal'.touched = modal.touched
            /\ modal'.text = modal.text /\ modal'.prefill = modal.prefill
            /\ modal'.original = modal.original
        BY <3>1, <3>2 DEF Modal
      <3>4. modal' # None
        BY <3>3, NoneAssumption
      <3> QED
        BY <1>a, <2>1, <3>1, <3>3, <3>4 DEF FormInv
    <2>3. CASE ~saving.live
      <3>1. modal' = modal
        BY <1>8, <2>3 DEF SaveFails
      <3> QED
        BY <1>a, <2>1, <3>1 DEF FormInv
    <2> QED
      BY <2>2, <2>3
  <1>9. ASSUME KeyCleared PROVE FormInv'
    <2>1. fill' = fill /\ saving' = saving
      BY <1>9 DEF KeyCleared
    <2>2. CASE modal = None
      <3>1. modal' = modal
        BY <1>9, <2>2 DEF KeyCleared
      <3> QED
        BY <1>a, <2>1, <3>1 DEF FormInv
    <2>3. CASE modal # None
      <3>1. modal' = [modal EXCEPT !.prefill = "idle", !.original = None, !.text = None,
                                   !.touched = FALSE]
        BY <1>9, <2>3 DEF KeyCleared
      <3>2. /\ modal' \in Modal /\ modal'.text = None /\ modal'.prefill = "idle"
            /\ modal'.submitting = modal.submitting
        BY <1>a, <2>3, <3>1 DEF Modal
      <3>3. modal' # None
        BY <3>2, NoneAssumption
      <3> QED
        BY <1>a, <2>1, <2>3, <3>2, <3>3 DEF FormInv
    <2> QED
      BY <2>2, <2>3
  <1>10. ASSUME Unmount \/ Leave PROVE FormInv'
    <2>1. modal' = None /\ fill' = None
      BY <1>10 DEF Unmount, Leave
    <2>2. CASE saving = None
      <3>1. saving' = None
        BY <1>10, <2>2 DEF Unmount, Leave
      <3> QED
        BY <2>1, <3>1 DEF FormInv
    <2>3. CASE saving # None
      <3>1. saving \in Saving /\ saving' = [saving EXCEPT !.live = FALSE]
        BY <1>10, <1>a, <2>3 DEF Unmount, Leave
      <3>2. /\ saving' \in Saving /\ ~saving'.live
            /\ saving'.cipher = saving.cipher /\ saving'.touched = saving.touched
        BY <3>1 DEF Saving
      <3> QED
        BY <1>a, <2>1, <2>3, <3>2 DEF FormInv
    <2> QED
      BY <2>2, <2>3
  <1> QED
    BY <1>1, <1>2, <1>3, <1>4, <1>5, <1>6, <1>7, <1>8, <1>9, <1>10 DEF Next, vars,
       ToggleReveal, Copy, EditedElsewhere, Decrypted, TaskFails, Revealed,
       WriteClipboard, Copied, HideTimer, ReadClipboard, BlankClipboard, HideAll,
       UserCopies, Mount, Tick

-----------------------------------------------------------------------------
(* Tasks and timers are counted                                            *)

(* What a step makes of the tasks under way.                               *)
Begun ==
  \E kind \in {"reveal", "copy"}, at \in {"decrypting", "writing"}, secret \in Secret :
    acts' = acts + 1 /\ Begin(kind, secret, at)

LEMMA Stepwise ==
  ASSUME SecretsInv, [Next]_vars
  PROVE  /\ acts' \in Nat /\ acts' >= acts
         /\ \/ tasks' \subseteq tasks
            \/ Begun
            \/ \E t \in tasks : Decrypted(t) \/ WriteClipboard(t)
  <1>a. /\ acts \in Nat /\ shown \in Shown \cup {None}
        /\ seen \in [Entries -> Value] /\ tasks \subseteq Task
    BY DEF SecretsInv, ValueInv, HidesInv, TasksInv
  <1>b. acts' \in Nat /\ acts' >= acts
    <2>1. acts' = acts \/ acts' = acts + 1
      <3>1. ASSUME NEW e \in Entries,
                   ToggleReveal(e) \/ Copy(e) \/ OpenEdit(e) \/ EditedElsewhere(e)
            PROVE  acts' = acts + 1
        BY <3>1 DEF ToggleReveal, Copy, OpenEdit, EditedElsewhere, Act
      <3>2. ASSUME HideAll \/ UserCopies \/ TypeValue \/ Mount PROVE acts' = acts + 1
        BY <3>2 DEF HideAll, UserCopies, TypeValue, Mount, Act
      <3> QED
        BY <3>1, <3>2 DEF Next, vars, bounds, Decrypted, TaskFails, Revealed,
           WriteClipboard, Copied, HideTimer, ReadClipboard, BlankClipboard, Filled,
           FillFails, CloseEdit, Submit, Saved, SaveFails, KeyCleared, Unmount,
           Leave, Tick
    <2> QED
      BY <1>a, <2>1
  <1>c. \A e \in Entries : Listed(e) \in Secret
    BY <1>a DEF Listed, Secret
  <1>1. ASSUME NEW e \in Entries, ToggleReveal(e) PROVE tasks' \subseteq tasks \/ Begun
    <2>1. acts' = acts + 1 /\ (tasks' = tasks \/ Begin("reveal", Listed(e), "decrypting"))
      BY <1>1 DEF ToggleReveal, Act
    <2> QED
      BY <1>c, <2>1 DEF Begun
  <1>2. ASSUME NEW e \in Entries, Copy(e) PROVE tasks' \subseteq tasks \/ Begun
    <2>1. /\ acts' = acts + 1
          /\ \/ tasks' = tasks
             \/ Begin("copy", Listed(e), "decrypting")
             \/ shown # None /\ Begin("copy", shown.secret, "writing")
      BY <1>2 DEF Copy, Act
    <2>2. shown # None => shown.secret \in Secret
      BY <1>a DEF Shown
    <2> QED
      BY <1>c, <2>1, <2>2 DEF Begun
  <1>3. \/ tasks' \subseteq tasks
        \/ Begun
        \/ \E t \in tasks : Decrypted(t) \/ WriteClipboard(t)
    BY <1>1, <1>2 DEF Next, vars, reveal, OpenEdit, EditedElsewhere, TaskFails, Revealed,
       Copied, HideTimer, ReadClipboard, BlankClipboard, HideAll, UserCopies, Filled,
       FillFails, TypeValue, CloseEdit, Submit, Saved, SaveFails, KeyCleared, Unmount,
       Leave, Mount, Tick
  <1> QED
    BY <1>b, <1>3

LEMMA TasksCounted ==
  SecretsInv /\ [Next]_vars => IsFiniteSet(tasks') /\ Cardinality(tasks') <= acts'
  <1> SUFFICES ASSUME SecretsInv, [Next]_vars
               PROVE  IsFiniteSet(tasks') /\ Cardinality(tasks') <= acts'
    OBVIOUS
  <1>a. /\ IsFiniteSet(tasks) /\ Cardinality(tasks) <= acts
        /\ Cardinality(tasks) \in Nat /\ acts \in Nat
    BY Limits DEF SecretsInv, CountInv
  <1>b. acts' \in Nat /\ acts' >= acts
    BY Stepwise
  <1>1. CASE tasks' \subseteq tasks
    <2>1. IsFiniteSet(tasks') /\ Cardinality(tasks') <= Cardinality(tasks)
          /\ Cardinality(tasks') \in Nat
      BY <1>a, <1>1, CardSub
    <2> QED
      BY <1>a, <1>b, <2>1
  <1>2. CASE Begun
    <2>1. PICK x \in tasks' : acts' = acts + 1 /\ tasks' = tasks \cup {x}
      BY <1>2 DEF Begun, Begin
    <2>2. IsFiniteSet(tasks') /\ Cardinality(tasks') <= Cardinality(tasks) + 1
          /\ Cardinality(tasks') \in Nat
      BY <1>a, <2>1, CardAdd
    <2> QED
      BY <1>a, <2>1, <2>2
  <1>3. CASE \E t \in tasks : Decrypted(t) \/ WriteClipboard(t)
    <2>1. PICK t \in tasks, x \in tasks' : tasks' = (tasks \ {t}) \cup {x}
      BY <1>3 DEF Decrypted, WriteClipboard, Replace
    <2>2. IsFiniteSet(tasks') /\ Cardinality(tasks') <= Cardinality(tasks)
          /\ Cardinality(tasks') \in Nat
      BY <1>a, <2>1, CardSwap
    <2> QED
      BY <1>a, <1>b, <2>2
  <1> QED
    BY <1>1, <1>2, <1>3, Stepwise

(* What a click or a decryption does to the tasks of either kind.          *)
LEMMA KindsCounted ==
  ASSUME SecretsInv, [Next]_vars,
         tasks' \subseteq tasks \/ Begun \/ \E t \in tasks : Decrypted(t)
  PROVE  /\ IsFiniteSet(Reveals') /\ IsFiniteSet(Copies')
         /\ Cardinality(Reveals') \in Nat /\ Cardinality(Copies') \in Nat
         /\ Cardinality(Reveals') + (acts - acts') <= Cardinality(Reveals)
         /\ Cardinality(Copies') + (acts - acts') <= Cardinality(Copies)
  <1>a. /\ acts \in Nat /\ acts' \in Nat /\ acts' >= acts
        /\ IsFiniteSet(Reveals) /\ IsFiniteSet(Copies)
        /\ Cardinality(Reveals) \in Nat /\ Cardinality(Copies) \in Nat
    BY Limits, Stepwise
  <1>1. CASE tasks' \subseteq tasks
    <2>1. Reveals' \subseteq Reveals /\ Copies' \subseteq Copies
      BY <1>1 DEF Reveals, Copies
    <2>2. /\ IsFiniteSet(Reveals') /\ Cardinality(Reveals') <= Cardinality(Reveals)
          /\ Cardinality(Reveals') \in Nat
      BY <1>a, <2>1, CardSub
    <2>3. /\ IsFiniteSet(Copies') /\ Cardinality(Copies') <= Cardinality(Copies)
          /\ Cardinality(Copies') \in Nat
      BY <1>a, <2>1, CardSub
    <2> QED
      BY <1>a, <2>2, <2>3
  <1>2. CASE Begun
    <2>1. PICK x \in tasks' : acts' = acts + 1 /\ tasks' = tasks \cup {x}
      BY <1>2 DEF Begun, Begin
    <2>2. Reveals' \subseteq Reveals \cup {x} /\ Copies' \subseteq Copies \cup {x}
      BY <2>1 DEF Reveals, Copies
    <2>3. /\ IsFiniteSet(Reveals \cup {x})
          /\ Cardinality(Reveals \cup {x}) <= Cardinality(Reveals) + 1
          /\ Cardinality(Reveals \cup {x}) \in Nat
          /\ IsFiniteSet(Copies \cup {x})
          /\ Cardinality(Copies \cup {x}) <= Cardinality(Copies) + 1
          /\ Cardinality(Copies \cup {x}) \in Nat
      BY <1>a, CardAdd
    <2>4. /\ IsFiniteSet(Reveals') /\ Cardinality(Reveals') \in Nat
          /\ Cardinality(Reveals') <= Cardinality(Reveals \cup {x})
      BY <2>2, <2>3, CardSub
    <2>5. /\ IsFiniteSet(Copies') /\ Cardinality(Copies') \in Nat
          /\ Cardinality(Copies') <= Cardinality(Copies \cup {x})
      BY <2>2, <2>3, CardSub
    <2> QED
      BY <1>a, <2>1, <2>3, <2>4, <2>5
  <1>3. ASSUME NEW t \in tasks, Decrypted(t)
        PROVE  /\ IsFiniteSet(Reveals') /\ IsFiniteSet(Copies')
               /\ Cardinality(Reveals') \in Nat /\ Cardinality(Copies') \in Nat
               /\ Cardinality(Reveals') + (acts - acts') <= Cardinality(Reveals)
               /\ Cardinality(Copies') + (acts - acts') <= Cardinality(Copies)
    <2> DEFINE u == [t EXCEPT !.at = IF t.kind = "reveal" THEN "marking" ELSE "writing"]
    <2>1. t \in Task /\ t.at = "decrypting"
      BY <1>3 DEF Decrypted, SecretsInv, TasksInv
    <2>2. u.kind = t.kind
      BY <2>1 DEF Task
    <2>3. tasks' = (tasks \ {t}) \cup {u}
      BY <1>3 DEF Decrypted, Replace
    <2> HIDE DEF u
    <2>4. \/ Reveals' \subseteq (Reveals \ {t}) \cup {u} /\ t \in Reveals
          \/ Reveals' \subseteq Reveals
      BY <2>2, <2>3 DEF Reveals
    <2>5. \/ Copies' \subseteq (Copies \ {t}) \cup {u} /\ t \in Copies
          \/ Copies' \subseteq Copies
      BY <2>1, <2>2, <2>3 DEF Copies, Task
    <2>6. /\ IsFiniteSet(Reveals') /\ Cardinality(Reveals') <= Cardinality(Reveals)
          /\ Cardinality(Reveals') \in Nat
      <3>1. CASE Reveals' \subseteq Reveals
        BY <1>a, <3>1, CardSub
      <3>2. CASE Reveals' \subseteq (Reveals \ {t}) \cup {u} /\ t \in Reveals
        <4> DEFINE S == (Reveals \ {t}) \cup {u}
        <4>1. /\ IsFiniteSet(S) /\ Cardinality(S) <= Cardinality(Reveals)
              /\ Cardinality(S) \in Nat
          BY <1>a, <3>2, CardSwap
        <4>2. Reveals' \subseteq S
          BY <3>2
        <4> HIDE DEF S
        <4>3. /\ IsFiniteSet(Reveals') /\ Cardinality(Reveals') <= Cardinality(S)
              /\ Cardinality(Reveals') \in Nat
          BY <4>1, <4>2, CardSub
        <4> QED
          BY <1>a, <4>1, <4>3
      <3> QED
        BY <2>4, <3>1, <3>2
    <2>7. /\ IsFiniteSet(Copies') /\ Cardinality(Copies') <= Cardinality(Copies)
          /\ Cardinality(Copies') \in Nat
      <3>1. CASE Copies' \subseteq Copies
        BY <1>a, <3>1, CardSub
      <3>2. CASE Copies' \subseteq (Copies \ {t}) \cup {u} /\ t \in Copies
        <4> DEFINE S == (Copies \ {t}) \cup {u}
        <4>1. /\ IsFiniteSet(S) /\ Cardinality(S) <= Cardinality(Copies)
              /\ Cardinality(S) \in Nat
          BY <1>a, <3>2, CardSwap
        <4>2. Copies' \subseteq S
          BY <3>2
        <4> HIDE DEF S
        <4>3. /\ IsFiniteSet(Copies') /\ Cardinality(Copies') <= Cardinality(S)
              /\ Cardinality(Copies') \in Nat
          BY <4>1, <4>2, CardSub
        <4> QED
          BY <1>a, <4>1, <4>3
      <3> QED
        BY <2>5, <3>1, <3>2
    <2> QED
      BY <1>a, <2>6, <2>7
  <1> QED
    BY <1>1, <1>2, <1>3

LEMMA Timers ==
  ASSUME SecretsInv, [Next]_vars,
         ~ \E t \in tasks : Revealed(t) \/ WriteClipboard(t)
  PROVE  /\ IsFiniteSet(hides') /\ Cardinality(hides') <= Cardinality(hides)
         /\ IsFiniteSet(clears') /\ Cardinality(clears') <= Cardinality(clears)
         /\ Cardinality(hides') \in Nat /\ Cardinality(clears') \in Nat
  <1>a. /\ IsFiniteSet(hides) /\ IsFiniteSet(clears)
        /\ Cardinality(hides) \in Nat /\ Cardinality(clears) \in Nat
    BY Limits DEF SecretsInv, CountInv
  <1>1. CASE Tick
    <2> DEFINE f == [t \in hides |-> [t EXCEPT !.left = @ - 1]]
               g == [c \in clears |-> [c EXCEPT !.left = @ - 1]]
    <2>1. f \in [hides -> hides'] /\ hides' = {f[t] : t \in hides}
      BY <1>1 DEF Tick
    <2>2. g \in [clears -> clears'] /\ clears' = {g[c] : c \in clears}
      BY <1>1 DEF Tick
    <2> HIDE DEF f, g
    <2>3. /\ IsFiniteSet(hides') /\ Cardinality(hides') <= Cardinality(hides)
          /\ Cardinality(hides') \in Nat
      BY <1>a, <2>1, CardImage
    <2>4. /\ IsFiniteSet(clears') /\ Cardinality(clears') <= Cardinality(clears)
          /\ Cardinality(clears') \in Nat
      BY <1>a, <2>2, CardImage
    <2> QED
      BY <2>3, <2>4
  <1>2. CASE hides' \subseteq hides /\ clears' \subseteq clears
    <2>1. /\ IsFiniteSet(hides') /\ Cardinality(hides') <= Cardinality(hides)
          /\ Cardinality(hides') \in Nat
      BY <1>a, <1>2, CardSub
    <2>2. /\ IsFiniteSet(clears') /\ Cardinality(clears') <= Cardinality(clears)
          /\ Cardinality(clears') \in Nat
      BY <1>a, <1>2, CardSub
    <2> QED
      BY <2>1, <2>2
  <1>3. ASSUME NEW c \in clears, ReadClipboard(c), ~(clears' \subseteq clears)
        PROVE  /\ IsFiniteSet(hides') /\ Cardinality(hides') <= Cardinality(hides)
               /\ IsFiniteSet(clears') /\ Cardinality(clears') <= Cardinality(clears)
               /\ Cardinality(hides') \in Nat /\ Cardinality(clears') \in Nat
    <2>1. hides' = hides
      BY <1>3 DEF ReadClipboard, reveal
    <2>2. clears' = (clears \ {c}) \cup {[c EXCEPT !.due = TRUE]}
      BY <1>3 DEF ReadClipboard, ToBlank, Replace
    <2>3. /\ IsFiniteSet(clears') /\ Cardinality(clears') <= Cardinality(clears)
          /\ Cardinality(clears') \in Nat
      BY <1>a, <2>2, CardSwap
    <2> QED
      BY <1>a, <2>1, <2>3
  <1>4. ASSUME NEW c \in clears, ReadClipboard(c) PROVE hides' \subseteq hides
    BY <1>4 DEF ReadClipboard, reveal
  <1>5. ASSUME ClearPlaintext, clears' = clears
        PROVE  hides' \subseteq hides /\ clears' \subseteq clears
    BY <1>5 DEF ClearPlaintext
  <1>6. \/ Tick
        \/ \E c \in clears : ReadClipboard(c)
        \/ hides' \subseteq hides /\ clears' \subseteq clears
    <2>1. ASSUME NEW e \in Entries,
                 ToggleReveal(e) \/ Copy(e) \/ OpenEdit(e) \/ EditedElsewhere(e)
          PROVE  hides' \subseteq hides /\ clears' \subseteq clears
      BY <1>5, <2>1 DEF ToggleReveal, Copy, OpenEdit, EditedElsewhere, reveal, clipboard
    <2>2. ASSUME NEW t \in tasks, Decrypted(t) \/ TaskFails(t) \/ Copied(t)
          PROVE  hides' \subseteq hides /\ clears' \subseteq clears
      BY <2>2 DEF Decrypted, TaskFails, Copied, clipboard
    <2>3. ASSUME HideAll \/ Saved \/ KeyCleared \/ Unmount
          PROVE  hides' \subseteq hides /\ clears' \subseteq clears
      <3>1. clears' = clears
        BY <2>3 DEF HideAll, Saved, KeyCleared, Unmount, clipboard
      <3>2. ClearPlaintext \/ hides' = hides
        BY <2>3 DEF HideAll, Saved, KeyCleared, Unmount
      <3> QED
        BY <1>5, <3>1, <3>2
    <2>4. ASSUME Leave PROVE hides' \subseteq hides /\ clears' \subseteq clears
      BY <2>4 DEF Leave
    <2> QED
      BY <2>1, <2>2, <2>3, <2>4 DEF Next, vars, reveal, clipboard, HideTimer,
         BlankClipboard, UserCopies, Filled, FillFails, TypeValue, CloseEdit, Submit,
         SaveFails, Mount
  <1> QED
    BY <1>1, <1>2, <1>3, <1>4, <1>6

(* A timer is set where a task of its kind ends, or has no more to do.     *)
LEMMA CountKept == SecretsInv /\ [Next]_vars => CountInv'
  <1> SUFFICES ASSUME SecretsInv, [Next]_vars PROVE CountInv'
    OBVIOUS
  <1>a. /\ IsFiniteSet(hides) /\ IsFiniteSet(clears)
        /\ IsFiniteSet(Reveals) /\ IsFiniteSet(Copies)
        /\ Cardinality(hides) \in Nat /\ Cardinality(clears) \in Nat
        /\ Cardinality(Reveals) \in Nat /\ Cardinality(Copies) \in Nat
        /\ Cardinality(Reveals) + Cardinality(hides) <= acts
        /\ Cardinality(Copies) + Cardinality(clears) <= acts
        /\ acts \in Nat /\ acts' \in Nat /\ acts' >= acts
    BY Limits, Stepwise DEF SecretsInv, CountInv
  <1>b. IsFiniteSet(tasks') /\ Cardinality(tasks') <= acts'
    BY TasksCounted
  <1>1. CASE ~ \E t \in tasks : Revealed(t) \/ WriteClipboard(t)
    <2>1. tasks' \subseteq tasks \/ Begun \/ \E t \in tasks : Decrypted(t)
      BY <1>1, Stepwise
    <2>2. /\ Cardinality(Reveals') \in Nat /\ Cardinality(Copies') \in Nat
          /\ Cardinality(Reveals') + (acts - acts') <= Cardinality(Reveals)
          /\ Cardinality(Copies') + (acts - acts') <= Cardinality(Copies)
      BY <2>1, KindsCounted
    <2>3. /\ IsFiniteSet(hides') /\ Cardinality(hides') <= Cardinality(hides)
          /\ IsFiniteSet(clears') /\ Cardinality(clears') <= Cardinality(clears)
          /\ Cardinality(hides') \in Nat /\ Cardinality(clears') \in Nat
      BY <1>1, Timers
    <2>4. /\ Cardinality(Reveals') + Cardinality(hides') <= acts'
          /\ Cardinality(Copies') + Cardinality(clears') <= acts'
      BY <1>a, <2>2, <2>3
    <2> QED
      BY <1>b, <2>3, <2>4 DEF CountInv
  <1>2. ASSUME NEW t \in tasks, Revealed(t) PROVE CountInv'
    <2>1. /\ t.kind = "reveal" /\ tasks' = tasks \ {t} /\ clears' = clears
          /\ acts' = acts
      BY <1>2 DEF Revealed, clipboard, bounds
    <2>2. PICK x \in hides' : hides' = hides \cup {x}
      BY <1>2 DEF Revealed, ScheduleHide
    <2>3. t \in Reveals /\ Reveals' = Reveals \ {t} /\ Copies' \subseteq Copies
      BY <2>1 DEF Reveals, Copies
    <2>4. Cardinality(Reveals') = Cardinality(Reveals) - 1 /\ Cardinality(Reveals') \in Nat
      BY <1>a, <2>3, CardDrop
    <2>5. /\ IsFiniteSet(hides') /\ Cardinality(hides') <= Cardinality(hides) + 1
          /\ Cardinality(hides') \in Nat
      BY <1>a, <2>2, CardAdd
    <2>6. Cardinality(Copies') <= Cardinality(Copies) /\ Cardinality(Copies') \in Nat
      BY <1>a, <2>3, CardSub
    <2>7. /\ Cardinality(Reveals') + Cardinality(hides') <= acts'
          /\ Cardinality(Copies') + Cardinality(clears') <= acts'
      BY <1>a, <2>1, <2>4, <2>5, <2>6
    <2> QED
      BY <1>a, <1>b, <2>1, <2>5, <2>7 DEF CountInv
  <1>3. ASSUME NEW t \in tasks, WriteClipboard(t) PROVE CountInv'
    <2> DEFINE u == [t EXCEPT !.at = "marking"]
    <2>1. t \in Task /\ t.kind = "copy" /\ t.at = "writing"
      BY <1>3 DEF WriteClipboard, SecretsInv, TasksInv
    <2>2. u.kind = "copy" /\ u.at = "marking"
      BY <2>1 DEF Task
    <2>3. tasks' = (tasks \ {t}) \cup {u} /\ hides' = hides /\ acts' = acts
      BY <1>3 DEF WriteClipboard, Replace, bounds
    <2>4. PICK x \in clears' : clears' = clears \cup {x}
      BY <1>3 DEF WriteClipboard
    <2> HIDE DEF u
    <2>5. t \in Copies /\ Copies' = Copies \ {t} /\ Reveals' \subseteq Reveals
      BY <2>1, <2>2, <2>3 DEF Reveals, Copies
    <2>6. Cardinality(Copies') = Cardinality(Copies) - 1 /\ Cardinality(Copies') \in Nat
      BY <1>a, <2>5, CardDrop
    <2>7. /\ IsFiniteSet(clears') /\ Cardinality(clears') <= Cardinality(clears) + 1
          /\ Cardinality(clears') \in Nat
      BY <1>a, <2>4, CardAdd
    <2>8. Cardinality(Reveals') <= Cardinality(Reveals) /\ Cardinality(Reveals') \in Nat
      BY <1>a, <2>5, CardSub
    <2>9. /\ Cardinality(Reveals') + Cardinality(hides') <= acts'
          /\ Cardinality(Copies') + Cardinality(clears') <= acts'
      BY <1>a, <2>3, <2>6, <2>7, <2>8
    <2> QED
      BY <1>a, <1>b, <2>3, <2>7, <2>9 DEF CountInv
  <1> QED
    BY <1>1, <1>2, <1>3

-----------------------------------------------------------------------------
(* Theorems                                                                *)

LEMMA SecretsInit == Init => SecretsInv
  <1> SUFFICES ASSUME Init PROVE SecretsInv
    OBVIOUS
  <1> USE BoundsAssumption
  <1>1. ValueInv
    BY DEF Init, ValueInv, Value
  <1>2. HidesInv /\ TasksInv
    BY DEF Init, HidesInv, TasksInv
  <1>3. ClipInv
    BY DEF Init, ClipInv, Clip
  <1>4. FormInv
    BY DEF Init, FormInv
  <1>5. CountInv
    <2>1. tasks = {} /\ hides = {} /\ clears = {} /\ acts = 0
      BY DEF Init
    <2>2. Reveals = {} /\ Copies = {}
      BY <2>1 DEF Reveals, Copies
    <2> QED
      BY <2>1, <2>2, FS_EmptySet DEF CountInv
  <1> QED
    BY <1>1, <1>2, <1>3, <1>4, <1>5 DEF SecretsInv

LEMMA SecretsStep == SecretsInv /\ [Next]_vars => SecretsInv'
  BY ValueKept, HidesKept, TasksKept, ClipKept, FormKept, CountKept DEF SecretsInv

THEOREM SecretsKept == Spec => []SecretsInv
  BY SecretsInit, SecretsStep, PTL DEF Spec

(* Every variable keeps its type.  A free number is left for the timer of  *)
(* every reveal and of every copy, however they overlap.                   *)
THEOREM SecretsTypesKept == Spec => []TypeOK
  BY SecretsKept, SecretsTypes, PTL

(* A revealed value is off the screen ClearAfter later (toggleReveal): it  *)
(* has a timer of its own that is due by then, though autoHideTimerRef     *)
(* may have forgotten it.                                                  *)
THEOREM RevealsAreHidden == Spec => []ShownBounded
  <1>1. SecretsInv => ShownBounded
    <2> SUFFICES ASSUME SecretsInv, shown # None PROVE shown.age <= ClearAfter
      BY DEF ShownBounded
    <2>1. PICK t \in hides : t.left + shown.age <= ClearAfter
      BY DEF SecretsInv, HidesInv
    <2>2. t.left \in Nat /\ shown.age \in Nat
      BY DEF SecretsInv, HidesInv, Hide, Shown
    <2> QED
      BY <2>1, <2>2, BoundsAssumption
  <1> QED
    BY <1>1, SecretsKept, PTL

(* While the page that copied it stays open, a copied secret is out of the *)
(* clipboard ClearAfter after it was last copied, or the browser refused   *)
(* to blank it (copyTextWithAutoClear); a lock or a change of the screen   *)
(* meanwhile changes nothing.  Of a page that was reloaded or closed it    *)
(* says nothing: CopiesCleared, which does, fails.                         *)
THEOREM CopiesAreBlanked == Spec => []CopiedBounded
  <1>1. SecretsInv => CopiedBounded
    <2> SUFFICES ASSUME SecretsInv, clip.text \notin {Foreign, Blank}, ~clip.stuck,
                        ~clip.left
                 PROVE  clip.age <= ClearAfter
      BY DEF CopiedBounded
    <2>1. PICK c \in clears : c.left + clip.age <= ClearAfter
      BY DEF SecretsInv, ClipInv
    <2>2. c.left \in Nat /\ clip.age \in Nat
      BY DEF SecretsInv, ClipInv, Clear, Clip
    <2> QED
      BY <2>1, <2>2, BoundsAssumption
  <1> QED
    BY <1>1, SecretsKept, PTL

(* Only a PATCH for which somebody typed a value changes the stored one    *)
(* (applyEditKeyValue): without a key stroke the form has what was         *)
(* decrypted, and nothing is sent.                                         *)
THEOREM EditsKeepValues == Spec => EditKeepsValue
  <1> DEFINE Kept == \A e \in Entries : value'[e] # value[e] =>
               drawn' # drawn \/ (saving # None /\ saving.entry = e /\ saving.touched)
  <1>1. ASSUME SecretsInv, [Next]_vars PROVE [Kept]_vars
    <2> SUFFICES ASSUME NEW e \in Entries, value'[e] # value[e], drawn' = drawn
                 PROVE  saving # None /\ saving.entry = e /\ saving.touched
      OBVIOUS
    <2>a. /\ drawn \in Nat /\ value \in [Entries -> Value]
          /\ saving # None => saving \in Saving
      BY <1>1, BoundsAssumption DEF SecretsInv, ValueInv, FormInv
    <2>1. Saved \/ SaveFails
      <3>1. ~ \E f \in Entries : EditedElsewhere(f)
        BY <2>a DEF EditedElsewhere
      <3>2. value' # value
        OBVIOUS
      <3> QED
        BY <1>1, <3>1, <3>2 DEF Next, vars, values, ToggleReveal, Copy, OpenEdit,
           Decrypted, TaskFails, Revealed, WriteClipboard, Copied, HideTimer,
           ReadClipboard, BlankClipboard, HideAll, UserCopies, Filled, FillFails,
           TypeValue, CloseEdit, Submit, KeyCleared, Unmount, Leave, Mount, Tick
    <2>2. saving # None /\ value' = Stored(value, saving)
      BY <2>1 DEF Saved, SaveFails
    <2>3. saving.cipher # None /\ saving.entry = e
      BY <2>a, <2>2 DEF Stored, Saving
    <2> QED
      BY <1>1, <2>2, <2>3 DEF SecretsInv, FormInv
  <1> QED
    BY <1>1, SecretsKept, PTL DEF Spec, EditKeepsValue
=============================================================================
