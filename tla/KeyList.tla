------------------------------- MODULE KeyList -------------------------------
(***************************************************************************)
(* The order of the key entries: the sort_order column that                *)
(* apps/api/src/keys/key-entry-repo.ts keeps, the copy of the list that    *)
(* vault/useKeyEntries.ts holds in the dashboard, and the drags, arrow     *)
(* keys and filters that turn one into the other.  What an entry holds,    *)
(* and whether its cipher may be written, is the business of KeyPage.      *)
(*                                                                         *)
(* The tab changes its copy by itself and asks the server at the same      *)
(* time.  A drag keeps the list it started from (startDrag's closures)     *)
(* until the pointer is released.                                          *)
(***************************************************************************)
EXTENDS Integers, FiniteSets, Sequences, SequencesExt, Functions

CONSTANTS
  Entries,   \* ids, ordered as SQLite orders them
  MaxOps,    \* bound: writes that this tab starts
  MaxOthers, \* bound: writes of another tab
  MaxMounts, \* bound: how often the dashboard is opened
  Filters,   \* what the search box and the tags of this instance let through
  None       \* no drag

ASSUME EntriesAssumption == Entries \subseteq Nat /\ IsFiniteSet(Entries)
ASSUME FiltersAssumption == Filters \subseteq SUBSET Entries
ASSUME BoundsAssumption == MaxOps \in Nat /\ MaxOthers \in Nat /\ MaxMounts \in Nat

VARIABLES
  rank,     \* sort_order of every stored entry
  used,     \* ids that were ever stored: a new entry draws another one
  screen,   \* "off": not mounted; otherwise useKeyEntries' status
  list,     \* useKeyEntries' entries
  calls,    \* calls under way, with the closure that awaits the answer
  drag,     \* the pointer's drag, and the list it started from
  busy,     \* reorderBusy
  drift,    \* what has set list and server apart since list was read
  ops, others, mounts

tabVars == <<screen, list, drag, busy>>
vars == <<rank, used, tabVars, calls, drift, ops, others, mounts>>

Writes == {"create", "update", "delete", "reorder"}
Call ==
  [n: Nat, kind: Writes \cup {"list"}, id: Entries \cup {None},
   order: Seq(Entries), back: Seq(Entries), live: BOOLEAN,
   at: {"sent", "served"}]
Causes == {"elsewhere", "lost", "late", "overlap", "stale"}

-----------------------------------------------------------------------------
(* Sequences                                                               *)

(* The elements that are in S: the n-th is where n of them have passed.    *)
Passed(seq, S, k) == Cardinality({l \in 1..k : seq[l] \in S})
Filter(seq, S) ==
  [n \in 1..Passed(seq, S, Len(seq)) |->
     seq[CHOOSE k \in 1..Len(seq) : seq[k] \in S /\ Passed(seq, S, k) = n]]

-----------------------------------------------------------------------------
(* The table                                                               *)

Place(ids, id) == SelectInSeq(ids, LAMBDA i : i = id)

Stored == DOMAIN rank
Before(r, i, j) == r[i] < r[j] \/ (r[i] = r[j] /\ i < j)
Listed(r) ==
  [n \in 1..Cardinality(DOMAIN r) |->
     CHOOSE i \in DOMAIN r : Cardinality({j \in DOMAIN r : Before(r, j, i)}) = n - 1]

(* MIN(sort_order) - 1 or MAX(sort_order) + 1; 0 in an empty table.        *)
NextSortOrder(place) ==
  IF Stored = {} THEN 0
  ELSE IF place = "end" THEN Max(Range(rank)) + 1
       ELSE Min(Range(rank)) - 1

InsertEntry(i) ==
  /\ i \notin Stored
  /\ rank' = [j \in Stored \cup {i} |->
                IF j = i THEN NextSortOrder("start") ELSE rank[j]]
  /\ used' = used \cup {i}

DeleteEntry(i) ==
  /\ i \in Stored
  /\ rank' = Restrict(rank, Stored \ {i})
  /\ UNCHANGED used

(* An import skips the ids it finds and appends the others in turn.        *)
Import(ids) ==
  LET new == Filter(ids, Entries \ Stored)
  IN /\ rank' = [j \in Stored \cup ToSet(new) |->
                   IF j \in Stored THEN rank[j]
                   ELSE NextSortOrder("end") + Place(new, j) - 1]
     /\ used' = used \cup ToSet(new)

IsPermutation(ids) == IsInjective(ids) /\ ToSet(ids) = Stored

(* Fault: a list that misses entries is accepted too.                      *)
ReorderPart(ids) ==
  /\ IsInjective(ids) /\ ToSet(ids) \subseteq Stored
  /\ rank' = [j \in Stored |-> IF j \in ToSet(ids)
                               THEN Place(ids, j) - 1
                               ELSE rank[j]]
  /\ UNCHANGED used

Reorder(ids) ==
  /\ IsPermutation(ids)
  /\ rank' = [j \in Stored |-> Place(ids, j) - 1]
  /\ UNCHANGED used

-----------------------------------------------------------------------------
(* Orders                                                                  *)

(* Entries that ids does not name go last.                                 *)
ApplyOrder(current, ids) ==
  Filter(ids, ToSet(current)) \o Filter(current, Entries \ ToSet(ids))

(* Fault: the entries let through are put first.                           *)
ApplyVisibleFirst(all, visible, next) ==
  next \o Filter(all, Entries \ ToSet(visible))

(* The entries that the filter lets through take the places of one another.*)
ApplyVisibleReorder(all, visible, next) ==
  IF \/ Len(visible) # Len(next) \/ ~IsInjective(visible)
     \/ ~(ToSet(visible) \subseteq ToSet(all))
     \/ ~(ToSet(next) \subseteq ToSet(visible))
  THEN all
  ELSE [k \in DOMAIN all |->
          IF all[k] \in ToSet(visible)
          THEN next[Passed(all, ToSet(visible), k)]
          ELSE all[k]]

DropVisibleEntry(all, visible, dragged, target) ==
  LET from == Place(visible, dragged)
      to == Place(visible, target)
  IN IF dragged = target \/ from = 0 \/ to = 0 THEN all
     ELSE ApplyVisibleReorder(all, visible,
            InsertAt(RemoveAt(visible, from), to, dragged))

(* Fault: the item under the pointer stays.                                *)
ShiftBetween(from, to, index) ==
  IF from < to /\ index > from /\ index < to THEN -1
  ELSE IF from > to /\ index > to /\ index < from THEN 1
  ELSE 0

(* How far the item at index moves while the one at from hovers over to.   *)
SortableShift(from, to, index) ==
  IF from < to /\ index > from /\ index <= to THEN -1
  ELSE IF from > to /\ index >= to /\ index < from THEN 1
  ELSE 0

(* filterByQuery and filterByTags keep the order of the entries.           *)
Visible(shown) == Filter(list, shown)

-----------------------------------------------------------------------------
(* A vault whose entries are numbered from 0, as the migration that added  *)
(* sort_order and every reorder leave them; the ids are random, so their   *)
(* own order stands for any.                                               *)
Init ==
  /\ \E n \in Entries \cup {0} :
       /\ used = {i \in Entries : i <= n}
       /\ rank = [i \in used |-> Cardinality({j \in used : j < i})]
  /\ screen = "off" /\ list = <<>> /\ calls = {}
  /\ drag = None /\ busy = FALSE
  /\ drift = {} /\ ops = 0 /\ others = 0 /\ mounts = 0

(* A write that meets another one, or a list that has changed meanwhile.   *)
Meets(back) ==
  (IF \E c \in calls : c.kind \in Writes THEN {"overlap"} ELSE {})
    \cup (IF back # list THEN {"stale"} ELSE {})

FreeNumber == CHOOSE n \in 0..Cardinality(calls) : \A c \in calls : c.n # n

Send(kind, id, order, back) ==
  /\ calls' = calls \cup
       {[n |-> FreeNumber, kind |-> kind, id |-> id, order |-> order,
         back |-> back, live |-> TRUE, at |-> "sent"]}
  /\ drift' = drift \cup (IF kind \in Writes THEN Meets(back) ELSE {})

(* The dashboard of an unlocked tab mounts and reads the list.             *)
Mount ==
  /\ screen = "off" /\ mounts < MaxMounts
  /\ screen' = "loading" /\ mounts' = mounts + 1
  /\ Send("list", None, <<>>, <<>>)
  /\ UNCHANGED <<rank, used, list, drag, busy, ops, others>>

(* onKeyCleared: the view unmounts and takes its listeners along.          *)
KeyCleared ==
  /\ screen # "off"
  /\ screen' = "loading" /\ list' = <<>> /\ drag' = None
  /\ UNCHANGED <<rank, used, calls, busy, drift, ops, others, mounts>>

(* The router leaves the dashboard; answers to it find nobody.             *)
Unmount ==
  /\ screen # "off"
  /\ screen' = "off" /\ list' = <<>> /\ drag' = None /\ busy' = FALSE
  /\ calls' = {[c EXCEPT !.live = FALSE] : c \in {d \in calls : d.kind \in Writes}}
  /\ UNCHANGED <<rank, used, drift, ops, others, mounts>>

(* Only a list that is ready is rendered, with its buttons and handles.    *)
Rendered == screen = "ready"

(* The modals wait for their call, and cover the list while they are open. *)
ModalFree ==
  /\ Rendered /\ drag = None
  /\ ~\E c \in calls : c.live /\ c.kind \in Writes \ {"reorder"}

StartModal(kind, i) ==
  /\ ModalFree /\ ops < MaxOps
  /\ IF kind = "create"
     THEN i \notin used /\ ~\E c \in calls : c.kind = "create" /\ c.id = i
     ELSE i \in ToSet(list)
  /\ ops' = ops + 1
  /\ Send(kind, i, <<>>, list)
  /\ UNCHANGED <<rank, used, tabVars, others, mounts>>

(* persistOrder in a render that has seen the list `all`.                  *)
PersistOrder(all, ordered) ==
  IF Len(ordered) # Len(all) \/ ordered = all
  THEN UNCHANGED <<list, busy, calls, drift, ops>>
  ELSE /\ ops < MaxOps
       /\ ops' = ops + 1
       /\ busy' = TRUE
       /\ list' = ApplyOrder(list, ordered)
       /\ Send("reorder", None, ordered, all)

(* An arrow key on a handle.                                               *)
MoveWithKeyboard(i, delta, shown) ==
  /\ Rendered /\ ~busy
  /\ LET visible == Visible(shown)
         at == Place(visible, i)
     IN /\ at # 0 /\ at + delta \in DOMAIN visible
        /\ PersistOrder(list, DropVisibleEntry(list, visible, i, visible[at + delta]))
  /\ UNCHANGED <<rank, used, screen, drag, others, mounts>>

StartDrag(i, shown) ==
  /\ ModalFree /\ ~busy
  /\ i \in ToSet(Visible(shown))
  /\ drag' = [id |-> i, all |-> list, visible |-> Visible(shown)]
  /\ UNCHANGED <<rank, used, screen, list, busy, calls, drift, ops, others, mounts>>

(* Released: whatever has happened since, the order is that of the start.  *)
Drop(target) ==
  /\ drag # None /\ target \in ToSet(drag.visible)
  /\ PersistOrder(drag.all,
                  DropVisibleEntry(drag.all, drag.visible, drag.id, target))
  /\ drag' = None
  /\ UNCHANGED <<rank, used, screen, others, mounts>>

CancelDrag ==
  /\ drag # None
  /\ drag' = None
  /\ UNCHANGED <<rank, used, screen, list, busy, calls, drift, ops, others, mounts>>

-----------------------------------------------------------------------------
(* The server serves a call, the tab hears of it, or fails to              *)

ServeList(c) ==
  /\ c.kind = "list"
  /\ calls' = (calls \ {c}) \cup {[c EXCEPT !.at = "served", !.order = Listed(rank)]}
  /\ drift' = {}
  /\ UNCHANGED <<rank, used>>

Accepts(c) ==
  CASE c.kind = "create" -> InsertEntry(c.id)
    [] c.kind = "update" -> c.id \in Stored /\ UNCHANGED <<rank, used>>
    [] c.kind = "delete" -> DeleteEntry(c.id)
    [] c.kind = "reorder" -> Reorder(c.order)

(* Nobody waits for the answer to a call whose screen is gone.             *)
ServeWrite(c) ==
  /\ c.kind \in Writes
  /\ Accepts(c)
  /\ calls' = (calls \ {c}) \cup (IF c.live THEN {[c EXCEPT !.at = "served"]} ELSE {})
  /\ drift' = drift \cup (IF c.live THEN {} ELSE {"late"})

Serve(c) ==
  /\ c.at = "sent"
  /\ ServeList(c) \/ ServeWrite(c)
  /\ UNCHANGED <<tabVars, ops, others, mounts>>

(* reload                                                                  *)
ListAnswered(c, ok) ==
  /\ c.kind = "list"
  /\ IF ok THEN screen' = "ready" /\ list' = c.order
           ELSE screen' = "error" /\ UNCHANGED list
  /\ UNCHANGED <<drag, busy>>

Shown(c, ok) ==
  CASE ok /\ c.kind = "create" -> <<c.id>> \o list
    [] ok /\ c.kind = "delete" -> Filter(list, Entries \ {c.id})
    [] OTHER -> list

ModalAnswered(c, ok) ==
  /\ c.kind \in Writes \ {"reorder"}
  /\ list' = Shown(c, ok)
  /\ UNCHANGED <<screen, drag, busy>>

(* Fault: a refused order stays on the screen.                             *)
SettledKept(c, ok) == c.order

Settled(c, ok) == IF ok THEN c.order ELSE c.back

ReorderAnswered(c, ok) ==
  /\ c.kind = "reorder"
  /\ list' = ApplyOrder(list, Settled(c, ok))
  /\ busy' = FALSE
  /\ UNCHANGED <<screen, drag>>

(* A call fails because the server does not accept it, for that or for any *)
(* other reason, or because it or its answer is lost.                      *)
Answer(c, ok) ==
  /\ ok => c.at = "served"
  /\ calls' = calls \ {c}
  /\ \/ c.live /\ (ListAnswered(c, ok) \/ ModalAnswered(c, ok) \/ ReorderAnswered(c, ok))
     \/ ~c.live /\ UNCHANGED tabVars
  /\ drift' = drift \cup
       (IF ~ok /\ c.at = "served" /\ c.kind \in Writes THEN {"lost"} ELSE {})
  /\ UNCHANGED <<rank, used, ops, others, mounts>>

-----------------------------------------------------------------------------
(* Another tab or browser of the vault                                     *)

Elsewhere ==
  /\ others < MaxOthers /\ others' = others + 1
  /\ \/ \E i \in Entries \ used : InsertEntry(i)
     \/ \E i \in Stored : DeleteEntry(i)
     \/ \E i, j \in Entries : i # j /\ Import(<<i, j>>)
     \/ \E ids \in SetToSeqs(Stored) : Reorder(ids)
  /\ drift' = drift \cup {"elsewhere"}
  /\ UNCHANGED <<tabVars, calls, ops, mounts>>

Modal == \E kind \in Writes \ {"reorder"}, i \in Entries : StartModal(kind, i)

Pointer ==
  \/ \E i \in ToSet(list), shown \in Filters :
       \/ StartDrag(i, shown)
       \/ \E delta \in {-1, 1} : MoveWithKeyboard(i, delta, shown)
  \/ \E i \in Entries : Drop(i)
  \/ CancelDrag

Network == \E c \in calls : Serve(c) \/ \E ok \in BOOLEAN : Answer(c, ok)

Next == Mount \/ KeyCleared \/ Unmount \/ Modal \/ Pointer \/ Network \/ Elsewhere

Spec == Init /\ [][Next]_vars

-----------------------------------------------------------------------------
(* Types; besides, no two entries have the same sort_order, which leaves   *)
(* ORDER BY nothing to choose, and the dashboard shows no entry twice,     *)
(* whichever answers meet (key-entry-repo.ts, useKeyEntries.ts).           *)
TypeOK ==
  /\ rank \in [Stored -> Int] /\ Stored \subseteq used /\ used \subseteq Entries
  /\ IsInjective(rank)
  /\ screen \in {"off", "loading", "ready", "error"}
  /\ list \in Seq(Entries) /\ IsInjective(list)
  /\ calls \subseteq Call
  /\ \/ drag = None
     \/ drag.id \in ToSet(drag.visible) /\ IsInjective(drag.all)
  /\ busy \in BOOLEAN /\ drift \subseteq Causes
  /\ ops \in 0..MaxOps /\ others \in 0..MaxOthers /\ mounts \in 0..MaxMounts

(* With all answers in, the dashboard shows the entries that the server    *)
(* has, unless another tab wrote, a write's answer was lost or a write     *)
(* outlived its screen; and it shows them in the server's order, unless    *)
(* writes overlapped or one was made from a list that had changed.  It     *)
(* holds when orders are refused and rolled back (reorderKeyEntries).      *)
InStep ==
  screen = "ready" /\ ~(\E c \in calls : c.live \/ c.kind \in Writes) =>
    /\ drift \cap {"elsewhere", "lost", "late"} = {} => ToSet(list) = Stored
    /\ drift = {} => list = Listed(rank)

DropOn(target) == DropVisibleEntry(drag.all, drag.visible, drag.id, target)

(* A drop moves no entry that the filter hides and loses none, from        *)
(* however old a list it is made (applyVisibleReorder)...                  *)
HiddenStay ==
  drag # None => \A target \in ToSet(drag.visible) :
    /\ Len(DropOn(target)) = Len(drag.all)
    /\ ToSet(DropOn(target)) = ToSet(drag.all)
    /\ \A k \in DOMAIN drag.all : drag.all[k] \notin ToSet(drag.visible) =>
         DropOn(target)[k] = drag.all[k]

(* ... and while the pointer hovers, every item sits where the drop would  *)
(* put it: sortableShift and dropVisibleEntry, two pieces of code, agree.  *)
PreviewMatchesDrop ==
  drag # None => \A target \in ToSet(drag.visible) :
    LET after == Filter(DropOn(target), ToSet(drag.visible))
        from == Place(drag.visible, drag.id)
        to == Place(drag.visible, target)
    IN \A k \in DOMAIN drag.visible :
         after[IF k = from THEN to ELSE k + SortableShift(from, to, k)]
           = drag.visible[k]

(* A drop does what the list shows while the pointer hovers, and nothing   *)
(* else (sortableShift, dropVisibleEntry, applyVisibleReorder).            *)
DropAsPreviewed == HiddenStay /\ PreviewMatchesDrop
=============================================================================
