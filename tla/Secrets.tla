------------------------------- MODULE Secrets -------------------------------
(***************************************************************************)
(* Where the plaintext of a key entry goes in one tab: onto the dashboard  *)
(* (vault/useKeyEntrySecret.ts), into the clipboard (lib/clipboard.ts) and *)
(* into the form of KeyEntryModal.tsx; and how it leaves again.            *)
(*                                                                         *)
(* Reveals, copies and prefills are asynchronous, may overlap, and are not *)
(* cancelled when the key is cleared.  A tick of the clock waits until     *)
(* every timer that is due has fired; everything else takes any time.      *)
(***************************************************************************)
EXTENDS Naturals, FiniteSets

CONSTANTS
  Entries,
  ClearAfter, \* clipboardClearMs, in ticks
  MaxActs,    \* bound: what the user does
  MaxTasks,   \* bound: reveals and copies under way
  MaxTicks,   \* bound
  Foreign, Blank, \* clipboards that hold none of the secrets
  None

ASSUME BoundsAssumption ==
  /\ {ClearAfter, MaxTasks} \subseteq Nat \ {0}
  /\ {MaxActs, MaxTicks} \subseteq Nat

VARIABLES
  key,      \* is there an encryption key in memory?
  mounted,  \* is the dashboard on the screen?
  shown,    \* revealedId, revealedValue and how long they have been there
  autoHide, \* autoHideTimerRef
  hides,    \* timers of reveals that have not fired
  busy,     \* busyId
  tasks,    \* reveals and copies under way
  clip,     \* the system clipboard; did the page that wrote it fail to blank it,
            \* or leave before it could?
  clears,   \* timers of copies
  modal,    \* the edit modal
  fill,     \* its decryption under way
  saving,   \* its PATCH under way
  value,    \* per entry: the value that the server has
  seen,     \* per entry: the one that the dashboard's list has
  drawn, acts, ticks

reveal == <<shown, autoHide, hides, busy, tasks>>
clipboard == <<clip, clears>>
form == <<modal, fill, saving>>
values == <<value, seen, drawn>>
bounds == <<acts, ticks>>
vars == <<key, mounted, reveal, clipboard, form, values, bounds>>

Value == 0..MaxActs
Secret == [entry: Entries, value: Value]
Number == 1..(MaxActs + 1)

Task ==
  [n: Number, kind: {"reveal", "copy"}, secret: Secret,
   at: {"decrypting", "writing", "marking"}]
Modal ==
  [entry: Entries, prefill: {"idle", "loading", "ready", "failed"},
   original: Value \cup {None}, text: Value \cup {None}, touched: BOOLEAN,
   submitting: BOOLEAN]

TypeOK ==
  /\ key \in BOOLEAN /\ mounted \in BOOLEAN
  /\ shown \in [secret: Secret, age: 0..MaxTicks] \cup {None}
  /\ autoHide \in {t.n : t \in hides} \cup {None}
  /\ hides \subseteq [n: Number, left: 0..ClearAfter]
  /\ busy \in Entries \cup {None}
  /\ tasks \subseteq Task
  /\ clip \in [text: Secret \cup {Foreign, Blank}, age: 0..MaxTicks, stuck: BOOLEAN,
              left: BOOLEAN]
  /\ clears \subseteq [n: Number, secret: Secret, left: 0..ClearAfter, due: BOOLEAN]
  /\ modal \in Modal \cup {None}
  /\ fill \in Value \cup {None} /\ (fill # None => modal # None)
  /\ saving \in [entry: Entries, cipher: Value \cup {None}, touched: BOOLEAN,
                 live: BOOLEAN] \cup {None}
  /\ {value, seen} \subseteq [Entries -> Value]
  /\ drawn \in Value /\ acts \in 0..MaxActs /\ ticks \in 0..MaxTicks

(* None is a reference that holds nothing.                                 *)
ASSUME NoneAssumption == None \notin Modal

Init ==
  /\ key = TRUE /\ mounted = TRUE
  /\ shown = None /\ autoHide = None /\ hides = {} /\ busy = None /\ tasks = {}
  /\ clip = [text |-> Foreign, age |-> 0, stuck |-> FALSE, left |-> FALSE] /\ clears = {}
  /\ modal = None /\ fill = None /\ saving = None
  /\ value = [e \in Entries |-> 0] /\ seen = value
  /\ drawn = 0 /\ acts = 0 /\ ticks = 0

Act == acts < MaxActs /\ acts' = acts + 1 /\ UNCHANGED ticks

(* Timers and tasks are told apart by the lowest number that is free.      *)
Free(S) ==
  LET free == Number \ {s.n : s \in S}
  IN CHOOSE n \in free : \A k \in free : n <= k

Replace(S, s, new) == (S \ {s}) \cup new

-----------------------------------------------------------------------------
(* Reveal                                                                  *)

ClearPlaintext ==
  /\ shown' = None
  /\ hides' = {t \in hides : t.n # autoHide}
  /\ autoHide' = None

Button(e) == mounted /\ modal = None /\ busy # e

Begin(kind, secret, at) ==
  /\ Cardinality(tasks) < MaxTasks
  /\ tasks' = tasks \cup
       {[n |-> Free(tasks), kind |-> kind, secret |-> secret, at |-> at]}
  /\ busy' = secret.entry

Listed(e) == [entry |-> e, value |-> seen[e]]

(* Without a key decryptKeyValue throws at once.                           *)
ToggleReveal(e) ==
  /\ Act /\ Button(e)
  /\ ClearPlaintext
  /\ \/ /\ shown # None /\ shown.secret.entry = e
        /\ UNCHANGED <<busy, tasks>>
     \/ /\ ~(shown # None /\ shown.secret.entry = e) /\ key
        /\ Begin("reveal", Listed(e), "decrypting")
     \/ /\ ~(shown # None /\ shown.secret.entry = e) /\ ~key
        /\ busy' = None /\ UNCHANGED tasks
  /\ UNCHANGED <<key, mounted, clipboard, form, values>>

Decrypted(t) ==
  /\ t.at = "decrypting"
  /\ tasks' = Replace(tasks, t,
       {[t EXCEPT !.at = IF t.kind = "reveal" THEN "marking" ELSE "writing"]})
  /\ UNCHANGED <<key, mounted, shown, autoHide, hides, busy, clipboard, form, values, bounds>>

(* A decryption or a write to the clipboard that fails ends the task.      *)
TaskFails(t) ==
  /\ t.at \in {"decrypting", "writing"}
  /\ tasks' = tasks \ {t} /\ busy' = None
  /\ UNCHANGED <<key, mounted, shown, autoHide, hides, clipboard, form, values, bounds>>

(* Fault: the timer is set only after the use was recorded.                *)
ScheduleIfRecorded ==
  \/ UNCHANGED <<hides, autoHide>>
  \/ /\ hides' = hides \cup {[n |-> Free(hides), left |-> ClearAfter]}
     /\ autoHide' = Free(hides)

(* The reference forgets a timer that is still running.                    *)
ScheduleHide ==
  /\ hides' = hides \cup {[n |-> Free(hides), left |-> ClearAfter]}
  /\ autoHide' = Free(hides)

(* The use is recorded, or not: the value is shown in either case.         *)
Revealed(t) ==
  /\ t.at = "marking" /\ t.kind = "reveal"
  /\ shown' = [secret |-> t.secret, age |-> 0]
  /\ ScheduleHide
  /\ tasks' = tasks \ {t} /\ busy' = None
  /\ UNCHANGED <<key, mounted, clipboard, form, values, bounds>>

HideTimer(t) ==
  /\ t.left = 0
  /\ hides' = hides \ {t}
  /\ autoHide' = None /\ shown' = None
  /\ UNCHANGED <<key, mounted, busy, tasks, clipboard, form, values, bounds>>

(* Another view, another search, another tag.                              *)
HideAll ==
  /\ Act /\ mounted /\ modal = None
  /\ ClearPlaintext
  /\ UNCHANGED <<key, mounted, busy, tasks, clipboard, form, values>>

-----------------------------------------------------------------------------
(* Copy                                                                    *)

Copy(e) ==
  /\ Act /\ Button(e)
  /\ \/ /\ shown # None /\ shown.secret.entry = e
        /\ Begin("copy", shown.secret, "writing")
     \/ /\ ~(shown # None /\ shown.secret.entry = e) /\ key
        /\ Begin("copy", Listed(e), "decrypting")
     \/ /\ ~(shown # None /\ shown.secret.entry = e) /\ ~key
        /\ busy' = None /\ UNCHANGED tasks
  /\ UNCHANGED <<key, mounted, shown, autoHide, hides, clipboard, form, values>>

WriteClipboard(t) ==
  /\ t.at = "writing"
  /\ clip' = [text |-> t.secret, age |-> 0, stuck |-> FALSE, left |-> FALSE]
  /\ clears' = clears \cup
       {[n |-> Free(clears), secret |-> t.secret, left |-> ClearAfter, due |-> FALSE]}
  /\ tasks' = Replace(tasks, t, {[t EXCEPT !.at = "marking"]})
  /\ UNCHANGED <<key, mounted, shown, autoHide, hides, busy, form, values, bounds>>

Copied(t) ==
  /\ t.at = "marking" /\ t.kind = "copy"
  /\ tasks' = tasks \ {t} /\ busy' = None
  /\ UNCHANGED <<key, mounted, shown, autoHide, hides, clipboard, form, values, bounds>>

(* The clipboard is blanked if it holds the secret or cannot be read.      *)
ToBlank(c) ==
  IF clip.text = c.secret THEN Replace(clears, c, {[c EXCEPT !.due = TRUE]})
                          ELSE clears \ {c}

ReadClipboard(c) ==
  /\ c.left = 0 /\ ~c.due
  /\ \/ clears' = ToBlank(c)
     \/ clears' = Replace(clears, c, {[c EXCEPT !.due = TRUE]})
  /\ UNCHANGED <<key, mounted, reveal, clip, form, values, bounds>>

(* Between the two calls somebody else may have written to it.             *)
BlankClipboard(c) ==
  /\ c.due
  /\ clears' = clears \ {c}
  /\ \/ clip' = [text |-> Blank, age |-> 0, stuck |-> FALSE, left |-> FALSE]
     \/ clip' = [clip EXCEPT !.stuck = TRUE]
  /\ UNCHANGED <<key, mounted, reveal, form, values, bounds>>

UserCopies ==
  /\ Act
  /\ clip' = [text |-> Foreign, age |-> 0, stuck |-> FALSE, left |-> FALSE]
  /\ UNCHANGED <<key, mounted, reveal, clears, form, values>>

-----------------------------------------------------------------------------
(* The edit modal                                                          *)

OpenEdit(e) ==
  /\ Act /\ mounted /\ modal = None
  /\ modal' = [entry |-> e, prefill |-> IF key THEN "loading" ELSE "failed",
               original |-> None, text |-> None, touched |-> FALSE,
               submitting |-> FALSE]
  /\ fill' = IF key THEN seen[e] ELSE None
  /\ UNCHANGED <<key, mounted, reveal, clipboard, saving, values>>

Filled ==
  /\ fill # None
  /\ modal' = [modal EXCEPT !.prefill = "ready", !.original = fill,
                            !.text = fill, !.touched = FALSE]
  /\ fill' = None
  /\ UNCHANGED <<key, mounted, reveal, clipboard, saving, values, bounds>>

FillFails ==
  /\ fill # None
  /\ modal' = [modal EXCEPT !.prefill = "failed", !.original = None,
                            !.text = None, !.touched = FALSE]
  /\ fill' = None
  /\ UNCHANGED <<key, mounted, reveal, clipboard, saving, values, bounds>>

TypeValue ==
  /\ Act /\ modal # None /\ modal.prefill # "loading" /\ ~modal.submitting
  /\ drawn' = drawn + 1
  /\ modal' = [modal EXCEPT !.text = drawn', !.touched = TRUE]
  /\ UNCHANGED <<key, mounted, reveal, clipboard, fill, saving, value, seen>>

(* Fault: the decryption under way is not cancelled.                       *)
CloseEditOnly ==
  /\ modal # None /\ ~modal.submitting
  /\ modal' = None
  /\ UNCHANGED <<key, mounted, reveal, clipboard, fill, saving, values, bounds>>

(* The effect's cleanup cancels the decryption.                            *)
CloseEdit ==
  /\ modal # None /\ ~modal.submitting
  /\ modal' = None /\ fill' = None
  /\ UNCHANGED <<key, mounted, reveal, clipboard, saving, values, bounds>>

(* Fault: what the form has is sent.                                       *)
EditSendsForm == modal.text

(* The value goes along only if it differs from what was decrypted, or if  *)
(* one was entered where nothing could be.                                 *)
EditKeyValue ==
  IF modal.prefill = "ready" /\ modal.text = modal.original THEN None ELSE modal.text

Valid == modal.prefill = "ready" => modal.text # None

(* requireForWrite throws without a key.                                   *)
Submit ==
  /\ modal # None /\ ~modal.submitting /\ key /\ Valid
  /\ saving = None
  /\ saving' = [entry |-> modal.entry, cipher |-> EditKeyValue, touched |-> modal.touched,
                 live |-> TRUE]
  /\ modal' = [modal EXCEPT !.submitting = TRUE]
  /\ UNCHANGED <<key, mounted, reveal, clipboard, fill, values, bounds>>

Stored(v, s) == IF s.cipher = None THEN v ELSE [v EXCEPT ![s.entry] = s.cipher]

(* hideAll, and the modal closes.                                          *)
Saved ==
  /\ saving # None
  /\ value' = Stored(value, saving)
  /\ saving' = None
  /\ IF saving.live
     THEN /\ modal' = None /\ fill' = None
          /\ seen' = [seen EXCEPT ![saving.entry] = value'[saving.entry]]
          /\ ClearPlaintext
     ELSE UNCHANGED <<modal, fill, seen, shown, hides, autoHide>>
  /\ UNCHANGED <<key, mounted, busy, tasks, clipboard, drawn, bounds>>

(* Refused, lost, or served and its answer lost: the modal stays.          *)
SaveFails ==
  /\ saving # None
  /\ value' \in {value, Stored(value, saving)}
  /\ saving' = None
  /\ modal' = IF saving.live THEN [modal EXCEPT !.submitting = FALSE] ELSE modal
  /\ UNCHANGED <<key, mounted, reveal, clipboard, fill, seen, drawn, bounds>>

EditedElsewhere(e) ==
  /\ Act
  /\ drawn' = drawn + 1
  /\ value' = [value EXCEPT ![e] = drawn']
  /\ UNCHANGED <<key, mounted, reveal, clipboard, form, seen>>

-----------------------------------------------------------------------------
(* The tab                                                                 *)

(* The listeners of onKeyCleared; what is under way goes on.               *)
KeyCleared ==
  /\ key /\ key' = FALSE
  /\ ClearPlaintext
  /\ modal' = IF modal = None THEN None
              ELSE [modal EXCEPT !.prefill = "idle", !.original = None,
                                 !.text = None, !.touched = FALSE]
  /\ UNCHANGED <<mounted, busy, tasks, clipboard, fill, saving, values, bounds>>

(* Fault: the timers of copies end with the screen, too.                   *)
UnmountWithTimers ==
  /\ mounted /\ mounted' = FALSE
  /\ ClearPlaintext
  /\ busy' = None /\ tasks' = {t \in tasks : t.kind = "copy"}
  /\ modal' = None /\ fill' = None
  /\ clears' = {c \in clears : c.due}
  /\ saving' = IF saving = None THEN None ELSE [saving EXCEPT !.live = FALSE]
  /\ UNCHANGED <<key, clip, values, bounds>>

(* Another phase or another route: reveals find nobody, copies go on.      *)
Unmount ==
  /\ mounted /\ mounted' = FALSE
  /\ ClearPlaintext
  /\ busy' = None /\ tasks' = {t \in tasks : t.kind = "copy"}
  /\ modal' = None /\ fill' = None
  /\ saving' = IF saving = None THEN None ELSE [saving EXCEPT !.live = FALSE]
  /\ UNCHANGED <<key, clipboard, values, bounds>>

(* A reload or a close: all that the page had in memory is gone, with its  *)
(* timers.  A copied secret stays, also one whose write was under way.     *)
Leave ==
  /\ key' = FALSE /\ mounted' = FALSE
  /\ shown' = None /\ autoHide' = None /\ hides' = {} /\ busy' = None /\ tasks' = {}
  /\ clears' = {} /\ modal' = None /\ fill' = None
  /\ saving' = IF saving = None THEN None ELSE [saving EXCEPT !.live = FALSE]
  /\ \/ clip' = [clip EXCEPT !.left = clip.text \notin {Foreign, Blank}]
     \/ \E t \in tasks :
          /\ t.at = "writing"
          /\ clip' = [text |-> t.secret, age |-> 0, stuck |-> FALSE, left |-> TRUE]
  /\ UNCHANGED <<values, bounds>>

Mount ==
  /\ Act /\ ~mounted
  /\ key' = TRUE /\ mounted' = TRUE
  /\ seen' = value
  /\ UNCHANGED <<reveal, clipboard, form, value, drawn>>

Tick ==
  /\ ticks < MaxTicks /\ ticks' = ticks + 1
  /\ \A t \in hides : t.left > 0
  /\ \A c \in clears : c.left > 0
  /\ hides' = {[t EXCEPT !.left = @ - 1] : t \in hides}
  /\ clears' = {[c EXCEPT !.left = @ - 1] : c \in clears}
  /\ shown' = IF shown = None THEN None ELSE [shown EXCEPT !.age = @ + 1]
  /\ clip' = IF clip.text \in {Foreign, Blank} \/ clip.stuck THEN clip
             ELSE [clip EXCEPT !.age = @ + 1]
  /\ UNCHANGED <<key, mounted, autoHide, busy, tasks, form, values, acts>>

Next ==
  \/ \E e \in Entries : ToggleReveal(e) \/ Copy(e) \/ OpenEdit(e) \/ EditedElsewhere(e)
  \/ \E t \in tasks : Decrypted(t) \/ TaskFails(t) \/ Revealed(t)
                        \/ WriteClipboard(t) \/ Copied(t)
  \/ \E t \in hides : HideTimer(t)
  \/ \E c \in clears : ReadClipboard(c) \/ BlankClipboard(c)
  \/ HideAll \/ UserCopies
  \/ Filled \/ FillFails \/ TypeValue \/ CloseEdit \/ Submit \/ Saved \/ SaveFails
  \/ KeyCleared \/ Unmount \/ Leave \/ Mount \/ Tick

Spec == Init /\ [][Next]_vars

-----------------------------------------------------------------------------
(* A revealed value is off the screen ClearAfter later, whichever reveals  *)
(* overlapped, and also where a reveal ended after the key was cleared and *)
(* showed the value in a locked tab (toggleReveal).                        *)
ShownBounded == shown # None => shown.age <= ClearAfter

(* A copied value is out of the clipboard ClearAfter after it was last     *)
(* copied, also when the tab locked meanwhile, unless the browser refused  *)
(* the write that blanks it or the page was reloaded or closed before      *)
(* (copyTextWithAutoClear).                                                *)
CopiedBounded ==
  clip.text \notin {Foreign, Blank} /\ ~clip.stuck /\ ~clip.left =>
    clip.age <= ClearAfter

(* What the repository's README says of KEYPAGE_CLIPBOARD_CLEAR_SECONDS,   *)
(* without a word on reloads: "Seconds before copied key material is       *)
(* cleared from the clipboard".  A reload refutes it (README.md).          *)
CopiesCleared ==
  clip.text \notin {Foreign, Blank} /\ ~clip.stuck => clip.age <= ClearAfter

(* Saving an edit in which nobody typed a value leaves the stored one as   *)
(* it is, though another tab may have changed it since the modal opened    *)
(* and however far the prefill had come (applyEditKeyValue).               *)
EditKeepsValue ==
  [][\A e \in Entries : value'[e] # value[e] =>
       drawn' # drawn \/ (saving # None /\ saving.entry = e /\ saving.touched)]_vars
=============================================================================
