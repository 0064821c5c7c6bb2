------------------------------- MODULE KeyBox -------------------------------
(***************************************************************************)
(* What KeyPage promises its user, without keys, versions, sessions,       *)
(* tickets, tabs or messages: a box of secret values under one Master      *)
(* Password, and a batch of recovery codes each of which opens it once.    *)
(* KeyPage implements this specification under the mapping it states.      *)
(***************************************************************************)
EXTENDS Naturals

CONSTANTS Entry, Value, Code, Null

VARIABLES
  contents,  \* what the Master Password reads: the value of each entry
  epoch,     \* the number of Master Passwords there have been
  opening    \* the recovery codes that still open the box

boxVars == <<contents, epoch, opening>>

BoxInit ==
  /\ contents = [e \in Entry |-> Null]
  /\ epoch = 0
  /\ opening = {}

(* Setting, changing or recovering the Master Password hands out a full    *)
(* batch of codes and touches no value.                                    *)
NewPassword ==
  /\ epoch' = epoch + 1
  /\ opening' = Code
  /\ UNCHANGED contents

NewCodes ==
  /\ epoch > 0
  /\ opening' = Code
  /\ UNCHANGED <<contents, epoch>>

SpendCode(c) ==
  /\ c \in opening
  /\ opening' = opening \ {c}
  /\ UNCHANGED <<contents, epoch>>

Put(e, v) ==
  /\ epoch > 0
  /\ contents' = [contents EXCEPT ![e] = v]
  /\ UNCHANGED <<epoch, opening>>

Remove(e) ==
  /\ epoch > 0
  /\ contents' = [contents EXCEPT ![e] = Null]
  /\ UNCHANGED <<epoch, opening>>

BoxNext ==
  \/ NewPassword
  \/ NewCodes
  \/ \E c \in Code : SpendCode(c)
  \/ \E e \in Entry : Remove(e) \/ \E v \in Value : Put(e, v)

BoxSpec == BoxInit /\ [][BoxNext]_boxVars

=============================================================================
