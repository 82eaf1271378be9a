----------------------------- MODULE EgoDelivery -----------------------------
(***************************************************************************)
(* What the Ego ingestion pipeline promises, without its queue, its batch  *)
(* and its goroutines: a bounded first-in first-out buffer in front of a   *)
(* table.  An event offered to it is taken or turned away at once; the     *)
(* events taken leave the buffer from the front, some at a time, and each  *)
(* group is stored as a whole or lost as a whole.  Shutting down settles   *)
(* every event that was in the buffer when it was asked for.               *)
(*                                                                         *)
(* EgoWorker implements this specification.                                *)
(***************************************************************************)
EXTENDS Naturals, Sequences, FiniteSets

CONSTANTS Events,  \* the usage records the host may hand over
          Cap      \* how many events the buffer may hold

VARIABLES offered,  \* events already taken or turned away
          pending,  \* events taken and not settled, oldest first
          rows,     \* how many rows of the table each event has
          lost,     \* events taken whose group could not be stored
          phase,    \* "up", "stopping", "down"
          owed      \* how many events at the front must go before "down"

vars == <<offered, pending, rows, lost, phase, owed>>

Init ==
    /\ offered = {}
    /\ pending = <<>>
    /\ rows = [e \in Events |-> 0]
    /\ lost = {}
    /\ phase = "up"
    /\ owed = 0

-----------------------------------------------------------------------------
(* The caller is never made to wait: an event is taken while there is      *)
(* room, and can be turned away at any time.                               *)
Take(e) ==
    /\ e \notin offered
    /\ Len(pending) < Cap
    /\ offered' = offered \cup {e}
    /\ pending' = Append(pending, e)
    /\ UNCHANGED <<rows, lost, phase, owed>>

TurnAway(e) ==
    /\ e \notin offered
    /\ offered' = offered \cup {e}
    /\ UNCHANGED <<pending, rows, lost, phase, owed>>

Front(n) == {pending[i] : i \in 1..n}

(* The n oldest events leave the buffer together. *)
Leave(n) ==
    /\ phase # "down"
    /\ pending' = SubSeq(pending, n + 1, Len(pending))
    /\ owed' = IF owed > n THEN owed - n ELSE 0
    /\ UNCHANGED <<offered, phase>>

Store(n) ==
    /\ Leave(n)
    /\ rows' = [e \in Events |-> rows[e] + (IF e \in Front(n) THEN 1 ELSE 0)]
    /\ UNCHANGED lost

Lose(n) ==
    /\ Leave(n)
    /\ lost' = lost \cup Front(n)
    /\ UNCHANGED rows

Settle == \E n \in 1..Len(pending) : Store(n) \/ Lose(n)

(* Rows are deleted for good, whatever is still pending. *)
Erase(S) ==
    /\ rows' = [e \in Events |-> IF e \in S THEN 0 ELSE rows[e]]
    /\ UNCHANGED <<offered, pending, lost, phase, owed>>

BeginStop ==
    /\ phase = "up"
    /\ phase' = "stopping"
    /\ owed' = Len(pending)
    /\ UNCHANGED <<offered, pending, rows, lost>>

FinishStop ==
    /\ phase = "stopping"
    /\ owed = 0
    /\ phase' = "down"
    /\ UNCHANGED <<offered, pending, rows, lost, owed>>

Next ==
    \/ \E e \in Events : Take(e) \/ TurnAway(e)
    \/ Settle
    \/ \E S \in SUBSET Events : Erase(S)
    \/ BeginStop
    \/ FinishStop

Spec == Init /\ [][Next]_vars

(* Pending events do not stay pending while the pipeline is up, and a stop *)
(* that was asked for finishes.                                            *)
FairSpec == Spec /\ WF_vars(Settle) /\ WF_vars(FinishStop)
=============================================================================
