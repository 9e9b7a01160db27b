------------------------------- MODULE Mirror -------------------------------
(***************************************************************************)
(* What a component that follows the cluster through informers promises,   *)
(* whatever informers, queues and retries lie between: it keeps a view of  *)
(* the truth, entry by entry, and knows which entries may be stale.  An    *)
(* entry is brought up to date by a look at the truth and, later, by       *)
(* applying what was seen; the truth may change in between, but the entry  *)
(* stops being stale only if the view then is what the truth is.  One      *)
(* entry is looked at at a time, so what is applied to an entry was true   *)
(* after all that was applied to it before.                                *)
(***************************************************************************)
CONSTANTS Keys, Values, Absent,
          NoKey         \* no entry is being brought up to date

VARIABLES truth, view,  \* [Keys -> Values]
          stale,        \* the entries of view that may differ from truth
          looking,      \* the entry that is being brought up to date
          seen          \* what it was when it was looked at

mirrorVars == << truth, view, stale, looking, seen >>

Init ==
  /\ truth = [k \in Keys |-> Absent]
  /\ view = [k \in Keys |-> Absent]
  /\ stale = {}
  /\ looking = NoKey
  /\ seen = NoKey

\* The truth changes, or is only said to have changed.
Change(k, v) ==
  /\ truth' = [truth EXCEPT ![k] = v]
  /\ stale' = stale \cup {k}
  /\ UNCHANGED << view, looking, seen >>

Look(k) ==
  /\ looking = NoKey
  /\ k \in stale
  /\ looking' = k
  /\ seen' = truth[k]
  /\ UNCHANGED << truth, view, stale >>

\* What was seen is applied or, while the entry stays stale or already is
\* right, left alone.
Apply ==
  /\ looking # NoKey
  /\ \/ view' = [view EXCEPT ![looking] = seen]
     \/ view' = view
  /\ \/ stale' = stale
     \/ /\ stale' = stale \ {looking}
        /\ view'[looking] = truth[looking]
  /\ looking' = NoKey
  /\ seen' = NoKey
  /\ UNCHANGED truth

Next ==
  \/ \E k \in Keys, v \in Values : Change(k, v)
  \/ \E k \in Keys : Look(k)
  \/ Apply

Spec == Init /\ [][Next]_mirrorVars
=============================================================================
