----------------------------- MODULE RowPromise -----------------------------
(***************************************************************************)
(* What a row of the resource list promises, without requests, blobs or    *)
(* events: a row is opened once and closed for good; between the two it    *)
(* shows an image only after loading it, and its mark (has-success)        *)
(* changes only when a load ends, to say how it ended.                     *)
(***************************************************************************)

CONSTANT Entity

VARIABLES
  phase,   \* "unborn", "empty", "loading", "shown", "failed" or "closed"
  mark     \* the row is marked has-success

vars == <<phase, mark>>

Init ==
  /\ phase = [e \in Entity |-> "unborn"]
  /\ mark  = [e \in Entity |-> FALSE]

Becomes(e, from, to) ==
  /\ phase[e] \in from
  /\ phase' = [phase EXCEPT ![e] = to]

Open(e) == Becomes(e, {"unborn"}, "empty") /\ UNCHANGED mark

Load(e) == Becomes(e, {"empty", "shown", "failed"}, "loading") /\ UNCHANGED mark

Show(e) == Becomes(e, {"loading"}, "shown") /\ mark' = [mark EXCEPT ![e] = TRUE]

Fail(e) == Becomes(e, {"loading"}, "failed") /\ mark' = [mark EXCEPT ![e] = FALSE]

Close(e) ==
  Becomes(e, {"empty", "loading", "shown", "failed"}, "closed") /\ UNCHANGED mark

Next == \E e \in Entity : Open(e) \/ Load(e) \/ Show(e) \/ Fail(e) \/ Close(e)

Spec == Init /\ [][Next]_vars
=============================================================================
