----------------------------- MODULE ObjectStore -----------------------------
(***************************************************************************)
(* What the Kotlin classes with an id promise about the native objects     *)
(* behind them: an object lives from the construction of its handle to the *)
(* dispose of that same handle, and nobody else destroys it.  Handles      *)
(* implements this specification.                                          *)
(***************************************************************************)
CONSTANT Handles

VARIABLE status     \* what became of the object of each handle

Init == status = [h \in Handles |-> "unborn"]

Become(h, from, to) == status[h] = from /\ status' = [status EXCEPT ![h] = to]

Create(h)  == Become(h, "unborn", "live")
Close(h)   == Become(h, "live", "closing")      \* dispose is called
Destroy(h) == Become(h, "closing", "dead")
Forget(h)  == Become(h, "dead", "unborn")       \* the handle is a new one

Next == \E h \in Handles : Create(h) \/ Close(h) \/ Destroy(h) \/ Forget(h)

Spec == Init /\ [][Next]_status
=============================================================================
