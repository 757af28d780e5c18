--------------------------- MODULE MCConstruction ---------------------------
(***************************************************************************)
(* Instances of Construction for TLC: three handles share three ids, so    *)
(* ids are recycled while other handles live; two threads dispose.         *)
(***************************************************************************)
EXTENDS Construction, TLC

CONSTANTS h1, h2, h3, t1, t2

\* Each handle has one thread that disposes it; t1 has two handles.
OwnerDisposes == (h1 :> {t1}) @@ (h2 :> {t1}) @@ (h3 :> {t2})

\* Both threads dispose of every handle.
EitherDisposes == [h \in Handles |-> Threads]
=============================================================================
