--------------------------- MODULE HandlesProofs ---------------------------
(***************************************************************************)
(* Handles and recycled ids, proved for any number of handles, threads and *)
(* ids: as long as one thread disposes each handle, a live handle owns the *)
(* native object its id leads to and no object is left behind.             *)
(*                                                                         *)
(* The invariant: two threads never dispose the same handle, because both  *)
(* would be its one disposer (DisposersAreApart); the rest follows from    *)
(* ids being keys of the registry exactly while their handles are live.    *)
(***************************************************************************)
EXTENDS Handles, TLAPS

DisposingOK ==
  /\ \A h \in Handles : isDisposed[h] => id[h] # 0
  /\ \A t \in Threads : pc[t] # "idle" =>
       id[on[t]] # 0 /\ ~ isDisposed[on[t]] /\ t \in MayDispose[on[t]]

IInv ==
  /\ TypeOK
  /\ LiveHandleOwnsItsObject /\ EntriesAreOwned
  /\ DisposingOK

LEMMA InitIInv == Init => IInv
<1> SUFFICES ASSUME Init PROVE IInv
  OBVIOUS
<1> USE DEF Init
<1>1. TypeOK
  BY DEF TypeOK
<1>2. LiveHandleOwnsItsObject
  BY DEF LiveHandleOwnsItsObject, IsLive
<1>3. EntriesAreOwned
  BY DEF EntriesAreOwned, Keys
<1>4. DisposingOK
  BY DEF DisposingOK
<1> QED
  BY <1>1, <1>2, <1>3, <1>4 DEF IInv

\* Two threads never dispose the same handle.
LEMMA DisposersAreApart ==
  ASSUME SingleDisposer, TypeOK, DisposingOK,
         NEW t \in Threads, NEW u \in Threads,
         pc[t] # "idle", pc[u] # "idle", on[t] = on[u]
  PROVE  t = u
BY DEF SingleDisposer, TypeOK, DisposingOK

\* An entry that is neither free nor an orphan belongs to a handle.
LEMMA EntryIsHandle ==
  ASSUME TypeOK, NEW k \in Keys \ Orphans
  PROVE  k \in Ids /\ registry[k] \in Handles
BY DEF TypeOK, Keys, Orphans

LEMMA NewIInv ==
  ASSUME IInv, NEW h \in Handles, NEW k \in Ids, New(h, k)
  PROVE  IInv'
<1> USE DEF IInv
<1>1. /\ id[h] = 0 /\ registry[k] = Nobody
      /\ registry' = [registry EXCEPT ![k] = h] /\ id' = [id EXCEPT ![h] = k]
      /\ UNCHANGED <<isDisposed, pc, on, disposals>>
  BY DEF New, Insert, Free, IsMissingKey, Keys
<1>2. TypeOK'
  BY <1>1 DEF TypeOK
<1>3. k # 0 /\ ~ isDisposed[h] /\ \A t \in Threads : pc[t] # "idle" => on[t] # h
  BY <1>1 DEF DisposingOK, Ids
<1>4. DisposingOK'
  BY <1>1, <1>3 DEF TypeOK, DisposingOK
<1>5. IsLive(h)' /\ \A g \in Handles \ {h} : IsLive(g)' <=> IsLive(g)
  BY <1>1, <1>3 DEF TypeOK, IsLive, Disposing
<1>6. LiveHandleOwnsItsObject'
  <2> SUFFICES ASSUME NEW g \in Handles, IsLive(g)'
               PROVE  registry'[id'[g]] = g
    BY DEF LiveHandleOwnsItsObject
  <2>1. CASE g = h
    BY <1>1, <2>1 DEF TypeOK
  <2>2. CASE g # h
    <3>1. IsLive(g) /\ id'[g] = id[g] /\ id[g] \in Ids /\ registry[id[g]] = g
      BY <1>1, <1>5, <2>2 DEF TypeOK, IsLive, LiveHandleOwnsItsObject
    <3>2. id[g] # k
      BY <1>1, <3>1, SentinelAssumption
    <3> QED
      BY <1>1, <3>1, <3>2 DEF TypeOK
  <2> QED
    BY <2>1, <2>2
<1>7. EntriesAreOwned'
  <2> SUFFICES ASSUME NEW j \in (Keys \ Orphans)'
               PROVE  id'[registry'[j]] = j /\ IsLive(registry[j])'
    BY DEF EntriesAreOwned
  <2>1. CASE j = k
    BY <1>1, <1>5, <2>1 DEF TypeOK
  <2>2. CASE j # k
    <3>1. j \in Keys \ Orphans /\ registry'[j] = registry[j]
      BY <1>1, <2>2 DEF TypeOK, Keys, Orphans
    <3>2. registry[j] \in Handles /\ id[registry[j]] = j /\ IsLive(registry[j]) /\ j # 0
      BY <3>1, EntryIsHandle DEF EntriesAreOwned, Ids
    <3>3. registry[j] # h
      BY <1>1, <3>2
    <3> QED
      BY <1>1, <1>5, <3>1, <3>2, <3>3 DEF TypeOK
  <2> QED
    BY <2>1, <2>2
<1> QED
  BY <1>2, <1>4, <1>6, <1>7

LEMMA NewFailsIInv ==
  ASSUME IInv, NEW h \in Handles, NEW k \in Ids, NewFails(h, k)
  PROVE  IInv'
<1> USE DEF IInv
<1>1. /\ registry[k] = Nobody
      /\ registry' = [registry EXCEPT ![k] = Orphan]
      /\ UNCHANGED <<id, isDisposed, pc, on, disposals>>
  BY DEF NewFails, Throw, Free, IsMissingKey, Keys
<1>2. TypeOK'
  BY <1>1 DEF TypeOK
<1>3. DisposingOK'
  BY <1>1 DEF DisposingOK
<1>4. \A g \in Handles : IsLive(g)' <=> IsLive(g)
  BY <1>1 DEF IsLive, Disposing
<1>5. LiveHandleOwnsItsObject'
  BY <1>1, <1>4, SentinelAssumption DEF TypeOK, LiveHandleOwnsItsObject, IsLive
<1>6. EntriesAreOwned'
  <2> SUFFICES ASSUME NEW j \in (Keys \ Orphans)'
               PROVE  id'[registry'[j]] = j /\ IsLive(registry[j])'
    BY DEF EntriesAreOwned
  <2>1. j \in Keys \ Orphans /\ registry'[j] = registry[j]
    BY <1>1 DEF TypeOK, Keys, Orphans
  <2> QED
    BY <1>1, <1>4, <2>1, EntryIsHandle DEF EntriesAreOwned
<1> QED
  BY <1>2, <1>3, <1>5, <1>6

LEMMA CheckNotDisposedIInv ==
  ASSUME IInv, NEW t \in Threads, NEW h \in Handles, CheckNotDisposed(t, h)
  PROVE  IInv'
<1> USE DEF IInv
<1>1. /\ pc[t] = "idle" /\ id[h] # 0 /\ t \in MayDispose[h] /\ ~ isDisposed[h]
      /\ pc' = [pc EXCEPT ![t] = "checked"] /\ on' = [on EXCEPT ![t] = h]
      /\ UNCHANGED <<registry, id, isDisposed, disposals>>
  BY DEF CheckNotDisposed
<1>2. TypeOK'
  BY <1>1 DEF TypeOK
<1>3. \A g \in Handles, u \in Threads :
        Disposing(u, g, "erased")' <=> Disposing(u, g, "erased")
  BY <1>1 DEF TypeOK, Disposing
<1>4. DisposingOK'
  BY <1>1 DEF TypeOK, DisposingOK
<1>5. \A g \in Handles : IsLive(g)' <=> IsLive(g)
  BY <1>1, <1>3 DEF IsLive
<1>6. LiveHandleOwnsItsObject'
  BY <1>1, <1>5 DEF LiveHandleOwnsItsObject
<1>7. EntriesAreOwned'
  BY <1>1, <1>5, EntryIsHandle DEF EntriesAreOwned, Keys, Orphans
<1> QED
  BY <1>2, <1>4, <1>6, <1>7

LEMMA DisposeImplementationIInv ==
  ASSUME SingleDisposer, IInv, NEW t \in Threads, DisposeImplementation(t)
  PROVE  IInv'
<1> USE DEF IInv
<1>0. PICK h \in Handles : on[t] = h
  BY DEF TypeOK
<1>1. /\ pc[t] = "checked" /\ pc' = [pc EXCEPT ![t] = "erased"]
      /\ registry' = [registry EXCEPT ![id[h]] = Nobody]
      /\ disposals' = [disposals EXCEPT ![h] = @ + 1]
      /\ UNCHANGED <<id, isDisposed, on>>
  BY <1>0 DEF DisposeImplementation
<1>2. h \in Handles /\ id[h] \in Ids /\ ~ isDisposed[h]
  BY <1>0, <1>1 DEF TypeOK, DisposingOK
<1>3. TypeOK'
  BY <1>0, <1>1, <1>2 DEF TypeOK
<1>4. \A u \in Threads : ~ Disposing(u, h, "erased")
  BY <1>0, <1>1, DisposersAreApart DEF Disposing
<1>5. IsLive(h) /\ registry[id[h]] = h
  BY <1>2, <1>4 DEF IsLive, LiveHandleOwnsItsObject, Ids
<1>6. Disposing(t, h, "erased")' /\ ~ IsLive(h)'
  BY <1>0, <1>1 DEF TypeOK, Disposing, IsLive
<1>7. \A g \in Handles \ {h}, u \in Threads :
        Disposing(u, g, "erased")' <=> Disposing(u, g, "erased")
  BY <1>0, <1>1 DEF TypeOK, Disposing
<1>8. \A g \in Handles \ {h} : IsLive(g)' <=> IsLive(g)
  BY <1>0, <1>1, <1>7 DEF IsLive
<1>9. DisposingOK'
  BY <1>0, <1>1 DEF TypeOK, DisposingOK
<1>10. LiveHandleOwnsItsObject'
  <2> SUFFICES ASSUME NEW g \in Handles, IsLive(g)'
               PROVE  registry'[id[g]] = g
    BY <1>0, <1>1 DEF LiveHandleOwnsItsObject
  <2>1. g # h /\ registry[id[g]] = g /\ id[g] \in Ids
    BY <1>6, <1>8 DEF LiveHandleOwnsItsObject, IsLive, TypeOK
  <2>2. id[g] # id[h]
    BY <1>5, <2>1
  <2> QED
    BY <1>0, <1>1, <2>1, <2>2 DEF TypeOK
<1>11. EntriesAreOwned'
  <2> SUFFICES ASSUME NEW j \in (Keys \ Orphans)'
               PROVE  id'[registry'[j]] = j /\ IsLive(registry[j])'
    BY DEF EntriesAreOwned
  <2>1. j \in Keys \ Orphans /\ j # id[h] /\ registry'[j] = registry[j]
    BY <1>0, <1>1, <1>2 DEF TypeOK, Keys, Orphans
  <2>2. registry[j] \in Handles /\ id[registry[j]] = j /\ IsLive(registry[j])
    BY <2>1, EntryIsHandle DEF EntriesAreOwned
  <2> QED
    BY <1>0, <1>1, <1>8, <2>1, <2>2
<1> QED
  BY <1>3, <1>9, <1>10, <1>11

LEMMA MarkDisposedIInv ==
  ASSUME SingleDisposer, IInv, NEW t \in Threads, MarkDisposed(t)
  PROVE  IInv'
<1> USE DEF IInv
<1>0. PICK h \in Handles : on[t] = h
  BY DEF TypeOK
<1>1. /\ pc[t] = "erased" /\ pc' = [pc EXCEPT ![t] = "idle"]
      /\ isDisposed' = [isDisposed EXCEPT ![h] = TRUE]
      /\ UNCHANGED <<registry, id, on, disposals>>
  BY <1>0 DEF MarkDisposed
<1>2. h \in Handles /\ id[h] # 0
  BY <1>0, <1>1 DEF TypeOK, DisposingOK
<1>3. TypeOK'
  BY <1>0, <1>1 DEF TypeOK
<1>4. DisposingOK'
  <2>1. \A u \in Threads \ {t} : pc[u] # "idle" => on[u] # h
    BY <1>0, <1>1, DisposersAreApart
  <2> QED
    BY <1>0, <1>1, <1>2, <2>1 DEF TypeOK, DisposingOK
<1>5. \A g \in Handles \ {h}, u \in Threads :
        Disposing(u, g, "erased")' <=> Disposing(u, g, "erased")
  BY <1>0, <1>1 DEF TypeOK, Disposing
<1>6. ~ IsLive(h) /\ ~ IsLive(h)' /\ \A g \in Handles \ {h} : IsLive(g)' <=> IsLive(g)
  BY <1>0, <1>1, <1>2, <1>5 DEF TypeOK, IsLive, Disposing
<1>7. LiveHandleOwnsItsObject'
  BY <1>0, <1>1, <1>6 DEF LiveHandleOwnsItsObject
<1>8. EntriesAreOwned'
  BY <1>0, <1>1, <1>6, EntryIsHandle DEF EntriesAreOwned, Keys, Orphans
<1> QED
  BY <1>3, <1>4, <1>7, <1>8

LEMMA CollectIInv ==
  ASSUME IInv, NEW h \in Handles, Collect(h)
  PROVE  IInv'
<1> USE DEF IInv
<1>1. /\ isDisposed[h] /\ \A t \in Threads : pc[t] # "idle" => on[t] # h
      /\ id' = [id EXCEPT ![h] = 0] /\ isDisposed' = [isDisposed EXCEPT ![h] = FALSE]
      /\ disposals' = [disposals EXCEPT ![h] = 0]
      /\ UNCHANGED <<registry, pc, on>>
  BY DEF Collect
<1>2. TypeOK'
  BY <1>1 DEF TypeOK
<1>3. DisposingOK'
  BY <1>1 DEF TypeOK, DisposingOK
<1>4. ~ IsLive(h) /\ ~ IsLive(h)' /\ \A g \in Handles \ {h} : IsLive(g)' <=> IsLive(g)
  BY <1>1 DEF TypeOK, IsLive, Disposing
<1>5. LiveHandleOwnsItsObject'
  BY <1>1, <1>4 DEF TypeOK, LiveHandleOwnsItsObject
<1>6. EntriesAreOwned'
  BY <1>1, <1>4, EntryIsHandle DEF TypeOK, EntriesAreOwned, Keys, Orphans
<1> QED
  BY <1>2, <1>3, <1>5, <1>6

LEMMA NextIInv ==
  ASSUME SingleDisposer, IInv, [Next]_vars
  PROVE  IInv'
<1>1. CASE Next
  BY <1>1, NewIInv, NewFailsIInv, CheckNotDisposedIInv, DisposeImplementationIInv,
     MarkDisposedIInv, CollectIInv DEF Next
<1>2. CASE UNCHANGED vars
  BY <1>2 DEF vars, IInv, TypeOK, LiveHandleOwnsItsObject, EntriesAreOwned, IsLive, Keys,
              Orphans, DisposingOK, Disposing
<1> QED
  BY <1>1, <1>2

LEMMA StepTypeOK == TypeOK /\ [Next]_vars => TypeOK'
<1> SUFFICES ASSUME TypeOK, [Next]_vars PROVE TypeOK'
  OBVIOUS
<1>1. ASSUME NEW h \in Handles, NEW k \in Ids, New(h, k) PROVE TypeOK'
  BY <1>1 DEF New, Insert, TypeOK
<1>2. ASSUME NEW h \in Handles, NEW k \in Ids, NewFails(h, k) PROVE TypeOK'
  BY <1>2 DEF NewFails, Throw, TypeOK
<1>3. ASSUME NEW t \in Threads, NEW h \in Handles, CheckNotDisposed(t, h) PROVE TypeOK'
  BY <1>3 DEF CheckNotDisposed, TypeOK
<1>4. ASSUME NEW t \in Threads, DisposeImplementation(t) PROVE TypeOK'
  <2>1. PICK h \in Handles : h = on[t]
    BY DEF TypeOK
  <2>2. /\ disposals' = [disposals EXCEPT ![h] = @ + 1]
        /\ registry' = [registry EXCEPT ![id[h]] = Nobody]
        /\ pc' = [pc EXCEPT ![t] = "erased"] /\ UNCHANGED <<id, isDisposed, on>>
    BY <1>4, <2>1 DEF DisposeImplementation
  <2>3. disposals[h] + 1 \in Nat
    BY DEF TypeOK
  <2>4. disposals' \in [Handles -> Nat]
    BY <2>2, <2>3 DEF TypeOK
  <2> QED
    BY <2>2, <2>4 DEF TypeOK
<1>5. ASSUME NEW t \in Threads, MarkDisposed(t) PROVE TypeOK'
  BY <1>5 DEF MarkDisposed, TypeOK
<1>6. ASSUME NEW h \in Handles, Collect(h) PROVE TypeOK'
  BY <1>6 DEF Collect, TypeOK
<1>7. CASE UNCHANGED vars
  BY <1>7 DEF vars, TypeOK
<1> QED
  BY <1>1, <1>2, <1>3, <1>4, <1>5, <1>6, <1>7 DEF Next

\* Types of the handles and of the registry, for every client.
THEOREM HandlesTypeOK == Spec => []TypeOK
<1>1. Init => TypeOK
  BY InitIInv DEF IInv
<1> QED
  BY <1>1, StepTypeOK, PTL DEF Spec

\* A recycled id never leads a live handle to another handle's object.
THEOREM LiveHandlesOwn == ASSUME SingleDisposer PROVE Spec => []LiveHandleOwnsItsObject
<1>1. IInv => LiveHandleOwnsItsObject
  BY DEF IInv
<1> QED
  BY InitIInv, NextIInv, <1>1, PTL DEF Spec

\* Dispose leaves no native object behind.
THEOREM NoEntryLeftBehind == ASSUME SingleDisposer PROVE Spec => []EntriesAreOwned
<1>1. IInv => EntriesAreOwned
  BY DEF IInv
<1> QED
  BY InitIInv, NextIInv, <1>1, PTL DEF Spec

-----------------------------------------------------------------------------
(* The handles implement the store of objects. *)

\* What became of the object of h, told from the handle alone.
Standing(h) ==
  IF id[h] = 0 THEN "unborn"
  ELSE IF ~ IsLive(h) THEN "dead"
  ELSE IF \E t \in Threads : Disposing(t, h, "checked") THEN "closing" ELSE "live"

\* The registry holds the object of a handle exactly while the handle is live.
LEMMA StatusIsStanding ==
  ASSUME IInv
  PROVE  Status = [h \in Handles |-> Standing(h)]
<1>1. ASSUME NEW h \in Handles, id[h] # 0
      PROVE  registry[id[h]] = h <=> IsLive(h)
  <2>1. registry[id[h]] = h => id[h] \in Keys \ Orphans
    BY <1>1, SentinelAssumption DEF IInv, TypeOK, Keys, Orphans
  <2> QED
    BY <2>1 DEF IInv, LiveHandleOwnsItsObject, EntriesAreOwned
<1> QED
  BY <1>1 DEF Status, Standing

LEMMA StatusIsStandingNext ==
  ASSUME IInv'
  PROVE  Status' = [h \in Handles |-> Standing(h)']
<1>1. ASSUME NEW h \in Handles, id'[h] # 0
      PROVE  registry'[id'[h]] = h <=> IsLive(h)'
  <2>1. registry'[id'[h]] = h => id'[h] \in (Keys \ Orphans)'
    BY <1>1, SentinelAssumption DEF IInv, TypeOK, Keys, Orphans
  <2> QED
    BY <2>1 DEF IInv, LiveHandleOwnsItsObject, EntriesAreOwned
<1> QED
  BY <1>1 DEF Status, Standing

\* A step that changes the standing of one handle is a step of its object.
LEMMA OneBecomes ==
  ASSUME IInv, IInv', NEW h \in Handles, NEW from, NEW to,
         Standing(h) = from, Standing(h)' = to,
         \A g \in Handles \ {h} : Standing(g)' = Standing(g)
  PROVE  Store!Become(h, from, to)
BY StatusIsStanding, StatusIsStandingNext DEF Store!Become

\* A step that changes the standing of none leaves the store alone.
LEMMA NoneBecomes ==
  ASSUME IInv, IInv', \A g \in Handles : Standing(g)' = Standing(g)
  PROVE  Status' = Status
BY StatusIsStanding, StatusIsStandingNext

\* While a thread disposes a handle, no other thread does.
LEMMA DisposerIsAlone ==
  ASSUME SingleDisposer, IInv, NEW t \in Threads, NEW h \in Handles, t \in MayDispose[h],
         NEW u \in Threads, pc[u] # "idle", on[u] = h
  PROVE  u = t
BY DEF SingleDisposer, IInv, DisposingOK

LEMMA NewCreates ==
  ASSUME IInv, IInv', NEW h \in Handles, NEW k \in Ids, New(h, k)
  PROVE  Store!Create(h)
<1>1. /\ id[h] = 0 /\ k # 0 /\ id' = [id EXCEPT ![h] = k]
      /\ UNCHANGED <<isDisposed, pc, on>>
  BY DEF New, Insert, Ids
<1>2. ~ isDisposed[h] /\ \A t \in Threads : pc[t] # "idle" => on[t] # h
  BY <1>1 DEF IInv, DisposingOK
<1>3. Standing(h) = "unborn" /\ Standing(h)' = "live"
  BY <1>1, <1>2 DEF Standing, IsLive, Disposing, IInv, TypeOK
<1>4. \A g \in Handles \ {h} : Standing(g)' = Standing(g)
  BY <1>1 DEF Standing, IsLive, Disposing, IInv, TypeOK
<1> QED
  BY <1>3, <1>4, OneBecomes DEF Store!Create

LEMMA CheckCloses ==
  ASSUME SingleDisposer, IInv, IInv', NEW t \in Threads, NEW h \in Handles,
         CheckNotDisposed(t, h)
  PROVE  Store!Close(h)
<1>1. /\ pc[t] = "idle" /\ id[h] # 0 /\ t \in MayDispose[h] /\ ~ isDisposed[h]
      /\ pc' = [pc EXCEPT ![t] = "checked"] /\ on' = [on EXCEPT ![t] = h]
      /\ UNCHANGED <<id, isDisposed>>
  BY DEF CheckNotDisposed
<1>2. \A u \in Threads : pc[u] # "idle" => on[u] # h
  BY <1>1, DisposerIsAlone
<1>3. Standing(h) = "live" /\ Standing(h)' = "closing"
  BY <1>1, <1>2 DEF Standing, IsLive, Disposing, IInv, TypeOK
<1>4. \A g \in Handles \ {h} : Standing(g)' = Standing(g)
  BY <1>1 DEF Standing, IsLive, Disposing, IInv, TypeOK
<1> QED
  BY <1>3, <1>4, OneBecomes DEF Store!Close

LEMMA DisposeDestroys ==
  ASSUME SingleDisposer, IInv, IInv', NEW t \in Threads, DisposeImplementation(t)
  PROVE  \E h \in Handles : Store!Destroy(h)
<1>0. PICK h \in Handles : h = on[t]
  BY DEF IInv, TypeOK
<1>1. /\ pc[t] = "checked" /\ id[h] # 0 /\ ~ isDisposed[h]
      /\ pc' = [pc EXCEPT ![t] = "erased"] /\ UNCHANGED <<id, isDisposed, on>>
  BY <1>0 DEF DisposeImplementation, IInv, TypeOK, DisposingOK
<1>2. \A u \in Threads : pc[u] # "idle" /\ on[u] = h => u = t
  BY <1>0, <1>1, DisposersAreApart DEF IInv
<1>3. Standing(h) = "closing" /\ Standing(h)' = "dead"
  BY <1>0, <1>1, <1>2 DEF Standing, IsLive, Disposing, IInv, TypeOK
<1>4. \A g \in Handles \ {h} : Standing(g)' = Standing(g)
  BY <1>0, <1>1 DEF Standing, IsLive, Disposing, IInv, TypeOK
<1> QED
  BY <1>3, <1>4, OneBecomes DEF Store!Destroy

LEMMA MarkStutters ==
  ASSUME SingleDisposer, IInv, IInv', NEW t \in Threads, MarkDisposed(t)
  PROVE  Status' = Status
<1>0. PICK h \in Handles : h = on[t]
  BY DEF IInv, TypeOK
<1>1. /\ pc[t] = "erased" /\ id[h] # 0
      /\ pc' = [pc EXCEPT ![t] = "idle"] /\ isDisposed' = [isDisposed EXCEPT ![h] = TRUE]
      /\ UNCHANGED <<id, on>>
  BY <1>0 DEF MarkDisposed, IInv, TypeOK, DisposingOK
<1>2. Standing(h) = "dead" /\ Standing(h)' = "dead"
  BY <1>0, <1>1 DEF Standing, IsLive, Disposing, IInv, TypeOK
<1>3. \A g \in Handles \ {h} : Standing(g)' = Standing(g)
  BY <1>0, <1>1 DEF Standing, IsLive, Disposing, IInv, TypeOK
<1> QED
  BY <1>2, <1>3, NoneBecomes

LEMMA CollectForgets ==
  ASSUME IInv, IInv', NEW h \in Handles, Collect(h)
  PROVE  Store!Forget(h)
<1>1. /\ isDisposed[h] /\ id[h] # 0
      /\ id' = [id EXCEPT ![h] = 0] /\ isDisposed' = [isDisposed EXCEPT ![h] = FALSE]
      /\ UNCHANGED <<pc, on>>
  BY DEF Collect, IInv, DisposingOK
<1>2. Standing(h) = "dead" /\ Standing(h)' = "unborn"
  BY <1>1 DEF Standing, IsLive, IInv, TypeOK
<1>3. \A g \in Handles \ {h} : Standing(g)' = Standing(g)
  BY <1>1 DEF Standing, IsLive, Disposing, IInv, TypeOK
<1> QED
  BY <1>2, <1>3, OneBecomes DEF Store!Forget

LEMMA NextImplements ==
  ASSUME SingleDisposer, IInv, IInv', [Next]_vars
  PROVE  [Store!Next]_Status
<1>1. ASSUME NEW h \in Handles, NEW k \in Ids, New(h, k) PROVE Store!Next
  BY <1>1, NewCreates DEF Store!Next
<1>2. ASSUME NEW h \in Handles, NEW k \in Ids, NewFails(h, k) PROVE Status' = Status
  <2>1. UNCHANGED <<id, isDisposed, pc, on>>
    BY <1>2 DEF NewFails, Throw
  <2> QED
    BY <2>1, NoneBecomes DEF Standing, IsLive, Disposing
<1>3. ASSUME NEW t \in Threads, NEW h \in Handles, CheckNotDisposed(t, h) PROVE Store!Next
  BY <1>3, CheckCloses DEF Store!Next
<1>4. ASSUME NEW t \in Threads, DisposeImplementation(t) PROVE Store!Next
  BY <1>4, DisposeDestroys DEF Store!Next
<1>5. ASSUME NEW t \in Threads, MarkDisposed(t) PROVE Status' = Status
  BY <1>5, MarkStutters
<1>6. ASSUME NEW h \in Handles, Collect(h) PROVE Store!Next
  BY <1>6, CollectForgets DEF Store!Next
<1>7. CASE UNCHANGED vars
  BY <1>7, NoneBecomes DEF vars, Standing, IsLive, Disposing
<1> QED
  BY <1>1, <1>2, <1>3, <1>4, <1>5, <1>6, <1>7 DEF Next

\* Recycled ids, concurrent disposes and failed constructors are invisible: what
\* the clients see is a store in which an object lives from the construction of
\* its handle to the dispose of that same handle.
THEOREM HandlesImplementObjectStore ==
  ASSUME SingleDisposer
  PROVE  Spec => ImplementsObjectStore
<1>1. Init => Store!Init
  BY DEF Init, Status, Store!Init
<1>2. IInv /\ [Next]_vars => IInv'
  BY NextIInv
<1>3. IInv /\ IInv' /\ [Next]_vars => [Store!Next]_Status
  BY NextImplements
<1> QED
  BY InitIInv, <1>1, <1>2, <1>3, PTL DEF Spec, ImplementsObjectStore, Store!Spec
=============================================================================
