------------------------- MODULE InferenceSetsProofs -------------------------
(***************************************************************************)
(* Sets of inferences, proved for any number of problems, sets and ids:    *)
(* where a set may be whatever the client does, and, for clients that use  *)
(* no disposed set, that InferenceSets implements AttachedSets.            *)
(***************************************************************************)
EXTENDS InferenceSets, TLAPS

IInv == TypeOK /\ AttachedUnderOwnId

LEMMA IdsAreNotZero == Ids \subseteq Nat \ {0} /\ 0 \notin Ids
BY MaxIdAssumption DEF Ids

LEMMA InitIInv == Init => IInv
BY DEF Init, IInv, TypeOK, AttachedUnderOwnId

LEMMA FoundIsASet ==
  ASSUME IInv, NEW s \in Sets, MayUse(s)
  PROVE  id[s] \in Ids /\ Found(s) \in Sets \cup {NoSet}
BY DEF IInv, TypeOK, MayUse, Found

LEMMA NextIInv == IInv /\ [Next]_vars => IInv'
<1> SUFFICES ASSUME IInv, [Next]_vars PROVE IInv'
  OBVIOUS
<1>1. ASSUME NEW s \in Sets, NEW k \in Ids, NewSetOfInferences(s, k) PROVE IInv'
  <2>1. \A p \in Problems, j \in Ids : attached[p][j] # s
    BY <1>1 DEF NewSetOfInferences, IsAttached
  <2>2. \A j \in Ids : registry[j] # s
    BY <1>1, IdsAreNotZero, NoSetAssumption
       DEF NewSetOfInferences, IsRegistered, IInv, AttachedUnderOwnId, TypeOK
  <2>3. TypeOK'
    BY <1>1 DEF NewSetOfInferences, IInv, TypeOK
  <2>4. \A x \in Sets \ {s} : id'[x] = id[x]
    BY <1>1 DEF NewSetOfInferences, IInv, TypeOK
  <2>5. \A p \in Problems, j \in Ids :
          attached'[p][j] # NoSet => id'[attached'[p][j]] = j
    BY <1>1, <2>1, <2>4 DEF NewSetOfInferences, IInv, TypeOK, AttachedUnderOwnId
  <2>6. \A j \in Ids : registry'[j] # NoSet => id'[registry'[j]] = j
    BY <1>1, <2>2, <2>4 DEF NewSetOfInferences, IInv, TypeOK, AttachedUnderOwnId
  <2> QED
    BY <2>3, <2>5, <2>6 DEF IInv, AttachedUnderOwnId
<1>2. ASSUME NEW s \in Sets, NEW i \in Inferences, AddInference(s, i) \/ RemoveInference(s, i)
      PROVE  IInv'
  <2>1. contents' \in [Sets -> SUBSET Inferences]
    BY <1>2, FoundIsASet DEF AddInference, RemoveInference, IInv, TypeOK
  <2> QED
    BY <1>2, <2>1 DEF AddInference, RemoveInference, IInv, TypeOK, AttachedUnderOwnId
<1>3. ASSUME NEW s \in Sets, DisposeSetOfInferences(s) PROVE IInv'
  BY <1>3 DEF DisposeSetOfInferences, Erased, IInv, TypeOK, AttachedUnderOwnId
<1>4. ASSUME NEW p \in Problems, NEW s \in Sets, AddSetOfInferences(p, s) PROVE IInv'
  <2>1. id[s] \in Ids /\ Found(s) \in Sets /\ id[Found(s)] = id[s]
    BY <1>4, FoundIsASet DEF AddSetOfInferences, Found, IInv, AttachedUnderOwnId
  <2>2. CASE UNCHANGED attached
    BY <1>4, <2>2 DEF AddSetOfInferences, IInv, TypeOK, AttachedUnderOwnId
  <2>3. CASE attached' = [attached EXCEPT ![p][id[s]] = Found(s)]
    <3>1. attached' \in [Problems -> [Ids -> Sets \cup {NoSet}]]
      BY <2>1, <2>3 DEF IInv, TypeOK
    <3>2. \A q \in Problems, k \in Ids :
            attached'[q][k] = IF q = p /\ k = id[s] THEN Found(s) ELSE attached[q][k]
      BY <2>1, <2>3 DEF IInv, TypeOK
    <3> QED
      BY <1>4, <2>1, <3>1, <3>2 DEF AddSetOfInferences, IInv, TypeOK, AttachedUnderOwnId
  <2> QED
    BY <1>4, <2>2, <2>3 DEF AddSetOfInferences, KeyOf
<1>5. ASSUME NEW p \in Problems, NEW s \in Sets, RemoveSetOfInferences(p, s) PROVE IInv'
  BY <1>5 DEF RemoveSetOfInferences, KeyOf, IInv, TypeOK, AttachedUnderOwnId
<1>6. ASSUME NEW p \in Problems, DisposeProblem(p) PROVE IInv'
  BY <1>6 DEF DisposeProblem, IInv, TypeOK, AttachedUnderOwnId
<1>7. CASE UNCHANGED vars
  BY <1>7 DEF vars, IInv, TypeOK, AttachedUnderOwnId
<1> QED
  BY <1>1, <1>2, <1>3, <1>4, <1>5, <1>6, <1>7 DEF Next

\* The variables of InferenceSets keep their types.
THEOREM SetsTypeOK == Spec => []TypeOK
<1>1. IInv => TypeOK
  BY DEF IInv
<1> QED
  BY InitIInv, NextIInv, <1>1, PTL DEF Spec

\* A problem, and the registry, hold a set under its own id or not at all,
\* whether or not the client is tidy.
THEOREM SetsStayUnderTheirIds == Spec => []AttachedUnderOwnId
<1>1. IInv => AttachedUnderOwnId
  BY DEF IInv
<1> QED
  BY InitIInv, NextIInv, <1>1, PTL DEF Spec

-----------------------------------------------------------------------------
(* The refinement. *)

Live   == {s \in Sets : IsRegistered(s)}
Active == {pair \in Problems \X Sets : IsAttached(pair[1], pair[2])}
Colliding(p, s) == {x \in Sets \ Live : IsAttached(p, x) /\ ~ IsAttached(p, s)}

LEMMA AttachedAtId ==
  ASSUME IInv, NEW p \in Problems, NEW s \in Sets
  PROVE  IsAttached(p, s) <=> id[s] \in Ids /\ attached[p][id[s]] = s
BY NoSetAssumption DEF IInv, TypeOK, AttachedUnderOwnId, IsAttached

\* A call of a tidy client works on the object of the handle it is made on.
LEMMA TidyFindsItsOwn ==
  ASSUME Tidy, NEW s \in Sets, MayUse(s)
  PROVE  s \in Live /\ Found(s) = s
BY DEF MayUse, Live, IsRegistered, Found

\* Under the key of a set that is not disposed a problem has this set, a
\* disposed one that collides with it, or none.
LEMMA UnderLiveKey ==
  ASSUME IInv, NEW p \in Problems, NEW s \in Live
  PROVE  /\ id[s] \in Ids /\ s \in Sets
         /\ attached[p][id[s]] = s <=> IsAttached(p, s)
         /\ attached[p][id[s]] \in {s, NoSet}
              \/ attached[p][id[s]] \in Colliding(p, s)
<1>1. id[s] \in Ids /\ registry[id[s]] = s /\ s \in Sets
  BY DEF Live, IsRegistered, IInv, TypeOK
<1>2. IsAttached(p, s) <=> attached[p][id[s]] = s
  BY <1>1, AttachedAtId
<1>3. ASSUME attached[p][id[s]] \notin {s, NoSet} PROVE attached[p][id[s]] \in Colliding(p, s)
  <2> DEFINE x == attached[p][id[s]]
  <2>1. x \in Sets /\ IsAttached(p, x) /\ id[x] = id[s]
    BY <1>1, <1>3 DEF IInv, TypeOK, AttachedUnderOwnId, IsAttached
  <2>2. x \notin Live
    BY <1>1, <1>3, <2>1 DEF Live, IsRegistered
  <2> QED
    BY <1>2, <1>3, <2>1, <2>2 DEF Colliding
<1> QED
  BY <1>1, <1>2, <1>3

\* What a change of one place of a problem does to what is attached.
LEMMA PlaceChanged ==
  ASSUME IInv, IInv', UNCHANGED id, NEW p \in Problems, NEW k \in Ids, NEW s \in Sets \cup {NoSet},
         attached' = [attached EXCEPT ![p][k] = s]
  PROVE  Active' = (Active \ {<<p, attached[p][k]>>}) \cup (IF s = NoSet THEN {} ELSE {<<p, s>>})
<1>1. ASSUME NEW q \in Problems, NEW x \in Sets
      PROVE  IsAttached(q, x)' <=> (IsAttached(q, x) /\ ~ (q = p /\ x = attached[p][k]))
                                      \/ (q = p /\ x = s)
  <2>1. IsAttached(q, x)' <=> id[x] \in Ids /\ attached'[q][id[x]] = x
    BY NoSetAssumption DEF IInv, TypeOK, AttachedUnderOwnId, IsAttached
  <2>2. attached'[q] = IF q = p THEN [attached[p] EXCEPT ![k] = s] ELSE attached[q]
    BY DEF IInv, TypeOK
  <2>3. x = s => id[x] = k
    BY <2>2, NoSetAssumption DEF IInv, TypeOK, AttachedUnderOwnId
  <2>4. x = attached[p][k] => id[x] = k
    BY NoSetAssumption DEF IInv, TypeOK, AttachedUnderOwnId
  <2>5. CASE q # p
    BY <2>1, <2>2, <2>5, AttachedAtId
  <2>6. CASE q = p
    BY <2>1, <2>2, <2>3, <2>4, <2>6, AttachedAtId DEF IInv, TypeOK
  <2> QED
    BY <2>5, <2>6
<1> QED
  BY <1>1, NoSetAssumption DEF Active

LEMMA InitRefines == Init => Promise!Init
BY NoSetAssumption DEF Init, Promise!Init, IsRegistered, IsAttached

LEMMA NextRefines ==
  ASSUME Tidy, IInv, IInv', [Next]_vars
  PROVE  [Promise!Next]_(Promise!vars)
<1> USE DEF Promise!Next, Promise!vars
<1>1. ASSUME NEW s \in Sets, NEW k \in Ids, NewSetOfInferences(s, k) PROVE Promise!Create(s)
  <2>1. s \notin Live /\ ~ Promise!InUse(s)
    BY <1>1 DEF NewSetOfInferences, Live, Promise!InUse
  <2>2. Live' = Live \cup {s}
    <3>1. registry[k] = NoSet
      BY <1>1 DEF NewSetOfInferences, Free, IsMissingKey
    <3>2. IsRegistered(s)'
      BY <1>1, IdsAreNotZero DEF NewSetOfInferences, IInv, TypeOK, IsRegistered
    <3>3. ASSUME NEW x \in Sets, x # s PROVE IsRegistered(x)' <=> IsRegistered(x)
      BY <1>1, <3>1, <3>3, NoSetAssumption DEF NewSetOfInferences, IInv, TypeOK, IsRegistered
    <3> QED
      BY <3>2, <3>3 DEF Live
  <2>3. Active' = Active
    BY <1>1 DEF NewSetOfInferences, Active, IsAttached
  <2> QED
    BY <1>1, <2>1, <2>2, <2>3 DEF Promise!Create, Live, Active, NewSetOfInferences
<1>2. ASSUME NEW s \in Sets, NEW i \in Inferences, AddInference(s, i) \/ RemoveInference(s, i)
      PROVE  Promise!Edit(s)
  <2>1. s \in Live /\ Found(s) = s
    BY <1>2, TidyFindsItsOwn DEF AddInference, RemoveInference
  <2>2. UNCHANGED <<Live, Active>>
    BY <1>2 DEF AddInference, RemoveInference, Live, Active, IsRegistered, IsAttached
  <2>3. \E some \in SUBSET Inferences : contents' = [contents EXCEPT ![s] = some]
    BY <1>2, <2>1 DEF AddInference, RemoveInference, IInv, TypeOK
  <2> QED
    BY <2>1, <2>2, <2>3 DEF Promise!Edit, Live, Active
<1>3. ASSUME NEW s \in Sets, DisposeSetOfInferences(s) PROVE Promise!Close(s)
  <2>1. id[s] \in Ids /\ registry[id[s]] = s
    BY <1>3 DEF DisposeSetOfInferences, IsRegistered, IInv, TypeOK
  <2>2. Live' = Live \ {s}
    <3>1. ~ IsRegistered(s)'
      BY <1>3, <2>1, NoSetAssumption DEF DisposeSetOfInferences, Erased, IsRegistered, IInv, TypeOK
    <3>2. ASSUME NEW x \in Sets, x # s PROVE IsRegistered(x)' <=> IsRegistered(x)
      BY <1>3, <2>1, <3>2, NoSetAssumption
         DEF DisposeSetOfInferences, Erased, IsRegistered, IInv, TypeOK
    <3> QED
      BY <3>1, <3>2 DEF Live
  <2>3. Active' = Active
    BY <1>3 DEF DisposeSetOfInferences, Active, IsAttached
  <2> QED
    BY <1>3, <2>2, <2>3 DEF Promise!Close, Live, Active, DisposeSetOfInferences
<1>4. ASSUME NEW p \in Problems, NEW s \in Sets, AddSetOfInferences(p, s) PROVE Promise!Attach(p, s)
  <2> DEFINE held == attached[p][id[s]]
  <2>1. s \in Live /\ Found(s) = s
    BY <1>4, TidyFindsItsOwn DEF AddSetOfInferences
  <2>2. /\ id[s] \in Ids /\ (held = s <=> IsAttached(p, s))
        /\ held \in {s, NoSet} \/ held \in Colliding(p, s)
    BY <2>1, UnderLiveKey
  <2>3. UNCHANGED <<Live, contents>>
    BY <1>4 DEF AddSetOfInferences, Live, IsRegistered
  <2>4. CASE attached' = [attached EXCEPT ![p][id[s]] = s]
    <3>1. Active' = (Active \ {<<p, held>>}) \cup {<<p, s>>}
      BY <1>4, <2>2, <2>4, PlaceChanged, NoSetAssumption DEF AddSetOfInferences
    <3>2. CASE held \in {s, NoSet}
      <4>1. Active' = Active \cup {<<p, s>>}
        BY <3>1, <3>2, NoSetAssumption DEF Active
      <4> QED
        BY <2>1, <2>3, <4>1 DEF Promise!Attach, Live, Active
    <3>3. CASE held \in Colliding(p, s)
      BY <2>1, <2>3, <3>1, <3>3 DEF Promise!Attach, Promise!Colliding, Colliding, Live, Active
    <3> QED
      BY <2>2, <3>2, <3>3
  <2>5. CASE held # NoSet /\ UNCHANGED attached
    <3>1. Active' = Active
      BY <1>4, <2>5 DEF AddSetOfInferences, Active, IsAttached
    <3>2. CASE held = s
      BY <2>1, <2>2, <2>3, <3>1, <3>2 DEF Promise!Attach, Live, Active
    <3>3. CASE held \in Colliding(p, s)
      BY <2>1, <2>3, <3>1, <3>3 DEF Promise!Attach, Promise!Colliding, Colliding, Live, Active
    <3> QED
      BY <2>2, <2>5, <3>2, <3>3
  <2> QED
    BY <1>4, <2>1, <2>4, <2>5 DEF AddSetOfInferences, KeyOf
<1>5. ASSUME NEW p \in Problems, NEW s \in Sets, RemoveSetOfInferences(p, s)
      PROVE  Promise!Detach(p, s)
  <2> DEFINE held == attached[p][id[s]]
  <2>1. s \in Live
    BY <1>5, TidyFindsItsOwn DEF RemoveSetOfInferences
  <2>2. /\ id[s] \in Ids /\ (held = s <=> IsAttached(p, s))
        /\ held \in {s, NoSet} \/ held \in Colliding(p, s)
    BY <2>1, UnderLiveKey
  <2>3. UNCHANGED <<Live, contents>>
    BY <1>5 DEF RemoveSetOfInferences, Live, IsRegistered
  <2>4. Active' = Active \ {<<p, held>>}
    <3>1. attached' = [attached EXCEPT ![p][id[s]] = NoSet] /\ UNCHANGED id
      BY <1>5 DEF RemoveSetOfInferences, KeyOf
    <3>2. Active' = (Active \ {<<p, held>>}) \cup (IF NoSet = NoSet THEN {} ELSE {<<p, NoSet>>})
      <4> HIDE DEF Active
      <4> QED
        BY <2>2, <3>1, PlaceChanged
    <3> QED
      BY <3>2
  <2>5. CASE held \in {s, NoSet}
    <3>1. Active' = Active \ {<<p, s>>}
      BY <2>2, <2>4, <2>5, NoSetAssumption DEF Active
    <3> QED
      BY <2>1, <2>3, <3>1 DEF Promise!Detach, Live, Active
  <2>6. CASE held \in Colliding(p, s)
    BY <2>1, <2>3, <2>4, <2>6 DEF Promise!Detach, Promise!Colliding, Colliding, Live, Active
  <2> QED
    BY <2>2, <2>5, <2>6
<1>6. ASSUME NEW p \in Problems, DisposeProblem(p) PROVE Promise!EndProblem(p)
  <2>1. ASSUME NEW q \in Problems, NEW x \in Sets
        PROVE  IsAttached(q, x)' <=> IsAttached(q, x) /\ q # p
    BY <1>6, NoSetAssumption DEF DisposeProblem, IsAttached, IInv, TypeOK
  <2>2. Active' = {pair \in Active : pair[1] # p}
    BY <2>1 DEF Active
  <2>3. Live' = Live
    BY <1>6 DEF DisposeProblem, Live, IsRegistered
  <2> QED
    BY <1>6, <2>2, <2>3 DEF Promise!EndProblem, Live, Active, DisposeProblem
<1>7. CASE UNCHANGED vars
  BY <1>7 DEF vars, IsRegistered, IsAttached
<1> QED
  BY <1>1, <1>2, <1>3, <1>4, <1>5, <1>6, <1>7 DEF Next

\* The sets of a client that uses no disposed set behave as AttachedSets says,
\* whatever becomes of their ids: a set that is not disposed is in a problem
\* from add to remove, with its own inferences, and only disposed sets lose
\* their place to a set with their id.
THEOREM LiveSetsAreNeverEvicted ==
  ASSUME Tidy
  PROVE  Spec => ImplementsAttachedSets
<1>1. IInv /\ IInv' /\ [Next]_vars => [Promise!Next]_(Promise!vars)
  BY NextRefines
<1> QED
  BY InitIInv, NextIInv, InitRefines, <1>1, PTL DEF Spec, ImplementsAttachedSets, Promise!Spec
=============================================================================
