---------------------------- MODULE InferenceSets ----------------------------
(***************************************************************************)
(* Sets of inferences, their registry, and the problems they are attached  *)
(* to.  A problem keeps a shared pointer to a set under the set's id       *)
(* written as text, so a disposed set lives on in its problems, and its id *)
(* is handed out again meanwhile.  An object is named by the handle it was *)
(* created for.  Handlers are atomic here.                                 *)
(***************************************************************************)
EXTENDS RegistryIds

CONSTANTS
  Problems,
  Sets,         \* handles of class SetOfInferences
  Inferences,   \* ids of inferences
  NoSet,
  Tidy          \* the client's discipline, see below

ASSUME NoSetAssumption == NoSet \notin Sets
ASSUME TidyAssumption  == Tidy \in BOOLEAN

VARIABLES
  id,         \* the val id of each handle, 0 before the first construction
  registry,   \* _idToSetOfInferences
  attached,   \* what each problem has under each id
  contents    \* the inferences in each object

vars == <<id, registry, attached, contents>>

IsRegistered(s)  == id[s] # 0 /\ registry[id[s]] = s
IsAttached(p, s) == \E k \in Ids : attached[p][k] = s

\* A tidy client uses no disposed set.  Other clients use every handle they have.
MayUse(s) == id[s] # 0 /\ (Tidy => IsRegistered(s))

Init ==
  /\ id = [s \in Sets |-> 0]
  /\ registry = [k \in Ids |-> NoSet]
  /\ attached = [p \in Problems |-> [k \in Ids |-> NoSet]]
  /\ contents = [s \in Sets |-> {}]

-----------------------------------------------------------------------------
(* Mutants of the definitions below. *)

KeyAlwaysFirst(s)   == 1
FreeTakesAnyId(k)   == TRUE
ErasedToZero(s)     == [k \in Ids |-> IF k = id[s] THEN 0 ELSE registry[k]]

-----------------------------------------------------------------------------

Free(k) == IsMissingKey({j \in Ids : registry[j] # NoSet}, k)

\* s stands for a new Kotlin object when its last one was disposed and no
\* problem holds the native object any more.
NewSetOfInferences(s, k) ==
  /\ ~ IsRegistered(s) /\ \A p \in Problems : ~ IsAttached(p, s)
  /\ Free(k)
  /\ id' = [id EXCEPT ![s] = k]
  /\ registry' = [registry EXCEPT ![k] = s]
  /\ contents' = [contents EXCEPT ![s] = {}]
  /\ UNCHANGED attached

\* A handler works on the object that has the id of the handle now.
Found(s) == registry[id[s]]

AddInference(s, i) ==
  /\ MayUse(s) /\ Found(s) # NoSet
  /\ contents' = [contents EXCEPT ![Found(s)] = @ \cup {i}]
  /\ UNCHANGED <<id, registry, attached>>

RemoveInference(s, i) ==
  /\ MayUse(s) /\ Found(s) # NoSet
  /\ contents' = [contents EXCEPT ![Found(s)] = @ \ {i}]
  /\ UNCHANGED <<id, registry, attached>>

\* The id as text is the id again: no two ids have the same text.
KeyOf(s) == id[s]

\* The library replaces the set it has under the key, or keeps it.
AddSetOfInferences(p, s) ==
  /\ MayUse(s) /\ Found(s) # NoSet
  /\ \/ attached' = [attached EXCEPT ![p][KeyOf(s)] = Found(s)]
     \/ attached[p][KeyOf(s)] # NoSet /\ UNCHANGED attached
  /\ UNCHANGED <<id, registry, contents>>

RemoveSetOfInferences(p, s) ==
  /\ MayUse(s) /\ Found(s) # NoSet
  /\ attached' = [attached EXCEPT ![p][KeyOf(s)] = NoSet]
  /\ UNCHANGED <<id, registry, contents>>

Erased(s) == [registry EXCEPT ![id[s]] = NoSet]

DisposeSetOfInferences(s) ==
  /\ IsRegistered(s) /\ registry' = Erased(s)
  /\ UNCHANGED <<id, attached, contents>>

\* The erased problem drops its pointers; p stands for a new problem then.
DisposeProblem(p) ==
  /\ attached' = [attached EXCEPT ![p] = [k \in Ids |-> NoSet]]
  /\ UNCHANGED <<id, registry, contents>>

Next ==
  \/ \E s \in Sets, k \in Ids : NewSetOfInferences(s, k)
  \/ \E s \in Sets, i \in Inferences : AddInference(s, i) \/ RemoveInference(s, i)
  \/ \E s \in Sets : DisposeSetOfInferences(s)
  \/ \E p \in Problems, s \in Sets : AddSetOfInferences(p, s) \/ RemoveSetOfInferences(p, s)
  \/ \E p \in Problems : DisposeProblem(p)

Spec == Init /\ [][Next]_vars

-----------------------------------------------------------------------------

TypeOK ==
  /\ id \in [Sets -> {0} \cup Ids]
  /\ registry \in [Ids -> Sets \cup {NoSet}]
  /\ attached \in [Problems -> [Ids -> Sets \cup {NoSet}]]
  /\ contents \in [Sets -> SUBSET Inferences]

\* A problem has a set under the set's own id only, and the registry has it
\* there or nowhere: whatever the client does, a set is never in a problem
\* twice, and while it is not disposed one call of removeSetOfInferences
\* detaches it.  (For a disposed set the call does nothing, or, once its id is
\* handed out again, detaches what the problem has under that id.)
AttachedUnderOwnId ==
  /\ \A p \in Problems, k \in Ids : attached[p][k] # NoSet => id[attached[p][k]] = k
  /\ \A k \in Ids : registry[k] # NoSet => id[registry[k]] = k

\* For a tidy client sets are what AttachedSets says, although their ids are
\* recycled: a set that is not disposed is attached from add to remove, a
\* disposed one may lose its place to a set that has its id now, and each has
\* its own inferences (Problem.kt:120-131).
Promise == INSTANCE AttachedSets WITH
  live   <- {s \in Sets : IsRegistered(s)},
  active <- {pair \in Problems \X Sets : IsAttached(pair[1], pair[2])}
ImplementsAttachedSets == Promise!Spec
=============================================================================
