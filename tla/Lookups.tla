------------------------------- MODULE Lookups -------------------------------
(***************************************************************************)
(* Handlers, locks and registries together.  A handler locks the mutex of  *)
(* its unit, looks its objects up by id, and works on what it found until  *)
(* it returns; a constructor or a dispose changes a registry meanwhile.    *)
(* The registries of problems and domains are looked into from units that  *)
(* do not lock the mutex under which they change: a std::map walked while  *)
(* it changes gives any answer.                                            *)
(***************************************************************************)
EXTENDS Mutexes

CONSTANTS
  UsedHandlers,   \* the handlers the clients call
  Objects,        \* each stands for a problem, a domain, ... used together
  Owner           \* the one thread that uses an object, or NoThread: all may

ASSUME UsedHandlersAssumption == UsedHandlers \subseteq Handlers
ASSUME OwnerAssumption        == Owner \in [Objects -> Threads \cup {NoThread}]

VARIABLES
  alive,      \* the objects in each registry
  arg,        \* what each thread's call is about
  progress    \* how far the protected function of each thread is

Confined(x) == Owner[x] # NoThread

lookupVars == <<pc, call, owner, alive, arg, progress>>

\* The registries under the mutex of a unit.
OwnRegistries(u) == UNION {h.changes : h \in {g \in Handlers : g.unit = u}}

Creates(h)  == h.returns = "jint"
Touched(h)  == h.changes \cup h.looksUp

InitLookups ==
  /\ InitLocks
  /\ alive = [r \in Registries |-> {}]
  /\ arg \in [Threads -> Objects]
  /\ progress = [t \in Threads |-> "none"]

-----------------------------------------------------------------------------
(* Mutants of the definitions below. *)

AnswersInverted(t) == {~ \A r \in call[t].looksUp : arg[t] \in alive[r]}
EnterWithoutLock(t) ==
  /\ pc[t] = "waiting" /\ pc' = [pc EXCEPT ![t] = "inside"]
  /\ progress' = [progress EXCEPT ![t] = "entered"]
  /\ UNCHANGED <<call, owner, alive, arg>>
ChangedAll(t, r) ==
  IF r \notin call[t].changes THEN {alive[r]}
  ELSE IF Creates(call[t]) THEN {alive[r] \cup {arg[t]}} ELSE {{}}

-----------------------------------------------------------------------------

Busy(t, r, x) == pc[t] # "idle" /\ arg[t] = x /\ r \in Touched(call[t])

\* A constructor runs for an object that nobody else knows; every other call is
\* made with objects that are there when it is made, though a shared one may be
\* disposed before the mutex is free.
CallOn(t, h, x) ==
  /\ Owner[x] \in {t, NoThread}
  /\ \A r \in h.looksUp : x \in alive[r]
  /\ \A r \in h.changes :
       IF Creates(h) THEN x \notin alive[r] /\ \A u \in Threads : ~ Busy(u, r, x)
                     ELSE x \in alive[r]
  /\ Call(t, h)
  /\ arg' = [arg EXCEPT ![t] = x]
  /\ UNCHANGED <<alive, progress>>

Enter(t) ==
  /\ Lock(t)
  /\ progress' = [progress EXCEPT ![t] = "entered"]
  /\ UNCHANGED <<alive, arg>>

\* Another thread is changing this registry now.
BeingChanged(t, r) ==
  \E u \in Threads \ {t} : progress[u] = "changing" /\ r \in call[u].changes

\* Did t find all that it looks for?  In a registry that changes meanwhile the
\* walk over the tree may miss what is there and meet what is being erased.
Answers(t) ==
  {found \in BOOLEAN :
     /\ found => \A r \in call[t].looksUp : BeingChanged(t, r) \/ arg[t] \in alive[r]
     /\ ~ found => \E r \in call[t].looksUp : BeingChanged(t, r) \/ arg[t] \notin alive[r]}

\* The lookups of a handler, one after the other in the code, are one step here.
Find(t) ==
  /\ progress[t] = "entered"
  /\ \E found \in Answers(t) :
       progress' = [progress EXCEPT ![t] = IF found THEN "using" ELSE "gaveUp"]
  /\ UNCHANGED <<pc, call, owner, alive, arg>>

\* Emplace, operator[] or erase begins,
BeginChange(t) ==
  /\ progress[t] = "using" /\ call[t].changes # {}
  /\ progress' = [progress EXCEPT ![t] = "changing"]
  /\ UNCHANGED <<pc, call, owner, alive, arg>>

\* and ends.  Two changes at once may leave anything in the registry.
Changed(t, r) ==
  IF r \notin call[t].changes THEN {alive[r]}
  ELSE IF BeingChanged(t, r) THEN SUBSET Objects
  ELSE IF Creates(call[t]) THEN {alive[r] \cup {arg[t]}} ELSE {alive[r] \ {arg[t]}}

EndChange(t) ==
  /\ progress[t] = "changing"
  /\ alive' \in [Registries -> SUBSET Objects] /\ \A r \in Registries : alive'[r] \in Changed(t, r)
  /\ progress' = [progress EXCEPT ![t] = "changed"]
  /\ UNCHANGED <<pc, call, owner, arg>>

Leave(t) ==
  /\ progress[t] \in {"gaveUp", "changed"} \/ (progress[t] = "using" /\ call[t].changes = {})
  /\ Return(t)
  /\ progress' = [progress EXCEPT ![t] = "none"]
  /\ UNCHANGED <<alive, arg>>

NextLookups ==
  \E t \in Threads :
    \/ \E h \in UsedHandlers, x \in Objects : CallOn(t, h, x)
    \/ Enter(t) \/ Find(t) \/ BeginChange(t) \/ EndChange(t) \/ Leave(t)

LookupsSpec == InitLookups /\ [][NextLookups]_lookupVars

-----------------------------------------------------------------------------

LookupsTypeOK ==
  /\ LocksTypeOK
  /\ alive \in [Registries -> SUBSET Objects]
  /\ arg \in [Threads -> Objects]
  /\ progress \in [Threads -> {"none", "entered", "using", "gaveUp", "changing", "changed"}]

\* Sets are shared pointers; the other lookups give pointers into the map.
HasPointer(t, r) ==
  progress[t] = "using" /\ r \in call[t].looksUp \cap {"problems", "domains", "trackers"}

\* A pointer into the registry of the handler's own unit stays good until the
\* handler returns, even if other threads dispose the object: their erase waits
\* for the mutex.
OwnPointersAreValid ==
  \A t \in Threads : \A r \in OwnRegistries(call[t].unit) :
    HasPointer(t, r) => arg[t] \in alive[r]

\* A handler that looks only into its unit's registry works on the object if it
\* is there and does nothing if it was disposed; it never misses it because
\* another thread constructs or disposes something.
OwnCallsAreExact ==
  [][\A t \in Threads :
       call[t].looksUp \subseteq OwnRegistries(call[t].unit) /\ progress[t] = "entered" =>
         /\ progress'[t] = "using" => \A r \in call[t].looksUp : arg[t] \in alive[r]
         /\ progress'[t] = "gaveUp" => \E r \in call[t].looksUp : arg[t] \notin alive[r]]_lookupVars

\* All pointers to an object that one thread uses stay good, those into the
\* registries of other units too, whatever others do with other objects.
PointersAreValid ==
  \A t \in Threads : \A r \in Registries :
    HasPointer(t, r) /\ Confined(arg[t]) => arg[t] \in alive[r]
=============================================================================
