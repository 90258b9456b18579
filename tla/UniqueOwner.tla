---------------------------- MODULE UniqueOwner ----------------------------
(***************************************************************************)
(* What the library's owning classes (MMap, BufInventory) promise of the   *)
(* DOCA resources behind them: a resource is made for one object and has   *)
(* one owner at a time, which moves hand on; it is destroyed once, by its  *)
(* owner or by the caller of release(), or lost with its object when DOCA   *)
(* refuses; and it never comes back.                                       *)
(***************************************************************************)

CONSTANTS Objects,    \* the objects that may own a resource
          Resources,
          None        \* an object that owns nothing

VARIABLES pointer,    \* pointer[o]: the resource object o owns, or None
          state       \* state[r]: unmade, owned, caller, lost or gone

vars == <<pointer, state>>

States == {"unmade", "owned", "caller", "lost", "gone"}

Init ==
    /\ pointer = [o \in Objects |-> None]
    /\ state = [r \in Resources |-> "unmade"]

\* The resource of o, if it has one, is destroyed, or lost if that fails.
Disposed(o) ==
    \/ pointer[o] = None /\ state' = state
    \/ /\ pointer[o] # None
       /\ \E s \in {"gone", "lost"} : state' = [state EXCEPT ![pointer[o]] = s]

Make(o, r) ==
    /\ pointer[o] = None /\ state[r] = "unmade"
    /\ pointer' = [pointer EXCEPT ![o] = r]
    /\ state' = [state EXCEPT ![r] = "owned"]

\* o is assigned what g owns, and gives up what it had.
Move(o, g) ==
    /\ o # g
    /\ pointer' = [pointer EXCEPT ![o] = pointer[g], ![g] = None]
    /\ Disposed(o)

Destroy(o) ==
    /\ pointer[o] # None
    /\ pointer' = [pointer EXCEPT ![o] = None]
    /\ Disposed(o)

Release(o) ==
    /\ pointer[o] # None
    /\ pointer' = [pointer EXCEPT ![o] = None]
    /\ state' = [state EXCEPT ![pointer[o]] = "caller"]

DestroyReleased(r) ==
    /\ state[r] = "caller"
    /\ state' = [state EXCEPT ![r] = "gone"]
    /\ UNCHANGED pointer

Next ==
    \/ \E o \in Objects :
         \/ Destroy(o) \/ Release(o)
         \/ \E r \in Resources : Make(o, r)
         \/ \E g \in Objects : Move(o, g)
    \/ \E r \in Resources : DestroyReleased(r)

Spec == Init /\ [][Next]_vars

-----------------------------------------------------------------------------
(* Properties *)

\* An object's resource is owned, by that object alone, and an owned resource
\* has an object.
OneOwner ==
    /\ \A o, g \in Objects : o # g /\ pointer[o] = pointer[g] => pointer[o] = None
    /\ \A o \in Objects : pointer[o] # None =>
         pointer[o] \in Resources /\ state[pointer[o]] = "owned"
    /\ \A r \in Resources : state[r] = "owned" => \E o \in Objects : pointer[o] = r

\* Once nobody owns a resource any more nobody ever does again.
NeverReturns ==
    [][\A r \in Resources :
         state[r] \in {"caller", "lost", "gone"} =>
            state'[r] \in {state[r], "gone"} /\ (state[r] = "lost" => state'[r] = "lost")]_vars
=============================================================================
