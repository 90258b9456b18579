------------------------- MODULE UniqueOwnerProofs -------------------------
(* What an implementation of UniqueOwner may rely on. *)
EXTENDS UniqueOwner, TLAPS

TypeInv ==
    /\ pointer \in [Objects -> Resources \cup {None}]
    /\ state \in [Resources -> States]

LEMMA InitInv == ASSUME None \notin Resources PROVE Init => TypeInv /\ OneOwner
  BY DEF Init, TypeInv, OneOwner, States

\* What Disposed does to the resource of o, and to no other.
LEMMA DisposedEffect ==
    ASSUME TypeInv, OneOwner, NEW o \in Objects, Disposed(o)
    PROVE  /\ state' \in [Resources -> States]
           /\ \A r \in Resources : r # pointer[o] => state'[r] = state[r]
           /\ pointer[o] # None => /\ pointer[o] \in Resources
                                   /\ state[pointer[o]] = "owned"
                                   /\ state'[pointer[o]] \in {"gone", "lost"}
  BY DEF Disposed, TypeInv, OneOwner, States

LEMMA MakeInv ==
    ASSUME None \notin Resources, TypeInv, OneOwner,
           NEW o \in Objects, NEW r \in Resources, Make(o, r)
    PROVE  TypeInv' /\ OneOwner'
  <1>1. \A p \in Objects : pointer[p] # r
    BY DEF Make, OneOwner
  <1>2. /\ TypeInv' /\ pointer'[o] = r /\ state'[r] = "owned"
        /\ \A p \in Objects : p # o => pointer'[p] = pointer[p]
        /\ \A q \in Resources : q # r => state'[q] = state[q]
    BY DEF Make, TypeInv, States
  <1>3. \A q \in Resources : state'[q] = "owned" => \E p \in Objects : pointer'[p] = q
    <2> SUFFICES ASSUME NEW q \in Resources, q # r, state'[q] = "owned"
                 PROVE  \E p \in Objects : pointer'[p] = q
      BY <1>2
    <2>1. PICK p \in Objects : pointer[p] = q
      BY <1>2 DEF OneOwner
    <2> QED BY <1>2, <2>1 DEF Make
  <1> QED BY <1>1, <1>2, <1>3 DEF OneOwner

LEMMA MoveInv ==
    ASSUME None \notin Resources, TypeInv, OneOwner,
           NEW o \in Objects, NEW g \in Objects, Move(o, g)
    PROVE  TypeInv' /\ OneOwner'
  <1>1. /\ TypeInv' /\ pointer'[o] = pointer[g] /\ pointer'[g] = None
        /\ \A p \in Objects : p # o /\ p # g => pointer'[p] = pointer[p]
    BY DisposedEffect DEF Move, TypeInv
  <1>2. \A p, q \in Objects : p # q /\ pointer'[p] = pointer'[q] => pointer'[p] = None
    BY <1>1 DEF OneOwner
  <1>3. \A p \in Objects : pointer'[p] # None =>
            pointer'[p] \in Resources /\ state'[pointer'[p]] = "owned"
    <2> SUFFICES ASSUME NEW p \in Objects, pointer'[p] # None
                 PROVE  pointer'[p] \in Resources /\ state'[pointer'[p]] = "owned"
      OBVIOUS
    <2>1. PICK q \in Objects : q # o /\ pointer'[p] = pointer[q]
      BY <1>1 DEF Move
    <2>2. pointer[q] \in Resources /\ state[pointer[q]] = "owned" /\ pointer[q] # pointer[o]
      BY <2>1 DEF OneOwner
    <2> QED BY <2>1, <2>2, DisposedEffect DEF Move
  <1>4. \A r \in Resources : state'[r] = "owned" => \E p \in Objects : pointer'[p] = r
    <2> SUFFICES ASSUME NEW r \in Resources, state'[r] = "owned"
                 PROVE  \E p \in Objects : pointer'[p] = r
      OBVIOUS
    <2>1. r # pointer[o] /\ state[r] = "owned"
      BY DisposedEffect DEF Move
    <2>2. PICK p \in Objects : pointer[p] = r /\ p # o
      BY <2>1 DEF OneOwner
    <2> QED BY <1>1, <2>2
  <1> QED BY <1>1, <1>2, <1>3, <1>4 DEF OneOwner

\* o gives up its resource, which is not owned any more.
LEMMA GiveUpInv ==
    ASSUME None \notin Resources, TypeInv, OneOwner, NEW o \in Objects,
           pointer[o] # None, pointer' = [pointer EXCEPT ![o] = None],
           state' \in [Resources -> States], state'[pointer[o]] # "owned",
           \A r \in Resources : r # pointer[o] => state'[r] = state[r]
    PROVE  TypeInv' /\ OneOwner'
  <1>1. /\ TypeInv' /\ pointer'[o] = None
        /\ \A p \in Objects : p # o => pointer'[p] = pointer[p] /\ pointer[p] # pointer[o]
    BY DEF TypeInv, OneOwner
  <1>2. \A p \in Objects : pointer'[p] # None =>
            pointer'[p] \in Resources /\ state'[pointer'[p]] = "owned"
    BY <1>1 DEF OneOwner
  <1>3. \A r \in Resources : state'[r] = "owned" => \E p \in Objects : pointer'[p] = r
    <2> SUFFICES ASSUME NEW r \in Resources, state'[r] = "owned"
                 PROVE  \E p \in Objects : pointer'[p] = r
      OBVIOUS
    <2>1. PICK p \in Objects : pointer[p] = r /\ p # o
      BY DEF OneOwner
    <2> QED BY <1>1, <2>1
  <1> QED BY <1>1, <1>2, <1>3 DEF OneOwner

LEMMA NextInv ==
    ASSUME None \notin Resources, TypeInv, OneOwner, [Next]_vars
    PROVE  TypeInv' /\ OneOwner'
  <1>1. ASSUME NEW o \in Objects, Destroy(o) PROVE TypeInv' /\ OneOwner'
    BY <1>1, GiveUpInv, DisposedEffect DEF Destroy
  <1>2. ASSUME NEW o \in Objects, Release(o) PROVE TypeInv' /\ OneOwner'
    <2>1. /\ state' \in [Resources -> States] /\ state'[pointer[o]] # "owned"
          /\ \A r \in Resources : r # pointer[o] => state'[r] = state[r]
      BY <1>2 DEF Release, TypeInv, OneOwner, States
    <2> QED BY <1>2, <2>1, GiveUpInv DEF Release
  <1>3. ASSUME NEW r \in Resources, DestroyReleased(r) PROVE TypeInv' /\ OneOwner'
    BY <1>3 DEF DestroyReleased, TypeInv, OneOwner, States
  <1>4. CASE UNCHANGED vars
    BY <1>4 DEF vars, TypeInv, OneOwner
  <1> QED BY <1>1, <1>2, <1>3, <1>4, MakeInv, MoveInv DEF Next

\* A resource that is owned is the one of exactly one object, and no object
\* refers to a resource that is not its own.
THEOREM AlwaysOneOwner == ASSUME None \notin Resources PROVE Spec => []OneOwner
  <1>1. Init => TypeInv /\ OneOwner
    BY InitInv
  <1>2. TypeInv /\ OneOwner /\ [Next]_vars => (TypeInv /\ OneOwner)'
    BY NextInv
  <1> QED BY <1>1, <1>2, PTL DEF Spec

\* A resource that was given away, lost or destroyed has no owner ever again.
THEOREM GoneForGood == ASSUME None \notin Resources PROVE Spec => NeverReturns
  <1>1. Init => TypeInv /\ OneOwner
    BY InitInv
  <1>2. TypeInv /\ OneOwner /\ [Next]_vars => (TypeInv /\ OneOwner)'
    BY NextInv
  <1>3. TypeInv /\ OneOwner /\ [Next]_vars =>
          [\A r \in Resources :
             state[r] \in {"caller", "lost", "gone"} =>
               state'[r] \in {state[r], "gone"} /\ (state[r] = "lost" => state'[r] = "lost")]_vars
    <2> SUFFICES ASSUME TypeInv, OneOwner, Next, NEW r \in Resources,
                        state[r] \in {"caller", "lost", "gone"}
                 PROVE  /\ state'[r] \in {state[r], "gone"}
                        /\ state[r] = "lost" => state'[r] = "lost"
      OBVIOUS
    <2>1. ASSUME NEW o \in Objects, Disposed(o) PROVE state'[r] = state[r]
      BY <2>1, DisposedEffect DEF OneOwner
    <2>2. ASSUME NEW o \in Objects, Release(o) PROVE state'[r] = state[r]
      BY <2>2 DEF Release, TypeInv, OneOwner
    <2>3. ASSUME NEW o \in Objects, NEW q \in Resources, Make(o, q) PROVE state'[r] = state[r]
      BY <2>3 DEF Make, TypeInv
    <2>4. ASSUME NEW q \in Resources, DestroyReleased(q)
          PROVE  state'[r] = state[r] \/ (state[r] = "caller" /\ state'[r] = "gone")
      BY <2>4 DEF DestroyReleased, TypeInv
    <2> QED BY <2>1, <2>2, <2>3, <2>4 DEF Next, Destroy, Move
  <1> QED BY <1>1, <1>2, <1>3, PTL DEF Spec, NeverReturns
=============================================================================
