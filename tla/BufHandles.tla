----------------------------- MODULE BufHandles -----------------------------
(***************************************************************************)
(* buf.hpp and buf_inventory.hpp: Buf objects, handles that share the      *)
(* reference-counted elements of one inventory, and BufInventory objects,   *)
(* one of which owns it.                                                   *)
(*                                                                         *)
(* External: the DOCA library's element pool.  rc[b] is the reference      *)
(* count of element b (free at zero) and next[b] the element after b in its *)
(* list; an element that becomes free leaves its list, and an operation on *)
(* a free element is an error.                                             *)
(*                                                                         *)
(* Every error ends the program: check_error() calls exit(1).              *)
(***************************************************************************)
EXTENDS Naturals, FiniteSets

CONSTANTS
    Bufs,      \* elements of the inventory
    Handles,   \* Buf objects
    Pools,     \* BufInventory objects
    Null,      \* buf_ == nullptr; also: the object does not exist
    MaxRaw     \* bound on the references one element's users hold themselves

ASSUME BufAssumption ==
    /\ IsFiniteSet(Handles)
    /\ Null \notin Bufs
    /\ MaxRaw \in Nat

VARIABLES
    handle,    \* handle[h]: buf_ of Buf object h
    rc,        \* rc[b]: DOCA's reference count of element b
    raw,       \* raw[b]: references to b users took with release() or
               \*   inc_refcount() and will give back themselves
    borrowed,  \* history: borrowed[b] counts the times b got a handle
               \*   without a reference of its own
    next,      \* next[b]: the element chained after b, or Null
    inv,       \* inv.state and inv.size: DOCA's inventory and its elements;
               \*   inv.object[p]: inventory_ (owner) and started_ of object p;
               \*   history: inv.stranded, the elements in use when its owner
               \*   let go of the inventory
    alive      \* the program has not called exit(1)

vars == <<handle, rc, raw, borrowed, next, inv, alive>>

\* A BufInventory that was moved from, destroyed or not constructed.
NoInventory == [owner |-> FALSE, started |-> FALSE]

Init ==
    /\ handle = [h \in Handles |-> Null]
    /\ rc = [b \in Bufs |-> 0]
    /\ raw = [b \in Bufs |-> 0]
    /\ borrowed = [b \in Bufs |-> 0]
    /\ next = [b \in Bufs |-> Null]
    /\ inv = [state |-> "none", size |-> 0, object |-> [p \in Pools |-> NoInventory],
              stranded |-> {}]
    /\ alive = TRUE

\* check_error(): the error is printed and the program ends.
Exit == alive' = FALSE /\ UNCHANGED <<handle, rc, raw, borrowed, next, inv>>

-----------------------------------------------------------------------------
(* The element pool. *)

Added(r, b) == IF b = Null THEN r ELSE [r EXCEPT ![b] = @ + 1]
Dropped(r, b) == IF b = Null THEN r ELSE [r EXCEPT ![b] = @ - 1]
Counted(r, b) == b # Null => r[b] > 0

\* The links once the element that r counts no reference to left its list.
Unlinked(r) ==
    [b \in Bufs |-> IF r[b] = 0 THEN Null
                    ELSE IF next[b] # Null /\ r[next[b]] = 0 THEN next[next[b]]
                    ELSE next[b]]

\* The elements from b to the end of its list.
From(b) ==
    LET nth[n \in 0 .. Cardinality(Bufs)] ==
            IF n = 0 THEN b
            ELSE IF nth[n - 1] = Null THEN Null ELSE next[nth[n - 1]]
    IN  {c \in Bufs : \E n \in 0 .. Cardinality(Bufs) : nth[n] = c}

IsHead(b) == \A c \in Bufs : next[c] # b

\* A DOCA call on handle h succeeds: it is not empty, its element not free.
Valid(h) == handle[h] # Null /\ rc[handle[h]] > 0

-----------------------------------------------------------------------------
(* Faulty variants: the code with one slip each. *)

\* The copy constructor does not increment.
CopyConstructUncounted(h, g) ==
    /\ alive /\ h # g /\ handle[h] = Null /\ handle[g] # Null
    /\ handle' = [handle EXCEPT ![h] = handle[g]]
    /\ UNCHANGED <<rc, raw, borrowed, next, inv, alive>>

\* The move assignment overwrites buf_ without cleanup().
MoveAssignKeepsOld(h, g) ==
    /\ alive /\ h # g
    /\ handle' = [handle EXCEPT ![h] = handle[g], ![g] = Null]
    /\ UNCHANGED <<rc, raw, borrowed, next, inv, alive>>

\* The move assignment does not empty the source.
MoveAssignKeepsSource(h, g) ==
    /\ alive /\ h # g /\ Counted(rc, handle[h])
    /\ rc' = Dropped(rc, handle[h])
    /\ handle' = [handle EXCEPT ![h] = handle[g]]
    /\ next' = Unlinked(rc')
    /\ UNCHANGED <<raw, borrowed, inv, alive>>

\* The handle to a free element is destroyed quietly.
DestroyUnchecked(h) ==
    /\ alive /\ handle[h] # Null
    /\ rc' = [rc EXCEPT ![handle[h]] = @ - 1]
    /\ handle' = [handle EXCEPT ![h] = Null]
    /\ next' = Unlinked(rc')
    /\ UNCHANGED <<raw, borrowed, inv, alive>>

\* The move assignment of a BufInventory does not empty the source.
MoveInventoryKeepsSource(p, q) ==
    /\ alive /\ p # q
    /\ inv' = [inv EXCEPT !.object[p] = inv.object[q]]
    /\ UNCHANGED <<handle, rc, raw, borrowed, next, alive>>

-----------------------------------------------------------------------------
(* BufInventory *)

Owner(p) == inv.object[p].owner
InUse == {b \in Bufs : rc[b] > 0}

Bookkept(p, state) ==
    [inv EXCEPT !.state = state,
                !.object[p] = [owner |-> Owner(p), started |-> (state = "started")]]

\* BufInventory(num_elements)
CreateInventory(p) ==
    /\ alive /\ inv.state = "none"
    /\ \/ \E n \in 1 .. Cardinality(Bufs) :
            /\ inv' = [inv EXCEPT !.state = "created", !.size = n,
                                  !.object[p] = [owner |-> TRUE, started |-> FALSE]]
            /\ UNCHANGED <<handle, rc, raw, borrowed, next, alive>>
       \/ Exit

\* start(), which does not look at started_: DOCA does.
StartInventory(p) ==
    /\ alive
    /\ \/ Owner(p) /\ inv.state = "created" /\ inv' = Bookkept(p, "started")
          /\ UNCHANGED <<handle, rc, raw, borrowed, next, alive>>
       \/ (Owner(p) => inv.state # "created") /\ Exit

\* stop() of an inventory that is not started does nothing.  DOCA may refuse.
StopInventory(p) ==
    /\ alive
    /\ inv.object[p].started
    /\ \/ /\ inv' = Bookkept(p, "stopped")
          /\ UNCHANGED <<handle, rc, raw, borrowed, next, alive>>
       \/ Exit

\* expand(): DOCA may refuse, and does on an empty object.
Expand(p) ==
    /\ alive
    /\ \/ \E n \in inv.size + 1 .. Cardinality(Bufs) :
            /\ Owner(p) /\ inv' = [inv EXCEPT !.size = n]
            /\ UNCHANGED <<handle, rc, raw, borrowed, next, alive>>
       \/ Exit

\* The inventory after p, perhaps its owner, let go of it: destroyed, which
\* DOCA refuses while elements are in use.  Nobody acts on the refusal: the
\* inventory is leaked.
Discarded(p) ==
    IF ~Owner(p) THEN inv
    ELSE [inv EXCEPT !.state = IF InUse = {} THEN "destroyed" ELSE "leaked",
                     !.stranded = InUse]

\* ~BufInventory: stop() if started, which may end the program, then destroy.
DestroyInventory(p) ==
    /\ alive /\ Owner(p)
    /\ \/ /\ inv' = [Discarded(p) EXCEPT !.object[p] = NoInventory]
          /\ UNCHANGED <<handle, rc, raw, borrowed, next, alive>>
       \/ inv.object[p].started /\ Exit

\* operator=(BufInventory&&), and the move constructor when p holds nothing.
MoveInventory(p, q) ==
    /\ alive /\ p # q
    /\ \/ /\ inv' = [Discarded(p) EXCEPT !.object[p] = inv.object[q],
                                         !.object[q] = NoInventory]
          /\ UNCHANGED <<handle, rc, raw, borrowed, next, alive>>
       \/ inv.object[p].started /\ Exit

\* get_buffer_by_addr, _by_data, _by_args and duplicate_buffer of object p: a
\* free element with one reference, for the Buf object that is returned.
GetBuffer(h, p) ==
    LET possible == Owner(p) /\ inv.state = "started" /\ Cardinality(InUse) < inv.size
    IN  /\ alive
        /\ handle[h] = Null
        /\ \/ \E b \in Bufs :
                /\ possible /\ rc[b] = 0
                /\ rc' = Added(rc, b)
                /\ handle' = [handle EXCEPT ![h] = b]
                /\ UNCHANGED <<raw, borrowed, next, inv, alive>>
           \/ ~possible /\ Exit

-----------------------------------------------------------------------------
(* Construction, assignment and destruction of a Buf *)

CopyConstruct(h, g) ==
    /\ alive
    /\ h # g /\ handle[h] = Null /\ handle[g] # Null
    /\ \/ /\ Valid(g)
          /\ rc' = Added(rc, handle[g])
          /\ handle' = [handle EXCEPT ![h] = handle[g]]
          /\ UNCHANGED <<raw, borrowed, next, inv, alive>>
       \/ ~Valid(g) /\ Exit

\* operator=(const Buf&): cleanup(), then the copy and its increment.
CopyAssign(h, g) ==
    LET dropped == Dropped(rc, handle[h])
        legal == Counted(rc, handle[h]) /\ Counted(dropped, handle[g])
    IN  /\ alive
        /\ h # g
        /\ \/ /\ legal
              /\ rc' = Added(dropped, handle[g])
              /\ handle' = [handle EXCEPT ![h] = handle[g]]
              /\ next' = Unlinked(dropped)
              /\ UNCHANGED <<raw, borrowed, inv, alive>>
           \/ ~legal /\ Exit

\* operator=(Buf&&), and the move constructor when h held nothing.
MoveAssign(h, g) ==
    /\ alive
    /\ h # g
    /\ \/ /\ Counted(rc, handle[h])
          /\ rc' = Dropped(rc, handle[h])
          /\ handle' = [handle EXCEPT ![h] = handle[g], ![g] = Null]
          /\ next' = Unlinked(rc')
          /\ UNCHANGED <<raw, borrowed, inv, alive>>
       \/ ~Counted(rc, handle[h]) /\ Exit

\* ~Buf: cleanup().
Destroy(h) ==
    /\ alive
    /\ handle[h] # Null
    /\ \/ /\ Valid(h)
          /\ rc' = Dropped(rc, handle[h])
          /\ handle' = [handle EXCEPT ![h] = Null]
          /\ next' = Unlinked(rc')
          /\ UNCHANGED <<raw, borrowed, inv, alive>>
       \/ ~Valid(h) /\ Exit

-----------------------------------------------------------------------------
(* References the user counts: release(), inc_refcount(), dec_refcount() *)

Release(h) ==
    /\ alive
    /\ handle[h] # Null
    /\ raw[handle[h]] < MaxRaw
    /\ raw' = Added(raw, handle[h])
    /\ handle' = [handle EXCEPT ![h] = Null]
    /\ UNCHANGED <<rc, borrowed, next, inv, alive>>

\* Buf(doca_buf*) takes over a reference its user holds.
Adopt(h, b) ==
    /\ alive
    /\ handle[h] = Null
    /\ raw[b] > 0
    /\ raw' = Dropped(raw, b)
    /\ handle' = [handle EXCEPT ![h] = b]
    /\ UNCHANGED <<rc, borrowed, next, inv, alive>>

IncRefcount(h) ==
    /\ alive
    /\ handle[h] # Null => raw[handle[h]] < MaxRaw
    /\ \/ /\ Valid(h)
          /\ rc' = Added(rc, handle[h])
          /\ raw' = Added(raw, handle[h])
          /\ UNCHANGED <<handle, borrowed, next, inv, alive>>
       \/ ~Valid(h) /\ Exit

\* dec_refcount(), by a user who holds a reference to give back.
DecRefcount(h) ==
    /\ alive
    /\ handle[h] # Null => raw[handle[h]] > 0
    /\ \/ /\ Valid(h)
          /\ rc' = Dropped(rc, handle[h])
          /\ raw' = Dropped(raw, handle[h])
          /\ next' = Unlinked(rc')
          /\ UNCHANGED <<handle, borrowed, inv, alive>>
       \/ ~Valid(h) /\ Exit

\* get_len, get_data, set_data, is_first_in_list and the like: on an empty
\* handle, on a free element, or if DOCA refuses, the program ends.  What they
\* read and set of the element is not modelled.
Access(h) == alive /\ Exit

-----------------------------------------------------------------------------
(* Lists *)

\* get_next_in_list(next_buf): next_buf = Buf(next), without an increment.
\* At the end of the list it returns false.
GetNextInList(h, g) ==
    /\ alive
    /\ \/ /\ Valid(h)
          /\ next[handle[h]] # Null
          /\ Counted(rc, handle[g])
          /\ rc' = Dropped(rc, handle[g])
          /\ handle' = [handle EXCEPT ![g] = next[handle[h]]]
          /\ borrowed' = Added(borrowed, next[handle[h]])
          /\ next' = Unlinked(rc')
          /\ UNCHANGED <<raw, inv, alive>>
       \/ ~(Valid(h) /\ Counted(rc, handle[g])) /\ Exit

\* get_last_in_list(): a new Buf, without an increment.
GetLastInList(h, g) ==
    /\ alive
    /\ handle[g] = Null
    /\ \/ /\ Valid(h)
          /\ \E last \in From(handle[h]) :
               /\ next[last] = Null
               /\ handle' = [handle EXCEPT ![g] = last]
               /\ borrowed' = Added(borrowed, last)
          /\ UNCHANGED <<rc, raw, next, inv, alive>>
       \/ ~Valid(h) /\ Exit

\* The places the elements of collect_list's vector may have.
Vectors(h) == {f \in [From(handle[h]) -> {g \in Handles : handle[g] = Null}] :
                  \A b, c \in From(handle[h]) : f[b] = f[c] => b = c}

\* collect_list(): every element from h's on gets a Buf in the vector.  The
\* increments of the copies and the decrements of current and next cancel.
CollectList(h) ==
    /\ alive
    /\ Valid(h)
    /\ \E f \in Vectors(h) :
         handle' = [g \in Handles |->
                       IF \E b \in From(handle[h]) : f[b] = g
                       THEN CHOOSE b \in From(handle[h]) : f[b] = g
                       ELSE handle[g]]
    /\ borrowed' = [b \in Bufs |-> IF b \in From(handle[h]) THEN borrowed[b] + 1
                                   ELSE borrowed[b]]
    /\ UNCHANGED <<rc, raw, next, inv, alive>>

\* chain_list(other), chain_list_tail: both are heads of different lists.
ChainList(h, g) ==
    LET legal == Valid(h) /\ Valid(g) /\ handle[h] # handle[g]
                 /\ IsHead(handle[h]) /\ IsHead(handle[g])
    IN  /\ alive
        /\ \/ /\ legal
              /\ \E last \in From(handle[h]) :
                   /\ next[last] = Null
                   /\ next' = [next EXCEPT ![last] = handle[g]]
              /\ UNCHANGED <<handle, rc, raw, borrowed, inv, alive>>
           \/ ~legal /\ Exit

\* unchain_list(split_point): g's element begins a list of its own.
UnchainList(h, g) ==
    LET legal == Valid(h) /\ Valid(g) /\ handle[h] # handle[g]
                 /\ IsHead(handle[h]) /\ handle[g] \in From(handle[h])
    IN  /\ alive
        /\ \/ /\ legal
              /\ next' = [b \in Bufs |-> IF next[b] = handle[g] THEN Null
                                        ELSE next[b]]
              /\ UNCHANGED <<handle, rc, raw, borrowed, inv, alive>>
           \/ ~legal /\ Exit

-----------------------------------------------------------------------------
Next ==
    \/ \E p \in Pools :
         \/ CreateInventory(p) \/ StartInventory(p) \/ StopInventory(p)
         \/ Expand(p) \/ DestroyInventory(p)
         \/ \E q \in Pools : MoveInventory(p, q)
         \/ \E h \in Handles : GetBuffer(h, p)
    \/ \E h \in Handles :
         \/ Destroy(h) \/ Release(h) \/ Access(h)
         \/ IncRefcount(h) \/ DecRefcount(h)
         \/ \E b \in Bufs : Adopt(h, b)
         \/ CollectList(h)
         \/ \E g \in Handles :
              \/ CopyConstruct(h, g) \/ CopyAssign(h, g) \/ MoveAssign(h, g)
              \/ GetNextInList(h, g) \/ GetLastInList(h, g)
              \/ ChainList(h, g) \/ UnchainList(h, g)

Spec == Init /\ [][Next]_vars

-----------------------------------------------------------------------------
(* Properties *)

TypeOK ==
    /\ handle \in [Handles -> Bufs \cup {Null}]
    /\ rc \in [Bufs -> Nat]
    /\ raw \in [Bufs -> Nat]
    /\ borrowed \in [Bufs -> Nat]
    /\ next \in [Bufs -> Bufs \cup {Null}]
    /\ inv \in [state : {"none", "created", "started", "stopped", "destroyed", "leaked"},
                size : Nat, object : [Pools -> [owner : BOOLEAN, started : BOOLEAN]],
                stranded : SUBSET Bufs]
    /\ alive \in BOOLEAN

Users(b) == {h \in Handles : handle[h] = b}

\* DOCA's reference count is the number of Buf objects that share the element
\* and of references held by hand, short of one for every time a list
\* operation handed out an element without counting the new handle; through
\* any sequence of copies, moves, assignments, releases and destructions.
Accounting ==
    \A b \in Bufs : rc[b] + borrowed[b] = Cardinality(Users(b)) + raw[b]

\* An element somebody owns is not free, unless the list operations handed it
\* out: no copy, move or assignment invalidates another Buf of the element.
SharedSafely ==
    \A h \in Handles :
        handle[h] # Null /\ borrowed[handle[h]] = 0 => rc[handle[h]] > 0

\* An element nobody owns goes back to the inventory: no Buf operation leaks.
NoElementLeak ==
    \A b \in Bufs : rc[b] > 0 => Users(b) # {} \/ raw[b] > 0

\* DOCA's inventory never has two owners, and has one, which started_ agrees
\* with, until that object is destroyed or assigned to.  Then it is destroyed
\* if no element is in use; if one is, the inventory is leaked (the destructor
\* and operator= only ignore DOCA's refusal).  It is leaked in no other way,
\* and the elements of a leaked inventory are those in use when it was let go:
\* nobody gets another one, and none stays behind in an inventory that is gone.
InventoryAccounted ==
    /\ \A p, q \in Pools : Owner(p) /\ Owner(q) => p = q
    /\ inv.state \in {"created", "started", "stopped"} <=> \E p \in Pools : Owner(p)
    /\ \A p \in Pools : inv.object[p].started <=> Owner(p) /\ inv.state = "started"
    /\ inv.state = "leaked" <=> inv.stranded # {}
    /\ (\A p \in Pools : ~Owner(p)) => InUse \subseteq inv.stranded

\* What became of the inventory, and what p has of it, in the terms of UniqueOwner.
Standing == CASE inv.state = "none" -> "unmade"
              [] inv.state = "destroyed" -> "gone"
              [] inv.state = "leaked" -> "lost"
              [] OTHER -> "owned"
Pointer(p) == IF Owner(p) THEN "inventory" ELSE "none"

Owners == INSTANCE UniqueOwner WITH
    Objects <- Pools, Resources <- {"inventory"}, None <- "none",
    pointer <- [p \in Pools |-> Pointer(p)],
    state <- [r \in {"inventory"} |-> Standing]

\* BufInventory objects own the inventory as UniqueOwner promises, whatever the
\* Bufs do meanwhile: it changes hands only by a move, is destroyed once, by the
\* object that has it, or lost with it, and no Buf step does any of these.
ImplementsUniqueOwner == Owners!Spec

\* The class comment: automatic reference counting.  Whoever holds a Buf holds
\* an element that is in use.
AutomaticReferenceCounting ==
    \A h \in Handles : handle[h] # Null => rc[handle[h]] > 0
=============================================================================
