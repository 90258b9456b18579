------------------------------ MODULE BufProofs ------------------------------
(* Theorems about BufHandles, for any number of elements and Buf objects. *)
EXTENDS BufHandles, Integers, FiniteSetTheorems, TLAPS

\* One if v is element b, else zero: what a handle to v contributes to b.
Is(v, b) == IF v = b THEN 1 ELSE 0

\* The number of Buf objects that hold element b when handle is hf.
Count(hf, b) == Cardinality({h \in Handles : hf[h] = b})

\* Buf object h set to v.
SetTo(hf, h, v) == [hf EXCEPT ![h] = v]

LEMMA CountIsNat ==
  ASSUME NEW hf, NEW b
  PROVE  /\ IsFiniteSet({h \in Handles : hf[h] = b})
         /\ Count(hf, b) \in Nat
<1>1. {h \in Handles : hf[h] = b} \in SUBSET Handles
  OBVIOUS
<1>2. IsFiniteSet({h \in Handles : hf[h] = b})
  BY <1>1, FS_Subset, BufAssumption
<1> QED BY <1>2, FS_CardinalityType DEF Count

(* Setting one Buf object moves one user from its old to its new element. *)
LEMMA CountAfterSet ==
  ASSUME NEW hf \in [Handles -> Bufs \cup {Null}], NEW h \in Handles,
         NEW v, NEW b
  PROVE  Count(SetTo(hf, h, v), b) = Count(hf, b) + Is(v, b) - Is(hf[h], b)
<1> DEFINE U == {g \in Handles : hf[g] = b}
           W == {g \in Handles : SetTo(hf, h, v)[g] = b}
           Rest == U \ {h}
<1>1. IsFiniteSet(U) /\ Cardinality(U) \in Nat
  BY CountIsNat DEF Count
<1>2. /\ IsFiniteSet(Rest)
      /\ Cardinality(Rest) = IF h \in U THEN Cardinality(U) - 1 ELSE Cardinality(U)
  BY <1>1, FS_RemoveElement
<1>3. W = IF v = b THEN Rest \cup {h} ELSE Rest
  BY DEF SetTo
<1>4. Cardinality(Rest \cup {h}) = Cardinality(Rest) + 1
  BY <1>2, FS_AddElement
<1>5. h \in U <=> hf[h] = b
  OBVIOUS
<1>6. Cardinality(W) = IF v = b THEN Cardinality(Rest) + 1 ELSE Cardinality(Rest)
  BY <1>3, <1>4
<1>7. Count(SetTo(hf, h, v), b) = Cardinality(W) /\ Count(hf, b) = Cardinality(U)
  BY DEF Count
<1> HIDE DEF U, W, Rest
<1> QED BY <1>1, <1>2, <1>5, <1>6, <1>7 DEF Is

(* The arithmetic of references: what the model's helpers do to one count. *)
LEMMA AddDrop ==
  ASSUME NEW r \in [Bufs -> Nat], NEW v \in Bufs \cup {Null}
  PROVE  /\ Added(r, v) \in [Bufs -> Nat]
         /\ \A b \in Bufs : Added(r, v)[b] = r[b] + Is(v, b)
         /\ Counted(r, v) =>
              /\ Dropped(r, v) \in [Bufs -> Nat]
              /\ \A b \in Bufs : Dropped(r, v)[b] = r[b] - Is(v, b)
<1>1. CASE v = Null
  BY <1>1, BufAssumption DEF Added, Dropped, Is
<1>2. CASE v \in Bufs
  <2>1. v # Null
    BY <1>2, BufAssumption
  <2>2. Added(r, v) = [r EXCEPT ![v] = @ + 1] /\ Dropped(r, v) = [r EXCEPT ![v] = @ - 1]
    BY <2>1 DEF Added, Dropped
  <2>3. Counted(r, v) => r[v] > 0
    BY <2>1 DEF Counted
  <2> QED BY <1>2, <2>2, <2>3 DEF Is
<1> QED BY <1>1, <1>2

LEMMA UnlinkedType ==
  ASSUME NEW r, next \in [Bufs -> Bufs \cup {Null}]
  PROVE  Unlinked(r) \in [Bufs -> Bufs \cup {Null}]
BY DEF Unlinked

LEMMA FromType == ASSUME NEW b PROVE From(b) \subseteq Bufs
BY DEF From

-----------------------------------------------------------------------------
(* The references of element b balance: the statement of Accounting with the *)
(* variables as parameters, and no handle counted twice.                     *)
Balanced(hf, r, u, x) ==
    \A b \in Bufs : r[b] + u[b] = Count(hf, b) + x[b]

LEMMA AccountingIsBalanced == Accounting <=> Balanced(handle, rc, borrowed, raw)
BY DEF Accounting, Users, Balanced, Count

IInv == TypeOK /\ Accounting

LEMMA InitInv == Init => IInv
<1> SUFFICES ASSUME Init PROVE IInv
  OBVIOUS
<1>1. TypeOK
  BY DEF Init, TypeOK, NoInventory
<1>2. ASSUME NEW b \in Bufs PROVE Count(handle, b) = 0
  <2>1. {h \in Handles : handle[h] = b} = {}
    BY BufAssumption DEF Init
  <2> QED BY <2>1, FS_EmptySet DEF Count
<1>3. Balanced(handle, rc, borrowed, raw)
  BY <1>2 DEF Init, Balanced
<1> QED BY <1>1, <1>3, AccountingIsBalanced DEF IInv

LEMMA Balance ==
  ASSUME NEW rOld \in Nat, NEW uOld \in Nat, NEW xOld \in Nat, NEW cOld \in Nat,
         NEW r \in Nat, NEW u \in Nat, NEW x \in Nat, NEW c,
         NEW gain \in Nat, NEW loss \in Nat,
         rOld + uOld = cOld + xOld,
         r + u - x = rOld + uOld - xOld + gain - loss,
         c = cOld + gain - loss
  PROVE  r + u = c + x
OBVIOUS

(* The balance of every element is Accounting in the next state.             *)
LEMMA BalanceInNextState ==
  ASSUME \A b \in Bufs : rc'[b] + borrowed'[b] = Count(handle', b) + raw'[b]
  PROVE  Accounting'
BY DEF Accounting, Users, Count

(* A step that sets one Buf object keeps the references balanced.            *)
LEMMA SetStep ==
  ASSUME TypeOK, Accounting, TypeOK', NEW h \in Handles, NEW v \in Bufs \cup {Null},
         handle' = [handle EXCEPT ![h] = v],
         \A b \in Bufs : rc'[b] + borrowed'[b] - raw'[b] =
             rc[b] + borrowed[b] - raw[b] + Is(v, b) - Is(handle[h], b)
  PROVE  Accounting'
<1>1. ASSUME NEW b \in Bufs
      PROVE  rc'[b] + borrowed'[b] = Count(handle', b) + raw'[b]
  <2> DEFINE r == rc'[b]
             u == borrowed'[b]
             x == raw'[b]
             c == Count(handle', b)
             cOld == Count(handle, b)
             gain == Is(v, b)
             loss == Is(handle[h], b)
  <2>1. c = cOld + gain - loss
    <3>1. handle \in [Handles -> Bufs \cup {Null}]
      BY DEF TypeOK
    <3>2. Count(SetTo(handle, h, v), b) = cOld + gain - loss
      BY <3>1, CountAfterSet
    <3>3. handle' = SetTo(handle, h, v)
      BY DEF SetTo
    <3> QED BY <3>2, <3>3
  <2>2. rc[b] + borrowed[b] = cOld + raw[b]
    BY DEF Accounting, Users, Count
  <2>3. /\ rc[b] \in Nat /\ borrowed[b] \in Nat /\ raw[b] \in Nat
        /\ cOld \in Nat /\ gain \in Nat /\ loss \in Nat
        /\ r \in Nat /\ u \in Nat /\ x \in Nat
    BY CountIsNat DEF TypeOK, Is
  <2>4. r + u - x = rc[b] + borrowed[b] - raw[b] + gain - loss
    OBVIOUS
  <2> HIDE DEF r, u, x, c, cOld, gain, loss
  <2>5. r + u = c + x
    BY <2>1, <2>2, <2>3, <2>4, Balance
  <2> QED BY <2>5 DEF r, u, c, x
<1> QED BY <1>1, BalanceInNextState

(* What contributes to an element's balance are small numbers.               *)
LEMMA IsFacts ==
  ASSUME NEW b \in Bufs
  PROVE  /\ \A v : Is(v, b) \in Nat
         /\ Is(Null, b) = 0
BY BufAssumption DEF Is

LEMMA Numbers ==
  ASSUME TypeOK, NEW b \in Bufs
  PROVE  rc[b] \in Nat /\ borrowed[b] \in Nat /\ raw[b] \in Nat
BY DEF TypeOK

-----------------------------------------------------------------------------
(* One lemma for each action that touches references. *)

LEMMA ExitInv == IInv /\ Exit => IInv'
BY DEF IInv, Exit, TypeOK, Accounting, Users

LEMMA GetBufferInv ==
  ASSUME IInv, NEW h \in Handles, NEW p \in Pools, GetBuffer(h, p)
  PROVE  IInv'
<1>1. CASE Exit
  BY <1>1, ExitInv
<1>2. ASSUME NEW v \in Bufs, handle[h] = Null, rc' = Added(rc, v),
             handle' = [handle EXCEPT ![h] = v],
             UNCHANGED <<raw, borrowed, next, inv, alive>>
      PROVE  IInv'
  <2>1. rc' \in [Bufs -> Nat] /\ \A b \in Bufs : rc'[b] = rc[b] + Is(v, b)
    BY <1>2, AddDrop DEF IInv, TypeOK
  <2>2. TypeOK'
    BY <1>2, <2>1 DEF IInv, TypeOK
  <2>3. \A b \in Bufs : rc'[b] + borrowed'[b] - raw'[b] =
             rc[b] + borrowed[b] - raw[b] + Is(v, b) - Is(handle[h], b)
    BY <1>2, <2>1, Numbers, IsFacts DEF IInv
  <2>4. Accounting'
    BY <1>2, <2>2, <2>3, SetStep DEF IInv
  <2> QED BY <2>2, <2>4 DEF IInv
<1> QED BY <1>1, <1>2 DEF GetBuffer

LEMMA CopyConstructInv ==
  ASSUME IInv, NEW h \in Handles, NEW g \in Handles, CopyConstruct(h, g)
  PROVE  IInv'
<1>1. CASE Exit
  BY <1>1, ExitInv
<1>2. CASE ~Exit
  <2> DEFINE v == handle[g]
  <2>0. /\ handle[h] = Null /\ v \in Bufs /\ rc' = Added(rc, v)
        /\ handle' = [handle EXCEPT ![h] = v]
        /\ UNCHANGED <<raw, borrowed, next, inv, alive>>
    BY <1>2 DEF CopyConstruct, IInv, TypeOK
  <2> HIDE DEF v
  <2>1. rc' \in [Bufs -> Nat] /\ \A b \in Bufs : rc'[b] = rc[b] + Is(v, b)
    BY <2>0, AddDrop DEF IInv, TypeOK
  <2>2. TypeOK'
    BY <2>0, <2>1 DEF IInv, TypeOK
  <2>3. \A b \in Bufs : rc'[b] + borrowed'[b] - raw'[b] =
             rc[b] + borrowed[b] - raw[b] + Is(v, b) - Is(handle[h], b)
    BY <2>0, <2>1, Numbers, IsFacts DEF IInv
  <2>4. Accounting'
    BY <2>0, <2>2, <2>3, SetStep DEF IInv
  <2> QED BY <2>2, <2>4 DEF IInv
<1> QED BY <1>1, <1>2

LEMMA CopyAssignInv ==
  ASSUME IInv, NEW h \in Handles, NEW g \in Handles, CopyAssign(h, g)
  PROVE  IInv'
<1>1. CASE Exit
  BY <1>1, ExitInv
<1>2. CASE ~Exit
  <2> DEFINE old == handle[h]
             v == handle[g]
             dropped == Dropped(rc, old)
  <2>0. /\ old \in Bufs \cup {Null} /\ v \in Bufs \cup {Null}
        /\ Counted(rc, old) /\ rc' = Added(dropped, v)
        /\ handle' = [handle EXCEPT ![h] = v]
        /\ next' = Unlinked(dropped)
        /\ UNCHANGED <<raw, borrowed, inv, alive>>
    BY <1>2 DEF CopyAssign, IInv, TypeOK
  <2>1. /\ dropped \in [Bufs -> Nat]
        /\ \A b \in Bufs : dropped[b] = rc[b] - Is(old, b)
    BY <2>0, AddDrop DEF IInv, TypeOK
  <2> HIDE DEF v, dropped
  <2>2. /\ rc' \in [Bufs -> Nat]
        /\ \A b \in Bufs : rc'[b] = dropped[b] + Is(v, b)
    BY <2>0, <2>1, AddDrop
  <2>3. TypeOK'
    BY <2>0, <2>2, UnlinkedType DEF IInv, TypeOK
  <2>4. \A b \in Bufs : rc'[b] + borrowed'[b] - raw'[b] =
             rc[b] + borrowed[b] - raw[b] + Is(v, b) - Is(handle[h], b)
    BY <2>0, <2>1, <2>2, Numbers, IsFacts DEF IInv
  <2>5. Accounting'
    BY <2>0, <2>3, <2>4, SetStep DEF IInv
  <2> QED BY <2>3, <2>5 DEF IInv
<1> QED BY <1>1, <1>2

LEMMA DestroyInv == ASSUME IInv, NEW h \in Handles, Destroy(h) PROVE IInv'
<1>1. CASE Exit
  BY <1>1, ExitInv
<1>2. CASE ~Exit
  <2> DEFINE old == handle[h]
  <2>0. /\ old \in Bufs /\ Counted(rc, old) /\ rc' = Dropped(rc, old)
        /\ handle' = [handle EXCEPT ![h] = Null]
        /\ next' = Unlinked(rc')
        /\ UNCHANGED <<raw, borrowed, inv, alive>>
    BY <1>2 DEF Destroy, Valid, Counted, IInv, TypeOK
  <2>1. rc' \in [Bufs -> Nat] /\ \A b \in Bufs : rc'[b] = rc[b] - Is(old, b)
    BY <2>0, AddDrop DEF IInv, TypeOK
  <2>2. TypeOK'
    BY <2>0, <2>1, UnlinkedType DEF IInv, TypeOK
  <2>3. \A b \in Bufs : rc'[b] + borrowed'[b] - raw'[b] =
             rc[b] + borrowed[b] - raw[b] + Is(Null, b) - Is(handle[h], b)
    BY <2>0, <2>1, Numbers, IsFacts DEF IInv
  <2>4. Accounting'
    BY <2>0, <2>2, <2>3, SetStep DEF IInv
  <2> QED BY <2>2, <2>4 DEF IInv
<1> QED BY <1>1, <1>2

LEMMA ReleaseInv == ASSUME IInv, NEW h \in Handles, Release(h) PROVE IInv'
<1> DEFINE old == handle[h]
<1>0. /\ old \in Bufs /\ raw' = Added(raw, old)
      /\ handle' = [handle EXCEPT ![h] = Null]
      /\ UNCHANGED <<rc, borrowed, next, inv, alive>>
  BY DEF Release, IInv, TypeOK
<1>1. raw' \in [Bufs -> Nat] /\ \A b \in Bufs : raw'[b] = raw[b] + Is(old, b)
  BY <1>0, AddDrop DEF IInv, TypeOK
<1>2. TypeOK'
  BY <1>0, <1>1 DEF IInv, TypeOK
<1>3. \A b \in Bufs : rc'[b] + borrowed'[b] - raw'[b] =
           rc[b] + borrowed[b] - raw[b] + Is(Null, b) - Is(handle[h], b)
  BY <1>0, <1>1, Numbers, IsFacts DEF IInv
<1>4. Accounting'
  BY <1>0, <1>2, <1>3, SetStep DEF IInv
<1> QED BY <1>2, <1>4 DEF IInv

LEMMA AdoptInv ==
  ASSUME IInv, NEW h \in Handles, NEW v \in Bufs, Adopt(h, v)
  PROVE  IInv'
<1>0. /\ handle[h] = Null /\ Counted(raw, v) /\ raw' = Dropped(raw, v)
      /\ handle' = [handle EXCEPT ![h] = v]
      /\ UNCHANGED <<rc, borrowed, next, inv, alive>>
  BY DEF Adopt, Counted, IInv, TypeOK
<1>1. raw' \in [Bufs -> Nat] /\ \A b \in Bufs : raw'[b] = raw[b] - Is(v, b)
  BY <1>0, AddDrop DEF IInv, TypeOK
<1>2. TypeOK'
  BY <1>0, <1>1 DEF IInv, TypeOK
<1>3. \A b \in Bufs : rc'[b] + borrowed'[b] - raw'[b] =
           rc[b] + borrowed[b] - raw[b] + Is(v, b) - Is(handle[h], b)
  BY <1>0, <1>1, Numbers, IsFacts DEF IInv
<1>4. Accounting'
  BY <1>0, <1>2, <1>3, SetStep DEF IInv
<1> QED BY <1>2, <1>4 DEF IInv

LEMMA IncRefcountInv == ASSUME IInv, NEW h \in Handles, IncRefcount(h) PROVE IInv'
<1>1. CASE Exit
  BY <1>1, ExitInv
<1>2. CASE ~Exit
  <2> DEFINE v == handle[h]
  <2>0. /\ v \in Bufs /\ rc' = Added(rc, v) /\ raw' = Added(raw, v)
        /\ UNCHANGED <<handle, borrowed, next, inv, alive>>
    BY <1>2 DEF IncRefcount, Valid, IInv, TypeOK
  <2> HIDE DEF v
  <2>1. /\ rc' \in [Bufs -> Nat] /\ raw' \in [Bufs -> Nat]
        /\ \A b \in Bufs : rc'[b] = rc[b] + Is(v, b) /\ raw'[b] = raw[b] + Is(v, b)
    BY <2>0, AddDrop DEF IInv, TypeOK
  <2>2. TypeOK'
    BY <2>0, <2>1 DEF IInv, TypeOK
  <2>3. ASSUME NEW b \in Bufs
        PROVE  rc'[b] + borrowed'[b] = Count(handle', b) + raw'[b]
    <3> DEFINE c == Count(handle, b)
    <3>1. c \in Nat /\ Is(v, b) \in Nat
      BY CountIsNat, IsFacts
    <3>2. rc[b] + borrowed[b] = c + raw[b]
      BY DEF IInv, Accounting, Users, Count
    <3>3. Count(handle', b) = c
      BY <2>0
    <3> HIDE DEF c
    <3> QED BY <2>0, <2>1, <3>1, <3>2, <3>3, Numbers DEF IInv
  <2> QED BY <2>2, <2>3, BalanceInNextState DEF IInv
<1> QED BY <1>1, <1>2

LEMMA DecRefcountInv == ASSUME IInv, NEW h \in Handles, DecRefcount(h) PROVE IInv'
<1>1. CASE Exit
  BY <1>1, ExitInv
<1>2. CASE ~Exit
  <2> DEFINE v == handle[h]
  <2>0. /\ v \in Bufs /\ Counted(rc, v) /\ Counted(raw, v)
        /\ rc' = Dropped(rc, v) /\ raw' = Dropped(raw, v)
        /\ next' = Unlinked(rc')
        /\ UNCHANGED <<handle, borrowed, inv, alive>>
    BY <1>2 DEF DecRefcount, Valid, Counted, IInv, TypeOK
  <2> HIDE DEF v
  <2>1. /\ rc' \in [Bufs -> Nat] /\ raw' \in [Bufs -> Nat]
        /\ \A b \in Bufs : rc'[b] = rc[b] - Is(v, b) /\ raw'[b] = raw[b] - Is(v, b)
    BY <2>0, AddDrop DEF IInv, TypeOK
  <2>2. TypeOK'
    BY <2>0, <2>1, UnlinkedType DEF IInv, TypeOK
  <2>3. ASSUME NEW b \in Bufs
        PROVE  rc'[b] + borrowed'[b] = Count(handle', b) + raw'[b]
    <3> DEFINE c == Count(handle, b)
    <3>1. c \in Nat /\ Is(v, b) \in Nat
      BY CountIsNat, IsFacts
    <3>2. rc[b] + borrowed[b] = c + raw[b]
      BY DEF IInv, Accounting, Users, Count
    <3>3. Count(handle', b) = c
      BY <2>0
    <3> HIDE DEF c
    <3> QED BY <2>0, <2>1, <3>1, <3>2, <3>3, Numbers DEF IInv
  <2> QED BY <2>2, <2>3, BalanceInNextState DEF IInv
<1> QED BY <1>1, <1>2

LEMMA GetLastInListInv ==
  ASSUME IInv, NEW h \in Handles, NEW g \in Handles, GetLastInList(h, g)
  PROVE  IInv'
<1>1. CASE Exit
  BY <1>1, ExitInv
<1>2. ASSUME NEW v \in Bufs, handle[g] = Null,
             handle' = [handle EXCEPT ![g] = v], borrowed' = Added(borrowed, v),
             UNCHANGED <<rc, raw, next, inv, alive>>
      PROVE  IInv'
  <2>1. /\ borrowed' \in [Bufs -> Nat]
        /\ \A b \in Bufs : borrowed'[b] = borrowed[b] + Is(v, b)
    BY <1>2, AddDrop DEF IInv, TypeOK
  <2>2. TypeOK'
    BY <1>2, <2>1 DEF IInv, TypeOK
  <2>3. \A b \in Bufs : rc'[b] + borrowed'[b] - raw'[b] =
             rc[b] + borrowed[b] - raw[b] + Is(v, b) - Is(handle[g], b)
    BY <1>2, <2>1, Numbers, IsFacts DEF IInv
  <2>4. TypeOK /\ Accounting /\ handle' = [handle EXCEPT ![g] = v]
    BY <1>2 DEF IInv
  <2>5. Accounting'
    BY <2>2, <2>3, <2>4, SetStep
  <2> QED BY <2>2, <2>5 DEF IInv
<1> QED BY <1>1, <1>2, FromType DEF GetLastInList

LEMMA GetNextInListInv ==
  ASSUME IInv, NEW h \in Handles, NEW g \in Handles, GetNextInList(h, g)
  PROVE  IInv'
<1>1. CASE Exit
  BY <1>1, ExitInv
<1>2. CASE ~Exit
  <2> DEFINE old == handle[g]
             v == next[handle[h]]
  <2>0. /\ old \in Bufs \cup {Null} /\ v \in Bufs
        /\ Counted(rc, old) /\ rc' = Dropped(rc, old)
        /\ handle' = [handle EXCEPT ![g] = v]
        /\ borrowed' = Added(borrowed, v)
        /\ next' = Unlinked(rc')
        /\ UNCHANGED <<raw, inv, alive>>
    BY <1>2 DEF GetNextInList, Valid, IInv, TypeOK
  <2> HIDE DEF v, old
  <2>1. /\ rc' \in [Bufs -> Nat] /\ borrowed' \in [Bufs -> Nat]
        /\ \A b \in Bufs : /\ rc'[b] = rc[b] - Is(old, b)
                           /\ borrowed'[b] = borrowed[b] + Is(v, b)
    <3>1. rc \in [Bufs -> Nat] /\ borrowed \in [Bufs -> Nat]
      BY DEF IInv, TypeOK
    <3>2. /\ rc' \in [Bufs -> Nat]
          /\ \A b \in Bufs : rc'[b] = rc[b] - Is(old, b)
      BY <2>0, <3>1, AddDrop
    <3>3. /\ borrowed' \in [Bufs -> Nat]
          /\ \A b \in Bufs : borrowed'[b] = borrowed[b] + Is(v, b)
      BY <2>0, <3>1, AddDrop
    <3> QED BY <3>2, <3>3
  <2>2. TypeOK'
    BY <2>0, <2>1, UnlinkedType DEF IInv, TypeOK
  <2>3. \A b \in Bufs : rc'[b] + borrowed'[b] - raw'[b] =
             rc[b] + borrowed[b] - raw[b] + Is(v, b) - Is(old, b)
    <3> SUFFICES ASSUME NEW b \in Bufs
                 PROVE  rc'[b] + borrowed'[b] - raw'[b] =
                          rc[b] + borrowed[b] - raw[b] + Is(v, b) - Is(old, b)
      OBVIOUS
    <3>1. raw'[b] = raw[b] /\ rc[b] \in Nat /\ borrowed[b] \in Nat /\ raw[b] \in Nat
      BY <2>0, Numbers DEF IInv
    <3>2. Is(v, b) \in Nat /\ Is(old, b) \in Nat
      BY IsFacts
    <3> QED BY <2>1, <3>1, <3>2
  <2>4. Accounting'
    BY <2>0, <2>2, <2>3, SetStep DEF IInv, old
  <2> QED BY <2>2, <2>4 DEF IInv
<1> QED BY <1>1, <1>2

(* Moving a Buf object's element into another one.                           *)
LEMMA CountAfterMove ==
  ASSUME NEW hf \in [Handles -> Bufs \cup {Null}], NEW h \in Handles,
         NEW g \in Handles, h # g, NEW b \in Bufs
  PROVE  Count([hf EXCEPT ![h] = hf[g], ![g] = Null], b)
           = Count(hf, b) - Is(hf[h], b)
<1> DEFINE v == hf[g]
           taken == SetTo(hf, h, v)
           hg == SetTo(taken, g, Null)
<1>1. taken \in [Handles -> Bufs \cup {Null}] /\ taken[g] = v
  BY DEF SetTo
<1>2. hg = [hf EXCEPT ![h] = hf[g], ![g] = Null]
  BY DEF SetTo
<1>3. Count(taken, b) = Count(hf, b) + Is(v, b) - Is(hf[h], b)
  BY CountAfterSet
<1> HIDE DEF taken
<1>4. Count(hg, b) = Count(taken, b) + Is(Null, b) - Is(taken[g], b)
  BY <1>1, CountAfterSet
<1>5. Count(hg, b) = Count(taken, b) + Is(Null, b) - Is(v, b)
  BY <1>1, <1>4
<1> DEFINE c == Count(hg, b)
           cTaken == Count(taken, b)
           cOld == Count(hf, b)
           gain == Is(v, b)
           loss == Is(hf[h], b)
<1>6. c = cTaken + Is(Null, b) - gain /\ cTaken = cOld + gain - loss
  BY <1>3, <1>5
<1>7. cOld \in Nat /\ gain \in Nat /\ loss \in Nat /\ Is(Null, b) = 0
  BY IsFacts, CountIsNat
<1> HIDE DEF c, cTaken, cOld, gain, loss
<1>8. c = cOld - loss
  BY <1>6, <1>7
<1> QED BY <1>2, <1>8 DEF c, cOld, loss

LEMMA MoveAssignInv ==
  ASSUME IInv, NEW h \in Handles, NEW g \in Handles, MoveAssign(h, g)
  PROVE  IInv'
<1>1. CASE Exit
  BY <1>1, ExitInv
<1>2. CASE ~Exit
  <2> DEFINE old == handle[h]
             v == handle[g]
             taken == [handle EXCEPT ![h] = v]
  <2>0. /\ h # g /\ old \in Bufs \cup {Null} /\ v \in Bufs \cup {Null}
        /\ Counted(rc, old) /\ rc' = Dropped(rc, old)
        /\ handle' = [taken EXCEPT ![g] = Null]
        /\ next' = Unlinked(rc')
        /\ UNCHANGED <<raw, borrowed, inv, alive>>
    BY <1>2 DEF MoveAssign, IInv, TypeOK
  <2>1. rc' \in [Bufs -> Nat] /\ \A b \in Bufs : rc'[b] = rc[b] - Is(old, b)
    BY <2>0, AddDrop DEF IInv, TypeOK
  <2>2. taken \in [Handles -> Bufs \cup {Null}] /\ taken[g] = v
    BY <2>0 DEF IInv, TypeOK
  <2>3. TypeOK'
    BY <2>0, <2>1, <2>2, UnlinkedType DEF IInv, TypeOK
  <2>4. ASSUME NEW b \in Bufs
        PROVE  rc'[b] + borrowed'[b] = Count(handle', b) + raw'[b]
    <3> DEFINE c == Count(handle', b)
               cOld == Count(handle, b)
               loss == Is(old, b)
    <3>1. c = cOld - loss
      <4>1. handle \in [Handles -> Bufs \cup {Null}]
        BY DEF IInv, TypeOK
      <4>2. handle' = [handle EXCEPT ![h] = handle[g], ![g] = Null]
        BY <2>0
      <4>3. Count([handle EXCEPT ![h] = handle[g], ![g] = Null], b) = cOld - loss
        BY <2>0, <4>1, CountAfterMove
      <4> QED BY <4>2, <4>3
    <3>2. rc[b] + borrowed[b] = cOld + raw[b]
      BY DEF IInv, Accounting, Users, Count
    <3>3. c \in Nat /\ cOld \in Nat /\ loss \in Nat
      BY CountIsNat, IsFacts
    <3>4. rc'[b] = rc[b] - loss /\ borrowed'[b] = borrowed[b] /\ raw'[b] = raw[b]
      BY <2>0, <2>1
    <3> HIDE DEF c, cOld, loss
    <3>5. rc'[b] + borrowed'[b] = c + raw'[b]
      BY <3>1, <3>2, <3>3, <3>4, Numbers DEF IInv
    <3> QED BY <3>5 DEF c
  <2> QED BY <2>3, <2>4, BalanceInNextState DEF IInv
<1> QED BY <1>1, <1>2

LEMMA CollectListInv == ASSUME IInv, NEW h \in Handles, CollectList(h) PROVE IInv'
<1> DEFINE E == From(handle[h])
<1>1. PICK f \in Vectors(h) :
        handle' = [g \in Handles |-> IF \E b \in E : f[b] = g
                                     THEN CHOOSE b \in E : f[b] = g
                                     ELSE handle[g]]
  BY DEF CollectList
<1>2. /\ E \subseteq Bufs
      /\ f \in [E -> {g \in Handles : handle[g] = Null}]
      /\ \A b, c \in E : f[b] = f[c] => b = c
  BY FromType DEF Vectors
<1>3. /\ borrowed' = [b \in Bufs |-> IF b \in E THEN borrowed[b] + 1 ELSE borrowed[b]]
      /\ UNCHANGED <<rc, raw, next, inv, alive>>
  BY DEF CollectList
<1> HIDE DEF E
<1>4. TypeOK'
  BY <1>1, <1>2, <1>3 DEF IInv, TypeOK
<1>5. ASSUME NEW b \in Bufs
      PROVE  rc'[b] + borrowed'[b] = Count(handle', b) + raw'[b]
  <2> DEFINE U == {g \in Handles : handle[g] = b}
             W == {g \in Handles : handle'[g] = b}
  <2>1. rc[b] + borrowed[b] = Cardinality(U) + raw[b] /\ IsFiniteSet(U)
    BY CountIsNat DEF IInv, Accounting, Users
  <2>2. CASE b \in E
    <3>1. f[b] \in Handles /\ handle[f[b]] = Null /\ f[b] \notin U
      BY <1>2, <2>2, BufAssumption
    <3>2. handle'[f[b]] = b
      BY <1>1, <1>2, <2>2, <3>1
    <3>3. \A g \in Handles : g # f[b] => (handle'[g] = b <=> handle[g] = b)
      BY <1>1, <1>2, <2>2, BufAssumption
    <3>4. W = U \cup {f[b]}
      BY <3>1, <3>2, <3>3
    <3>5. Cardinality(W) = Cardinality(U) + 1
      BY <2>1, <3>1, <3>4, FS_AddElement
    <3>6. Count(handle', b) = Cardinality(U) + 1
      BY <3>5 DEF Count
    <3>7. borrowed'[b] = borrowed[b] + 1 /\ rc'[b] = rc[b] /\ raw'[b] = raw[b]
      BY <1>3, <2>2
    <3>8. Cardinality(U) \in Nat
      BY CountIsNat DEF Count
    <3> HIDE DEF U, W
    <3> QED BY <2>1, <3>6, <3>7, <3>8, Numbers DEF IInv
  <2>3. CASE b \notin E
    <3>1. \A g \in Handles : handle'[g] = b <=> handle[g] = b
      BY <1>1, <1>2, <2>3, BufAssumption
    <3>2. W = U
      BY <3>1
    <3>3. Count(handle', b) = Cardinality(U)
      BY <3>2 DEF Count
    <3>4. borrowed'[b] = borrowed[b] /\ rc'[b] = rc[b] /\ raw'[b] = raw[b]
      BY <1>3, <2>3
    <3> QED BY <2>1, <3>3, <3>4
  <2> QED BY <2>2, <2>3
<1> QED BY <1>4, <1>5, BalanceInNextState DEF IInv

LEMMA ListStepInv ==
  ASSUME IInv, NEW h \in Handles, NEW g \in Handles,
         ChainList(h, g) \/ UnchainList(h, g)
  PROVE  IInv'
<1>1. CASE Exit
  BY <1>1, ExitInv
<1>2. CASE ~Exit
  <2>1. UNCHANGED <<handle, rc, raw, borrowed, inv, alive>>
    BY <1>2 DEF ChainList, UnchainList
  <2>2. next' \in [Bufs -> Bufs \cup {Null}]
    BY <1>2, FromType DEF ChainList, UnchainList, Valid, IInv, TypeOK
  <2> QED BY <2>1, <2>2 DEF IInv, TypeOK, Accounting, Users
<1> QED BY <1>1, <1>2

(* What the members of BufInventory do to the inventory and to its objects.  *)
InventoryStep ==
    \E p \in Pools :
        \/ CreateInventory(p) \/ StartInventory(p) \/ StopInventory(p)
        \/ Expand(p) \/ DestroyInventory(p)
        \/ \E q \in Pools : MoveInventory(p, q)

InvTypes == [state : {"none", "created", "started", "stopped", "destroyed", "leaked"},
             size : Nat, object : [Pools -> [owner : BOOLEAN, started : BOOLEAN]],
             stranded : SUBSET Bufs]

(* An inventory with a new state, size and members of one object.            *)
With(i, state, n, p, members) ==
    [i EXCEPT !.state = state, !.size = n, !.object[p] = members]

LEMMA WithFields ==
  ASSUME NEW i \in InvTypes, NEW n \in Nat, NEW p \in Pools,
         NEW state \in {"none", "created", "started", "stopped", "destroyed", "leaked"},
         NEW members \in [owner : BOOLEAN, started : BOOLEAN]
  PROVE  /\ With(i, state, n, p, members) \in InvTypes
         /\ With(i, state, n, p, members).state = state
         /\ With(i, state, n, p, members).object = [i.object EXCEPT ![p] = members]
         /\ With(i, state, n, p, members).stranded = i.stranded
BY DEF With, InvTypes

LEMMA CreateFields ==
  ASSUME inv \in InvTypes, NEW p \in Pools, CreateInventory(p), ~Exit
  PROVE  /\ UNCHANGED <<handle, rc, raw, borrowed, next, alive>>
         /\ inv.state = "none" /\ inv' \in InvTypes /\ inv'.state = "created"
         /\ inv'.object = [inv.object EXCEPT ![p] = [owner |-> TRUE, started |-> FALSE]]
         /\ inv'.stranded = inv.stranded
<1>1. PICK n \in 1 .. Cardinality(Bufs) :
        /\ inv' = [inv EXCEPT !.state = "created", !.size = n,
                              !.object[p] = [owner |-> TRUE, started |-> FALSE]]
        /\ UNCHANGED <<handle, rc, raw, borrowed, next, alive>>
  BY DEF CreateInventory
<1>2. n \in Nat
  OBVIOUS
<1>3. inv.state = "none"
  BY DEF CreateInventory
<1> DEFINE members == [owner |-> TRUE, started |-> FALSE]
<1>4. members \in [owner : BOOLEAN, started : BOOLEAN]
  OBVIOUS
<1>5. inv' = With(inv, "created", n, p, members)
  BY <1>1 DEF With
<1> HIDE DEF members
<1>6. /\ inv' \in InvTypes /\ inv'.state = "created"
      /\ inv'.object = [inv.object EXCEPT ![p] = members]
      /\ inv'.stranded = inv.stranded
  BY <1>2, <1>4, <1>5, WithFields
<1> QED BY <1>1, <1>3, <1>6 DEF members

LEMMA BookkeptFields ==
  ASSUME inv \in InvTypes, NEW p \in Pools, NEW state \in {"started", "stopped"},
         inv' = Bookkept(p, state)
  PROVE  /\ inv' \in InvTypes /\ inv'.state = state
         /\ inv'.object = [inv.object EXCEPT
                             ![p] = [owner |-> Owner(p), started |-> (state = "started")]]
         /\ inv'.stranded = inv.stranded
<1> DEFINE members == [owner |-> Owner(p), started |-> (state = "started")]
<1>1. inv.size \in Nat /\ members \in [owner : BOOLEAN, started : BOOLEAN]
  BY DEF InvTypes, Owner
<1>2. Bookkept(p, state) = With(inv, state, inv.size, p, members)
  <2>1. [inv EXCEPT !.state = state, !.object[p] = members]
          = [inv EXCEPT !.state = state, !.size = inv.size, !.object[p] = members]
    BY DEF InvTypes
  <2> QED BY <2>1 DEF With, Bookkept
<1> HIDE DEF members
<1>3. /\ inv' \in InvTypes /\ inv'.state = state
      /\ inv'.object = [inv.object EXCEPT ![p] = members]
      /\ inv'.stranded = inv.stranded
  BY <1>1, <1>2, WithFields
<1> QED BY <1>3 DEF members

LEMMA ExpandFields ==
  ASSUME inv \in InvTypes, NEW p \in Pools, Expand(p), ~Exit
  PROVE  /\ UNCHANGED <<handle, rc, raw, borrowed, next, alive>>
         /\ inv' \in InvTypes /\ inv'.state = inv.state /\ inv'.object = inv.object
         /\ inv'.stranded = inv.stranded
<1>1. PICK n \in inv.size + 1 .. Cardinality(Bufs) :
        /\ inv' = [inv EXCEPT !.size = n]
        /\ UNCHANGED <<handle, rc, raw, borrowed, next, alive>>
  BY DEF Expand
<1>2. inv.size \in Nat
  BY DEF InvTypes
<1>3. n \in Nat
  BY <1>2
<1> QED BY <1>1, <1>3 DEF InvTypes

(* An object that lets go of the inventory, if it has it.                    *)
LEMMA DiscardFields ==
  ASSUME inv \in InvTypes, NEW p \in Pools
  PROVE  /\ Discarded(p) \in InvTypes /\ Discarded(p).object = inv.object
         /\ ~Owner(p) => Discarded(p) = inv
         /\ Owner(p) => /\ Discarded(p).stranded = InUse
                        /\ InUse = {} => Discarded(p).state = "destroyed"
                        /\ InUse # {} => Discarded(p).state = "leaked"
BY DEF Discarded, InvTypes, InUse

LEMMA DestroyFields ==
  ASSUME inv \in InvTypes, NEW p \in Pools, DestroyInventory(p), ~Exit
  PROVE  /\ UNCHANGED <<handle, rc, raw, borrowed, next, alive>>
         /\ inv' \in InvTypes /\ Owner(p)
         /\ inv'.state = Discarded(p).state /\ inv'.stranded = Discarded(p).stranded
         /\ inv'.object = [inv.object EXCEPT ![p] = NoInventory]
<1>1. inv' = [Discarded(p) EXCEPT !.object[p] = NoInventory]
  BY DEF DestroyInventory
<1> QED BY <1>1, DiscardFields DEF DestroyInventory, InvTypes, NoInventory

LEMMA MoveFields ==
  ASSUME inv \in InvTypes, NEW p \in Pools, NEW q \in Pools, MoveInventory(p, q), ~Exit
  PROVE  /\ UNCHANGED <<handle, rc, raw, borrowed, next, alive>>
         /\ inv' \in InvTypes /\ p # q
         /\ inv'.state = Discarded(p).state /\ inv'.stranded = Discarded(p).stranded
         /\ inv'.object = [inv.object EXCEPT ![p] = inv.object[q], ![q] = NoInventory]
<1>1. inv' = [Discarded(p) EXCEPT !.object[p] = inv.object[q], !.object[q] = NoInventory]
  BY DEF MoveInventory
<1> QED BY <1>1, DiscardFields DEF MoveInventory, InvTypes, NoInventory

LEMMA InventoryStepType ==
  ASSUME TypeOK, InventoryStep, ~Exit
  PROVE  /\ UNCHANGED <<handle, rc, raw, borrowed, next, alive>>
         /\ inv' \in InvTypes
<1>1. inv \in InvTypes /\ inv.size \in Nat
  BY DEF TypeOK, InvTypes
<1>2. PICK p \in Pools :
        \/ CreateInventory(p) \/ StartInventory(p) \/ StopInventory(p)
        \/ Expand(p) \/ DestroyInventory(p)
        \/ \E q \in Pools : MoveInventory(p, q)
  BY DEF InventoryStep
<1>3. CASE CreateInventory(p)
  BY <1>1, <1>3, CreateFields
<1>4. CASE StartInventory(p)
  BY <1>1, <1>4, BookkeptFields DEF StartInventory
<1>5. CASE StopInventory(p)
  BY <1>1, <1>5, BookkeptFields DEF StopInventory
<1>6. CASE Expand(p)
  BY <1>1, <1>6, ExpandFields
<1>7. CASE DestroyInventory(p)
  BY <1>1, <1>7, DestroyFields
<1>8. ASSUME NEW q \in Pools, MoveInventory(p, q)
      PROVE  /\ UNCHANGED <<handle, rc, raw, borrowed, next, alive>>
             /\ inv' \in InvTypes
  BY <1>1, <1>8, MoveFields
<1> QED BY <1>2, <1>3, <1>4, <1>5, <1>6, <1>7, <1>8

LEMMA InventoryStepInv == ASSUME IInv, InventoryStep PROVE IInv'
<1>1. CASE Exit
  BY <1>1, ExitInv
<1>2. CASE ~Exit
  <2>1. UNCHANGED <<handle, rc, raw, borrowed, next, alive>> /\ inv' \in InvTypes
    BY <1>2, InventoryStepType DEF IInv
  <2> QED BY <2>1 DEF IInv, TypeOK, InvTypes, Accounting, Users
<1> QED BY <1>1, <1>2

LEMMA NextInv == IInv /\ [Next]_vars => IInv'
<1> SUFFICES ASSUME IInv, [Next]_vars PROVE IInv'
  OBVIOUS
<1>1. CASE UNCHANGED vars
  BY <1>1 DEF vars, IInv, TypeOK, Accounting, Users
<1>2. CASE Next
  BY <1>2, InventoryStepInv, GetBufferInv, DestroyInv, ReleaseInv,
     IncRefcountInv, DecRefcountInv, AdoptInv, CollectListInv,
     CopyConstructInv, CopyAssignInv, MoveAssignInv, GetNextInListInv,
     GetLastInListInv, ListStepInv, ExitInv
     DEF Next, InventoryStep, Access
<1> QED BY <1>1, <1>2

-----------------------------------------------------------------------------
(* The variables keep their types, and DOCA's reference counts stay equal to *)
(* the Buf objects and hand-held references they stand for, less the handles *)
(* the list operations gave out uncounted (buf.hpp's copy, move, assignment, *)
(* destructor, release, and the list operations).                            *)
THEOREM ReferencesBalance == Spec => [](TypeOK /\ Accounting)
<1>1. Spec => []IInv
  BY InitInv, NextInv, PTL DEF Spec
<1>2. IInv => TypeOK /\ Accounting
  BY DEF IInv
<1> QED BY <1>1, <1>2, PTL

(* No copy, move or assignment of Buf objects invalidates another one: only  *)
(* an element a list operation handed out can be freed under its handle.     *)
THEOREM SharingIsSafe == Spec => []SharedSafely
<1>1. TypeOK /\ Accounting => SharedSafely
  <2> SUFFICES ASSUME TypeOK, Accounting, NEW h \in Handles,
                      handle[h] # Null, borrowed[handle[h]] = 0
               PROVE  rc[handle[h]] > 0
    BY DEF SharedSafely
  <2> DEFINE b == handle[h]
  <2>1. b \in Bufs /\ h \in Users(b)
    BY DEF TypeOK, Users
  <2>2. IsFiniteSet(Users(b)) /\ Cardinality(Users(b)) \in Nat
    BY CountIsNat DEF Users, Count
  <2>3. Cardinality(Users(b)) # 0
    BY <2>1, <2>2, FS_EmptySet
  <2>4. rc[b] + borrowed[b] = Cardinality(Users(b)) + raw[b]
    BY <2>1 DEF Accounting
  <2>5. rc[b] \in Nat /\ raw[b] \in Nat /\ borrowed[b] = 0
    BY <2>1, Numbers
  <2> QED BY <2>2, <2>3, <2>4, <2>5
<1> QED BY <1>1, ReferencesBalance, PTL

(* No Buf operation leaks an element: one in use has an owner that will give *)
(* its reference back.                                                       *)
THEOREM NothingLeaks == Spec => []NoElementLeak
<1>1. TypeOK /\ Accounting => NoElementLeak
  <2> SUFFICES ASSUME TypeOK, Accounting, NEW b \in Bufs, Users(b) = {}, ~(raw[b] > 0)
               PROVE  ~(rc[b] > 0)
    BY DEF NoElementLeak
  <2>1. Cardinality(Users(b)) = 0
    BY FS_EmptySet
  <2>2. rc[b] + borrowed[b] = Cardinality(Users(b)) + raw[b]
    BY DEF Accounting
  <2> QED BY <2>1, <2>2, Numbers
<1> QED BY <1>1, ReferencesBalance, PTL

-----------------------------------------------------------------------------
(* The life of the inventory. *)

LEMMA OwnedInit == Init => InventoryAccounted
BY DEF Init, InventoryAccounted, Owner, NoInventory, InUse

(* A step of a Buf object or of a list takes no element from the inventory:  *)
(* a count rises only if it is not zero.                                     *)
LEMMA UnusedStaysUnused ==
  ASSUME TypeOK, Next,
         \A h \in Handles, p \in Pools : GetBuffer(h, p) => rc' = rc
  PROVE  InUse' \subseteq InUse
<1> SUFFICES ASSUME NEW b \in Bufs, rc[b] = 0 PROVE ~(rc'[b] > 0)
  BY DEF InUse, TypeOK
<1>1. rc \in [Bufs -> Nat] /\ handle \in [Handles -> Bufs \cup {Null}] /\ Null \notin Bufs
  BY BufAssumption DEF TypeOK
<1>2. CASE UNCHANGED rc
  BY <1>2
<1>3. \A x \in Bufs \cup {Null} : x # b => Dropped(rc, x)[b] = 0 /\ Added(rc, x)[b] = 0
  BY <1>1 DEF Dropped, Added
<1>4. \A h \in Handles : Valid(h) \/ Counted(rc, handle[h]) => handle[h] # b
  BY <1>1 DEF Valid, Counted
<1>5. ASSUME NEW h \in Handles, NEW g \in Handles, CopyAssign(h, g), ~Exit
      PROVE  rc'[b] = 0
  <2> DEFINE dropped == Dropped(rc, handle[h])
  <2>1. /\ Counted(rc, handle[h]) /\ Counted(dropped, handle[g])
        /\ rc' = Added(dropped, handle[g])
    BY <1>5 DEF CopyAssign
  <2>2. dropped[b] = 0 /\ DOMAIN dropped = Bufs
    BY <1>1, <1>3, <1>4, <2>1 DEF Dropped
  <2>3. handle[g] # b
    BY <1>1, <2>1, <2>2 DEF Counted
  <2> HIDE DEF dropped
  <2> QED BY <1>1, <2>1, <2>2, <2>3 DEF Added
<1>6. ASSUME NEW h \in Handles, NEW g \in Handles, ~Exit,
             MoveAssign(h, g) \/ CopyConstruct(h, g) \/ GetNextInList(h, g)
      PROVE  rc'[b] = 0
  <2>1. \/ rc' = Added(rc, handle[g]) /\ Valid(g)
        \/ \E o \in Handles : rc' = Dropped(rc, handle[o]) /\ Counted(rc, handle[o])
    BY <1>6 DEF MoveAssign, CopyConstruct, GetNextInList
  <2> QED BY <1>1, <1>3, <1>4, <2>1
<1>7. ASSUME NEW h \in Handles, NEW g \in Handles,
             GetLastInList(h, g) \/ ChainList(h, g) \/ UnchainList(h, g)
      PROVE  UNCHANGED rc
  BY <1>7 DEF GetLastInList, ChainList, UnchainList, Exit
<1>8. ASSUME NEW h \in Handles, ~Exit, Destroy(h) \/ IncRefcount(h) \/ DecRefcount(h)
      PROVE  rc'[b] = 0
  <2>1. Valid(h) /\ (rc' = Added(rc, handle[h]) \/ rc' = Dropped(rc, handle[h]))
    BY <1>8 DEF Destroy, IncRefcount, DecRefcount
  <2> QED BY <1>1, <1>3, <1>4, <2>1
<1>9. ASSUME NEW h \in Handles,
             Release(h) \/ CollectList(h) \/ Access(h) \/ \E c \in Bufs : Adopt(h, c)
      PROVE  UNCHANGED rc
  BY <1>9 DEF Release, CollectList, Access, Adopt, Exit
<1>10. CASE InventoryStep
  BY <1>2, <1>10, InventoryStepType DEF Exit
<1>11. CASE Exit
  BY <1>2, <1>11 DEF Exit
<1> QED BY <1>2, <1>5, <1>6, <1>7, <1>8, <1>9, <1>10, <1>11 DEF Next, InventoryStep

LEMMA BufStepKeepsInventory ==
  ASSUME TypeOK, Next, ~InventoryStep
  PROVE  UNCHANGED inv
BY DEF Next, InventoryStep, GetBuffer, Destroy, Release, IncRefcount, DecRefcount,
       Access, Adopt, CollectList, CopyConstruct, CopyAssign, MoveAssign, GetNextInList,
       GetLastInList, ChainList, UnchainList, Exit

LEMMA OwnedNext == TypeOK /\ InventoryAccounted /\ [Next]_vars => InventoryAccounted'
<1> SUFFICES ASSUME TypeOK, InventoryAccounted, [Next]_vars PROVE InventoryAccounted'
  OBVIOUS
<1>1. CASE UNCHANGED <<rc, inv>>
  BY <1>1 DEF InventoryAccounted, Owner, InUse
<1>2. CASE InventoryStep /\ ~Exit
  <2>1. inv \in InvTypes /\ UNCHANGED rc
    BY <1>2, InventoryStepType DEF TypeOK, InvTypes
  <2>2. InUse' = InUse
    BY <2>1 DEF InUse
  <2>3. PICK p \in Pools :
          \/ CreateInventory(p) \/ StartInventory(p) \/ StopInventory(p)
          \/ Expand(p) \/ DestroyInventory(p)
          \/ \E q \in Pools : MoveInventory(p, q)
    BY <1>2 DEF InventoryStep
  <2>4. CASE CreateInventory(p)
    <3>1. /\ inv.state = "none" /\ inv' \in InvTypes /\ inv'.state = "created"
          /\ inv'.object = [inv.object EXCEPT ![p] = [owner |-> TRUE, started |-> FALSE]]
          /\ inv'.stranded = inv.stranded
      BY <1>2, <2>1, <2>4, CreateFields
    <3> QED BY <2>1, <2>2, <3>1 DEF InventoryAccounted, Owner, InvTypes
  <2>5. CASE StartInventory(p) \/ StopInventory(p)
    <3>1. /\ Owner(p) /\ inv.state \in {"created", "started", "stopped"}
          /\ \E state \in {"started", "stopped"} : inv' = Bookkept(p, state)
      BY <1>2, <2>5 DEF StartInventory, StopInventory, InventoryAccounted
    <3>2. PICK state \in {"started", "stopped"} : inv' = Bookkept(p, state)
      BY <3>1
    <3>3. /\ inv'.state = state
          /\ inv'.object = [inv.object EXCEPT
                              ![p] = [owner |-> Owner(p), started |-> (state = "started")]]
          /\ inv'.stranded = inv.stranded
      BY <2>1, <3>2, BookkeptFields
    <3>4. \A q \in Pools : q # p => ~Owner(q) /\ ~inv.object[q].started
      BY <3>1 DEF InventoryAccounted
    <3>5. /\ inv'.object[p] = [owner |-> Owner(p), started |-> (state = "started")]
          /\ \A q \in Pools : q # p => inv'.object[q] = inv.object[q]
      BY <2>1, <3>3 DEF InvTypes
    <3>6. \A q \in Pools : inv'.object[q].owner <=> q = p
      BY <3>1, <3>4, <3>5 DEF Owner
    <3>7. ASSUME NEW q \in Pools
          PROVE  inv'.object[q].started <=> q = p /\ state = "started"
      <4>1. CASE q = p
        <5>1. inv'.object[p].started = (state = "started")
          BY <3>5
        <5> QED BY <4>1, <5>1
      <4>2. CASE q # p
        BY <3>4, <3>5, <4>2
      <4> QED BY <4>1, <4>2
    <3> QED BY <2>2, <3>1, <3>3, <3>6, <3>7 DEF InventoryAccounted, Owner
  <2>6. CASE Expand(p)
    <3>1. UNCHANGED <<inv.state, inv.object, inv.stranded>>
      BY <1>2, <2>1, <2>6, ExpandFields
    <3> QED BY <2>2, <3>1 DEF InventoryAccounted, Owner
  <2>7. CASE DestroyInventory(p)
    <3>1. /\ Owner(p)
          /\ inv'.state = Discarded(p).state /\ inv'.stranded = Discarded(p).stranded
          /\ inv'.object = [inv.object EXCEPT ![p] = NoInventory]
      BY <1>2, <2>1, <2>7, DestroyFields
    <3>2. inv'.stranded = InUse /\ inv'.state = IF InUse = {} THEN "destroyed" ELSE "leaked"
      BY <2>1, <3>1, DiscardFields
    <3>3. \A q \in Pools : ~inv'.object[q].owner /\ ~inv'.object[q].started
      BY <2>1, <3>1 DEF InventoryAccounted, Owner, NoInventory, InvTypes
    <3> QED BY <2>2, <3>2, <3>3 DEF InventoryAccounted, Owner
  <2>8. ASSUME NEW q \in Pools, MoveInventory(p, q) PROVE InventoryAccounted'
    <3>1. /\ p # q
          /\ inv'.state = Discarded(p).state /\ inv'.stranded = Discarded(p).stranded
          /\ inv'.object = [inv.object EXCEPT ![p] = inv.object[q], ![q] = NoInventory]
      BY <1>2, <2>1, <2>8, MoveFields
    <3>2. /\ inv'.object[p] = inv.object[q] /\ inv'.object[q] = NoInventory
          /\ \A o \in Pools : o # p /\ o # q => inv'.object[o] = inv.object[o]
      BY <2>1, <3>1 DEF InvTypes
    <3>3. CASE Owner(p)
      <4>1. inv'.stranded = InUse /\ inv'.state = IF InUse = {} THEN "destroyed" ELSE "leaked"
        BY <2>1, <3>1, <3>3, DiscardFields
      <4>2. \A o \in Pools : o # p => ~inv.object[o].owner /\ ~inv.object[o].started
        BY <3>3 DEF InventoryAccounted, Owner
      <4>3. \A o \in Pools : ~inv'.object[o].owner /\ ~inv'.object[o].started
        BY <3>1, <3>2, <4>2 DEF NoInventory
      <4> QED BY <2>2, <4>1, <4>3 DEF InventoryAccounted, Owner
    <3>4. CASE ~Owner(p)
      <4>1. inv'.stranded = inv.stranded /\ inv'.state = inv.state
        BY <2>1, <3>1, <3>4, DiscardFields
      <4>2. ~inv.object[p].owner /\ ~inv.object[p].started
        BY <3>4 DEF InventoryAccounted, Owner
      <4>3. ~inv'.object[q].owner /\ ~inv'.object[q].started
        BY <3>2 DEF NoInventory
      <4>4. \A o, g \in Pools : inv'.object[o].owner /\ inv'.object[g].owner => o = g
        BY <3>2, <4>2, <4>3 DEF InventoryAccounted, Owner
      <4>5. (\E o \in Pools : inv'.object[o].owner) <=> \E o \in Pools : inv.object[o].owner
        BY <3>2, <4>2, <4>3
      <4>6. \A o \in Pools : inv'.object[o].started <=>
                             inv'.object[o].owner /\ inv.state = "started"
        BY <3>2, <4>2, <4>3 DEF InventoryAccounted, Owner
      <4> QED BY <2>2, <4>1, <4>4, <4>5, <4>6 DEF InventoryAccounted, Owner
    <3> QED BY <3>3, <3>4
  <2> QED BY <2>3, <2>4, <2>5, <2>6, <2>7, <2>8
<1>3. CASE Next /\ ~InventoryStep
  <2>1. UNCHANGED inv
    BY <1>3, BufStepKeepsInventory
  <2>2. (\A p \in Pools : ~Owner(p)) => InUse' \subseteq InUse
    <3>1. SUFFICES ASSUME \A p \in Pools : ~Owner(p) PROVE InUse' \subseteq InUse
      OBVIOUS
    <3>2. \A h \in Handles, p \in Pools : GetBuffer(h, p) => rc' = rc
      BY <3>1 DEF GetBuffer, Exit
    <3> QED BY <1>3, <3>2, UnusedStaysUnused
  <2> QED BY <2>1, <2>2 DEF InventoryAccounted, Owner
<1> QED BY <1>1, <1>2, <1>3 DEF vars, Exit

(* DOCA's inventory has one BufInventory object, which knows whether it is   *)
(* started, until that is destroyed or assigned to.  Then the inventory is   *)
(* gone, with no element in use, or else leaked with just the elements in    *)
(* use at that moment (buf_inventory.hpp's constructor, moves, start, stop    *)
(* and destructor, and every way to get, share and drop a buffer).           *)
THEOREM InventoryIsAccounted == Spec => []InventoryAccounted
<1> QED BY OwnedInit, OwnedNext, ReferencesBalance, PTL DEF Spec

(* Every Buf refers to an element of the pool or to nothing, and no count of  *)
(* references or of borrowed pointers goes below zero.                        *)
THEOREM TypeCorrect == Spec => []TypeOK
<1> QED BY ReferencesBalance, PTL

-----------------------------------------------------------------------------
(* BufInventory objects own the inventory as UniqueOwner promises. *)

LEMMA OwnersInit == Init => Owners!Init
BY DEF Init, Owners!Init, Standing, Pointer, Owner, NoInventory

LEMMA OwnersKept ==
  ASSUME \/ inv'.state = inv.state
         \/ {inv.state, inv'.state} \subseteq {"created", "started", "stopped"},
         \A p \in Pools : Owner(p)' <=> Owner(p)
  PROVE  UNCHANGED Owners!vars
<1>1. Standing' = Standing
  BY DEF Standing
<1>2. \A p \in Pools : Pointer(p)' = Pointer(p)
  BY DEF Pointer
<1> QED BY <1>1, <1>2 DEF Owners!vars

LEMMA CreateMakes ==
  ASSUME TypeOK, InventoryAccounted, NEW p \in Pools, CreateInventory(p), ~Exit
  PROVE  Owners!Make(p, "inventory")
<1>1. /\ inv.state = "none" /\ inv'.state = "created"
      /\ inv'.object = [inv.object EXCEPT ![p] = [owner |-> TRUE, started |-> FALSE]]
  BY CreateFields DEF TypeOK, InvTypes
<1>2. \A q \in Pools : ~Owner(q)
  BY <1>1 DEF InventoryAccounted
<1>3. Owner(p)' /\ \A q \in Pools : q # p => Owner(q)' = Owner(q)
  BY <1>1 DEF Owner, TypeOK
<1>4. /\ Standing = "unmade" /\ Standing' = "owned"
      /\ Pointer(p) = "none" /\ Pointer(p)' = "inventory"
      /\ \A q \in Pools : q # p => Pointer(q)' = Pointer(q)
  BY <1>1, <1>2, <1>3 DEF Standing, Pointer
<1> QED BY <1>4 DEF Owners!Make

\* p's inventory, if it has it, is destroyed or lost.
LEMMA DiscardDisposes ==
  ASSUME InventoryAccounted, inv \in InvTypes, NEW p \in Pools,
         inv'.state = Discarded(p).state
  PROVE  Owners!Disposed(p)
<1>1. CASE Owner(p)
  <2>1. Standing' \in {"gone", "lost"} /\ Pointer(p) = "inventory"
    BY <1>1, DiscardFields DEF Standing, Pointer
  <2>2. [r \in {"inventory"} |-> Standing']
           = [[r \in {"inventory"} |-> Standing] EXCEPT !["inventory"] = Standing']
    OBVIOUS
  <2> QED BY <2>1, <2>2 DEF Owners!Disposed
<1>2. CASE ~Owner(p)
  <2>1. Standing' = Standing /\ Pointer(p) = "none"
    BY <1>2, DiscardFields DEF Standing, Pointer
  <2> QED BY <2>1 DEF Owners!Disposed
<1> QED BY <1>1, <1>2

LEMMA InventoryOwnersStep ==
  ASSUME TypeOK, InventoryAccounted, InventoryStep, ~Exit
  PROVE  Owners!Next \/ UNCHANGED Owners!vars
<1>1. inv \in InvTypes
  BY DEF TypeOK, InvTypes
<1>2. PICK p \in Pools :
        \/ CreateInventory(p) \/ StartInventory(p) \/ StopInventory(p)
        \/ Expand(p) \/ DestroyInventory(p)
        \/ \E q \in Pools : MoveInventory(p, q)
  BY DEF InventoryStep
<1>3. CASE CreateInventory(p)
  BY <1>3, CreateMakes DEF Owners!Next
<1>4. CASE StartInventory(p) \/ StopInventory(p)
  <2>1. PICK state \in {"started", "stopped"} : inv' = Bookkept(p, state)
    BY <1>4 DEF StartInventory, StopInventory
  <2>2. /\ inv.state \in {"created", "started", "stopped"}
        /\ inv'.state \in {"created", "started", "stopped"}
    BY <1>1, <1>4, <2>1, BookkeptFields DEF StartInventory, StopInventory, InventoryAccounted
  <2>3. inv'.object = [inv.object EXCEPT
                          ![p] = [owner |-> Owner(p), started |-> (state = "started")]]
    BY <1>1, <2>1, BookkeptFields
  <2>4. \A q \in Pools : Owner(q)' <=> Owner(q)
    BY <1>1, <2>3 DEF Owner, InvTypes
  <2> QED BY <2>2, <2>4, OwnersKept
<1>5. CASE Expand(p)
  <2>1. inv'.state = inv.state /\ inv'.object = inv.object
    BY <1>1, <1>5, ExpandFields
  <2> QED BY <2>1, OwnersKept DEF Owner
<1>6. CASE DestroyInventory(p)
  <2>1. /\ Owner(p) /\ inv'.state = Discarded(p).state
        /\ inv'.object = [inv.object EXCEPT ![p] = NoInventory]
    BY <1>1, <1>6, DestroyFields
  <2>2. Owners!Disposed(p)
    BY <1>1, <2>1, DiscardDisposes
  <2>3. Pointer(p) = "inventory" /\ Pointer(p)' = "none"
    BY <1>1, <2>1 DEF Pointer, Owner, NoInventory, InvTypes
  <2>4. \A q \in Pools : q # p => Pointer(q)' = Pointer(q)
    BY <1>1, <2>1 DEF Pointer, Owner, InvTypes
  <2>5. [q \in Pools |-> Pointer(q)'] = [[q \in Pools |-> Pointer(q)] EXCEPT ![p] = "none"]
    BY <2>3, <2>4
  <2> QED BY <2>2, <2>3, <2>5 DEF Owners!Destroy, Owners!Next
<1>7. ASSUME NEW q \in Pools, MoveInventory(p, q) PROVE Owners!Next
  <2>1. /\ p # q
        /\ inv'.state = Discarded(p).state
        /\ inv'.object = [inv.object EXCEPT ![p] = inv.object[q], ![q] = NoInventory]
    BY <1>1, <1>7, MoveFields
  <2>2. Owners!Disposed(p)
    BY <1>1, <2>1, DiscardDisposes
  <2>3. /\ inv'.object[p] = inv.object[q] /\ inv'.object[q] = NoInventory
        /\ \A o \in Pools : o # p /\ o # q => inv'.object[o] = inv.object[o]
    BY <1>1, <2>1 DEF InvTypes
  <2>4. /\ Pointer(p)' = Pointer(q) /\ Pointer(q)' = "none"
        /\ \A o \in Pools : o # p /\ o # q => Pointer(o)' = Pointer(o)
    BY <2>3 DEF Pointer, Owner, NoInventory
  <2>5. [o \in Pools |-> Pointer(o)']
           = [[o \in Pools |-> Pointer(o)] EXCEPT ![p] = Pointer(q), ![q] = "none"]
    BY <2>1, <2>4
  <2> QED BY <2>1, <2>2, <2>5 DEF Owners!Move, Owners!Next
<1> QED BY <1>2, <1>3, <1>4, <1>5, <1>6, <1>7

LEMMA OwnersStep ==
  TypeOK /\ InventoryAccounted /\ [Next]_vars => [Owners!Next]_Owners!vars
<1> SUFFICES ASSUME TypeOK, InventoryAccounted, [Next]_vars
             PROVE  [Owners!Next]_Owners!vars
  OBVIOUS
<1>1. CASE UNCHANGED inv
  BY <1>1, OwnersKept DEF Owner
<1>2. CASE InventoryStep /\ ~Exit
  BY <1>2, InventoryOwnersStep
<1> QED BY <1>1, <1>2, BufStepKeepsInventory DEF vars, Exit

(* The inventory changes hands only by a move, is destroyed or lost once, by  *)
(* the object that has it, and no step of a Buf does any of these             *)
(* (buf_inventory.hpp's constructor, moves and destructor).                   *)
THEOREM InventoriesAreOwners == Spec => ImplementsUniqueOwner
<1> QED BY OwnersInit, OwnersStep, InventoryIsAccounted, TypeCorrect, PTL
        DEF Spec, ImplementsUniqueOwner, Owners!Spec
=============================================================================
