------------------------- MODULE StorerMock_proofs -------------------------
(***************************************************************************)
(* Proofs about update/mock's StorerMock, for any goroutines, keys, values *)
(* and number of calls: it is well typed and implements the atomic store.  *)
(***************************************************************************)
EXTENDS StorerMock, TLAPS

(***************************************************************************)
(* The invariant behind the refinement.  The mutex is held by a goroutine  *)
(* exactly while it iterates, so no Put runs during an iteration; hence    *)
(* what the iteration has handed out, and the keys it has still to visit,  *)
(* are pairs and keys of the current map.                                  *)
(***************************************************************************)
OwnerIterates == \A c \in Clients : pc[c] = "iterate" <=> owner = c

(* The pairs of sm.data that hold a value.                                 *)
Snapshot(d) == {<<k, d[k]>> : k \in Present(d)}

SeenCurrent ==
  \A c \in Clients : pc[c] = "iterate" =>
    /\ seen[c] \subseteq Snapshot(data)
    /\ toVisit[c] \subseteq Present(data)

IInv == TypeOK /\ OwnerIterates /\ SeenCurrent

LEMMA InitIInv == Init => IInv
<1> SUFFICES ASSUME Init PROVE IInv
  OBVIOUS
<1>1. TypeOK
  <2>1. req \in [Clients -> [key : Keys, val : Vals]]
    BY StorerMockAssumption DEF Init
  <2> QED  BY <2>1, StorerMockAssumption DEF Init, TypeOK
<1>2. OwnerIterates /\ SeenCurrent
  BY StorerMockAssumption DEF Init, OwnerIterates, SeenCurrent
<1> QED  BY <1>1, <1>2 DEF IInv

LEMMA NextIInv == IInv /\ [Next]_vars => IInv'
<1> SUFFICES ASSUME IInv, [Next]_vars PROVE IInv'
  OBVIOUS
<1> USE StorerMockAssumption DEF IInv, TypeOK, OwnerIterates, SeenCurrent
<1>1. ASSUME NEW c \in Clients, NEW op \in {"put", "get"}, NEW k \in Keys,
             NEW v \in Vals, Call(c, op, k, v)
      PROVE  IInv'
  BY <1>1 DEF Call
<1>2. ASSUME NEW c \in Clients, Put(c) PROVE IInv'
  <2>1. \A d \in Clients : pc[d] # "iterate"
    BY <1>2 DEF Put
  <2>2. TypeOK'
    BY <1>2 DEF Put
  <2>3. OwnerIterates' /\ SeenCurrent'
    BY <1>2, <2>1 DEF Put
  <2> QED  BY <2>2, <2>3
<1>3. ASSUME NEW c \in Clients, Get(c) PROVE IInv'
  BY <1>3 DEF Get
<1>4. ASSUME NEW c \in Clients, CallRange(c) PROVE IInv'
  <2>1. ops' \in [Clients -> 0..MaxOps]
    BY <1>4 DEF CallRange
  <2>2. CASE UNCHANGED pc
    BY <1>4, <2>1, <2>2 DEF CallRange
  <2>3. CASE pc' = [pc EXCEPT ![c] = "range"]
    BY <1>4, <2>1, <2>3 DEF CallRange
  <2> QED  BY <1>4, <2>2, <2>3 DEF CallRange
<1>5. ASSUME NEW c \in Clients, LockRange(c) PROVE IInv'
  BY <1>5 DEF LockRange, Present
<1>6. ASSUME NEW c \in Clients, Visit(c) PROVE IInv'
  <2>1. PICK k \in toVisit[c] :
          /\ seen' = [seen EXCEPT ![c] = seen[c] \cup {<<k, data[k]>>}]
          /\ \/ /\ toVisit' = [toVisit EXCEPT ![c] = @ \ {k}]
                /\ UNCHANGED <<owner, pc, rangeOut>>
             \/ Return(c, seen[c] \cup {<<k, data[k]>>})
    BY <1>6 DEF Visit
  <2>2. pc[c] = "iterate" /\ owner = c
    BY <1>6 DEF Visit
  <2>3. k \in Present(data)
    BY <2>1, <2>2
  <2>4. seen[c] \cup {<<k, data[k]>>} \subseteq Snapshot(data)
    BY <2>2, <2>3 DEF Present, Snapshot
  <2>5. UNCHANGED <<data, req, getOut, ops>>
    BY <1>6 DEF Visit
  <2>6. seen[c] \cup {<<k, data[k]>>} \in SUBSET Pairs
    BY <2>2, <2>3 DEF Present, Pairs
  <2>7. CASE /\ toVisit' = [toVisit EXCEPT ![c] = @ \ {k}]
             /\ UNCHANGED <<owner, pc, rangeOut>>
    <3>1. TypeOK'  BY <2>1, <2>5, <2>6, <2>7
    <3>2. OwnerIterates'  BY <2>5, <2>7
    <3>3. SeenCurrent'  BY <2>1, <2>2, <2>4, <2>5, <2>7 DEF Present
    <3> QED  BY <3>1, <3>2, <3>3
  <2>8. CASE Return(c, seen[c] \cup {<<k, data[k]>>})
    <3>1. owner' = NoOwner /\ pc' = [pc EXCEPT ![c] = "idle"]
      BY <2>2, <2>8 DEF Return
    <3>2. TypeOK'  BY <2>1, <2>5, <2>6, <2>8, <3>1 DEF Return
    <3>5. \A d \in Clients \ {c} : pc[d] # "iterate"
      BY <2>2
    <3>6. \A d \in Clients : pc'[d] # "iterate"
      BY <3>1, <3>5
    <3>3. OwnerIterates'  BY <3>1, <3>6
    <3>4. SeenCurrent'  BY <3>6
    <3> QED  BY <3>2, <3>3, <3>4
  <2> QED  BY <2>1, <2>7, <2>8
<1>7. ASSUME NEW c \in Clients, EndRange(c) PROVE IInv'
  BY <1>7 DEF EndRange, Return
<1>8. CASE UNCHANGED vars
  BY <1>8 DEF vars
<1> QED
  BY <1>1, <1>2, <1>3, <1>4, <1>5, <1>6, <1>7, <1>8 DEF Next, Step

-----------------------------------------------------------------------------
absVars == <<AbstractMap, getOut, rangeOut>>

(* The abstract map's entries are the pairs of sm.data that hold a value.  *)
LEMMA EntriesSnapshot == Abstract!Entries(AbstractMap) = Snapshot(data)
  BY DEF Abstract!Entries, AbstractMap, Snapshot

LEMMA InitRefines == Init => Abstract!Init
<1> SUFFICES ASSUME Init PROVE Abstract!Init
  OBVIOUS
<1>1. Present(data) = {}
  BY DEF Init, Present
<1>2. AbstractMap = [k \in {} |-> NotFound]
  BY <1>1 DEF AbstractMap
<1>3. QED
  BY <1>2 DEF Init, Abstract!Init

LEMMA NextRefines == IInv /\ [Next]_vars => [Abstract!Next]_absVars
<1> SUFFICES ASSUME IInv, [Next]_vars PROVE [Abstract!Next]_absVars
  OBVIOUS
<1> USE StorerMockAssumption DEF IInv, TypeOK
<1>1. ASSUME NEW c \in Clients, NEW op \in {"put", "get"}, NEW k \in Keys,
             NEW v \in Vals, Call(c, op, k, v)
      PROVE  UNCHANGED absVars
  BY <1>1 DEF Call, absVars, AbstractMap
<1>2. ASSUME NEW c \in Clients, Put(c) PROVE Abstract!Next
  <2> DEFINE k == req[c].key
             v == req[c].val
  <2>0. k \in Keys /\ v \in Vals /\ data' = [data EXCEPT ![k] = v]
    BY <1>2 DEF Put
  <2>1. Present(data') = Present(data) \cup {k}
    BY <2>0 DEF Present
  <2>2. AbstractMap' = [x \in DOMAIN AbstractMap \cup {k} |->
                         IF x = k THEN v ELSE AbstractMap[x]]
    BY <2>0, <2>1 DEF AbstractMap, Present
  <2>3. Abstract!Put(k, v)
    BY <1>2, <2>2 DEF Put, Abstract!Put
  <2> QED  BY <2>0, <2>3 DEF Abstract!Next
<1>3. ASSUME NEW c \in Clients, Get(c) PROVE Abstract!Next
  <2>0. req[c].key \in Keys
    OBVIOUS
  <2>1. Abstract!Get(c, req[c].key)
    BY <1>3, <2>0 DEF Get, Abstract!Get, AbstractMap, Present
  <2> QED  BY <2>1 DEF Abstract!Next
<1>4. ASSUME NEW c \in Clients, CallRange(c) \/ LockRange(c)
      PROVE  UNCHANGED absVars
  BY <1>4 DEF CallRange, LockRange, absVars, AbstractMap
<1>5. ASSUME NEW c \in Clients, Visit(c) PROVE [Abstract!Next]_absVars
  <2>1. PICK k \in toVisit[c] :
          /\ seen' = [seen EXCEPT ![c] = seen[c] \cup {<<k, data[k]>>}]
          /\ \/ /\ toVisit' = [toVisit EXCEPT ![c] = @ \ {k}]
                /\ UNCHANGED <<owner, pc, rangeOut>>
             \/ Return(c, seen[c] \cup {<<k, data[k]>>})
    BY <1>5 DEF Visit
  <2>2. pc[c] = "iterate" /\ UNCHANGED <<data, getOut>>
    BY <1>5 DEF Visit
  <2>3. k \in Present(data)
    BY <2>1, <2>2 DEF SeenCurrent
  <2>4. seen[c] \cup {<<k, data[k]>>} \in SUBSET Snapshot(data)
    BY <2>2, <2>3 DEF SeenCurrent, Present, Snapshot
  <2>5. CASE UNCHANGED rangeOut
    BY <2>2, <2>5 DEF absVars, AbstractMap
  <2>6. CASE Return(c, seen[c] \cup {<<k, data[k]>>})
    <3>1. AbstractMap' = AbstractMap
      BY <2>2 DEF AbstractMap, Present
    <3>2. seen[c] \cup {<<k, data[k]>>} \in SUBSET Abstract!Entries(AbstractMap)
      BY <2>4, EntriesSnapshot
    <3>3. rangeOut' = [rangeOut EXCEPT ![c] = seen[c] \cup {<<k, data[k]>>}]
      BY <2>6 DEF Return
    <3>4. Abstract!RangeKeys(c)
      BY <2>2, <3>1, <3>2, <3>3 DEF Abstract!RangeKeys
    <3> QED  BY <3>4 DEF Abstract!Next
  <2> QED  BY <2>1, <2>5, <2>6
<1>6. ASSUME NEW c \in Clients, EndRange(c) PROVE Abstract!Next
  <2>1. seen[c] \in SUBSET Snapshot(data)
    BY <1>6 DEF EndRange, SeenCurrent
  <2>2. UNCHANGED <<data, getOut>> /\ rangeOut' = [rangeOut EXCEPT ![c] = seen[c]]
    BY <1>6 DEF EndRange, Return
  <2>3. AbstractMap' = AbstractMap
    BY <2>2 DEF AbstractMap, Present
  <2>4. seen[c] \in SUBSET Abstract!Entries(AbstractMap)
    BY <2>1, EntriesSnapshot
  <2>5. Abstract!RangeKeys(c)
    BY <2>2, <2>3, <2>4 DEF Abstract!RangeKeys
  <2> QED  BY <2>5 DEF Abstract!Next
<1>7. CASE UNCHANGED vars
  BY <1>7 DEF vars, absVars, AbstractMap
<1> QED
  BY <1>1, <1>2, <1>3, <1>4, <1>5, <1>6, <1>7 DEF Next, Step

(***************************************************************************)
(* Every state of the storer is well typed: sm.data maps keys to values or *)
(* nothing, the mutex is free or held by a goroutine, and every Get and    *)
(* RangeKeys returns values of the map.                                    *)
(***************************************************************************)
THEOREM StorerMockTypeCorrect == Spec => []TypeOK
<1>1. IInv => TypeOK  BY DEF IInv
<1> QED  BY <1>1, InitIInv, NextIInv, PTL DEF Spec

(***************************************************************************)
(* StorerMock implements the atomic store for any goroutines, keys and     *)
(* values: holding sm.mut across RangeKeys' loop makes every iteration see *)
(* one state of the map, and Put and Get are atomic under the mutex.       *)
(***************************************************************************)
THEOREM StorerMockRefinesAtomic == Spec => AtomicStorer
<1>1. Init => Abstract!Init  BY InitRefines
<1>2. IInv /\ [Next]_vars => [Abstract!Next]_absVars  BY NextRefines
<1> QED
  BY <1>1, <1>2, InitIInv, NextIInv, PTL
  DEF Spec, AtomicStorer, Abstract!Spec, absVars
=============================================================================
