----------------------------- MODULE StorerMock -----------------------------
(***************************************************************************)
(* The update package's StorerMock (update/mock/storerMock.go): a map      *)
(* guarded by one sync.Mutex, used by several goroutines.  Put and Get     *)
(* hold the mutex only around one map access, so each is one step (it      *)
(* waits while another goroutine holds the mutex).  RangeKeys holds the    *)
(* mutex across the whole iteration and calls the handler once per key;    *)
(* each handler call is a step, so other goroutines run meanwhile.  The    *)
(* handler is a caller's function: here it only decides whether to go on  *)
(* and does not call back into the storer.  Keys and values are model      *)
(* values; the error text of a missing key is abstracted to NotFound.      *)
(***************************************************************************)
EXTENDS Naturals

CONSTANTS
  Clients,      \* goroutines using the storer
  Keys, Vals,   \* keys and values they put
  Missing,      \* a key absent from sm.data
  NotFound,     \* Get's "key not found" error
  NoOwner,      \* the mutex is free
  MaxOps        \* calls each goroutine makes

ASSUME StorerMockAssumption ==
  /\ MaxOps \in Nat /\ Keys # {} /\ Vals # {}
  /\ Missing \notin Vals /\ NotFound \notin Vals /\ NoOwner \notin Clients

VARIABLES
  data,        \* sm.data
  owner,       \* the goroutine holding sm.mut during RangeKeys
  pc,          \* where each goroutine is
  req,         \* the key and value of its current Put or Get
  toVisit,     \* keys the running iteration has still to hand out
  seen,        \* pairs the handler has been given in the running RangeKeys
  getOut,      \* what each goroutine's last Get returned
  rangeOut,    \* the pairs each goroutine's last RangeKeys handed out
  ops          \* calls made by each goroutine

vars == <<data, owner, pc, req, toVisit, seen, getOut, rangeOut, ops>>

Present(d) == {k \in Keys : d[k] # Missing}

(* NewStorerMock: an empty map and a free mutex.                           *)
Init ==
  /\ data = [k \in Keys |-> Missing]
  /\ owner = NoOwner
  /\ pc = [c \in Clients |-> "idle"]
  /\ req = [c \in Clients |-> [key |-> CHOOSE k \in Keys : TRUE,
                               val |-> CHOOSE v \in Vals : TRUE]]
  /\ toVisit = [c \in Clients |-> {}]
  /\ seen = [c \in Clients |-> {}]
  /\ getOut = [c \in Clients |-> NotFound]
  /\ rangeOut = [c \in Clients |-> {}]
  /\ ops = [c \in Clients |-> 0]

(* A goroutine calls Put(k, v) or Get(k), and blocks on sm.mut.Lock().     *)
Call(c, op, k, v) ==
  /\ pc[c] = "idle" /\ ops[c] < MaxOps
  /\ pc' = [pc EXCEPT ![c] = op]
  /\ req' = [req EXCEPT ![c] = [key |-> k, val |-> v]]
  /\ ops' = [ops EXCEPT ![c] = @ + 1]
  /\ UNCHANGED <<data, owner, toVisit, seen, getOut, rangeOut>>

(* Put: lock, sm.data[key] = data, deferred unlock.                        *)
Put(c) ==
  /\ pc[c] = "put" /\ owner = NoOwner
  /\ data' = [data EXCEPT ![req[c].key] = req[c].val]
  /\ pc' = [pc EXCEPT ![c] = "idle"]
  /\ UNCHANGED <<owner, req, toVisit, seen, getOut, rangeOut, ops>>

(* Get: lock, look the key up, an error when it is absent, unlock.         *)
Get(c) ==
  /\ pc[c] = "get" /\ owner = NoOwner
  /\ getOut' = [getOut EXCEPT ![c] =
                  IF data[req[c].key] = Missing THEN NotFound
                  ELSE data[req[c].key]]
  /\ pc' = [pc EXCEPT ![c] = "idle"]
  /\ UNCHANGED <<data, owner, req, toVisit, seen, rangeOut, ops>>

(* RangeKeys: a nil handler returns at once; otherwise the goroutine       *)
(* blocks on sm.mut.Lock().                                                *)
CallRange(c) ==
  /\ pc[c] = "idle" /\ ops[c] < MaxOps
  /\ ops' = [ops EXCEPT ![c] = @ + 1]
  /\ \/ UNCHANGED pc
     \/ pc' = [pc EXCEPT ![c] = "range"]
  /\ UNCHANGED <<data, owner, req, toVisit, seen, getOut, rangeOut>>

(* RangeKeys takes the mutex and starts ranging over sm.data.              *)
\* Mutant: the iteration runs without taking the mutex.
LockRange_noLock(c) ==
  /\ pc[c] = "range"
  /\ toVisit' = [toVisit EXCEPT ![c] = Present(data)]
  /\ seen' = [seen EXCEPT ![c] = {}]
  /\ pc' = [pc EXCEPT ![c] = "iterate"]
  /\ UNCHANGED <<data, owner, req, getOut, rangeOut, ops>>

LockRange(c) ==
  /\ pc[c] = "range" /\ owner = NoOwner
  /\ owner' = c
  /\ toVisit' = [toVisit EXCEPT ![c] = Present(data)]
  /\ seen' = [seen EXCEPT ![c] = {}]
  /\ pc' = [pc EXCEPT ![c] = "iterate"]
  /\ UNCHANGED <<data, req, getOut, rangeOut, ops>>

(* The iteration returns: the deferred unlock runs and the pairs handed    *)
(* out are the call's result.                                              *)
Return(c, out) ==
  /\ owner' = IF owner = c THEN NoOwner ELSE owner
  /\ rangeOut' = [rangeOut EXCEPT ![c] = out]
  /\ pc' = [pc EXCEPT ![c] = "idle"]
  /\ toVisit' = [toVisit EXCEPT ![c] = {}]

(* One handler call on a key of the map, in random order; the handler      *)
(* returns shouldContinue.                                                 *)
\* Mutant: the early return skips the unlock (no defer).
Visit_stopNoUnlock(c) ==
  /\ pc[c] = "iterate"
  /\ \E k \in toVisit[c] :
       LET s == seen[c] \cup {<<k, data[k]>>}
       IN /\ seen' = [seen EXCEPT ![c] = s]
          /\ \/ /\ toVisit' = [toVisit EXCEPT ![c] = @ \ {k}]
                /\ UNCHANGED <<owner, pc, rangeOut>>
             \/ /\ rangeOut' = [rangeOut EXCEPT ![c] = s]
                /\ pc' = [pc EXCEPT ![c] = "idle"]
                /\ toVisit' = [toVisit EXCEPT ![c] = {}]
                /\ UNCHANGED owner
  /\ UNCHANGED <<data, req, getOut, ops>>

Visit(c) ==
  /\ pc[c] = "iterate"
  /\ \E k \in toVisit[c] :
       LET s == seen[c] \cup {<<k, data[k]>>}
       IN /\ seen' = [seen EXCEPT ![c] = s]
          /\ \/ /\ toVisit' = [toVisit EXCEPT ![c] = @ \ {k}]
                /\ UNCHANGED <<owner, pc, rangeOut>>
             \/ Return(c, s)
  /\ UNCHANGED <<data, req, getOut, ops>>

(* The range loop ends after the last key.                                 *)
EndRange(c) ==
  /\ pc[c] = "iterate" /\ toVisit[c] = {}
  /\ Return(c, seen[c])
  /\ UNCHANGED <<data, req, seen, getOut, ops>>

Step(c) == Put(c) \/ Get(c) \/ LockRange(c) \/ Visit(c) \/ EndRange(c)

Next ==
  \E c \in Clients :
    \/ \E k \in Keys, v \in Vals : Call(c, "put", k, v)
    \/ \E k \in Keys : Call(c, "get", k, CHOOSE v \in Vals : TRUE)
    \/ CallRange(c)
    \/ Step(c)

(* The Go scheduler runs every runnable goroutine, and sync.Mutex hands    *)
(* the lock to a waiter once it is free; with finitely many calls weak     *)
(* fairness of each goroutine's steps is enough.                           *)
Spec == Init /\ [][Next]_vars /\ \A c \in Clients : WF_vars(Step(c))

-----------------------------------------------------------------------------
Pairs == Keys \X Vals

TypeOK ==
  /\ data \in [Keys -> Vals \cup {Missing}]
  /\ owner \in Clients \cup {NoOwner}
  /\ pc \in [Clients -> {"idle", "put", "get", "range", "iterate"}]
  /\ req \in [Clients -> [key : Keys, val : Vals]]
  /\ toVisit \in [Clients -> SUBSET Keys]
  /\ seen \in [Clients -> SUBSET Pairs]
  /\ getOut \in [Clients -> Vals \cup {NotFound}]
  /\ rangeOut \in [Clients -> SUBSET Pairs]
  /\ ops \in [Clients -> 0..MaxOps]

(***************************************************************************)
(* The storer implements the atomic one: every Put, Get and RangeKeys of   *)
(* the mock, interleaved as goroutines interleave, is one of the abstract  *)
(* store's atomic operations.  In particular the pairs a RangeKeys hands   *)
(* its handler were all in sm.data together, although Puts by other        *)
(* goroutines were waiting during the iteration.                           *)
(***************************************************************************)
(* The refinement mapping: the keys of sm.data that hold a value, with     *)
(* their values, are the abstract map; the results are the same.           *)
AbstractMap == [k \in Present(data) |-> data[k]]

Abstract == INSTANCE StorerAbstract
              WITH kv <- AbstractMap, lastGet <- getOut, lastRange <- rangeOut

AtomicStorer == Abstract!Spec

(***************************************************************************)
(* Every call returns: a Put or Get waiting for the mutex held by a        *)
(* RangeKeys gets it once the iteration returns, by either of its exits.   *)
(***************************************************************************)
CallsReturn == \A c \in Clients : pc[c] # "idle" ~> pc[c] = "idle"
=============================================================================
