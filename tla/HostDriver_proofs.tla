-------------------------- MODULE HostDriver_proofs --------------------------
(***************************************************************************)
(* Proofs about the outport host driver model, for any set of callers and  *)
(* any number of calls.                                                    *)
(***************************************************************************)
EXTENDS HostDriver, TLAPS

(***************************************************************************)
(* The invariant behind ClosedHostOnlyReachedByEarlyCallers.  Close sets   *)
(* isClosed in its first step, so the flag is set exactly when Close has   *)
(* begun; a caller past its isClosed check therefore passed it before      *)
(* Close began; and the sender host is closed only by Close's second step. *)
(***************************************************************************)
FlagTracksClose == isClosed <=> closer # "notCalled"
HostClosedOnlyByClose == ~hostOpen => closer = "returned"
PastCheckIsEarly ==
  \A c \in Callers : pcC[c] \in {"marshal", "send"} => checkedEarly[c]

IInv == TypeOK /\ FlagTracksClose /\ HostClosedOnlyByClose /\ PastCheckIsEarly

LEMMA InitIInv == Init => IInv
<1> SUFFICES ASSUME Init PROVE IInv
  OBVIOUS
<1>1. TypeOK
  <2>1. isClosed \in BOOLEAN /\ hostOpen \in BOOLEAN
    BY DEF Init
  <2>2. pcC \in [Callers -> {"idle", "check", "marshal", "send"}]
        /\ checkedEarly \in [Callers -> BOOLEAN]
        /\ result \in [Callers -> Results]
    BY DEF Init, Results
  <2>3. calls \in [Callers -> 0..MaxCalls] /\ delivered \in Nat
    BY HostDriverAssumption DEF Init
  <2> QED  BY <2>1, <2>2, <2>3 DEF Init, TypeOK
<1>2. FlagTracksClose /\ HostClosedOnlyByClose
  BY Zenon DEF Init, FlagTracksClose, HostClosedOnlyByClose
<1>3. PastCheckIsEarly
  BY DEF Init, PastCheckIsEarly
<1> QED  BY <1>1, <1>2, <1>3 DEF IInv

LEMMA NextIInv == IInv /\ [Next]_vars => IInv'
<1> SUFFICES ASSUME IInv, [Next]_vars PROVE IInv'
  OBVIOUS
<1> USE DEF IInv, TypeOK, FlagTracksClose, HostClosedOnlyByClose,
            PastCheckIsEarly
<1>1. ASSUME NEW c \in Callers, CallSave(c) PROVE IInv'
  BY <1>1, HostDriverAssumption DEF CallSave, Results
<1>2. ASSUME NEW c \in Callers, CheckClosed(c) PROVE IInv'
  BY <1>2 DEF CheckClosed, Results
<1>3. ASSUME NEW c \in Callers, Marshal(c) PROVE IInv'
  BY <1>3 DEF Marshal, Results
<1>4. ASSUME NEW c \in Callers, Send(c) PROVE IInv'
  BY <1>4 DEF Send, Results
<1>5. CASE Close
  BY <1>5 DEF Close
<1>6. CASE UNCHANGED vars
  BY <1>6 DEF vars
<1> QED  BY <1>1, <1>2, <1>3, <1>4, <1>5, <1>6 DEF Next, Step

(***************************************************************************)
(* Every state of the driver is well typed: isClosed and the sender host   *)
(* are flags, each caller is at one of the steps of handleAction, and      *)
(* every call returns one of the driver's results.                         *)
(***************************************************************************)
THEOREM HostDriverTypeCorrect == Spec => []TypeOK
<1>1. IInv => TypeOK  BY DEF IInv
<1> QED  BY <1>1, InitIInv, NextIInv, PTL DEF Spec

(***************************************************************************)
(* Close's order, flag before sender host, means that no call that began   *)
(* its isClosed check after Close began ever reaches senderHost.Send on a  *)
(* closed host.                                                            *)
(***************************************************************************)
THEOREM ClosedHostSafe == Spec => []ClosedHostOnlyReachedByEarlyCallers
<1>1. IInv => ClosedHostOnlyReachedByEarlyCallers
  BY DEF IInv, PastCheckIsEarly, ClosedHostOnlyReachedByEarlyCallers
<1> QED  BY <1>1, InitIInv, NextIInv, PTL DEF Spec
=============================================================================
