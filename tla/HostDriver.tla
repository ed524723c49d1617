----------------------------- MODULE HostDriver -----------------------------
(***************************************************************************)
(* The outport host driver (outport/host/driver.go).  Every exported save  *)
(* method runs handleAction on the caller's goroutine: it reads the        *)
(* isClosed flag, marshals the payload, then sends it through the sender   *)
(* host.  Close, on another goroutine, sets the flag and then closes the   *)
(* sender host.  Nothing orders a caller's steps with Close's steps, so    *)
(* each step is an action of its own.  The payload, its topic and the      *)
(* error texts are abstracted away: the properties never tell them apart.  *)
(* The sender host (a websocket client outside these sources) is assumed   *)
(* to refuse any Send once it is closed and to fail or succeed otherwise.  *)
(***************************************************************************)
EXTENDS Naturals

CONSTANTS
  Callers,        \* goroutines calling the driver's save methods
  MaxCalls        \* calls each of them makes

ASSUME HostDriverAssumption == MaxCalls \in Nat

Results == {"none", "ok", "errHostIsClosed", "errMarshal", "errSend"}

VARIABLES
  isClosed,       \* hostDriver.isClosed
  hostOpen,       \* whether the sender host still accepts sends
  closer,         \* progress of Close: "notCalled", "flagSet", "returned"
  pcC,            \* where each caller is in handleAction
  checkedEarly,   \* the caller passed its isClosed check before Close began
  result,         \* what each caller's last call returned
  calls,          \* calls made by each caller
  delivered       \* payloads the sender host accepted

vars == <<isClosed, hostOpen, closer, pcC, checkedEarly, result, calls,
          delivered>>

(* NewHostDriver: an open driver with the flag clear.                      *)
Init ==
  /\ isClosed = FALSE
  /\ hostOpen = TRUE
  /\ closer = "notCalled"
  /\ pcC = [c \in Callers |-> "idle"]
  /\ checkedEarly = [c \in Callers |-> FALSE]
  /\ result = [c \in Callers |-> "none"]
  /\ calls = [c \in Callers |-> 0]
  /\ delivered = 0

(***************************************************************************)
(* SaveBlock, RevertIndexedBlock, SaveRoundsInfo, SaveValidatorsPubKeys,   *)
(* SaveValidatorsRating, SaveAccounts, FinalizedBlock,                     *)
(* NewTransactionInPool and SetCurrentSettings all enter handleAction.     *)
(***************************************************************************)
CallSave(c) ==
  /\ pcC[c] = "idle" /\ calls[c] < MaxCalls
  /\ pcC' = [pcC EXCEPT ![c] = "check"]
  /\ calls' = [calls EXCEPT ![c] = @ + 1]
  /\ result' = [result EXCEPT ![c] = "none"]
  /\ UNCHANGED <<isClosed, hostOpen, closer, checkedEarly, delivered>>

(* handleAction, first step: the isClosed check and its early return.      *)
CheckClosed(c) ==
  /\ pcC[c] = "check"
  /\ IF isClosed
     THEN /\ pcC' = [pcC EXCEPT ![c] = "idle"]
          /\ result' = [result EXCEPT ![c] = "errHostIsClosed"]
          /\ UNCHANGED checkedEarly
     ELSE /\ pcC' = [pcC EXCEPT ![c] = "marshal"]
          /\ checkedEarly' = [checkedEarly EXCEPT ![c] = closer = "notCalled"]
          /\ UNCHANGED result
  /\ UNCHANGED <<isClosed, hostOpen, closer, calls, delivered>>

(* handleAction, second step: Marshal, whose error is returned.            *)
Marshal(c) ==
  /\ pcC[c] = "marshal"
  /\ \/ pcC' = [pcC EXCEPT ![c] = "send"] /\ UNCHANGED result
     \/ /\ pcC' = [pcC EXCEPT ![c] = "idle"]
        /\ result' = [result EXCEPT ![c] = "errMarshal"]
  /\ UNCHANGED <<isClosed, hostOpen, closer, checkedEarly, calls, delivered>>

(* handleAction, last step: senderHost.Send, whose error is returned.      *)
Send(c) ==
  /\ pcC[c] = "send"
  /\ pcC' = [pcC EXCEPT ![c] = "idle"]
  /\ \/ /\ hostOpen
        /\ result' = [result EXCEPT ![c] = "ok"]
        /\ delivered' = delivered + 1
     \/ /\ result' = [result EXCEPT ![c] = "errSend"]
        /\ UNCHANGED delivered
  /\ UNCHANGED <<isClosed, hostOpen, closer, checkedEarly, calls>>

(***************************************************************************)
(* Close: isClosed.SetValue(true), then senderHost.Close().                *)
(***************************************************************************)
\* Mutant: the sender host is closed before the flag is set.
Close_hostFirst ==
  /\ \/ /\ closer = "notCalled"
        /\ hostOpen' = FALSE /\ closer' = "flagSet"
        /\ UNCHANGED isClosed
     \/ /\ closer = "flagSet"
        /\ isClosed' = TRUE /\ closer' = "returned"
        /\ UNCHANGED hostOpen
  /\ UNCHANGED <<pcC, checkedEarly, result, calls, delivered>>

Close ==
  /\ \/ /\ closer = "notCalled"
        /\ isClosed' = TRUE /\ closer' = "flagSet"
        /\ UNCHANGED hostOpen
     \/ /\ closer = "flagSet"
        /\ hostOpen' = FALSE /\ closer' = "returned"
        /\ UNCHANGED isClosed
  /\ UNCHANGED <<pcC, checkedEarly, result, calls, delivered>>

Step(c) == CheckClosed(c) \/ Marshal(c) \/ Send(c)

Next ==
  \/ \E c \in Callers : CallSave(c) \/ Step(c)
  \/ Close

Spec == Init /\ [][Next]_vars

-----------------------------------------------------------------------------
TypeOK ==
  /\ isClosed \in BOOLEAN /\ hostOpen \in BOOLEAN
  /\ closer \in {"notCalled", "flagSet", "returned"}
  /\ pcC \in [Callers -> {"idle", "check", "marshal", "send"}]
  /\ checkedEarly \in [Callers -> BOOLEAN]
  /\ result \in [Callers -> Results]
  /\ calls \in [Callers -> 0..MaxCalls]
  /\ delivered \in Nat

(***************************************************************************)
(* Because Close sets isClosed before it closes the sender host, the only  *)
(* calls that can still reach Send on a closed host are those that passed  *)
(* the isClosed check before Close began; every later call returns         *)
(* ErrHostIsClosed.                                                        *)
(***************************************************************************)
ClosedHostOnlyReachedByEarlyCallers ==
  \A c \in Callers : (pcC[c] = "send" /\ ~hostOpen) => checkedEarly[c]

=============================================================================
