--------------------------- MODULE AlertDelivery ----------------------------
(***************************************************************************)
(* What the delivery of alert events promises, without queue, retries or   *)
(* kinds of answer.  An event reaches its destination only through a       *)
(* delivery begun while the event existed; deliveries of an event follow   *)
(* one another; each is reported at most once, after it ended, and an      *)
(* event is reported as delivered only when its destination took it in.    *)
(* The destination may take it in more than once.  AlertDispatch           *)
(* implements this specification.                                          *)
(***************************************************************************)
EXTENDS Naturals

CONSTANT EventIds

VARIABLES
  status,   \* "none", then what the history shows, at last "removed"
  phase,    \* no delivery, one begun, or one that ended and was not reported
  taken     \* times the destination took the event in

vars == <<status, phase, taken>>

Shown == {"pending", "delivered", "failed"}

Init ==
  /\ status = [e \in EventIds |-> "none"]
  /\ phase  = [e \in EventIds |-> "idle"]
  /\ taken  = [e \in EventIds |-> 0]

Fire(e) ==
  /\ status[e] = "none"
  /\ status' = [status EXCEPT ![e] = "pending"]
  /\ UNCHANGED <<phase, taken>>

Begin(e) ==
  /\ status[e] \in Shown /\ phase[e] = "idle"
  /\ phase' = [phase EXCEPT ![e] = "open"]
  /\ UNCHANGED <<status, taken>>

\* The delivery ends; the destination took the event in, or not.
End(e) ==
  /\ phase[e] = "open"
  /\ phase' = [phase EXCEPT ![e] = "ended"]
  /\ \E n \in {0, 1} : taken' = [taken EXCEPT ![e] = @ + n]
  /\ UNCHANGED status

\* What came of the delivery is shown, unless the event is gone.
Report(e, shown) ==
  /\ phase[e] = "ended"
  /\ shown = "delivered" => taken[e] > 0
  /\ phase' = [phase EXCEPT ![e] = "idle"]
  /\ status' = IF status[e] \in Shown THEN [status EXCEPT ![e] = shown] ELSE status
  /\ UNCHANGED taken

\* A delivery comes to nothing, or what came of it is lost.
Lose(e) ==
  /\ phase[e] # "idle"
  /\ phase' = [phase EXCEPT ![e] = "idle"]
  /\ UNCHANGED <<status, taken>>

Withdraw(E) ==
  /\ \A e \in E : status[e] \in Shown
  /\ status' = [e \in EventIds |-> IF e \in E THEN "removed" ELSE status[e]]
  /\ UNCHANGED <<phase, taken>>

Next ==
  \/ \E e \in EventIds :
       \/ Fire(e) \/ Begin(e) \/ End(e) \/ Lose(e)
       \/ \E shown \in {"delivered", "failed"} : Report(e, shown)
  \/ \E E \in SUBSET EventIds : Withdraw(E)

Spec == Init /\ [][Next]_vars
=============================================================================
