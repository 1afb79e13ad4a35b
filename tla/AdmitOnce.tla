------------------------------ MODULE AdmitOnce ------------------------------
(***************************************************************************)
(* What the admission of signed requests promises, without clocks, caches,  *)
(* secrets, restarts or handlers: a request is admitted once, and again     *)
(* only when its admission was forgotten; it is refused as a replay only    *)
(* when it was admitted; and only an admission can be forgotten.            *)
(* ReplayCache implements this specification, with messages (a request with *)
(* its HMAC as it was sent) for Requests.                                   *)
(***************************************************************************)
CONSTANT Requests

VARIABLES
  admitted,    \* requests that were handed on
  repeated,    \* requests that were handed on more than once
  refused,     \* requests that were refused as replays
  forgotten    \* requests whose admission is not known for good

vars == <<admitted, repeated, refused, forgotten>>

Init == admitted = {} /\ repeated = {} /\ refused = {} /\ forgotten = {}

(* Admissions F are forgotten to make room.                                 *)
Forget(F) == forgotten' = forgotten \union F

(* r is handed on for the first time, or after it was forgotten; its own    *)
(* admission may be too brief to count.                                     *)
Admit(r) ==
  /\ r \in admitted => r \in forgotten
  /\ admitted' = admitted \union {r}
  /\ repeated' = IF r \in admitted THEN repeated \union {r} ELSE repeated
  /\ \E F \in SUBSET (admitted \union {r}) : Forget(F)
  /\ UNCHANGED refused

Refuse(r) ==
  /\ r \in admitted
  /\ refused' = refused \union {r}
  /\ UNCHANGED <<admitted, repeated, forgotten>>

MakeRoom ==
  /\ \E F \in SUBSET admitted : Forget(F)
  /\ UNCHANGED <<admitted, repeated, refused>>

Next == (\E r \in Requests : Admit(r) \/ Refuse(r)) \/ MakeRoom

Spec == Init /\ [][Next]_vars
=============================================================================
