------------------------------ MODULE JobTree ------------------------------
(***************************************************************************)
(* What external jobs promise, abstractly: every attempt is opened at most *)
(* once and closed at most once; it succeeds only with the whole tree of   *)
(* its declared children settled; and the attempts of one job on a         *)
(* prepared route follow each other, the next only after a failure.        *)
(***************************************************************************)
CONSTANTS Attempts, Children, Prior, NoAttempt

VARIABLES
    state,              \* what has become of each attempt
    settled             \* the closed attempts with nothing left running below

Init ==
    /\ state = [a \in Attempts |-> "absent"]
    /\ settled = {}

Open(a) ==
    /\ state[a] = "absent"
    /\ Prior[a] # NoAttempt => state[Prior[a]] = "failed"
    /\ state' = [state EXCEPT ![a] = "open"]
    /\ UNCHANGED settled

\* Stopped: cancelled or out of time.
Close(a) ==
    /\ state[a] = "open"
    /\ \E s \in {"succeeded", "failed", "stopped"} :
        state' = [state EXCEPT ![a] = s]
    /\ \/ UNCHANGED settled
       \/ Children[a] \subseteq settled /\ settled' = settled \union {a}
    /\ state'[a] = "succeeded" => a \in settled'

Next == \E a \in Attempts : Open(a) \/ Close(a)

Spec == Init /\ [][Next]_<<state, settled>>
=============================================================================
