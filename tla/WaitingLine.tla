---------------------------- MODULE WaitingLine ----------------------------
(***************************************************************************)
(* What the write-admission queue promises, abstractly: writers stand in a *)
(* line in the order of their ticket numbers, may leave it at any place    *)
(* and at any time, and only the one in front is served.                   *)
(***************************************************************************)
EXTENDS Naturals

CONSTANT Tickets        \* records with a number num

VARIABLES
    line,               \* the tickets in line
    served              \* those of them that are being served

\* Those of a set of tickets with the least number.
Front(S) == {t \in S : \A u \in S : t.num <= u.num}

Init == line = {} /\ served = {}

\* A newcomer stands behind everybody.
Join(t) ==
    /\ \A u \in line : u.num < t.num
    /\ line' = line \union {t}
    /\ UNCHANGED served

Serve(t) ==
    /\ t \in Front(line)
    /\ served' = served \union {t}
    /\ UNCHANGED line

\* Service ends, by completion or by death; the place may be freed later.
EndService(t) ==
    /\ t \in served
    /\ served' = served \ {t}
    /\ line' \in {line, line \ {t}}

Leave(t) ==
    /\ t \in line \ served
    /\ line' = line \ {t}
    /\ UNCHANGED served

Next == \E t \in Tickets : Join(t) \/ Serve(t) \/ EndService(t) \/ Leave(t)

Spec == Init /\ [][Next]_<<line, served>>
=============================================================================
