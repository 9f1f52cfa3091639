------------------------------ MODULE PureSeq -------------------------------
(***************************************************************************)
(* What a sequence map promises (src/Cryptol/Backend/SeqMap.hs): "a        *)
(* mapping from nonnegative integer indices to values".  Looking up an     *)
(* index gives that element, the same for every thread and every time, or  *)
(* the error that computing the element raises.                            *)
(***************************************************************************)
EXTENDS Naturals

CONSTANTS
  Thread,    \* threads that look elements up
  Index      \* the indices in use

VARIABLES
  element,   \* element[i]: what looking up i comes to; never changes
  request,   \* request[p]: the index thread p is looking up, or Nobody
  reply      \* reply[p]: what the last lookup of p came to

Nobody == [index |-> 0, busy |-> FALSE]
Request(i) == [index |-> i, busy |-> TRUE]

Init ==
  /\ element \in [Index -> {"value", "error"}]
  /\ request = [p \in Thread |-> Nobody]
  /\ reply = [p \in Thread |-> "none"]

Ask(p, i) ==
  /\ ~request[p].busy
  /\ request' = [request EXCEPT ![p] = Request(i)]
  /\ reply' = [reply EXCEPT ![p] = "none"]

Answer(p) ==
  /\ request[p].busy
  /\ request' = [request EXCEPT ![p] = Nobody]
  /\ reply' = [reply EXCEPT ![p] = element[request[p].index]]

\* A lookup that is interrupted has no answer.
Abandon(p) ==
  /\ request[p].busy
  /\ request' = [request EXCEPT ![p] = Nobody]
  /\ UNCHANGED reply

Next ==
  /\ UNCHANGED element
  /\ \E p \in Thread : Answer(p) \/ Abandon(p) \/ \E i \in Index : Ask(p, i)

Spec == Init /\ [][Next]_<<element, request, reply>>
=============================================================================
