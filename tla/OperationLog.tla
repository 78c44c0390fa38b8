---------------------------- MODULE OperationLog ----------------------------
(***************************************************************************)
(* What the trip command service promises its clients, without any of its  *)
(* documents: an operation a caller sends takes effect at most once, on    *)
(* one subject for ever; every effect on a subject is counted, so that its *)
(* projection can be brought up to date; and a subject only moves forward. *)
(* Sending an operation again, or sending one that is refused, changes     *)
(* nothing.                                                                *)
(***************************************************************************)
EXTENDS Integers

CONSTANTS Caller, Operation, Subject, None, LastStage

VARIABLES
  effect,   \* Caller -> Operation -> the subject it took effect on, or None
  count,    \* Subject -> number of effects
  stage     \* Subject -> how far it has come, -1 before it exists

logVars == <<effect, count, stage>>

Stages == -1 .. LastStage

LogInit == /\ effect = [c \in Caller |-> [o \in Operation |-> None]]
           /\ count = [s \in Subject |-> 0]
           /\ stage \in [Subject -> Stages]

TakeEffect(c, o, s) ==
  /\ effect[c][o] = None
  /\ effect' = [effect EXCEPT ![c][o] = s]
  /\ count' = [count EXCEPT ![s] = @ + 1]
  /\ \E n \in Stages : /\ n >= stage[s]
                       /\ n >= 0
                       /\ stage' = [stage EXCEPT ![s] = n]

LogNext == \E c \in Caller, o \in Operation, s \in Subject : TakeEffect(c, o, s)

LogSpec == LogInit /\ [][LogNext]_logVars
=============================================================================
