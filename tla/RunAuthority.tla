---------------------------- MODULE RunAuthority ----------------------------
(***************************************************************************)
(* What the run claims promise their callers, without leases, clocks or    *)
(* processes: a run key names at most one run with one configuration, its  *)
(* phase moves along the state machine, and the right to work on it passes *)
(* to a new attempt only while no earlier attempt holds it.                *)
(***************************************************************************)
CONSTANTS
  RunKeys, Configs, Phases,
  First,   \* the phase of a newly claimed run
  Ended,   \* the terminal phases
  Edges,   \* the pairs of phases a run may move along
  Numbers, \* the attempt numbers
  Absent   \* the configuration and the phase of a run that does not exist

VARIABLES
  config,   \* the configuration each run was created with
  phase,    \* the phase of each run
  granted,  \* the numbers of the attempts of each run
  owned     \* is the newest attempt of the run still its owner?

vars == <<config, phase, granted, owned>>

Init ==
  /\ config = [k \in RunKeys |-> Absent]
  /\ phase = [k \in RunKeys |-> Absent]
  /\ granted = [k \in RunKeys |-> {}]
  /\ owned = [k \in RunKeys |-> FALSE]

\* A new attempt owns the run, or is so late that its time is already over.
Grant(k) ==
  /\ ~owned[k]
  /\ \E n \in Numbers \ granted[k] :
       granted' = [granted EXCEPT ![k] = @ \cup {n}]
  /\ \E o \in BOOLEAN : owned' = [owned EXCEPT ![k] = o]

Create(k, c) ==
  /\ phase[k] = Absent
  /\ config' = [config EXCEPT ![k] = c]
  /\ phase' = [phase EXCEPT ![k] = First]
  /\ Grant(k)

TakeOver(k) ==
  /\ phase[k] \notin Ended \cup {Absent}
  /\ Grant(k)
  /\ UNCHANGED <<config, phase>>

Advance(k, to) ==
  /\ <<phase[k], to>> \in Edges
  /\ phase' = [phase EXCEPT ![k] = to]
  /\ owned' = [owned EXCEPT ![k] = @ /\ to \notin Ended]
  /\ UNCHANGED <<config, granted>>

\* Time passes: some owners lose their right.
Lapse ==
  /\ owned' \in [RunKeys -> BOOLEAN]
  /\ \A k \in RunKeys : owned'[k] => owned[k]
  /\ UNCHANGED <<config, phase, granted>>

Next ==
  \/ \E k \in RunKeys, c \in Configs : Create(k, c)
  \/ \E k \in RunKeys : TakeOver(k)
  \/ \E k \in RunKeys, to \in Phases : Advance(k, to)
  \/ Lapse

Spec == Init /\ [][Next]_vars

=============================================================================
