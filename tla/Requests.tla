------------------------------ MODULE Requests ------------------------------
(***************************************************************************)
(* What the screens of the directory have in common: a server action reads *)
(* what it needs and judges it, then writes statement by statement on the  *)
(* plain database client.  No statement waits for another request, and a   *)
(* statement that throws, or a process that stops, leaves what was written *)
(* before it.                                                              *)
(*                                                                         *)
(* Form gives the fields of what was sent; todo holds the statements still *)
(* to run.  Reads before the first write are one step: what matters is     *)
(* that the writes come later.                                             *)
(***************************************************************************)
EXTENDS Integers, Sequences, FiniteSets

CONSTANTS
  Form,        \* the forms that may be sent, each at most once
  Mixes,       \* which of them are sent together (a bound)
  MaxRequests, \* how many of them are sent in all (a bound)
  MaxInFlight, \* how many run at a time (a bound)
  MaxStops,    \* how often the process stops under a request (a bound)
  None

Request == DOMAIN Form

ASSUME RequestAssumption ==
  /\ IsFiniteSet(Request) /\ None \notin Request /\ Mixes \subseteq SUBSET Request
  /\ MaxInFlight \in Nat \ {0} /\ {MaxRequests, MaxStops} \subseteq Nat

VARIABLE call  \* how far each request has come

Blank == [at |-> "idle", todo |-> <<>>, met |-> {}, after |-> {}]
InitCalls == call = [r \in Request |-> Blank]

Running == {r \in Request : call[r].at = "running"}
Sent == {r \in Request : call[r].at # "idle"}
Admissible ==
  LET sent == Sent IN
  IF Cardinality(Running) < MaxInFlight /\ Cardinality(sent) < MaxRequests
  THEN (UNION {mix \in Mixes : sent \subseteq mix}) \ sent ELSE {}

(* A request that has judged what it read sets out on its statements, or   *)
(* ends at once: refused, or with nothing to do.  Whoever runs meanwhile   *)
(* has met it, and whoever is through came before it.                      *)
Setting(r, at, todo) ==
  call' = [d \in Request |->
    IF d = r
    THEN [at |-> at, todo |-> todo, met |-> Running,
          after |-> {e \in Request : call[e].at \in {"done", "failed"}}]
    ELSE IF d \in Running THEN [call[d] EXCEPT !.met = @ \cup {r}]
    ELSE call[d]]
SetOut(r, script) == Setting(r, "running", script)
Refuse(r) == Setting(r, "refused", <<>>)
NothingToDo(r) == Setting(r, "done", <<>>)

Doing(r, what) == Head(call[r].todo)[1] = what
Arg(r, n) == Head(call[r].todo)[n]

Onward(r) ==
  call' = [call EXCEPT ![r].todo = Tail(@),
             ![r].at = IF Len(call[r].todo) = 1 THEN "done" ELSE "running"]
Fail(r) == call' = [call EXCEPT ![r].at = "failed"]

Stop(r) == /\ Cardinality({d \in Request : call[d].at = "dead"}) < MaxStops
           /\ call' = [call EXCEPT ![r].at = "dead"]
=============================================================================
