---------------------------- MODULE Oscillation ----------------------------
(***************************************************************************)
(* OscillationDetector (ar724/oscillation.py) as functions of its state,   *)
(* and beside them what its answers mean in terms of everything it was     *)
(* shown, written without its deques.                                      *)
(*                                                                         *)
(* A candidate is a function from some parameters to values that stand for *)
(* their rounded form: _bucket makes equal what differs by less than the   *)
(* third decimal, and with the default of bucket_decimals both signals     *)
(* round alike.                                                            *)
(***************************************************************************)
EXTENDS Integers, Sequences, FiniteSets

CONSTANTS
    Parameter,
    Bucket,
    Candidate,           \* the candidates shown to it
    Window,
    PerParamThreshold,
    JointMaxUnique

ASSUME OscillationAssumption ==
    /\ Candidate \subseteq UNION {[K -> Bucket] : K \in SUBSET Parameter}
    /\ \A p \in Candidate : DOMAIN p # {}     \* _check_oscillation: `not params`
    /\ Window \in Nat \ {0}
    /\ PerParamThreshold \in Nat
    /\ JointMaxUnique \in Nat

-----------------------------------------------------------------------------
\* deque(maxlen=window).append
Pushed(q, e) == LET all == Append(q, e) IN
                IF Len(all) > Window THEN Tail(all) ELSE all

Values(q) == {q[i] : i \in DOMAIN q}
Times(q, e) == Cardinality({i \in DOMAIN q : q[i] = e})

NewDetector == [history |-> <<>>, param_history |-> [k \in Parameter |-> <<>>]]

\* What observe(p) makes of the detector's state; a parameter the candidate does
\* not have keeps its older values.
Observed(d, p) ==
    [history |-> Pushed(d.history, p),
     param_history |-> [k \in Parameter |->
         IF k \in DOMAIN p THEN Pushed(d.param_history[k], p[k]) ELSE d.param_history[k]]]

Joint(q) == Len(q) >= Window /\ Cardinality(Values(q)) <= JointMaxUnique

PerParam(q) ==
    /\ Len(q) >= Window
    /\ Cardinality(Values(q)) <= 2
    /\ Times(q, q[Len(q)]) >= PerParamThreshold

\* observe(p) has returned a non-empty dict and left the state d.
Triggered(d, p) ==
    \/ Joint(d.history)
    \/ \E k \in DOMAIN p : PerParam(d.param_history[k])

-----------------------------------------------------------------------------
\* The Window latest of a set of positions.
Latest(I) == {i \in I : Cardinality({j \in I : j >= i}) <= Window}

\* The last Window candidates are JointMaxUnique at most.
FewCandidates(seen) ==
    LET W == Latest(DOMAIN seen) IN
    /\ Cardinality(W) = Window
    /\ Cardinality({seen[i] : i \in W}) <= JointMaxUnique

\* The last Window candidates that have the parameter k have two values of it at
\* most, and PerParamThreshold times that of the last one.
BackAndForth(seen, k) ==
    LET W == Latest({i \in DOMAIN seen : k \in DOMAIN seen[i]}) IN
    /\ Cardinality(W) = Window
    /\ Cardinality({seen[i][k] : i \in W}) <= 2
    /\ Cardinality({i \in W : seen[i][k] = seen[Len(seen)][k]}) >= PerParamThreshold

Oscillates(seen) ==
    \/ FewCandidates(seen)
    \/ \E k \in DOMAIN seen[Len(seen)] : BackAndForth(seen, k)
=============================================================================
