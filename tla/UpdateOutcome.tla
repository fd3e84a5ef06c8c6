---------------------------- MODULE UpdateOutcome ----------------------------
(***************************************************************************)
(* What a run of the parameter update tool promises, seen from outside: *)
(* one atomic step from the start to the exit.  Exit status 0 means the   *)
(* chip holds init_param overridden by every parameter given on the       *)
(* command line, each of them legal.  Exit status 1 means each parameter   *)
(* holds the value it had, the init_param value, or the value given for  *)
(* it when that value is legal: a failure part-way leaves a mixture, but  *)
(* never a value nobody asked for and never an illegal one.              *)
(***************************************************************************)
CONSTANTS
  Params,       \* the parameters the tool sets
  InitParam,    \* the values init programs, a function on Params
  Legal(_, _)   \* Legal(p, v): v is a legal value of parameter p

VARIABLES
  chip,     \* the parameters the chip holds
  before,   \* the parameters it held when the tool started
  given,    \* the parameters given on the command line
  arg,      \* the values given
  done,     \* the tool has exited
  status    \* "ok" (exit 0) or "fail" (exit 1)

vars == << chip, before, given, arg, done, status >>

\* The chip after a successful run.
Applied == [p \in Params |-> IF p \in given THEN arg[p] ELSE InitParam[p]]

\* The values a parameter may hold after a failed run.
Mixture(p) ==
  {before[p], InitParam[p]}
    \cup (IF p \in given /\ Legal(p, arg[p]) THEN {arg[p]} ELSE {})

Init ==
  /\ chip = before
  /\ done = FALSE
  /\ status = "ok"

Run ==
  /\ ~done
  /\ done' = TRUE
  /\ \/ /\ given # {}
        /\ \A p \in given : Legal(p, arg[p])
        /\ chip' = Applied
        /\ status' = "ok"
     \/ /\ \A p \in Params : chip'[p] \in Mixture(p)
        /\ DOMAIN chip' = Params
        /\ status' = "fail"
  /\ UNCHANGED << before, given, arg >>

Spec == Init /\ [][Run]_vars
=============================================================================
