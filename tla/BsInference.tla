---------------------------- MODULE BsInference ----------------------------
(***************************************************************************)
(* What a run of the rules promises (the comment that opens                *)
(* 130_engine.inc): "apply every rule to every combination of facts it can *)
(* match, until a round produces nothing new".  No rounds and no walk: one *)
(* consequence that is not yet known is added at a time, and the run is    *)
(* closed only when there is none -- or it gives up.                       *)
(***************************************************************************)
EXTENDS BsDatalog

VARIABLES world,   \* facts and rules as they were loaded
          known,   \* the facts, in the order they became known
          status   \* "idle", "open", "closed" or "given up"

vars == <<world, known, status>>

\* Every fact a rule concludes from the facts fs, whichever rule it is.
AllConsequences(fs) ==
  UNION {Consequences(world.rules[n], fs) :
           n \in {m \in DOMAIN world.rules : ~world.rules[m].is_query}}

Unknown == {f \in AllConsequences(known) : \A k \in DOMAIN known : known[k] # f}

Init == /\ world.facts \in Seq(Fact) /\ world.rules \in Seq(Rule)
        /\ known = world.facts
        /\ status = "idle"

\* A run may be asked for again.
Begin == /\ status # "open"
         /\ status' = "open"
         /\ UNCHANGED <<world, known>>

Infer == /\ status = "open"
         /\ \E f \in Unknown : known' = Append(known, f)
         /\ UNCHANGED <<world, status>>

Close == /\ status = "open"
         /\ Unknown = {}
         /\ status' = "closed"
         /\ UNCHANGED <<world, known>>

GiveUp == /\ status = "open"
          /\ status' = "given up"
          /\ UNCHANGED <<world, known>>

\* A run may be refused before it begins.
Refuse == /\ status # "open"
          /\ status' = "given up"
          /\ UNCHANGED <<world, known>>

Next == Begin \/ Infer \/ Close \/ GiveUp \/ Refuse

\* That a run comes to an end is the engine's own promise (RunReturns in
\* BsEngine).
Spec == Init /\ [][Next]_vars
=============================================================================
