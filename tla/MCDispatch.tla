----------------------------- MODULE MCDispatch ------------------------------
(* Two instances of Dispatch for TLC, told apart by their first state.       *)
EXTENDS Dispatch, TLC

CONSTANTS one, first, second, agent, worker, c1, c2

MCRecipient == one :> agent @@ first :> worker @@ second :> worker

\* "race": two callers dispatch and await the interactive request, and are cut short
\* twice at most, while the Lead is at work and the deadline ahead.
\* "retry": one caller repeats the two requests for the writer, a local worker.
VARIABLE scene
InScene ==
    /\ scene = "race" =>
          /\ \A c \in Callers : job[c] \in {one, None}
          /\ stops <= 2
          /\ stops > 0 => lead = "running" /\ ~late
    /\ scene = "retry" =>
          /\ \A c \in Callers : job[c] # one
          /\ at[c2] = "idle"

MCInit == Init /\ scene \in {"race", "retry"}
MCNext == UNCHANGED scene /\ Next /\ InScene'

MCSpec ==
    /\ MCInit /\ [][MCNext]_<<vars, scene>>
    /\ \A c \in Callers : WF_vars(UNCHANGED scene /\ CallerStep(c) /\ InScene')
    /\ \A a \in Ids : SF_vars(UNCHANGED scene /\ (\E c \in Callers : Call(c, a)) /\ InScene')
=============================================================================
