-------------------------- MODULE Dispatch_proofs --------------------------
(***************************************************************************)
(* Proofs about Dispatch, for any requests, instances and callers.  Two    *)
(* facts carry the argument: what a step of a call has behind it is        *)
(* durable and stays (CallsOK), and between the acquisition of the lease   *)
(* and the end of the submission a call is alone with its run as long as   *)
(* the run is open in the ledger (Held, Alone); once it is over the        *)
(* dispatched event is refused, so nobody new gets to the submission.      *)
(***************************************************************************)
EXTENDS Dispatch, TLAPS

USE DEF vars, mission, fleet, calls

\* What the steps of a call have behind them: each is reached only after what the
\* steps before it made durable, and durable facts stay.
Behind(c, a) ==
    /\ at[c] \in {"issue", "bind", "intent", "commit", "look", "authorize"} => phase[a] # "absent"
    /\ at[c] \in {"intent", "commit", "look", "authorize"} \cup WrapperSteps => token[a] = "bound"
    /\ at[c] \in {"commit", "look", "authorize"} \cup WrapperSteps => a \in intents
    /\ at[c] \in {"commit", "look"} =>
        /\ saw[c] = "committed" => phase[a] \in Owning \cup {"finalized"}
        /\ saw[c] = "authorized" => phase[a] \in Granted
        /\ saw[c] = "started" => phase[a] \in {"started", "finalized"}
    /\ at[c] \in {"look", "authorize"} => phase[a] \in Owning \cup {"finalized"}
    /\ at[c] = "look" => saw[c] \in Active
    /\ at[c] \in WrapperSteps => phase[a] \in Granted
    /\ at[c] \in {"submit", "mark", "register"} => log[a] # "none"
    /\ at[c] = "register" => phase[a] \in {"started", "finalized"}
    /\ at[c] \in {"check", "prepare", "spoil", "confirm", "doubt"} => IsInteractive(a)
    /\ at[c] = "release" => log[a] \in Terminal
    /\ at[c] = "result" => a \in registered /\ log[a] = "succeeded"
    /\ at[c] = "finalize" => log[a] \in Terminal /\ (log[a] = "succeeded" => a \in results)
CallsOK == \A c \in Callers, a \in Ids : job[c] = a => Behind(c, a)

\* The lease makes the call between its acquisition and the end of the submission the
\* only one of its run, until the run is over in the ledger; then nothing new is
\* submitted, because the dispatched event is refused.
Holding == {"record", "submit", "undo"}
Held == \A c \in Callers, a \in Ids :
    job[c] = a /\ at[c] \in Holding /\ Open(a) => LeaseOf(a) = a
Alone == \A c, d \in Callers, a \in Ids :
    job[c] = a /\ at[c] \in Holding /\ job[d] = a /\ at[d] \in Holding /\ Open(a) => c = d
OneSubmitter == \A c, d \in Callers, a \in Ids :
    job[c] = a /\ at[c] = "submit" /\ job[d] = a /\ at[d] = "submit" => c = d
Unsent == \A c \in Callers, a \in Ids :
    job[c] = a /\ at[c] = "submit" => sent[a] = 0 /\ (~IsInteractive(a) => Open(a))
SentHeld == \A a \in Ids : sent[a] > 0 /\ Open(a) => LeaseOf(a) = a
SentAlone == \A c \in Callers, a \in Ids :
    sent[a] > 0 /\ Open(a) /\ job[c] = a => at[c] \notin {"record", "submit"}
Effects == Held /\ Alone /\ OneSubmitter /\ Unsent /\ SentHeld /\ SentAlone /\ OneEffect

IInv == TypeOK /\ LedgersAgree /\ ResultsKept /\ CallsOK /\ Effects

USE DEF LeaseOf, IsInteractive, Open, Phases, Active, Owning, Granted, Terminal,
        Statuses, DispatchSteps, WrapperSteps, WaitSteps, Steps

USE DEF At, Goes, Checks, Returned, Recorded, Freed, FirstStep

LEMMA TypeStep == ASSUME TypeOK, [Next]_vars PROVE TypeOK'
<1>1. ASSUME NEW c \in Callers, Reserve(c) PROVE TypeOK'
  BY <1>1, ConstantsAssumption DEF TypeOK, Reserve, ConstantsAssumption
<1>2. ASSUME NEW c \in Callers, IssueToken(c) PROVE TypeOK'
  BY <1>2, ConstantsAssumption DEF TypeOK, IssueToken, ConstantsAssumption
<1>3. ASSUME NEW c \in Callers, BindToken(c) PROVE TypeOK'
  BY <1>3, ConstantsAssumption DEF TypeOK, BindToken, ConstantsAssumption
<1>4. ASSUME NEW c \in Callers, RecordIntent(c) PROVE TypeOK'
  BY <1>4, ConstantsAssumption DEF TypeOK, RecordIntent, ConstantsAssumption
<1>5. ASSUME NEW c \in Callers, Commit(c) PROVE TypeOK'
  BY <1>5, ConstantsAssumption DEF TypeOK, Commit, ConstantsAssumption
<1>6. ASSUME NEW c \in Callers, LookForRun(c) PROVE TypeOK'
  BY <1>6, ConstantsAssumption DEF TypeOK, LookForRun, ConstantsAssumption
<1>7. ASSUME NEW c \in Callers, Authorize(c) PROVE TypeOK'
  BY <1>7, ConstantsAssumption DEF TypeOK, Authorize, ConstantsAssumption
<1>8. ASSUME NEW c \in Callers, PrepareCheck(c) PROVE TypeOK'
  BY <1>8, ConstantsAssumption DEF TypeOK, PrepareCheck, ConstantsAssumption
<1>9. ASSUME NEW c \in Callers, Prepare(c) PROVE TypeOK'
  BY <1>9, ConstantsAssumption DEF TypeOK, Prepare, ConstantsAssumption
<1>10. ASSUME NEW c \in Callers, Acquire(c) PROVE TypeOK'
  BY <1>10, ConstantsAssumption DEF TypeOK, Acquire, ConstantsAssumption
<1>11. ASSUME NEW c \in Callers, RecordDispatched(c) PROVE TypeOK'
  BY <1>11, ConstantsAssumption DEF TypeOK, RecordDispatched, ConstantsAssumption
<1>12. ASSUME NEW c \in Callers, NotAttempted(c) PROVE TypeOK'
  BY <1>12, ConstantsAssumption DEF TypeOK, NotAttempted, ConstantsAssumption
<1>13. ASSUME NEW c \in Callers, Submit(c) PROVE TypeOK'
  BY <1>13, ConstantsAssumption DEF TypeOK, Submit, ConstantsAssumption
<1>14. ASSUME NEW c \in Callers, Confirm(c) PROVE TypeOK'
  BY <1>14, ConstantsAssumption DEF TypeOK, Confirm, ConstantsAssumption
<1>15. ASSUME NEW c \in Callers, Undo(c) PROVE TypeOK'
  BY <1>15, ConstantsAssumption DEF TypeOK, Undo, ConstantsAssumption
<1>16. ASSUME NEW c \in Callers, Spoil(c) PROVE TypeOK'
  BY <1>16, ConstantsAssumption DEF TypeOK, Spoil, ConstantsAssumption
<1>17. ASSUME NEW c \in Callers, ReleaseLease(c) PROVE TypeOK'
  BY <1>17, ConstantsAssumption DEF TypeOK, ReleaseLease, ConstantsAssumption
<1>18. ASSUME NEW c \in Callers, Doubt(c) PROVE TypeOK'
  BY <1>18, ConstantsAssumption DEF TypeOK, Doubt, ConstantsAssumption
<1>19. ASSUME NEW c \in Callers, MarkStarted(c) PROVE TypeOK'
  BY <1>19, ConstantsAssumption DEF TypeOK, MarkStarted, ConstantsAssumption
<1>20. ASSUME NEW c \in Callers, Register(c) PROVE TypeOK'
  BY <1>20, ConstantsAssumption DEF TypeOK, Register, ConstantsAssumption
<1>21. ASSUME NEW c \in Callers, RecordResult(c) PROVE TypeOK'
  BY <1>21, ConstantsAssumption DEF TypeOK, RecordResult, ConstantsAssumption
<1>22. ASSUME NEW c \in Callers, Finalize(c) PROVE TypeOK'
  BY <1>22, ConstantsAssumption DEF TypeOK, Finalize, ConstantsAssumption
<1>23. ASSUME NEW c \in Callers, Stop(c) PROVE TypeOK'
  BY <1>23, ConstantsAssumption DEF TypeOK, Stop, ConstantsAssumption
<1>24. ASSUME NEW c \in Callers, NEW a \in Ids, Call(c, a) PROVE TypeOK'
  BY <1>24, ConstantsAssumption DEF TypeOK, Call, ConstantsAssumption
<1>25. ASSUME NEW c \in Callers, NEW a \in Ids, Wait(c, a) PROVE TypeOK'
  BY <1>25, ConstantsAssumption DEF TypeOK, Wait, ConstantsAssumption
<1>26. ASSUME NEW a \in Ids, LocalEnds(a) PROVE TypeOK'
  <2>1. PICK status \in {"succeeded", "abandoned"} : log' = Recorded(a, status)
    BY <1>26 DEF LocalEnds
  <2> QED BY <1>26, <2>1, ConstantsAssumption
          DEF TypeOK, LocalEnds, ConstantsAssumption
<1>27. ASSUME NEW a \in Ids, InteractiveEnds(a) PROVE TypeOK'
  BY <1>27, ConstantsAssumption DEF TypeOK, InteractiveEnds, ConstantsAssumption
<1>28. ASSUME NEW a \in Ids, Abandon(a) PROVE TypeOK'
  BY <1>28, ConstantsAssumption DEF TypeOK, Abandon, ConstantsAssumption
<1>29. ASSUME NEW a \in Ids, FinalizeChild(a) PROVE TypeOK'
  BY <1>29, ConstantsAssumption DEF TypeOK, FinalizeChild, ConstantsAssumption
<1>30. ASSUME LeadEnds PROVE TypeOK'
  BY <1>30, ConstantsAssumption DEF TypeOK, LeadEnds, ConstantsAssumption
<1>31. ASSUME FinalizeLead PROVE TypeOK'
  BY <1>31, ConstantsAssumption DEF TypeOK, FinalizeLead, ConstantsAssumption
<1>32. ASSUME DeadlinePasses PROVE TypeOK'
  BY <1>32, ConstantsAssumption DEF TypeOK, DeadlinePasses, ConstantsAssumption
<1>33. CASE UNCHANGED vars
  BY <1>33 DEF TypeOK
<1> QED BY <1>1, <1>2, <1>3, <1>4, <1>5, <1>6, <1>7, <1>8, <1>9, <1>10, <1>11, <1>12, <1>13,
     <1>14, <1>15, <1>16, <1>17, <1>18, <1>19, <1>20, <1>21, <1>22, <1>23, <1>24, <1>25,
     <1>26, <1>27, <1>28, <1>29, <1>30, <1>31, <1>32, <1>33 DEF Next, CallerStep, Admit,
     Wrapper, Follow

LEMMA AgreeStep == ASSUME TypeOK, LedgersAgree, CallsOK, [Next]_vars PROVE LedgersAgree'
<1>1. ASSUME NEW c \in Callers, Reserve(c) PROVE LedgersAgree'
    BY <1>1, ConstantsAssumption DEF TypeOK, LedgersAgree, CallsOK, Behind, Reserve,
       ConstantsAssumption
<1>2. ASSUME NEW c \in Callers, IssueToken(c) PROVE LedgersAgree'
    BY <1>2, ConstantsAssumption DEF TypeOK, LedgersAgree, CallsOK, Behind, IssueToken,
       ConstantsAssumption
<1>3. ASSUME NEW c \in Callers, BindToken(c) PROVE LedgersAgree'
    BY <1>3, ConstantsAssumption DEF TypeOK, LedgersAgree, CallsOK, Behind, BindToken,
       ConstantsAssumption
<1>4. ASSUME NEW c \in Callers, RecordIntent(c) PROVE LedgersAgree'
    BY <1>4, ConstantsAssumption DEF TypeOK, LedgersAgree, CallsOK, Behind, RecordIntent,
       ConstantsAssumption
<1>5. ASSUME NEW c \in Callers, Commit(c) PROVE LedgersAgree'
    BY <1>5, ConstantsAssumption DEF TypeOK, LedgersAgree, CallsOK, Behind, Commit,
       ConstantsAssumption
<1>6. ASSUME NEW c \in Callers, LookForRun(c) PROVE LedgersAgree'
    BY <1>6, ConstantsAssumption DEF TypeOK, LedgersAgree, CallsOK, Behind, LookForRun,
       ConstantsAssumption
<1>7. ASSUME NEW c \in Callers, Authorize(c) PROVE LedgersAgree'
    BY <1>7, ConstantsAssumption DEF TypeOK, LedgersAgree, CallsOK, Behind, Authorize,
       ConstantsAssumption
<1>8. ASSUME NEW c \in Callers, PrepareCheck(c) PROVE LedgersAgree'
    BY <1>8, ConstantsAssumption DEF TypeOK, LedgersAgree, CallsOK, Behind, PrepareCheck,
       ConstantsAssumption
<1>9. ASSUME NEW c \in Callers, Prepare(c) PROVE LedgersAgree'
    BY <1>9, ConstantsAssumption DEF TypeOK, LedgersAgree, CallsOK, Behind, Prepare,
       ConstantsAssumption
<1>10. ASSUME NEW c \in Callers, Acquire(c) PROVE LedgersAgree'
    BY <1>10, ConstantsAssumption DEF TypeOK, LedgersAgree, CallsOK, Behind, Acquire,
       ConstantsAssumption
<1>11. ASSUME NEW c \in Callers, RecordDispatched(c) PROVE LedgersAgree'
    BY <1>11, ConstantsAssumption DEF TypeOK, LedgersAgree, CallsOK, Behind, RecordDispatched,
       ConstantsAssumption
<1>12. ASSUME NEW c \in Callers, NotAttempted(c) PROVE LedgersAgree'
    BY <1>12, ConstantsAssumption DEF TypeOK, LedgersAgree, CallsOK, Behind, NotAttempted,
       ConstantsAssumption
<1>13. ASSUME NEW c \in Callers, Submit(c) PROVE LedgersAgree'
    BY <1>13, ConstantsAssumption DEF TypeOK, LedgersAgree, CallsOK, Behind, Submit,
       ConstantsAssumption
<1>14. ASSUME NEW c \in Callers, Confirm(c) PROVE LedgersAgree'
    BY <1>14, ConstantsAssumption DEF TypeOK, LedgersAgree, CallsOK, Behind, Confirm,
       ConstantsAssumption
<1>15. ASSUME NEW c \in Callers, Undo(c) PROVE LedgersAgree'
    BY <1>15, ConstantsAssumption DEF TypeOK, LedgersAgree, CallsOK, Behind, Undo,
       ConstantsAssumption
<1>16. ASSUME NEW c \in Callers, Spoil(c) PROVE LedgersAgree'
    BY <1>16, ConstantsAssumption DEF TypeOK, LedgersAgree, CallsOK, Behind, Spoil,
       ConstantsAssumption
<1>17. ASSUME NEW c \in Callers, ReleaseLease(c) PROVE LedgersAgree'
    BY <1>17, ConstantsAssumption DEF TypeOK, LedgersAgree, CallsOK, Behind, ReleaseLease,
       ConstantsAssumption
<1>18. ASSUME NEW c \in Callers, Doubt(c) PROVE LedgersAgree'
    BY <1>18, ConstantsAssumption DEF TypeOK, LedgersAgree, CallsOK, Behind, Doubt,
       ConstantsAssumption
<1>19. ASSUME NEW c \in Callers, MarkStarted(c) PROVE LedgersAgree'
    BY <1>19, ConstantsAssumption DEF TypeOK, LedgersAgree, CallsOK, Behind, MarkStarted,
       ConstantsAssumption
<1>20. ASSUME NEW c \in Callers, Register(c) PROVE LedgersAgree'
    BY <1>20, ConstantsAssumption DEF TypeOK, LedgersAgree, CallsOK, Behind, Register,
       ConstantsAssumption
<1>21. ASSUME NEW c \in Callers, RecordResult(c) PROVE LedgersAgree'
    BY <1>21, ConstantsAssumption DEF TypeOK, LedgersAgree, CallsOK, Behind, RecordResult,
       ConstantsAssumption
<1>22. ASSUME NEW c \in Callers, Finalize(c) PROVE LedgersAgree'
    BY <1>22, ConstantsAssumption DEF TypeOK, LedgersAgree, CallsOK, Behind, Finalize,
       ConstantsAssumption
<1>23. ASSUME NEW c \in Callers, Stop(c) PROVE LedgersAgree'
    BY <1>23, ConstantsAssumption DEF TypeOK, LedgersAgree, CallsOK, Behind, Stop,
       ConstantsAssumption
<1>24. ASSUME NEW c \in Callers, NEW a \in Ids, Call(c, a) PROVE LedgersAgree'
    BY <1>24, ConstantsAssumption DEF TypeOK, LedgersAgree, CallsOK, Behind, Call,
       ConstantsAssumption
<1>25. ASSUME NEW c \in Callers, NEW a \in Ids, Wait(c, a) PROVE LedgersAgree'
    BY <1>25, ConstantsAssumption DEF TypeOK, LedgersAgree, CallsOK, Behind, Wait,
       ConstantsAssumption
<1>26. ASSUME NEW a \in Ids, LocalEnds(a) PROVE LedgersAgree'
    BY <1>26, ConstantsAssumption DEF TypeOK, LedgersAgree, CallsOK, Behind, LocalEnds,
       ConstantsAssumption
<1>27. ASSUME NEW a \in Ids, InteractiveEnds(a) PROVE LedgersAgree'
    BY <1>27, ConstantsAssumption DEF TypeOK, LedgersAgree, CallsOK, Behind, InteractiveEnds,
       ConstantsAssumption
<1>28. ASSUME NEW a \in Ids, Abandon(a) PROVE LedgersAgree'
    BY <1>28, ConstantsAssumption DEF TypeOK, LedgersAgree, CallsOK, Behind, Abandon,
       ConstantsAssumption
<1>29. ASSUME NEW a \in Ids, FinalizeChild(a) PROVE LedgersAgree'
    BY <1>29, ConstantsAssumption DEF TypeOK, LedgersAgree, CallsOK, Behind, FinalizeChild,
       ConstantsAssumption
<1>30. ASSUME LeadEnds PROVE LedgersAgree'
    BY <1>30, ConstantsAssumption DEF TypeOK, LedgersAgree, CallsOK, Behind, LeadEnds,
       ConstantsAssumption
<1>31. ASSUME FinalizeLead PROVE LedgersAgree'
    BY <1>31, ConstantsAssumption DEF TypeOK, LedgersAgree, CallsOK, Behind, FinalizeLead,
       ConstantsAssumption
<1>32. ASSUME DeadlinePasses PROVE LedgersAgree'
    BY <1>32, ConstantsAssumption DEF TypeOK, LedgersAgree, CallsOK, Behind, DeadlinePasses,
       ConstantsAssumption
<1>33. CASE UNCHANGED vars
  BY <1>33 DEF TypeOK, LedgersAgree, CallsOK, Behind
<1> QED BY <1>1, <1>2, <1>3, <1>4, <1>5, <1>6, <1>7, <1>8, <1>9, <1>10, <1>11, <1>12, <1>13,
     <1>14, <1>15, <1>16, <1>17, <1>18, <1>19, <1>20, <1>21, <1>22, <1>23, <1>24, <1>25,
     <1>26, <1>27, <1>28, <1>29, <1>30, <1>31, <1>32, <1>33 DEF Next, CallerStep, Admit,
     Wrapper, Follow

LEMMA ResultsStep ==
    ASSUME TypeOK, LedgersAgree, CallsOK, ResultsKept, [Next]_vars
    PROVE  ResultsKept'
<1>1. ASSUME NEW c \in Callers, Reserve(c) PROVE ResultsKept'
    BY <1>1, ConstantsAssumption DEF TypeOK, LedgersAgree, CallsOK, Behind, ResultsKept,
       Reserve, ConstantsAssumption
<1>2. ASSUME NEW c \in Callers, IssueToken(c) PROVE ResultsKept'
    BY <1>2, ConstantsAssumption DEF TypeOK, LedgersAgree, CallsOK, Behind, ResultsKept,
       IssueToken, ConstantsAssumption
<1>3. ASSUME NEW c \in Callers, BindToken(c) PROVE ResultsKept'
    BY <1>3, ConstantsAssumption DEF TypeOK, LedgersAgree, CallsOK, Behind, ResultsKept,
       BindToken, ConstantsAssumption
<1>4. ASSUME NEW c \in Callers, RecordIntent(c) PROVE ResultsKept'
    BY <1>4, ConstantsAssumption DEF TypeOK, LedgersAgree, CallsOK, Behind, ResultsKept,
       RecordIntent, ConstantsAssumption
<1>5. ASSUME NEW c \in Callers, Commit(c) PROVE ResultsKept'
    BY <1>5, ConstantsAssumption DEF TypeOK, LedgersAgree, CallsOK, Behind, ResultsKept,
       Commit, ConstantsAssumption
<1>6. ASSUME NEW c \in Callers, LookForRun(c) PROVE ResultsKept'
    BY <1>6, ConstantsAssumption DEF TypeOK, LedgersAgree, CallsOK, Behind, ResultsKept,
       LookForRun, ConstantsAssumption
<1>7. ASSUME NEW c \in Callers, Authorize(c) PROVE ResultsKept'
    BY <1>7, ConstantsAssumption DEF TypeOK, LedgersAgree, CallsOK, Behind, ResultsKept,
       Authorize, ConstantsAssumption
<1>8. ASSUME NEW c \in Callers, PrepareCheck(c) PROVE ResultsKept'
    BY <1>8, ConstantsAssumption DEF TypeOK, LedgersAgree, CallsOK, Behind, ResultsKept,
       PrepareCheck, ConstantsAssumption
<1>9. ASSUME NEW c \in Callers, Prepare(c) PROVE ResultsKept'
    BY <1>9, ConstantsAssumption DEF TypeOK, LedgersAgree, CallsOK, Behind, ResultsKept,
       Prepare, ConstantsAssumption
<1>10. ASSUME NEW c \in Callers, Acquire(c) PROVE ResultsKept'
    BY <1>10, ConstantsAssumption DEF TypeOK, LedgersAgree, CallsOK, Behind, ResultsKept,
       Acquire, ConstantsAssumption
<1>11. ASSUME NEW c \in Callers, RecordDispatched(c) PROVE ResultsKept'
    BY <1>11, ConstantsAssumption DEF TypeOK, LedgersAgree, CallsOK, Behind, ResultsKept,
       RecordDispatched, ConstantsAssumption
<1>12. ASSUME NEW c \in Callers, NotAttempted(c) PROVE ResultsKept'
    BY <1>12, ConstantsAssumption DEF TypeOK, LedgersAgree, CallsOK, Behind, ResultsKept,
       NotAttempted, ConstantsAssumption
<1>13. ASSUME NEW c \in Callers, Submit(c) PROVE ResultsKept'
    BY <1>13, ConstantsAssumption DEF TypeOK, LedgersAgree, CallsOK, Behind, ResultsKept,
       Submit, ConstantsAssumption
<1>14. ASSUME NEW c \in Callers, Confirm(c) PROVE ResultsKept'
    BY <1>14, ConstantsAssumption DEF TypeOK, LedgersAgree, CallsOK, Behind, ResultsKept,
       Confirm, ConstantsAssumption
<1>15. ASSUME NEW c \in Callers, Undo(c) PROVE ResultsKept'
    BY <1>15, ConstantsAssumption DEF TypeOK, LedgersAgree, CallsOK, Behind, ResultsKept,
       Undo, ConstantsAssumption
<1>16. ASSUME NEW c \in Callers, Spoil(c) PROVE ResultsKept'
    BY <1>16, ConstantsAssumption DEF TypeOK, LedgersAgree, CallsOK, Behind, ResultsKept,
       Spoil, ConstantsAssumption
<1>17. ASSUME NEW c \in Callers, ReleaseLease(c) PROVE ResultsKept'
    BY <1>17, ConstantsAssumption DEF TypeOK, LedgersAgree, CallsOK, Behind, ResultsKept,
       ReleaseLease, ConstantsAssumption
<1>18. ASSUME NEW c \in Callers, Doubt(c) PROVE ResultsKept'
    BY <1>18, ConstantsAssumption DEF TypeOK, LedgersAgree, CallsOK, Behind, ResultsKept,
       Doubt, ConstantsAssumption
<1>19. ASSUME NEW c \in Callers, MarkStarted(c) PROVE ResultsKept'
    BY <1>19, ConstantsAssumption DEF TypeOK, LedgersAgree, CallsOK, Behind, ResultsKept,
       MarkStarted, ConstantsAssumption
<1>20. ASSUME NEW c \in Callers, Register(c) PROVE ResultsKept'
    BY <1>20, ConstantsAssumption DEF TypeOK, LedgersAgree, CallsOK, Behind, ResultsKept,
       Register, ConstantsAssumption
<1>21. ASSUME NEW c \in Callers, RecordResult(c) PROVE ResultsKept'
    BY <1>21, ConstantsAssumption DEF TypeOK, LedgersAgree, CallsOK, Behind, ResultsKept,
       RecordResult, ConstantsAssumption
<1>22. ASSUME NEW c \in Callers, Finalize(c) PROVE ResultsKept'
    BY <1>22, ConstantsAssumption DEF TypeOK, LedgersAgree, CallsOK, Behind, ResultsKept,
       Finalize, ConstantsAssumption
<1>23. ASSUME NEW c \in Callers, Stop(c) PROVE ResultsKept'
    BY <1>23, ConstantsAssumption DEF TypeOK, LedgersAgree, CallsOK, Behind, ResultsKept,
       Stop, ConstantsAssumption
<1>24. ASSUME NEW c \in Callers, NEW a \in Ids, Call(c, a) PROVE ResultsKept'
    BY <1>24, ConstantsAssumption DEF TypeOK, LedgersAgree, CallsOK, Behind, ResultsKept,
       Call, ConstantsAssumption
<1>25. ASSUME NEW c \in Callers, NEW a \in Ids, Wait(c, a) PROVE ResultsKept'
    BY <1>25, ConstantsAssumption DEF TypeOK, LedgersAgree, CallsOK, Behind, ResultsKept,
       Wait, ConstantsAssumption
<1>26. ASSUME NEW a \in Ids, LocalEnds(a) PROVE ResultsKept'
    BY <1>26, ConstantsAssumption DEF TypeOK, LedgersAgree, CallsOK, Behind, ResultsKept,
       LocalEnds, ConstantsAssumption
<1>27. ASSUME NEW a \in Ids, InteractiveEnds(a) PROVE ResultsKept'
    BY <1>27, ConstantsAssumption DEF TypeOK, LedgersAgree, CallsOK, Behind, ResultsKept,
       InteractiveEnds, ConstantsAssumption
<1>28. ASSUME NEW a \in Ids, Abandon(a) PROVE ResultsKept'
    BY <1>28, ConstantsAssumption DEF TypeOK, LedgersAgree, CallsOK, Behind, ResultsKept,
       Abandon, ConstantsAssumption
<1>29. ASSUME NEW a \in Ids, FinalizeChild(a) PROVE ResultsKept'
    BY <1>29, ConstantsAssumption DEF TypeOK, LedgersAgree, CallsOK, Behind, ResultsKept,
       FinalizeChild, ConstantsAssumption
<1>30. ASSUME LeadEnds PROVE ResultsKept'
    BY <1>30, ConstantsAssumption DEF TypeOK, LedgersAgree, CallsOK, Behind, ResultsKept,
       LeadEnds, ConstantsAssumption
<1>31. ASSUME FinalizeLead PROVE ResultsKept'
    BY <1>31, ConstantsAssumption DEF TypeOK, LedgersAgree, CallsOK, Behind, ResultsKept,
       FinalizeLead, ConstantsAssumption
<1>32. ASSUME DeadlinePasses PROVE ResultsKept'
    BY <1>32, ConstantsAssumption DEF TypeOK, LedgersAgree, CallsOK, Behind, ResultsKept,
       DeadlinePasses, ConstantsAssumption
<1>33. CASE UNCHANGED vars
  BY <1>33 DEF TypeOK, LedgersAgree, CallsOK, Behind, ResultsKept
<1> QED BY <1>1, <1>2, <1>3, <1>4, <1>5, <1>6, <1>7, <1>8, <1>9, <1>10, <1>11, <1>12, <1>13,
     <1>14, <1>15, <1>16, <1>17, <1>18, <1>19, <1>20, <1>21, <1>22, <1>23, <1>24, <1>25,
     <1>26, <1>27, <1>28, <1>29, <1>30, <1>31, <1>32, <1>33 DEF Next, CallerStep, Admit,
     Wrapper, Follow

LEMMA CallsStep == ASSUME TypeOK, LedgersAgree, CallsOK, [Next]_vars PROVE CallsOK'
<1>1. ASSUME NEW c \in Callers, Reserve(c) PROVE CallsOK'
    BY <1>1, ConstantsAssumption DEF TypeOK, LedgersAgree, CallsOK, Behind, EffectCapable,
       Reserve, ConstantsAssumption
<1>2. ASSUME NEW c \in Callers, IssueToken(c) PROVE CallsOK'
    BY <1>2, ConstantsAssumption DEF TypeOK, LedgersAgree, CallsOK, Behind, EffectCapable,
       IssueToken, ConstantsAssumption
<1>3. ASSUME NEW c \in Callers, BindToken(c) PROVE CallsOK'
    BY <1>3, ConstantsAssumption DEF TypeOK, LedgersAgree, CallsOK, Behind, EffectCapable,
       BindToken, ConstantsAssumption
<1>4. ASSUME NEW c \in Callers, RecordIntent(c) PROVE CallsOK'
    BY <1>4, ConstantsAssumption DEF TypeOK, LedgersAgree, CallsOK, Behind, EffectCapable,
       RecordIntent, ConstantsAssumption
<1>5. ASSUME NEW c \in Callers, Commit(c) PROVE CallsOK'
    BY <1>5, ConstantsAssumption DEF TypeOK, LedgersAgree, CallsOK, Behind, EffectCapable,
       Commit, ConstantsAssumption
<1>6. ASSUME NEW c \in Callers, LookForRun(c) PROVE CallsOK'
    BY <1>6, ConstantsAssumption DEF TypeOK, LedgersAgree, CallsOK, Behind, EffectCapable,
       LookForRun, ConstantsAssumption
<1>7. ASSUME NEW c \in Callers, Authorize(c) PROVE CallsOK'
    BY <1>7, ConstantsAssumption DEF TypeOK, LedgersAgree, CallsOK, Behind, EffectCapable,
       Authorize, ConstantsAssumption
<1>8. ASSUME NEW c \in Callers, PrepareCheck(c) PROVE CallsOK'
    BY <1>8, ConstantsAssumption DEF TypeOK, LedgersAgree, CallsOK, Behind, EffectCapable,
       PrepareCheck, ConstantsAssumption
<1>9. ASSUME NEW c \in Callers, Prepare(c) PROVE CallsOK'
    BY <1>9, ConstantsAssumption DEF TypeOK, LedgersAgree, CallsOK, Behind, EffectCapable,
       Prepare, ConstantsAssumption
<1>10. ASSUME NEW c \in Callers, Acquire(c) PROVE CallsOK'
    BY <1>10, ConstantsAssumption DEF TypeOK, LedgersAgree, CallsOK, Behind, EffectCapable,
       Acquire, ConstantsAssumption
<1>11. ASSUME NEW c \in Callers, RecordDispatched(c) PROVE CallsOK'
    BY <1>11, ConstantsAssumption DEF TypeOK, LedgersAgree, CallsOK, Behind, EffectCapable,
       RecordDispatched, ConstantsAssumption
<1>12. ASSUME NEW c \in Callers, NotAttempted(c) PROVE CallsOK'
    BY <1>12, ConstantsAssumption DEF TypeOK, LedgersAgree, CallsOK, Behind, EffectCapable,
       NotAttempted, ConstantsAssumption
<1>13. ASSUME NEW c \in Callers, Submit(c) PROVE CallsOK'
    BY <1>13, ConstantsAssumption DEF TypeOK, LedgersAgree, CallsOK, Behind, EffectCapable,
       Submit, ConstantsAssumption
<1>14. ASSUME NEW c \in Callers, Confirm(c) PROVE CallsOK'
    BY <1>14, ConstantsAssumption DEF TypeOK, LedgersAgree, CallsOK, Behind, EffectCapable,
       Confirm, ConstantsAssumption
<1>15. ASSUME NEW c \in Callers, Undo(c) PROVE CallsOK'
    BY <1>15, ConstantsAssumption DEF TypeOK, LedgersAgree, CallsOK, Behind, EffectCapable,
       Undo, ConstantsAssumption
<1>16. ASSUME NEW c \in Callers, Spoil(c) PROVE CallsOK'
    BY <1>16, ConstantsAssumption DEF TypeOK, LedgersAgree, CallsOK, Behind, EffectCapable,
       Spoil, ConstantsAssumption
<1>17. ASSUME NEW c \in Callers, ReleaseLease(c) PROVE CallsOK'
    BY <1>17, ConstantsAssumption DEF TypeOK, LedgersAgree, CallsOK, Behind, EffectCapable,
       ReleaseLease, ConstantsAssumption
<1>18. ASSUME NEW c \in Callers, Doubt(c) PROVE CallsOK'
    BY <1>18, ConstantsAssumption DEF TypeOK, LedgersAgree, CallsOK, Behind, EffectCapable,
       Doubt, ConstantsAssumption
<1>19. ASSUME NEW c \in Callers, MarkStarted(c) PROVE CallsOK'
    BY <1>19, ConstantsAssumption DEF TypeOK, LedgersAgree, CallsOK, Behind, EffectCapable,
       MarkStarted, ConstantsAssumption
<1>20. ASSUME NEW c \in Callers, Register(c) PROVE CallsOK'
    BY <1>20, ConstantsAssumption DEF TypeOK, LedgersAgree, CallsOK, Behind, EffectCapable,
       Register, ConstantsAssumption
<1>21. ASSUME NEW c \in Callers, RecordResult(c) PROVE CallsOK'
    BY <1>21, ConstantsAssumption DEF TypeOK, LedgersAgree, CallsOK, Behind, EffectCapable,
       RecordResult, ConstantsAssumption
<1>22. ASSUME NEW c \in Callers, Finalize(c) PROVE CallsOK'
    BY <1>22, ConstantsAssumption DEF TypeOK, LedgersAgree, CallsOK, Behind, EffectCapable,
       Finalize, ConstantsAssumption
<1>23. ASSUME NEW c \in Callers, Stop(c) PROVE CallsOK'
    BY <1>23, ConstantsAssumption DEF TypeOK, LedgersAgree, CallsOK, Behind, EffectCapable,
       Stop, ConstantsAssumption
<1>24. ASSUME NEW c \in Callers, NEW a \in Ids, Call(c, a) PROVE CallsOK'
    BY <1>24, ConstantsAssumption DEF TypeOK, LedgersAgree, CallsOK, Behind, EffectCapable,
       Call, ConstantsAssumption
<1>25. ASSUME NEW c \in Callers, NEW a \in Ids, Wait(c, a) PROVE CallsOK'
    BY <1>25, ConstantsAssumption DEF TypeOK, LedgersAgree, CallsOK, Behind, EffectCapable,
       Wait, ConstantsAssumption
<1>26. ASSUME NEW a \in Ids, LocalEnds(a) PROVE CallsOK'
    BY <1>26, ConstantsAssumption DEF TypeOK, LedgersAgree, CallsOK, Behind, EffectCapable,
       LocalEnds, ConstantsAssumption
<1>27. ASSUME NEW a \in Ids, InteractiveEnds(a) PROVE CallsOK'
    BY <1>27, ConstantsAssumption DEF TypeOK, LedgersAgree, CallsOK, Behind, EffectCapable,
       InteractiveEnds, ConstantsAssumption
<1>28. ASSUME NEW a \in Ids, Abandon(a) PROVE CallsOK'
    BY <1>28, ConstantsAssumption DEF TypeOK, LedgersAgree, CallsOK, Behind, EffectCapable,
       Abandon, ConstantsAssumption
<1>29. ASSUME NEW a \in Ids, FinalizeChild(a) PROVE CallsOK'
    BY <1>29, ConstantsAssumption DEF TypeOK, LedgersAgree, CallsOK, Behind, EffectCapable,
       FinalizeChild, ConstantsAssumption
<1>30. ASSUME LeadEnds PROVE CallsOK'
    BY <1>30, ConstantsAssumption DEF TypeOK, LedgersAgree, CallsOK, Behind, EffectCapable,
       LeadEnds, ConstantsAssumption
<1>31. ASSUME FinalizeLead PROVE CallsOK'
    BY <1>31, ConstantsAssumption DEF TypeOK, LedgersAgree, CallsOK, Behind, EffectCapable,
       FinalizeLead, ConstantsAssumption
<1>32. ASSUME DeadlinePasses PROVE CallsOK'
    BY <1>32, ConstantsAssumption DEF TypeOK, LedgersAgree, CallsOK, Behind, EffectCapable,
       DeadlinePasses, ConstantsAssumption
<1>33. CASE UNCHANGED vars
  BY <1>33 DEF TypeOK, LedgersAgree, CallsOK, Behind, EffectCapable
<1> QED BY <1>1, <1>2, <1>3, <1>4, <1>5, <1>6, <1>7, <1>8, <1>9, <1>10, <1>11, <1>12, <1>13,
     <1>14, <1>15, <1>16, <1>17, <1>18, <1>19, <1>20, <1>21, <1>22, <1>23, <1>24, <1>25,
     <1>26, <1>27, <1>28, <1>29, <1>30, <1>31, <1>32, <1>33 DEF Next, CallerStep, Admit,
     Wrapper, Follow

----------------------------------------------------------------------------
(* Effects.                                                                *)

\* A step that leaves leases, runs and panes alone and enters no part of the wrapper
\* that holds a lease.
Quiet ==
    /\ UNCHANGED fleet
    /\ \A c \in Callers :
        (at'[c] = at[c] /\ job'[c] = job[c]) \/ at'[c] \notin Holding

LEMMA QuietKeeps == ASSUME Effects, Quiet PROVE Effects'
BY DEF Effects, Quiet, Held, Alone, OneSubmitter, Unsent, SentHeld, SentAlone, OneEffect,
     Holding

\* Only these steps touch the fleet.
FleetStep ==
    \/ \E c \in Callers :
        \/ Prepare(c) \/ Acquire(c) \/ RecordDispatched(c) \/ NotAttempted(c) \/ Submit(c)
        \/ Confirm(c) \/ Undo(c) \/ Spoil(c) \/ ReleaseLease(c) \/ Doubt(c)
    \/ \E a \in Ids : LocalEnds(a) \/ InteractiveEnds(a) \/ Abandon(a)

LEMMA OthersQuiet == ASSUME TypeOK, [Next]_vars, ~FleetStep PROVE Quiet
<1>1. ASSUME NEW c \in Callers, Reserve(c) PROVE Quiet
  BY <1>1 DEF TypeOK, Quiet, Holding, Reserve
<1>2. ASSUME NEW c \in Callers, IssueToken(c) PROVE Quiet
  BY <1>2 DEF TypeOK, Quiet, Holding, IssueToken
<1>3. ASSUME NEW c \in Callers, BindToken(c) PROVE Quiet
  BY <1>3 DEF TypeOK, Quiet, Holding, BindToken
<1>4. ASSUME NEW c \in Callers, RecordIntent(c) PROVE Quiet
  BY <1>4 DEF TypeOK, Quiet, Holding, RecordIntent
<1>5. ASSUME NEW c \in Callers, Commit(c) PROVE Quiet
  BY <1>5 DEF TypeOK, Quiet, Holding, Commit
<1>6. ASSUME NEW c \in Callers, LookForRun(c) PROVE Quiet
  BY <1>6 DEF TypeOK, Quiet, Holding, LookForRun
<1>7. ASSUME NEW c \in Callers, Authorize(c) PROVE Quiet
  BY <1>7 DEF TypeOK, Quiet, Holding, Authorize
<1>8. ASSUME NEW c \in Callers, PrepareCheck(c) PROVE Quiet
  BY <1>8 DEF TypeOK, Quiet, Holding, PrepareCheck
<1>9. ASSUME NEW c \in Callers, MarkStarted(c) PROVE Quiet
  BY <1>9 DEF TypeOK, Quiet, Holding, MarkStarted
<1>10. ASSUME NEW c \in Callers, Register(c) PROVE Quiet
  BY <1>10 DEF TypeOK, Quiet, Holding, Register
<1>11. ASSUME NEW c \in Callers, RecordResult(c) PROVE Quiet
  BY <1>11 DEF TypeOK, Quiet, Holding, RecordResult
<1>12. ASSUME NEW c \in Callers, Finalize(c) PROVE Quiet
  BY <1>12 DEF TypeOK, Quiet, Holding, Finalize
<1>13. ASSUME NEW c \in Callers, Stop(c) PROVE Quiet
  BY <1>13 DEF TypeOK, Quiet, Holding, Stop
<1>14. ASSUME NEW c \in Callers, NEW a \in Ids, Call(c, a) PROVE Quiet
  BY <1>14 DEF TypeOK, Quiet, Holding, Call
<1>15. ASSUME NEW c \in Callers, NEW a \in Ids, Wait(c, a) PROVE Quiet
  BY <1>15 DEF TypeOK, Quiet, Holding, Wait
<1>16. ASSUME NEW a \in Ids, FinalizeChild(a) PROVE Quiet
  BY <1>16 DEF TypeOK, Quiet, Holding, FinalizeChild
<1>17. ASSUME LeadEnds PROVE Quiet
  BY <1>17 DEF TypeOK, Quiet, Holding, LeadEnds
<1>18. ASSUME FinalizeLead PROVE Quiet
  BY <1>18 DEF TypeOK, Quiet, Holding, FinalizeLead
<1>19. ASSUME DeadlinePasses PROVE Quiet
  BY <1>19 DEF TypeOK, Quiet, Holding, DeadlinePasses
<1>20. CASE UNCHANGED vars
  BY <1>20 DEF Quiet
<1> QED BY <1>1, <1>2, <1>3, <1>4, <1>5, <1>6, <1>7, <1>8, <1>9, <1>10, <1>11, <1>12, <1>13,
     <1>14, <1>15, <1>16, <1>17, <1>18, <1>19, <1>20 DEF Next, CallerStep, Admit, Wrapper,
     Follow, FleetStep

LEMMA HeldStep == ASSUME TypeOK, CallsOK, Effects, FleetStep PROVE Held'
<1>1. ASSUME NEW c \in Callers, Prepare(c) PROVE Held'
    BY <1>1, ConstantsAssumption DEF TypeOK, CallsOK, Behind, Effects, Holding, Leasable,
       Held, SentHeld, Prepare, ConstantsAssumption
<1>2. ASSUME NEW c \in Callers, Acquire(c) PROVE Held'
    BY <1>2, ConstantsAssumption DEF TypeOK, CallsOK, Behind, Effects, Holding, Leasable,
       Held, SentHeld, Acquire, ConstantsAssumption
<1>3. ASSUME NEW c \in Callers, RecordDispatched(c) PROVE Held'
    BY <1>3, ConstantsAssumption DEF TypeOK, CallsOK, Behind, Effects, Holding, Leasable,
       Held, SentHeld, RecordDispatched, ConstantsAssumption
<1>4. ASSUME NEW c \in Callers, NotAttempted(c) PROVE Held'
    BY <1>4, ConstantsAssumption DEF TypeOK, CallsOK, Behind, Effects, Holding, Leasable,
       Held, SentHeld, NotAttempted, ConstantsAssumption
<1>5. ASSUME NEW c \in Callers, Submit(c) PROVE Held'
    BY <1>5, ConstantsAssumption DEF TypeOK, CallsOK, Behind, Effects, Holding, Leasable,
       Held, SentHeld, Submit, ConstantsAssumption
<1>6. ASSUME NEW c \in Callers, Confirm(c) PROVE Held'
    BY <1>6, ConstantsAssumption DEF TypeOK, CallsOK, Behind, Effects, Holding, Leasable,
       Held, SentHeld, Confirm, ConstantsAssumption
<1>7. ASSUME NEW c \in Callers, Undo(c) PROVE Held'
    BY <1>7, ConstantsAssumption DEF TypeOK, CallsOK, Behind, Effects, Holding, Leasable,
       Held, SentHeld, Undo, ConstantsAssumption
<1>8. ASSUME NEW c \in Callers, Spoil(c) PROVE Held'
    BY <1>8, ConstantsAssumption DEF TypeOK, CallsOK, Behind, Effects, Holding, Leasable,
       Held, SentHeld, Spoil, ConstantsAssumption
<1>9. ASSUME NEW c \in Callers, ReleaseLease(c) PROVE Held'
    BY <1>9, ConstantsAssumption DEF TypeOK, CallsOK, Behind, Effects, Holding, Leasable,
       Held, SentHeld, ReleaseLease, ConstantsAssumption
<1>10. ASSUME NEW c \in Callers, Doubt(c) PROVE Held'
    BY <1>10, ConstantsAssumption DEF TypeOK, CallsOK, Behind, Effects, Holding, Leasable,
       Held, SentHeld, Doubt, ConstantsAssumption
<1>11. ASSUME NEW a \in Ids, LocalEnds(a) PROVE Held'
    BY <1>11, ConstantsAssumption DEF TypeOK, CallsOK, Behind, Effects, Holding, Leasable,
       Held, SentHeld, LocalEnds, ConstantsAssumption
<1>12. ASSUME NEW a \in Ids, InteractiveEnds(a) PROVE Held'
    BY <1>12, ConstantsAssumption DEF TypeOK, CallsOK, Behind, Effects, Holding, Leasable,
       Held, SentHeld, InteractiveEnds, ConstantsAssumption
<1>13. ASSUME NEW a \in Ids, Abandon(a) PROVE Held'
    BY <1>13, ConstantsAssumption DEF TypeOK, CallsOK, Behind, Effects, Holding, Leasable,
       Held, SentHeld, Abandon, ConstantsAssumption
<1> QED BY <1>1, <1>2, <1>3, <1>4, <1>5, <1>6, <1>7, <1>8, <1>9, <1>10, <1>11, <1>12, <1>13
     DEF FleetStep

LEMMA AloneStep == ASSUME TypeOK, CallsOK, Effects, FleetStep PROVE Alone'
<1>1. ASSUME NEW c \in Callers, Prepare(c) PROVE Alone'
    BY <1>1, ConstantsAssumption DEF TypeOK, CallsOK, Behind, Effects, Holding, Leasable,
       Held, Alone, Prepare, ConstantsAssumption
<1>2. ASSUME NEW c \in Callers, Acquire(c) PROVE Alone'
    BY <1>2, ConstantsAssumption DEF TypeOK, CallsOK, Behind, Effects, Holding, Leasable,
       Held, Alone, Acquire, ConstantsAssumption
<1>3. ASSUME NEW c \in Callers, RecordDispatched(c) PROVE Alone'
    BY <1>3, ConstantsAssumption DEF TypeOK, CallsOK, Behind, Effects, Holding, Leasable,
       Held, Alone, RecordDispatched, ConstantsAssumption
<1>4. ASSUME NEW c \in Callers, NotAttempted(c) PROVE Alone'
    BY <1>4, ConstantsAssumption DEF TypeOK, CallsOK, Behind, Effects, Holding, Leasable,
       Held, Alone, NotAttempted, ConstantsAssumption
<1>5. ASSUME NEW c \in Callers, Submit(c) PROVE Alone'
    BY <1>5, ConstantsAssumption DEF TypeOK, CallsOK, Behind, Effects, Holding, Leasable,
       Held, Alone, Submit, ConstantsAssumption
<1>6. ASSUME NEW c \in Callers, Confirm(c) PROVE Alone'
    BY <1>6, ConstantsAssumption DEF TypeOK, CallsOK, Behind, Effects, Holding, Leasable,
       Held, Alone, Confirm, ConstantsAssumption
<1>7. ASSUME NEW c \in Callers, Undo(c) PROVE Alone'
    BY <1>7, ConstantsAssumption DEF TypeOK, CallsOK, Behind, Effects, Holding, Leasable,
       Held, Alone, Undo, ConstantsAssumption
<1>8. ASSUME NEW c \in Callers, Spoil(c) PROVE Alone'
    BY <1>8, ConstantsAssumption DEF TypeOK, CallsOK, Behind, Effects, Holding, Leasable,
       Held, Alone, Spoil, ConstantsAssumption
<1>9. ASSUME NEW c \in Callers, ReleaseLease(c) PROVE Alone'
    BY <1>9, ConstantsAssumption DEF TypeOK, CallsOK, Behind, Effects, Holding, Leasable,
       Held, Alone, ReleaseLease, ConstantsAssumption
<1>10. ASSUME NEW c \in Callers, Doubt(c) PROVE Alone'
    BY <1>10, ConstantsAssumption DEF TypeOK, CallsOK, Behind, Effects, Holding, Leasable,
       Held, Alone, Doubt, ConstantsAssumption
<1>11. ASSUME NEW a \in Ids, LocalEnds(a) PROVE Alone'
    BY <1>11, ConstantsAssumption DEF TypeOK, CallsOK, Behind, Effects, Holding, Leasable,
       Held, Alone, LocalEnds, ConstantsAssumption
<1>12. ASSUME NEW a \in Ids, InteractiveEnds(a) PROVE Alone'
    BY <1>12, ConstantsAssumption DEF TypeOK, CallsOK, Behind, Effects, Holding, Leasable,
       Held, Alone, InteractiveEnds, ConstantsAssumption
<1>13. ASSUME NEW a \in Ids, Abandon(a) PROVE Alone'
    BY <1>13, ConstantsAssumption DEF TypeOK, CallsOK, Behind, Effects, Holding, Leasable,
       Held, Alone, Abandon, ConstantsAssumption
<1> QED BY <1>1, <1>2, <1>3, <1>4, <1>5, <1>6, <1>7, <1>8, <1>9, <1>10, <1>11, <1>12, <1>13
     DEF FleetStep

LEMMA OneSubmitterStep == ASSUME TypeOK, CallsOK, Effects, FleetStep PROVE OneSubmitter'
<1>1. ASSUME NEW c \in Callers, Prepare(c) PROVE OneSubmitter'
    BY <1>1, ConstantsAssumption DEF TypeOK, CallsOK, Behind, Effects, Holding, Leasable,
       OneSubmitter, Alone, Prepare, ConstantsAssumption
<1>2. ASSUME NEW c \in Callers, Acquire(c) PROVE OneSubmitter'
    BY <1>2, ConstantsAssumption DEF TypeOK, CallsOK, Behind, Effects, Holding, Leasable,
       OneSubmitter, Alone, Acquire, ConstantsAssumption
<1>3. ASSUME NEW c \in Callers, RecordDispatched(c) PROVE OneSubmitter'
    BY <1>3, ConstantsAssumption DEF TypeOK, CallsOK, Behind, Effects, Holding, Leasable,
       OneSubmitter, Alone, RecordDispatched, ConstantsAssumption
<1>4. ASSUME NEW c \in Callers, NotAttempted(c) PROVE OneSubmitter'
    BY <1>4, ConstantsAssumption DEF TypeOK, CallsOK, Behind, Effects, Holding, Leasable,
       OneSubmitter, Alone, NotAttempted, ConstantsAssumption
<1>5. ASSUME NEW c \in Callers, Submit(c) PROVE OneSubmitter'
    BY <1>5, ConstantsAssumption DEF TypeOK, CallsOK, Behind, Effects, Holding, Leasable,
       OneSubmitter, Alone, Submit, ConstantsAssumption
<1>6. ASSUME NEW c \in Callers, Confirm(c) PROVE OneSubmitter'
    BY <1>6, ConstantsAssumption DEF TypeOK, CallsOK, Behind, Effects, Holding, Leasable,
       OneSubmitter, Alone, Confirm, ConstantsAssumption
<1>7. ASSUME NEW c \in Callers, Undo(c) PROVE OneSubmitter'
    BY <1>7, ConstantsAssumption DEF TypeOK, CallsOK, Behind, Effects, Holding, Leasable,
       OneSubmitter, Alone, Undo, ConstantsAssumption
<1>8. ASSUME NEW c \in Callers, Spoil(c) PROVE OneSubmitter'
    BY <1>8, ConstantsAssumption DEF TypeOK, CallsOK, Behind, Effects, Holding, Leasable,
       OneSubmitter, Alone, Spoil, ConstantsAssumption
<1>9. ASSUME NEW c \in Callers, ReleaseLease(c) PROVE OneSubmitter'
    BY <1>9, ConstantsAssumption DEF TypeOK, CallsOK, Behind, Effects, Holding, Leasable,
       OneSubmitter, Alone, ReleaseLease, ConstantsAssumption
<1>10. ASSUME NEW c \in Callers, Doubt(c) PROVE OneSubmitter'
    BY <1>10, ConstantsAssumption DEF TypeOK, CallsOK, Behind, Effects, Holding, Leasable,
       OneSubmitter, Alone, Doubt, ConstantsAssumption
<1>11. ASSUME NEW a \in Ids, LocalEnds(a) PROVE OneSubmitter'
    BY <1>11, ConstantsAssumption DEF TypeOK, CallsOK, Behind, Effects, Holding, Leasable,
       OneSubmitter, Alone, LocalEnds, ConstantsAssumption
<1>12. ASSUME NEW a \in Ids, InteractiveEnds(a) PROVE OneSubmitter'
    BY <1>12, ConstantsAssumption DEF TypeOK, CallsOK, Behind, Effects, Holding, Leasable,
       OneSubmitter, Alone, InteractiveEnds, ConstantsAssumption
<1>13. ASSUME NEW a \in Ids, Abandon(a) PROVE OneSubmitter'
    BY <1>13, ConstantsAssumption DEF TypeOK, CallsOK, Behind, Effects, Holding, Leasable,
       OneSubmitter, Alone, Abandon, ConstantsAssumption
<1> QED BY <1>1, <1>2, <1>3, <1>4, <1>5, <1>6, <1>7, <1>8, <1>9, <1>10, <1>11, <1>12, <1>13
     DEF FleetStep

LEMMA UnsentStep == ASSUME TypeOK, CallsOK, Effects, FleetStep PROVE Unsent'
<1>1. ASSUME NEW c \in Callers, Prepare(c) PROVE Unsent'
    BY <1>1, ConstantsAssumption DEF TypeOK, CallsOK, Behind, Effects, Holding, Leasable,
       Unsent, Alone, SentAlone, OneSubmitter, Prepare, ConstantsAssumption
<1>2. ASSUME NEW c \in Callers, Acquire(c) PROVE Unsent'
    BY <1>2, ConstantsAssumption DEF TypeOK, CallsOK, Behind, Effects, Holding, Leasable,
       Unsent, Alone, SentAlone, OneSubmitter, Acquire, ConstantsAssumption
<1>3. ASSUME NEW c \in Callers, RecordDispatched(c) PROVE Unsent'
    BY <1>3, ConstantsAssumption DEF TypeOK, CallsOK, Behind, Effects, Holding, Leasable,
       Unsent, Alone, SentAlone, OneSubmitter, RecordDispatched, ConstantsAssumption
<1>4. ASSUME NEW c \in Callers, NotAttempted(c) PROVE Unsent'
    BY <1>4, ConstantsAssumption DEF TypeOK, CallsOK, Behind, Effects, Holding, Leasable,
       Unsent, Alone, SentAlone, OneSubmitter, NotAttempted, ConstantsAssumption
<1>5. ASSUME NEW c \in Callers, Submit(c) PROVE Unsent'
    BY <1>5, ConstantsAssumption DEF TypeOK, CallsOK, Behind, Effects, Holding, Leasable,
       Unsent, Alone, SentAlone, OneSubmitter, Submit, ConstantsAssumption
<1>6. ASSUME NEW c \in Callers, Confirm(c) PROVE Unsent'
    BY <1>6, ConstantsAssumption DEF TypeOK, CallsOK, Behind, Effects, Holding, Leasable,
       Unsent, Alone, SentAlone, OneSubmitter, Confirm, ConstantsAssumption
<1>7. ASSUME NEW c \in Callers, Undo(c) PROVE Unsent'
    BY <1>7, ConstantsAssumption DEF TypeOK, CallsOK, Behind, Effects, Holding, Leasable,
       Unsent, Alone, SentAlone, OneSubmitter, Undo, ConstantsAssumption
<1>8. ASSUME NEW c \in Callers, Spoil(c) PROVE Unsent'
    BY <1>8, ConstantsAssumption DEF TypeOK, CallsOK, Behind, Effects, Holding, Leasable,
       Unsent, Alone, SentAlone, OneSubmitter, Spoil, ConstantsAssumption
<1>9. ASSUME NEW c \in Callers, ReleaseLease(c) PROVE Unsent'
    BY <1>9, ConstantsAssumption DEF TypeOK, CallsOK, Behind, Effects, Holding, Leasable,
       Unsent, Alone, SentAlone, OneSubmitter, ReleaseLease, ConstantsAssumption
<1>10. ASSUME NEW c \in Callers, Doubt(c) PROVE Unsent'
    BY <1>10, ConstantsAssumption DEF TypeOK, CallsOK, Behind, Effects, Holding, Leasable,
       Unsent, Alone, SentAlone, OneSubmitter, Doubt, ConstantsAssumption
<1>11. ASSUME NEW a \in Ids, LocalEnds(a) PROVE Unsent'
    BY <1>11, ConstantsAssumption DEF TypeOK, CallsOK, Behind, Effects, Holding, Leasable,
       Unsent, Alone, SentAlone, OneSubmitter, LocalEnds, ConstantsAssumption
<1>12. ASSUME NEW a \in Ids, InteractiveEnds(a) PROVE Unsent'
    BY <1>12, ConstantsAssumption DEF TypeOK, CallsOK, Behind, Effects, Holding, Leasable,
       Unsent, Alone, SentAlone, OneSubmitter, InteractiveEnds, ConstantsAssumption
<1>13. ASSUME NEW a \in Ids, Abandon(a) PROVE Unsent'
    BY <1>13, ConstantsAssumption DEF TypeOK, CallsOK, Behind, Effects, Holding, Leasable,
       Unsent, Alone, SentAlone, OneSubmitter, Abandon, ConstantsAssumption
<1> QED BY <1>1, <1>2, <1>3, <1>4, <1>5, <1>6, <1>7, <1>8, <1>9, <1>10, <1>11, <1>12, <1>13
     DEF FleetStep

LEMMA SentHeldStep == ASSUME TypeOK, CallsOK, Effects, FleetStep PROVE SentHeld'
<1>1. ASSUME NEW c \in Callers, Prepare(c) PROVE SentHeld'
    BY <1>1, ConstantsAssumption DEF TypeOK, CallsOK, Behind, Effects, Holding, Leasable,
       SentHeld, Held, Prepare, ConstantsAssumption
<1>2. ASSUME NEW c \in Callers, Acquire(c) PROVE SentHeld'
    BY <1>2, ConstantsAssumption DEF TypeOK, CallsOK, Behind, Effects, Holding, Leasable,
       SentHeld, Held, Acquire, ConstantsAssumption
<1>3. ASSUME NEW c \in Callers, RecordDispatched(c) PROVE SentHeld'
    BY <1>3, ConstantsAssumption DEF TypeOK, CallsOK, Behind, Effects, Holding, Leasable,
       SentHeld, Held, RecordDispatched, ConstantsAssumption
<1>4. ASSUME NEW c \in Callers, NotAttempted(c) PROVE SentHeld'
    BY <1>4, ConstantsAssumption DEF TypeOK, CallsOK, Behind, Effects, Holding, Leasable,
       SentHeld, Held, NotAttempted, ConstantsAssumption
<1>5. ASSUME NEW c \in Callers, Submit(c) PROVE SentHeld'
    BY <1>5, ConstantsAssumption DEF TypeOK, CallsOK, Behind, Effects, Holding, Leasable,
       SentHeld, Held, Submit, ConstantsAssumption
<1>6. ASSUME NEW c \in Callers, Confirm(c) PROVE SentHeld'
    BY <1>6, ConstantsAssumption DEF TypeOK, CallsOK, Behind, Effects, Holding, Leasable,
       SentHeld, Held, Confirm, ConstantsAssumption
<1>7. ASSUME NEW c \in Callers, Undo(c) PROVE SentHeld'
    BY <1>7, ConstantsAssumption DEF TypeOK, CallsOK, Behind, Effects, Holding, Leasable,
       SentHeld, Held, Undo, ConstantsAssumption
<1>8. ASSUME NEW c \in Callers, Spoil(c) PROVE SentHeld'
    BY <1>8, ConstantsAssumption DEF TypeOK, CallsOK, Behind, Effects, Holding, Leasable,
       SentHeld, Held, Spoil, ConstantsAssumption
<1>9. ASSUME NEW c \in Callers, ReleaseLease(c) PROVE SentHeld'
    BY <1>9, ConstantsAssumption DEF TypeOK, CallsOK, Behind, Effects, Holding, Leasable,
       SentHeld, Held, ReleaseLease, ConstantsAssumption
<1>10. ASSUME NEW c \in Callers, Doubt(c) PROVE SentHeld'
    BY <1>10, ConstantsAssumption DEF TypeOK, CallsOK, Behind, Effects, Holding, Leasable,
       SentHeld, Held, Doubt, ConstantsAssumption
<1>11. ASSUME NEW a \in Ids, LocalEnds(a) PROVE SentHeld'
    BY <1>11, ConstantsAssumption DEF TypeOK, CallsOK, Behind, Effects, Holding, Leasable,
       SentHeld, Held, LocalEnds, ConstantsAssumption
<1>12. ASSUME NEW a \in Ids, InteractiveEnds(a) PROVE SentHeld'
    BY <1>12, ConstantsAssumption DEF TypeOK, CallsOK, Behind, Effects, Holding, Leasable,
       SentHeld, Held, InteractiveEnds, ConstantsAssumption
<1>13. ASSUME NEW a \in Ids, Abandon(a) PROVE SentHeld'
    BY <1>13, ConstantsAssumption DEF TypeOK, CallsOK, Behind, Effects, Holding, Leasable,
       SentHeld, Held, Abandon, ConstantsAssumption
<1> QED BY <1>1, <1>2, <1>3, <1>4, <1>5, <1>6, <1>7, <1>8, <1>9, <1>10, <1>11, <1>12, <1>13
     DEF FleetStep

LEMMA SentAloneStep == ASSUME TypeOK, CallsOK, Effects, FleetStep PROVE SentAlone'
<1>1. ASSUME NEW c \in Callers, Prepare(c) PROVE SentAlone'
    BY <1>1, ConstantsAssumption DEF TypeOK, CallsOK, Behind, Effects, Holding, Leasable,
       SentAlone, SentHeld, Alone, Unsent, Prepare, ConstantsAssumption
<1>2. ASSUME NEW c \in Callers, Acquire(c) PROVE SentAlone'
    BY <1>2, ConstantsAssumption DEF TypeOK, CallsOK, Behind, Effects, Holding, Leasable,
       SentAlone, SentHeld, Alone, Unsent, Acquire, ConstantsAssumption
<1>3. ASSUME NEW c \in Callers, RecordDispatched(c) PROVE SentAlone'
    BY <1>3, ConstantsAssumption DEF TypeOK, CallsOK, Behind, Effects, Holding, Leasable,
       SentAlone, SentHeld, Alone, Unsent, RecordDispatched, ConstantsAssumption
<1>4. ASSUME NEW c \in Callers, NotAttempted(c) PROVE SentAlone'
    BY <1>4, ConstantsAssumption DEF TypeOK, CallsOK, Behind, Effects, Holding, Leasable,
       SentAlone, SentHeld, Alone, Unsent, NotAttempted, ConstantsAssumption
<1>5. ASSUME NEW c \in Callers, Submit(c) PROVE SentAlone'
    BY <1>5, ConstantsAssumption DEF TypeOK, CallsOK, Behind, Effects, Holding, Leasable,
       SentAlone, SentHeld, Alone, Unsent, Submit, ConstantsAssumption
<1>6. ASSUME NEW c \in Callers, Confirm(c) PROVE SentAlone'
    BY <1>6, ConstantsAssumption DEF TypeOK, CallsOK, Behind, Effects, Holding, Leasable,
       SentAlone, SentHeld, Alone, Unsent, Confirm, ConstantsAssumption
<1>7. ASSUME NEW c \in Callers, Undo(c) PROVE SentAlone'
    BY <1>7, ConstantsAssumption DEF TypeOK, CallsOK, Behind, Effects, Holding, Leasable,
       SentAlone, SentHeld, Alone, Unsent, Undo, ConstantsAssumption
<1>8. ASSUME NEW c \in Callers, Spoil(c) PROVE SentAlone'
    BY <1>8, ConstantsAssumption DEF TypeOK, CallsOK, Behind, Effects, Holding, Leasable,
       SentAlone, SentHeld, Alone, Unsent, Spoil, ConstantsAssumption
<1>9. ASSUME NEW c \in Callers, ReleaseLease(c) PROVE SentAlone'
    BY <1>9, ConstantsAssumption DEF TypeOK, CallsOK, Behind, Effects, Holding, Leasable,
       SentAlone, SentHeld, Alone, Unsent, ReleaseLease, ConstantsAssumption
<1>10. ASSUME NEW c \in Callers, Doubt(c) PROVE SentAlone'
    BY <1>10, ConstantsAssumption DEF TypeOK, CallsOK, Behind, Effects, Holding, Leasable,
       SentAlone, SentHeld, Alone, Unsent, Doubt, ConstantsAssumption
<1>11. ASSUME NEW a \in Ids, LocalEnds(a) PROVE SentAlone'
    BY <1>11, ConstantsAssumption DEF TypeOK, CallsOK, Behind, Effects, Holding, Leasable,
       SentAlone, SentHeld, Alone, Unsent, LocalEnds, ConstantsAssumption
<1>12. ASSUME NEW a \in Ids, InteractiveEnds(a) PROVE SentAlone'
    BY <1>12, ConstantsAssumption DEF TypeOK, CallsOK, Behind, Effects, Holding, Leasable,
       SentAlone, SentHeld, Alone, Unsent, InteractiveEnds, ConstantsAssumption
<1>13. ASSUME NEW a \in Ids, Abandon(a) PROVE SentAlone'
    BY <1>13, ConstantsAssumption DEF TypeOK, CallsOK, Behind, Effects, Holding, Leasable,
       SentAlone, SentHeld, Alone, Unsent, Abandon, ConstantsAssumption
<1> QED BY <1>1, <1>2, <1>3, <1>4, <1>5, <1>6, <1>7, <1>8, <1>9, <1>10, <1>11, <1>12, <1>13
     DEF FleetStep

LEMMA OneEffectStep == ASSUME TypeOK, CallsOK, Effects, FleetStep PROVE OneEffect'
<1>1. ASSUME NEW c \in Callers, Prepare(c) PROVE OneEffect'
    BY <1>1, ConstantsAssumption DEF TypeOK, CallsOK, Behind, Effects, Holding, Leasable,
       OneEffect, Unsent, Prepare, ConstantsAssumption
<1>2. ASSUME NEW c \in Callers, Acquire(c) PROVE OneEffect'
    BY <1>2, ConstantsAssumption DEF TypeOK, CallsOK, Behind, Effects, Holding, Leasable,
       OneEffect, Unsent, Acquire, ConstantsAssumption
<1>3. ASSUME NEW c \in Callers, RecordDispatched(c) PROVE OneEffect'
    BY <1>3, ConstantsAssumption DEF TypeOK, CallsOK, Behind, Effects, Holding, Leasable,
       OneEffect, Unsent, RecordDispatched, ConstantsAssumption
<1>4. ASSUME NEW c \in Callers, NotAttempted(c) PROVE OneEffect'
    BY <1>4, ConstantsAssumption DEF TypeOK, CallsOK, Behind, Effects, Holding, Leasable,
       OneEffect, Unsent, NotAttempted, ConstantsAssumption
<1>5. ASSUME NEW c \in Callers, Submit(c) PROVE OneEffect'
    BY <1>5, ConstantsAssumption DEF TypeOK, CallsOK, Behind, Effects, Holding, Leasable,
       OneEffect, Unsent, Submit, ConstantsAssumption
<1>6. ASSUME NEW c \in Callers, Confirm(c) PROVE OneEffect'
    BY <1>6, ConstantsAssumption DEF TypeOK, CallsOK, Behind, Effects, Holding, Leasable,
       OneEffect, Unsent, Confirm, ConstantsAssumption
<1>7. ASSUME NEW c \in Callers, Undo(c) PROVE OneEffect'
    BY <1>7, ConstantsAssumption DEF TypeOK, CallsOK, Behind, Effects, Holding, Leasable,
       OneEffect, Unsent, Undo, ConstantsAssumption
<1>8. ASSUME NEW c \in Callers, Spoil(c) PROVE OneEffect'
    BY <1>8, ConstantsAssumption DEF TypeOK, CallsOK, Behind, Effects, Holding, Leasable,
       OneEffect, Unsent, Spoil, ConstantsAssumption
<1>9. ASSUME NEW c \in Callers, ReleaseLease(c) PROVE OneEffect'
    BY <1>9, ConstantsAssumption DEF TypeOK, CallsOK, Behind, Effects, Holding, Leasable,
       OneEffect, Unsent, ReleaseLease, ConstantsAssumption
<1>10. ASSUME NEW c \in Callers, Doubt(c) PROVE OneEffect'
    BY <1>10, ConstantsAssumption DEF TypeOK, CallsOK, Behind, Effects, Holding, Leasable,
       OneEffect, Unsent, Doubt, ConstantsAssumption
<1>11. ASSUME NEW a \in Ids, LocalEnds(a) PROVE OneEffect'
    BY <1>11, ConstantsAssumption DEF TypeOK, CallsOK, Behind, Effects, Holding, Leasable,
       OneEffect, Unsent, LocalEnds, ConstantsAssumption
<1>12. ASSUME NEW a \in Ids, InteractiveEnds(a) PROVE OneEffect'
    BY <1>12, ConstantsAssumption DEF TypeOK, CallsOK, Behind, Effects, Holding, Leasable,
       OneEffect, Unsent, InteractiveEnds, ConstantsAssumption
<1>13. ASSUME NEW a \in Ids, Abandon(a) PROVE OneEffect'
    BY <1>13, ConstantsAssumption DEF TypeOK, CallsOK, Behind, Effects, Holding, Leasable,
       OneEffect, Unsent, Abandon, ConstantsAssumption
<1> QED BY <1>1, <1>2, <1>3, <1>4, <1>5, <1>6, <1>7, <1>8, <1>9, <1>10, <1>11, <1>12, <1>13
     DEF FleetStep

----------------------------------------------------------------------------
(* The theorems.                                                           *)

LEMMA InitOK == Init => IInv
<1> SUFFICES ASSUME Init PROVE IInv
  OBVIOUS
<1>1. TypeOK
  BY ConstantsAssumption DEF Init, TypeOK, ConstantsAssumption
<1>2. LedgersAgree /\ ResultsKept
  BY DEF Init, LedgersAgree, ResultsKept
<1>3. CallsOK
  BY DEF Init, CallsOK, Behind
<1>4. Effects
    BY DEF Init, Effects, Held, Alone, OneSubmitter, Unsent, SentHeld, SentAlone, OneEffect,
       Holding
<1> QED BY <1>1, <1>2, <1>3, <1>4 DEF IInv

LEMMA EffectsStep == ASSUME TypeOK, CallsOK, Effects, [Next]_vars PROVE Effects'
<1>1. CASE FleetStep
  BY <1>1, HeldStep, AloneStep, OneSubmitterStep, UnsentStep, SentHeldStep, SentAloneStep,
     OneEffectStep DEF Effects
<1>2. CASE ~FleetStep
  BY <1>2, OthersQuiet, QuietKeeps
<1> QED BY <1>1, <1>2

\* The inductive invariant holds: the two ledgers agree, each step of a call has behind
\* it what it relies on, and one call at a time is at the submission of a run.
THEOREM InvariantTheorem == Spec => []IInv
<1>1. IInv /\ [Next]_vars => IInv'
  BY TypeStep, AgreeStep, ResultsStep, CallsStep, EffectsStep DEF IInv
<1> QED BY InitOK, <1>1, PTL DEF Spec

\* Every variable stays within its domain.
THEOREM TypeTheorem == Spec => []TypeOK
<1>1. IInv => TypeOK
  BY DEF IInv
<1> QED BY <1>1, InvariantTheorem, PTL

\* A request's task is submitted at most once, for any number of callers that repeat
\* the request and are cut short anywhere.
THEOREM EffectTheorem == Spec => []OneEffect
<1>1. IInv => OneEffect
  BY DEF IInv, Effects
<1> QED BY <1>1, InvariantTheorem, PTL

\* The mission ledger and the lifecycle ledger agree in every reachable state.
THEOREM AgreementTheorem == Spec => []LedgersAgree
<1>1. IInv => LedgersAgree
  BY DEF IInv
<1> QED BY <1>1, InvariantTheorem, PTL

\* What is finalized of a run that succeeded while the Lead is at work has its result.
THEOREM ResultsTheorem == Spec => []ResultsKept
<1>1. IInv => ResultsKept
  BY DEF IInv
<1> QED BY <1>1, InvariantTheorem, PTL

----------------------------------------------------------------------------
(* Dispatch implements LaunchOnce.                                         *)

\* How an admission moves.
Same == UNCHANGED <<phase, sent>>
Moves(a) ==
    /\ \A b \in Ids \ {a} : phase'[b] = phase[b]
    /\ \/ phase[a] = "absent" /\ phase'[a] = "reserved"
       \/ phase[a] = "reserved" /\ phase'[a] = "committed"
       \/ phase[a] = "authorized" /\ phase'[a] = "started"
Grants(a) == phase[a] = "committed" /\ phase' = [phase EXCEPT ![a] = "authorized"]
Closes(a) == phase[a] \in {"authorized", "started"} /\ phase' = [phase EXCEPT ![a] = "finalized"]
Submits(c) == Submit(c) /\ sent' = [sent EXCEPT ![job[c]] = @ + 1]

\* Each step keeps admissions and submissions, moves an admission, or submits.
AdmissionStep ==
    \/ Same
    \/ /\ UNCHANGED sent /\ phase' \in [Ids -> Phases]
       /\ \E a \in Ids : Moves(a) \/ Grants(a) \/ Closes(a)
    \/ UNCHANGED phase /\ \E c \in Callers : Submits(c)

LEMMA AdmissionSteps == ASSUME IInv, [Next]_vars PROVE AdmissionStep
<1>1. ASSUME NEW c \in Callers, Reserve(c) PROVE AdmissionStep
    BY <1>1, TypeStep DEF IInv, TypeOK, LedgersAgree, CallsOK, Behind, AdmissionStep, Same,
       Moves, Grants, Closes, Reserve
<1>2. ASSUME NEW c \in Callers, IssueToken(c) PROVE AdmissionStep
  BY <1>2 DEF AdmissionStep, Same, IssueToken
<1>3. ASSUME NEW c \in Callers, BindToken(c) PROVE AdmissionStep
  BY <1>3 DEF AdmissionStep, Same, BindToken
<1>4. ASSUME NEW c \in Callers, RecordIntent(c) PROVE AdmissionStep
  BY <1>4 DEF AdmissionStep, Same, RecordIntent
<1>5. ASSUME NEW c \in Callers, Commit(c) PROVE AdmissionStep
    BY <1>5, TypeStep DEF IInv, TypeOK, LedgersAgree, CallsOK, Behind, AdmissionStep, Same,
       Moves, Grants, Closes, Commit
<1>6. ASSUME NEW c \in Callers, LookForRun(c) PROVE AdmissionStep
  BY <1>6 DEF AdmissionStep, Same, LookForRun
<1>7. ASSUME NEW c \in Callers, Authorize(c) PROVE AdmissionStep
    BY <1>7, TypeStep DEF IInv, TypeOK, LedgersAgree, CallsOK, Behind, AdmissionStep, Same,
       Moves, Grants, Closes, Authorize
<1>8. ASSUME NEW c \in Callers, PrepareCheck(c) PROVE AdmissionStep
  BY <1>8 DEF AdmissionStep, Same, PrepareCheck
<1>9. ASSUME NEW c \in Callers, Prepare(c) PROVE AdmissionStep
  BY <1>9 DEF AdmissionStep, Same, Prepare
<1>10. ASSUME NEW c \in Callers, Acquire(c) PROVE AdmissionStep
  BY <1>10 DEF AdmissionStep, Same, Acquire
<1>11. ASSUME NEW c \in Callers, RecordDispatched(c) PROVE AdmissionStep
  BY <1>11 DEF AdmissionStep, Same, RecordDispatched
<1>12. ASSUME NEW c \in Callers, NotAttempted(c) PROVE AdmissionStep
  BY <1>12 DEF AdmissionStep, Same, NotAttempted
<1>13. ASSUME NEW c \in Callers, Submit(c) PROVE AdmissionStep
  BY <1>13 DEF AdmissionStep, Same, Submits, Submit
<1>14. ASSUME NEW c \in Callers, Confirm(c) PROVE AdmissionStep
  BY <1>14 DEF AdmissionStep, Same, Confirm
<1>15. ASSUME NEW c \in Callers, Undo(c) PROVE AdmissionStep
  BY <1>15 DEF AdmissionStep, Same, Undo
<1>16. ASSUME NEW c \in Callers, Spoil(c) PROVE AdmissionStep
  BY <1>16 DEF AdmissionStep, Same, Spoil
<1>17. ASSUME NEW c \in Callers, ReleaseLease(c) PROVE AdmissionStep
  BY <1>17 DEF AdmissionStep, Same, ReleaseLease
<1>18. ASSUME NEW c \in Callers, Doubt(c) PROVE AdmissionStep
  BY <1>18 DEF AdmissionStep, Same, Doubt
<1>19. ASSUME NEW c \in Callers, MarkStarted(c) PROVE AdmissionStep
    BY <1>19, TypeStep DEF IInv, TypeOK, LedgersAgree, CallsOK, Behind, AdmissionStep, Same,
       Moves, Grants, Closes, MarkStarted
<1>20. ASSUME NEW c \in Callers, Register(c) PROVE AdmissionStep
  BY <1>20 DEF AdmissionStep, Same, Register
<1>21. ASSUME NEW c \in Callers, RecordResult(c) PROVE AdmissionStep
  BY <1>21 DEF AdmissionStep, Same, RecordResult
<1>22. ASSUME NEW c \in Callers, Finalize(c) PROVE AdmissionStep
    BY <1>22, TypeStep DEF IInv, TypeOK, LedgersAgree, CallsOK, Behind, AdmissionStep, Same,
       Moves, Grants, Closes, Finalize
<1>23. ASSUME NEW c \in Callers, Stop(c) PROVE AdmissionStep
  BY <1>23 DEF AdmissionStep, Same, Stop
<1>24. ASSUME NEW c \in Callers, NEW a \in Ids, Call(c, a) PROVE AdmissionStep
  BY <1>24 DEF AdmissionStep, Same, Call
<1>25. ASSUME NEW c \in Callers, NEW a \in Ids, Wait(c, a) PROVE AdmissionStep
  BY <1>25 DEF AdmissionStep, Same, Wait
<1>26. ASSUME NEW a \in Ids, LocalEnds(a) PROVE AdmissionStep
  BY <1>26 DEF AdmissionStep, Same, LocalEnds
<1>27. ASSUME NEW a \in Ids, InteractiveEnds(a) PROVE AdmissionStep
  BY <1>27 DEF AdmissionStep, Same, InteractiveEnds
<1>28. ASSUME NEW a \in Ids, Abandon(a) PROVE AdmissionStep
  BY <1>28 DEF AdmissionStep, Same, Abandon
<1>29. ASSUME NEW a \in Ids, FinalizeChild(a) PROVE AdmissionStep
    BY <1>29, TypeStep DEF IInv, TypeOK, LedgersAgree, CallsOK, Behind, AdmissionStep, Same,
       Moves, Grants, Closes, FinalizeChild
<1>30. ASSUME LeadEnds PROVE AdmissionStep
  BY <1>30 DEF AdmissionStep, Same, LeadEnds
<1>31. ASSUME FinalizeLead PROVE AdmissionStep
  BY <1>31 DEF AdmissionStep, Same, FinalizeLead
<1>32. ASSUME DeadlinePasses PROVE AdmissionStep
  BY <1>32 DEF AdmissionStep, Same, DeadlinePasses
<1>33. CASE UNCHANGED vars
  BY <1>33 DEF AdmissionStep, Same
<1> QED BY <1>1, <1>2, <1>3, <1>4, <1>5, <1>6, <1>7, <1>8, <1>9, <1>10, <1>11, <1>12, <1>13,
     <1>14, <1>15, <1>16, <1>17, <1>18, <1>19, <1>20, <1>21, <1>22, <1>23, <1>24, <1>25,
     <1>26, <1>27, <1>28, <1>29, <1>30, <1>31, <1>32, <1>33 DEF Next, CallerStep, Admit,
     Wrapper, Follow

LEMMA InitImplements == Init => Launched!Init
BY DEF Init, Launched!Init, Stage

LEMMA StepImplements == ASSUME IInv, IInv', [Next]_vars PROVE [Launched!Next]_Launched!vars
<1> DEFINE stage == [a \in Ids |-> Stage(a)]
<1>1. TypeOK /\ TypeOK'
  BY DEF IInv
<1>2. CASE Same
  BY <1>2 DEF Same, Stage, Launched!vars
<1>3. ASSUME NEW a \in Ids, UNCHANGED sent, Moves(a) PROVE stage' = stage
  BY <1>1, <1>3 DEF Moves, Stage, TypeOK
<1>4. ASSUME NEW a \in Ids, UNCHANGED sent, Grants(a) PROVE Launched!Grant(a)
  <2>1. Stage(a) = "asked" /\ Stage(a)' = "granted"
    BY <1>1, <1>4 DEF Grants, Stage, TypeOK
  <2>2. \A b \in Ids \ {a} : Stage(b)' = Stage(b)
    BY <1>1, <1>4 DEF Grants, Stage, TypeOK
  <2>3. stage' = [stage EXCEPT ![a] = "granted"]
    BY <2>1, <2>2
  <2> QED BY <1>4, <2>1, <2>3 DEF Launched!Grant
<1>5. ASSUME NEW a \in Ids, UNCHANGED sent, Closes(a) PROVE Launched!Close(a)
  <2>1. Stage(a) = "granted" /\ Stage(a)' = "closed"
    BY <1>1, <1>5 DEF Closes, Stage, TypeOK
  <2>2. \A b \in Ids \ {a} : Stage(b)' = Stage(b)
    BY <1>1, <1>5 DEF Closes, Stage, TypeOK
  <2>3. stage' = [stage EXCEPT ![a] = "closed"]
    BY <2>1, <2>2
  <2> QED BY <1>5, <2>1, <2>3 DEF Launched!Close
<1>6. ASSUME NEW c \in Callers, UNCHANGED phase, Submits(c) PROVE Launched!Launch(job[c])
  <2>1. job[c] \in Ids /\ at[c] = "submit"
    BY <1>6 DEF Submits, Submit
  <2>2. /\ phase[job[c]] \in Granted
        /\ sent[job[c]] = 0
        /\ ~IsInteractive(job[c]) => phase[job[c]] # "finalized"
    BY <2>1 DEF IInv, LedgersAgree, CallsOK, Behind, Effects, Unsent
  <2> QED BY <1>1, <1>6, <2>1, <2>2 DEF Submits, Launched!Launch, Stage, TypeOK
<1>7. AdmissionStep
  BY AdmissionSteps
<1> QED BY <1>2, <1>3, <1>4, <1>5, <1>6, <1>7 DEF AdmissionStep, Launched!Next, Launched!vars,
     Submits, Submit

\* Dispatch implements the launch-once specification: an admission is granted, closed and
\* its task submitted at most once each, in an order LaunchOnce allows.
THEOREM RefinementTheorem == Spec => ImplementsLaunchOnce
<1>1. IInv /\ IInv' /\ [Next]_vars => [Launched!Next]_Launched!vars
  BY StepImplements
<1> QED BY InitImplements, <1>1, InvariantTheorem, PTL DEF Spec, ImplementsLaunchOnce,
     Launched!Spec
=============================================================================
