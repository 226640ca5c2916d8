-------------------------- MODULE Decisions_proofs --------------------------
(***************************************************************************)
(* Proofs about Decisions, for any decisions, instances and processes, and *)
(* for any number of crashes and rejections.                               *)
(***************************************************************************)
EXTENDS Decisions, FiniteSetTheorems, TLAPS

USE DEF vars, ledger, time, sender, reconciler

\* A decision has an outbox entry from its request on and an answer once resolved.
Entries == \A d \in Ids :
    /\ status[d] = "none" <=> delivery[d] = "none"
    /\ status[d] = "resolved" <=> answer[d] # "none"

\* The send lock makes the process between claim and receipt the only one, and the
\* attempt it claimed stays in flight under it.
Sending == {"claim", "notify", "settle"}
Serialized == \A p \in Procs : at[p] \in Sending => lock = p
InFlight == \A p \in Procs : at[p] \in {"notify", "settle"} =>
    /\ claim[p] \in Ids /\ delivery[claim[p]] = "in_flight"
    /\ at[p] = "settle" => verdict[p] \in Verdicts

\* Who has been woken up for a decision is past every state that may be claimed, and an
\* attempt that may still be repeated has woken up nobody.
Woken == \A d \in Ids :
    shown[d] <= 1 /\ (shown[d] # 0 => delivery[d] \notin Retryable \cup {"none"})
Unwoken == \A p \in Procs :
    at[p] = "notify" \/ (at[p] = "settle" /\ verdict[p] = "rejected") =>
        shown[claim[p]] = 0
Outbox == Serialized /\ InFlight /\ Woken /\ Unwoken

\* What a reconciliation holds was open and overdue when it read the ledger; at its
\* second reading a human had answered a decision of its first.
Answered(d) == answer[d] = "human"
Batches == \A p \in Procs : at[p] = "apply" =>
    /\ \A d \in batch[p] : status[d] # "none" /\ (status[d] = "pending" => d \in overdue)
    /\ tries[p] \in 1..Rereads
    /\ tries[p] = Rereads => \E d \in Ids : d \notin batch[p] /\ Answered(d)
TwoAnswered == raised # {} => \E d, e \in Ids : d # e /\ Answered(d) /\ Answered(e)

IInv == TypeOK /\ Entries /\ DecisionsBind /\ Outbox /\ Batches /\ TwoAnswered

USE DEF Pending, Retryable, Verdicts, Deliveries, Resolved, Idle, Returns, Claimable,
        Eligible, Held, Outcome, Rereads, Acceptable, Sending, Answered

LEMMA TypeStep == ASSUME TypeOK, Entries, InFlight, [Next]_vars PROVE TypeOK'
<1>1. ASSUME NEW d \in Ids, Request(d) PROVE TypeOK'
  BY <1>1, ConstantsAssumption DEF TypeOK, InFlight, Request, ConstantsAssumption
<1>2. ASSUME NEW d \in Ids, ResolveHuman(d) PROVE TypeOK'
  BY <1>2, ConstantsAssumption DEF TypeOK, InFlight, ResolveHuman, ConstantsAssumption
<1>3. ASSUME NEW d \in Ids, TwoHoursPass(d) PROVE TypeOK'
  BY <1>3, ConstantsAssumption DEF TypeOK, InFlight, TwoHoursPass, ConstantsAssumption
<1>4. ASSUME NEW d \in Ids, BackoffPasses(d) PROVE TypeOK'
  BY <1>4, ConstantsAssumption DEF TypeOK, InFlight, BackoffPasses, ConstantsAssumption
<1>5. ASSUME NEW i \in Instances, Admit(i) PROVE TypeOK'
  BY <1>5, ConstantsAssumption DEF TypeOK, InFlight, Admit, ConstantsAssumption
<1>6. ASSUME NEW i \in Instances, Leave(i) PROVE TypeOK'
  BY <1>6, ConstantsAssumption DEF TypeOK, InFlight, Leave, ConstantsAssumption
<1>7. ASSUME Complete PROVE TypeOK'
  BY <1>7, ConstantsAssumption DEF TypeOK, InFlight, Complete, ConstantsAssumption
<1>8. ASSUME NEW p \in Procs, Begin(p) PROVE TypeOK'
  BY <1>8, ConstantsAssumption DEF TypeOK, InFlight, Begin, ConstantsAssumption
<1>9. ASSUME NEW p \in Procs, Load(p) PROVE TypeOK'
  BY <1>9, ConstantsAssumption DEF TypeOK, InFlight, Load, ConstantsAssumption
<1>10. ASSUME NEW p \in Procs, Claim(p) PROVE TypeOK'
  BY <1>10, ConstantsAssumption DEF TypeOK, InFlight, Claim, ConstantsAssumption
<1>11. ASSUME NEW p \in Procs, Notify(p) PROVE TypeOK'
  BY <1>11, ConstantsAssumption DEF TypeOK, InFlight, Notify, ConstantsAssumption
<1>12. ASSUME NEW p \in Procs, Settle(p) PROVE TypeOK'
  BY <1>12, ConstantsAssumption DEF TypeOK, InFlight, Settle, ConstantsAssumption
<1>13. ASSUME NEW p \in Procs, Apply(p) PROVE TypeOK'
  BY <1>13, ConstantsAssumption DEF TypeOK, InFlight, Apply, ConstantsAssumption
<1>14. ASSUME NEW p \in Procs, Conflict(p) PROVE TypeOK'
  BY <1>14, ConstantsAssumption DEF TypeOK, InFlight, Conflict, ConstantsAssumption
<1>15. ASSUME NEW p \in Procs, Crash(p) PROVE TypeOK'
  BY <1>15, ConstantsAssumption DEF TypeOK, InFlight, Crash, ConstantsAssumption
<1>16. CASE UNCHANGED vars
  BY <1>16 DEF TypeOK, InFlight
<1> QED BY <1>1, <1>2, <1>3, <1>4, <1>5, <1>6, <1>7, <1>8, <1>9, <1>10, <1>11, <1>12, <1>13, <1>14, <1>15, <1>16 DEF Next, Proceed

LEMMA EntriesStep == ASSUME TypeOK, Entries, InFlight, [Next]_vars PROVE Entries'
<1>1. ASSUME NEW d \in Ids, Request(d) PROVE Entries'
  BY <1>1, ConstantsAssumption DEF TypeOK, Entries, InFlight, Request, ConstantsAssumption
<1>2. ASSUME NEW d \in Ids, ResolveHuman(d) PROVE Entries'
  BY <1>2, ConstantsAssumption DEF TypeOK, Entries, InFlight, ResolveHuman, ConstantsAssumption
<1>3. ASSUME NEW d \in Ids, TwoHoursPass(d) PROVE Entries'
  BY <1>3, ConstantsAssumption DEF TypeOK, Entries, InFlight, TwoHoursPass, ConstantsAssumption
<1>4. ASSUME NEW d \in Ids, BackoffPasses(d) PROVE Entries'
  BY <1>4, ConstantsAssumption DEF TypeOK, Entries, InFlight, BackoffPasses, ConstantsAssumption
<1>5. ASSUME NEW i \in Instances, Admit(i) PROVE Entries'
  BY <1>5, ConstantsAssumption DEF TypeOK, Entries, InFlight, Admit, ConstantsAssumption
<1>6. ASSUME NEW i \in Instances, Leave(i) PROVE Entries'
  BY <1>6, ConstantsAssumption DEF TypeOK, Entries, InFlight, Leave, ConstantsAssumption
<1>7. ASSUME Complete PROVE Entries'
  BY <1>7, ConstantsAssumption DEF TypeOK, Entries, InFlight, Complete, ConstantsAssumption
<1>8. ASSUME NEW p \in Procs, Begin(p) PROVE Entries'
  BY <1>8, ConstantsAssumption DEF TypeOK, Entries, InFlight, Begin, ConstantsAssumption
<1>9. ASSUME NEW p \in Procs, Load(p) PROVE Entries'
  BY <1>9, ConstantsAssumption DEF TypeOK, Entries, InFlight, Load, ConstantsAssumption
<1>10. ASSUME NEW p \in Procs, Claim(p) PROVE Entries'
  BY <1>10, ConstantsAssumption DEF TypeOK, Entries, InFlight, Claim, ConstantsAssumption
<1>11. ASSUME NEW p \in Procs, Notify(p) PROVE Entries'
  BY <1>11, ConstantsAssumption DEF TypeOK, Entries, InFlight, Notify, ConstantsAssumption
<1>12. ASSUME NEW p \in Procs, Settle(p) PROVE Entries'
  BY <1>12, ConstantsAssumption DEF TypeOK, Entries, InFlight, Settle, ConstantsAssumption
<1>13. ASSUME NEW p \in Procs, Apply(p) PROVE Entries'
  BY <1>13, ConstantsAssumption DEF TypeOK, Entries, InFlight, Apply, ConstantsAssumption
<1>14. ASSUME NEW p \in Procs, Conflict(p) PROVE Entries'
  BY <1>14, ConstantsAssumption DEF TypeOK, Entries, InFlight, Conflict, ConstantsAssumption
<1>15. ASSUME NEW p \in Procs, Crash(p) PROVE Entries'
  BY <1>15, ConstantsAssumption DEF TypeOK, Entries, InFlight, Crash, ConstantsAssumption
<1>16. CASE UNCHANGED vars
  BY <1>16 DEF TypeOK, Entries, InFlight
<1> QED BY <1>1, <1>2, <1>3, <1>4, <1>5, <1>6, <1>7, <1>8, <1>9, <1>10, <1>11, <1>12, <1>13, <1>14, <1>15, <1>16 DEF Next, Proceed

LEMMA BindStep == ASSUME TypeOK, DecisionsBind, [Next]_vars PROVE DecisionsBind'
<1>1. ASSUME NEW d \in Ids, Request(d) PROVE DecisionsBind'
  BY <1>1, ConstantsAssumption DEF TypeOK, DecisionsBind, Request, ConstantsAssumption
<1>2. ASSUME NEW d \in Ids, ResolveHuman(d) PROVE DecisionsBind'
  BY <1>2, ConstantsAssumption DEF TypeOK, DecisionsBind, ResolveHuman, ConstantsAssumption
<1>3. ASSUME NEW d \in Ids, TwoHoursPass(d) PROVE DecisionsBind'
  BY <1>3, ConstantsAssumption DEF TypeOK, DecisionsBind, TwoHoursPass, ConstantsAssumption
<1>4. ASSUME NEW d \in Ids, BackoffPasses(d) PROVE DecisionsBind'
  BY <1>4, ConstantsAssumption DEF TypeOK, DecisionsBind, BackoffPasses, ConstantsAssumption
<1>5. ASSUME NEW i \in Instances, Admit(i) PROVE DecisionsBind'
  BY <1>5, ConstantsAssumption DEF TypeOK, DecisionsBind, Admit, ConstantsAssumption
<1>6. ASSUME NEW i \in Instances, Leave(i) PROVE DecisionsBind'
  BY <1>6, ConstantsAssumption DEF TypeOK, DecisionsBind, Leave, ConstantsAssumption
<1>7. ASSUME Complete PROVE DecisionsBind'
  BY <1>7, ConstantsAssumption DEF TypeOK, DecisionsBind, Complete, ConstantsAssumption
<1>8. ASSUME NEW p \in Procs, Begin(p) PROVE DecisionsBind'
  BY <1>8, ConstantsAssumption DEF TypeOK, DecisionsBind, Begin, ConstantsAssumption
<1>9. ASSUME NEW p \in Procs, Load(p) PROVE DecisionsBind'
  BY <1>9, ConstantsAssumption DEF TypeOK, DecisionsBind, Load, ConstantsAssumption
<1>10. ASSUME NEW p \in Procs, Claim(p) PROVE DecisionsBind'
  BY <1>10, ConstantsAssumption DEF TypeOK, DecisionsBind, Claim, ConstantsAssumption
<1>11. ASSUME NEW p \in Procs, Notify(p) PROVE DecisionsBind'
  BY <1>11, ConstantsAssumption DEF TypeOK, DecisionsBind, Notify, ConstantsAssumption
<1>12. ASSUME NEW p \in Procs, Settle(p) PROVE DecisionsBind'
  BY <1>12, ConstantsAssumption DEF TypeOK, DecisionsBind, Settle, ConstantsAssumption
<1>13. ASSUME NEW p \in Procs, Apply(p) PROVE DecisionsBind'
  BY <1>13, ConstantsAssumption DEF TypeOK, DecisionsBind, Apply, ConstantsAssumption
<1>14. ASSUME NEW p \in Procs, Conflict(p) PROVE DecisionsBind'
  BY <1>14, ConstantsAssumption DEF TypeOK, DecisionsBind, Conflict, ConstantsAssumption
<1>15. ASSUME NEW p \in Procs, Crash(p) PROVE DecisionsBind'
  BY <1>15, ConstantsAssumption DEF TypeOK, DecisionsBind, Crash, ConstantsAssumption
<1>16. CASE UNCHANGED vars
  BY <1>16 DEF TypeOK, DecisionsBind
<1> QED BY <1>1, <1>2, <1>3, <1>4, <1>5, <1>6, <1>7, <1>8, <1>9, <1>10, <1>11, <1>12, <1>13, <1>14, <1>15, <1>16 DEF Next, Proceed

LEMMA OutboxStep == ASSUME TypeOK, Entries, Outbox, [Next]_vars PROVE Outbox'
<1>1. ASSUME NEW d \in Ids, Request(d) PROVE Outbox'
  BY <1>1, ConstantsAssumption DEF TypeOK, Entries, Outbox, Serialized, InFlight, Woken, Unwoken, Request, ConstantsAssumption
<1>2. ASSUME NEW d \in Ids, ResolveHuman(d) PROVE Outbox'
  BY <1>2, ConstantsAssumption DEF TypeOK, Entries, Outbox, Serialized, InFlight, Woken, Unwoken, ResolveHuman, ConstantsAssumption
<1>3. ASSUME NEW d \in Ids, TwoHoursPass(d) PROVE Outbox'
  BY <1>3, ConstantsAssumption DEF TypeOK, Entries, Outbox, Serialized, InFlight, Woken, Unwoken, TwoHoursPass, ConstantsAssumption
<1>4. ASSUME NEW d \in Ids, BackoffPasses(d) PROVE Outbox'
  BY <1>4, ConstantsAssumption DEF TypeOK, Entries, Outbox, Serialized, InFlight, Woken, Unwoken, BackoffPasses, ConstantsAssumption
<1>5. ASSUME NEW i \in Instances, Admit(i) PROVE Outbox'
  BY <1>5, ConstantsAssumption DEF TypeOK, Entries, Outbox, Serialized, InFlight, Woken, Unwoken, Admit, ConstantsAssumption
<1>6. ASSUME NEW i \in Instances, Leave(i) PROVE Outbox'
  BY <1>6, ConstantsAssumption DEF TypeOK, Entries, Outbox, Serialized, InFlight, Woken, Unwoken, Leave, ConstantsAssumption
<1>7. ASSUME Complete PROVE Outbox'
  BY <1>7, ConstantsAssumption DEF TypeOK, Entries, Outbox, Serialized, InFlight, Woken, Unwoken, Complete, ConstantsAssumption
<1>8. ASSUME NEW p \in Procs, Begin(p) PROVE Outbox'
  BY <1>8, ConstantsAssumption DEF TypeOK, Entries, Outbox, Serialized, InFlight, Woken, Unwoken, Begin, ConstantsAssumption
<1>9. ASSUME NEW p \in Procs, Load(p) PROVE Outbox'
  BY <1>9, ConstantsAssumption DEF TypeOK, Entries, Outbox, Serialized, InFlight, Woken, Unwoken, Load, ConstantsAssumption
<1>10. ASSUME NEW p \in Procs, Claim(p) PROVE Outbox'
  BY <1>10, ConstantsAssumption DEF TypeOK, Entries, Outbox, Serialized, InFlight, Woken, Unwoken, Claim, ConstantsAssumption
<1>11. ASSUME NEW p \in Procs, Notify(p) PROVE Outbox'
  BY <1>11, ConstantsAssumption DEF TypeOK, Entries, Outbox, Serialized, InFlight, Woken, Unwoken, Notify, ConstantsAssumption
<1>12. ASSUME NEW p \in Procs, Settle(p) PROVE Outbox'
  BY <1>12, ConstantsAssumption DEF TypeOK, Entries, Outbox, Serialized, InFlight, Woken, Unwoken, Settle, ConstantsAssumption
<1>13. ASSUME NEW p \in Procs, Apply(p) PROVE Outbox'
  BY <1>13, ConstantsAssumption DEF TypeOK, Entries, Outbox, Serialized, InFlight, Woken, Unwoken, Apply, ConstantsAssumption
<1>14. ASSUME NEW p \in Procs, Conflict(p) PROVE Outbox'
  BY <1>14, ConstantsAssumption DEF TypeOK, Entries, Outbox, Serialized, InFlight, Woken, Unwoken, Conflict, ConstantsAssumption
<1>15. ASSUME NEW p \in Procs, Crash(p) PROVE Outbox'
  BY <1>15, ConstantsAssumption DEF TypeOK, Entries, Outbox, Serialized, InFlight, Woken, Unwoken, Crash, ConstantsAssumption
<1>16. CASE UNCHANGED vars
  BY <1>16 DEF TypeOK, Entries, Outbox, Serialized, InFlight, Woken, Unwoken
<1> QED BY <1>1, <1>2, <1>3, <1>4, <1>5, <1>6, <1>7, <1>8, <1>9, <1>10, <1>11, <1>12, <1>13, <1>14, <1>15, <1>16 DEF Next, Proceed

LEMMA BatchesStep == ASSUME TypeOK, Entries, Batches, [Next]_vars PROVE Batches'
<1>1. ASSUME NEW d \in Ids, Request(d) PROVE Batches'
  BY <1>1, ConstantsAssumption DEF TypeOK, Entries, Batches, Request, ConstantsAssumption
<1>2. ASSUME NEW d \in Ids, ResolveHuman(d) PROVE Batches'
  BY <1>2, ConstantsAssumption DEF TypeOK, Entries, Batches, ResolveHuman, ConstantsAssumption
<1>3. ASSUME NEW d \in Ids, TwoHoursPass(d) PROVE Batches'
  BY <1>3, ConstantsAssumption DEF TypeOK, Entries, Batches, TwoHoursPass, ConstantsAssumption
<1>4. ASSUME NEW d \in Ids, BackoffPasses(d) PROVE Batches'
  BY <1>4, ConstantsAssumption DEF TypeOK, Entries, Batches, BackoffPasses, ConstantsAssumption
<1>5. ASSUME NEW i \in Instances, Admit(i) PROVE Batches'
  BY <1>5, ConstantsAssumption DEF TypeOK, Entries, Batches, Admit, ConstantsAssumption
<1>6. ASSUME NEW i \in Instances, Leave(i) PROVE Batches'
  BY <1>6, ConstantsAssumption DEF TypeOK, Entries, Batches, Leave, ConstantsAssumption
<1>7. ASSUME Complete PROVE Batches'
  BY <1>7, ConstantsAssumption DEF TypeOK, Entries, Batches, Complete, ConstantsAssumption
<1>8. ASSUME NEW p \in Procs, Begin(p) PROVE Batches'
  BY <1>8, ConstantsAssumption DEF TypeOK, Entries, Batches, Begin, ConstantsAssumption
<1>9. ASSUME NEW p \in Procs, Load(p) PROVE Batches'
  BY <1>9, ConstantsAssumption DEF TypeOK, Entries, Batches, Load, ConstantsAssumption
<1>10. ASSUME NEW p \in Procs, Claim(p) PROVE Batches'
  BY <1>10, ConstantsAssumption DEF TypeOK, Entries, Batches, Claim, ConstantsAssumption
<1>11. ASSUME NEW p \in Procs, Notify(p) PROVE Batches'
  BY <1>11, ConstantsAssumption DEF TypeOK, Entries, Batches, Notify, ConstantsAssumption
<1>12. ASSUME NEW p \in Procs, Settle(p) PROVE Batches'
  BY <1>12, ConstantsAssumption DEF TypeOK, Entries, Batches, Settle, ConstantsAssumption
<1>13. ASSUME NEW p \in Procs, Apply(p) PROVE Batches'
  BY <1>13, ConstantsAssumption DEF TypeOK, Entries, Batches, Apply, ConstantsAssumption
<1>14. ASSUME NEW p \in Procs, Conflict(p) PROVE Batches'
  BY <1>14, ConstantsAssumption DEF TypeOK, Entries, Batches, Conflict, ConstantsAssumption
<1>15. ASSUME NEW p \in Procs, Crash(p) PROVE Batches'
  BY <1>15, ConstantsAssumption DEF TypeOK, Entries, Batches, Crash, ConstantsAssumption
<1>16. CASE UNCHANGED vars
  BY <1>16 DEF TypeOK, Entries, Batches
<1> QED BY <1>1, <1>2, <1>3, <1>4, <1>5, <1>6, <1>7, <1>8, <1>9, <1>10, <1>11, <1>12, <1>13, <1>14, <1>15, <1>16 DEF Next, Proceed

LEMMA RaisedStep == ASSUME TypeOK, Entries, Batches, TwoAnswered, [Next]_vars PROVE TwoAnswered'
<1>1. ASSUME NEW d \in Ids, Request(d) PROVE TwoAnswered'
  BY <1>1, ConstantsAssumption DEF TypeOK, Entries, Batches, TwoAnswered, Request, ConstantsAssumption
<1>2. ASSUME NEW d \in Ids, ResolveHuman(d) PROVE TwoAnswered'
  BY <1>2, ConstantsAssumption DEF TypeOK, Entries, Batches, TwoAnswered, ResolveHuman, ConstantsAssumption
<1>3. ASSUME NEW d \in Ids, TwoHoursPass(d) PROVE TwoAnswered'
  BY <1>3, ConstantsAssumption DEF TypeOK, Entries, Batches, TwoAnswered, TwoHoursPass, ConstantsAssumption
<1>4. ASSUME NEW d \in Ids, BackoffPasses(d) PROVE TwoAnswered'
  BY <1>4, ConstantsAssumption DEF TypeOK, Entries, Batches, TwoAnswered, BackoffPasses, ConstantsAssumption
<1>5. ASSUME NEW i \in Instances, Admit(i) PROVE TwoAnswered'
  BY <1>5, ConstantsAssumption DEF TypeOK, Entries, Batches, TwoAnswered, Admit, ConstantsAssumption
<1>6. ASSUME NEW i \in Instances, Leave(i) PROVE TwoAnswered'
  BY <1>6, ConstantsAssumption DEF TypeOK, Entries, Batches, TwoAnswered, Leave, ConstantsAssumption
<1>7. ASSUME Complete PROVE TwoAnswered'
  BY <1>7, ConstantsAssumption DEF TypeOK, Entries, Batches, TwoAnswered, Complete, ConstantsAssumption
<1>8. ASSUME NEW p \in Procs, Begin(p) PROVE TwoAnswered'
  BY <1>8, ConstantsAssumption DEF TypeOK, Entries, Batches, TwoAnswered, Begin, ConstantsAssumption
<1>9. ASSUME NEW p \in Procs, Load(p) PROVE TwoAnswered'
  BY <1>9, ConstantsAssumption DEF TypeOK, Entries, Batches, TwoAnswered, Load, ConstantsAssumption
<1>10. ASSUME NEW p \in Procs, Claim(p) PROVE TwoAnswered'
  BY <1>10, ConstantsAssumption DEF TypeOK, Entries, Batches, TwoAnswered, Claim, ConstantsAssumption
<1>11. ASSUME NEW p \in Procs, Notify(p) PROVE TwoAnswered'
  BY <1>11, ConstantsAssumption DEF TypeOK, Entries, Batches, TwoAnswered, Notify, ConstantsAssumption
<1>12. ASSUME NEW p \in Procs, Settle(p) PROVE TwoAnswered'
  BY <1>12, ConstantsAssumption DEF TypeOK, Entries, Batches, TwoAnswered, Settle, ConstantsAssumption
<1>13. ASSUME NEW p \in Procs, Apply(p) PROVE TwoAnswered'
  BY <1>13, ConstantsAssumption DEF TypeOK, Entries, Batches, TwoAnswered, Apply, ConstantsAssumption
<1>14. ASSUME NEW p \in Procs, Conflict(p) PROVE TwoAnswered'
  BY <1>14, ConstantsAssumption DEF TypeOK, Entries, Batches, TwoAnswered, Conflict, ConstantsAssumption
<1>15. ASSUME NEW p \in Procs, Crash(p) PROVE TwoAnswered'
  BY <1>15, ConstantsAssumption DEF TypeOK, Entries, Batches, TwoAnswered, Crash, ConstantsAssumption
<1>16. CASE UNCHANGED vars
  BY <1>16 DEF TypeOK, Entries, Batches, TwoAnswered
<1> QED BY <1>1, <1>2, <1>3, <1>4, <1>5, <1>6, <1>7, <1>8, <1>9, <1>10, <1>11, <1>12, <1>13, <1>14, <1>15, <1>16 DEF Next, Proceed

LEMMA AnswerStep == ASSUME TypeOK, Entries, [Next]_vars
                    PROVE \A x \in Ids : answer[x] # "none" => answer'[x] = answer[x]
<1>1. ASSUME NEW d \in Ids, Request(d) PROVE \A x \in Ids : answer[x] # "none" => answer'[x] = answer[x]
  BY <1>1, ConstantsAssumption DEF TypeOK, Entries, Request, ConstantsAssumption
<1>2. ASSUME NEW d \in Ids, ResolveHuman(d) PROVE \A x \in Ids : answer[x] # "none" => answer'[x] = answer[x]
  BY <1>2, ConstantsAssumption DEF TypeOK, Entries, ResolveHuman, ConstantsAssumption
<1>3. ASSUME NEW d \in Ids, TwoHoursPass(d) PROVE \A x \in Ids : answer[x] # "none" => answer'[x] = answer[x]
  BY <1>3, ConstantsAssumption DEF TypeOK, Entries, TwoHoursPass, ConstantsAssumption
<1>4. ASSUME NEW d \in Ids, BackoffPasses(d) PROVE \A x \in Ids : answer[x] # "none" => answer'[x] = answer[x]
  BY <1>4, ConstantsAssumption DEF TypeOK, Entries, BackoffPasses, ConstantsAssumption
<1>5. ASSUME NEW i \in Instances, Admit(i) PROVE \A x \in Ids : answer[x] # "none" => answer'[x] = answer[x]
  BY <1>5, ConstantsAssumption DEF TypeOK, Entries, Admit, ConstantsAssumption
<1>6. ASSUME NEW i \in Instances, Leave(i) PROVE \A x \in Ids : answer[x] # "none" => answer'[x] = answer[x]
  BY <1>6, ConstantsAssumption DEF TypeOK, Entries, Leave, ConstantsAssumption
<1>7. ASSUME Complete PROVE \A x \in Ids : answer[x] # "none" => answer'[x] = answer[x]
  BY <1>7, ConstantsAssumption DEF TypeOK, Entries, Complete, ConstantsAssumption
<1>8. ASSUME NEW p \in Procs, Begin(p) PROVE \A x \in Ids : answer[x] # "none" => answer'[x] = answer[x]
  BY <1>8, ConstantsAssumption DEF TypeOK, Entries, Begin, ConstantsAssumption
<1>9. ASSUME NEW p \in Procs, Load(p) PROVE \A x \in Ids : answer[x] # "none" => answer'[x] = answer[x]
  BY <1>9, ConstantsAssumption DEF TypeOK, Entries, Load, ConstantsAssumption
<1>10. ASSUME NEW p \in Procs, Claim(p) PROVE \A x \in Ids : answer[x] # "none" => answer'[x] = answer[x]
  BY <1>10, ConstantsAssumption DEF TypeOK, Entries, Claim, ConstantsAssumption
<1>11. ASSUME NEW p \in Procs, Notify(p) PROVE \A x \in Ids : answer[x] # "none" => answer'[x] = answer[x]
  BY <1>11, ConstantsAssumption DEF TypeOK, Entries, Notify, ConstantsAssumption
<1>12. ASSUME NEW p \in Procs, Settle(p) PROVE \A x \in Ids : answer[x] # "none" => answer'[x] = answer[x]
  BY <1>12, ConstantsAssumption DEF TypeOK, Entries, Settle, ConstantsAssumption
<1>13. ASSUME NEW p \in Procs, Apply(p) PROVE \A x \in Ids : answer[x] # "none" => answer'[x] = answer[x]
  BY <1>13, ConstantsAssumption DEF TypeOK, Entries, Apply, ConstantsAssumption
<1>14. ASSUME NEW p \in Procs, Conflict(p) PROVE \A x \in Ids : answer[x] # "none" => answer'[x] = answer[x]
  BY <1>14, ConstantsAssumption DEF TypeOK, Entries, Conflict, ConstantsAssumption
<1>15. ASSUME NEW p \in Procs, Crash(p) PROVE \A x \in Ids : answer[x] # "none" => answer'[x] = answer[x]
  BY <1>15, ConstantsAssumption DEF TypeOK, Entries, Crash, ConstantsAssumption
<1>16. CASE UNCHANGED vars
  BY <1>16 DEF TypeOK, Entries
<1> QED BY <1>1, <1>2, <1>3, <1>4, <1>5, <1>6, <1>7, <1>8, <1>9, <1>10, <1>11, <1>12, <1>13, <1>14, <1>15, <1>16 DEF Next, Proceed

\* Two different answers make the count.
LEMMA Count == ASSUME TypeOK, TwoAnswered PROVE RaisedAfterTwo
<1> DEFINE H == {d \in Ids : answer[d] = "human"}
<1>1. SUFFICES ASSUME raised # {} PROVE Cardinality(H) >= 2
  BY DEF RaisedAfterTwo
<1>2. PICK d \in Ids, e \in Ids : d # e /\ d \in H /\ e \in H
  BY <1>1 DEF TwoAnswered
<1>3. IsFiniteSet(H)
  BY ConstantsAssumption, FS_Subset DEF ConstantsAssumption
<1>4. Cardinality({d, e}) = 2
  <2>1. {d, e} = {d} \cup {e} /\ e \notin {d}
    BY <1>2
  <2>2. IsFiniteSet({d}) /\ Cardinality({d}) = 1
    BY FS_Singleton
  <2> HIDE DEF H
  <2>3. Cardinality({d} \cup {e}) = Cardinality({d}) + 1
    BY <2>1, <2>2, FS_AddElement
  <2> QED BY <2>1, <2>2, <2>3
<1>5. {d, e} \subseteq H
  BY <1>2
<1>6. Cardinality({d, e}) <= Cardinality(H)
  BY <1>3, <1>5, FS_Subset
<1>7. Cardinality(H) \in Nat
  BY <1>3, FS_CardinalityType
<1> QED BY <1>4, <1>6, <1>7

----------------------------------------------------------------------------
\* The inductive invariant.
THEOREM InvariantTheorem == Spec => []IInv
<1>1. Init => IInv
  BY ConstantsAssumption DEF Init, IInv, TypeOK, Entries, DecisionsBind, Outbox, Serialized,
    InFlight, Woken, Unwoken, Batches, TwoAnswered, ConstantsAssumption
<1>2. IInv /\ [Next]_vars => IInv'
  <2> SUFFICES ASSUME IInv, [Next]_vars PROVE IInv'
    OBVIOUS
  <2>1. TypeOK'
    BY TypeStep DEF IInv, Outbox
  <2>2. Entries'
    BY EntriesStep DEF IInv, Outbox
  <2>3. DecisionsBind'
    BY BindStep DEF IInv
  <2>4. Outbox'
    BY OutboxStep DEF IInv
  <2>5. Batches' /\ TwoAnswered'
    BY BatchesStep, RaisedStep DEF IInv
  <2> QED BY <2>1, <2>2, <2>3, <2>4, <2>5 DEF IInv
<1> QED BY <1>1, <1>2, PTL DEF Spec

\* Type correctness.
THEOREM TypeTheorem == Spec => []TypeOK
<1>1. IInv => TypeOK
  BY DEF IInv
<1> QED BY <1>1, InvariantTheorem, PTL

\* The human is woken up at most once for a decision (README.md, "preventing duplicate
\* wake-ups").
THEOREM WokenTheorem == Spec => []WokenOnce
<1>1. IInv => WokenOnce
  BY DEF IInv, Outbox, Woken, WokenOnce
<1> QED BY <1>1, InvariantTheorem, PTL

\* An open blocking decision and the instances it names exclude each other, and no
\* mission completes over an open decision.
THEOREM BindTheorem == Spec => []DecisionsBind
<1>1. IInv => DecisionsBind
  BY DEF IInv
<1> QED BY <1>1, InvariantTheorem, PTL

\* The first answer to a decision is never replaced.
THEOREM AnswerTheorem == Spec => FirstAnswerStays
<1>1. IInv /\ [Next]_vars => [\A d \in Ids : answer[d] # "none" => answer'[d] = answer[d]]_vars
  BY AnswerStep DEF IInv
<1> QED BY <1>1, InvariantTheorem, PTL DEF Spec, FirstAnswerStays

\* reconcile_expired fails on a conflict only after two human answers.
THEOREM RaisedTheorem == Spec => []RaisedAfterTwo
<1>1. IInv => RaisedAfterTwo
  BY Count DEF IInv
<1> QED BY <1>1, InvariantTheorem, PTL
=============================================================================
