-------------------------- MODULE RateLimiterProofs --------------------------
(***************************************************************************)
(* The rate limiter keeps its limit, for any number of requests, window    *)
(* and delay.  An entry is pruned by a clock reading at least a window     *)
(* younger than its own, and clock readings are at most MaxDelay old, so   *)
(* an entry outlives its admission by more than Window - MaxDelay.         *)
(***************************************************************************)
EXTENDS RateLimiter, FiniteSetTheorems, TLAPS

(* The variables keep their types. *)
LEMMA TypeStep == TypeOK /\ [Next]_vars => TypeOK'
<1> SUFFICES ASSUME TypeOK, [Next]_vars PROVE TypeOK'
  OBVIOUS
<1> USE DEF TypeOK, Phases, history
<1>1. CASE Tick
  BY <1>1 DEF Tick
<1>2. CASE Expire
  BY <1>2 DEF Expire
<1>3. ASSUME NEW r \in Requests, ReadClock(r) PROVE TypeOK'
  BY <1>3 DEF ReadClock
<1>4. ASSUME NEW r \in Requests, CheckLimit(r) \/ Unanswered(r) PROVE TypeOK'
  <2>1. Runs(r) /\ UNCHANGED <<clock, now, retryAfter>>
    BY <1>4 DEF CheckLimit, Unanswered
  <2>2. set' \in SUBSET Requests
    BY <2>1 DEF Runs, Recorded, Kept
  <2>3. phase' \in [Requests -> Phases] /\ unanswered' \in SUBSET Requests
    BY <1>4 DEF CheckLimit, Unanswered
  <2>4. QED
    BY <2>1, <2>2, <2>3 DEF Runs
<1>5. ASSUME NEW r \in Requests, TellRetryAfter(r) PROVE TypeOK'
  <2>1. ASSUME NEW e \in Requests PROVE RetryAfter(r, now[e]) \in Nat
    BY LimitAssumption DEF RetryAfter
  <2>2. Oldest \subseteq Requests
    BY DEF Oldest
  <2>3. PICK wait \in Nat : retryAfter' = [retryAfter EXCEPT ![r] = wait]
    BY <1>5, <2>1, <2>2, LimitAssumption DEF TellRetryAfter
  <2>4. QED
    BY <1>5, <2>3 DEF TellRetryAfter
<1>6. ASSUME NEW r \in Requests, Unreached(r) PROVE TypeOK'
  BY <1>6 DEF Unreached
<1>7. CASE UNCHANGED vars
  BY <1>7 DEF vars
<1>8. QED
  BY <1>1, <1>2, <1>3, <1>4, <1>5, <1>6, <1>7 DEF Next

(* The variables keep their types in every behaviour. *)
THEOREM TypeCorrect == Spec => []TypeOK
<1>1. Init => TypeOK
  BY DEF Init, TypeOK, Phases
<1>2. QED
  BY <1>1, TypeStep, PTL DEF Spec

-----------------------------------------------------------------------------
(* Clock readings are at most MaxDelay old. *)
LEMMA TimelyStep == TypeOK /\ Timely /\ [Next]_vars => Timely'
<1> SUFFICES ASSUME TypeOK, Timely, [Next]_vars PROVE Timely'
  OBVIOUS
<1> USE DelayAssumption DEF TypeOK, Phases, Timely, Served, Waiting
<1>1. CASE Tick
  BY <1>1 DEF Tick
<1>2. CASE Expire
  BY <1>2 DEF Expire
<1>3. ASSUME NEW r \in Requests, ReadClock(r) PROVE Timely'
  BY <1>3 DEF ReadClock
<1>4. ASSUME NEW r \in Requests, CheckLimit(r) \/ Unanswered(r) PROVE Timely'
  BY <1>4 DEF CheckLimit, Unanswered, Runs
<1>5. ASSUME NEW r \in Requests, TellRetryAfter(r) \/ Unreached(r) PROVE Timely'
  BY <1>5 DEF TellRetryAfter, Unreached
<1>6. CASE UNCHANGED vars
  BY <1>6 DEF vars
<1>7. QED
  BY <1>1, <1>2, <1>3, <1>4, <1>5, <1>6 DEF Next

(* A request that is still within Window - MaxDelay of its admission has a *)
(* score that no clock reading can prune.                                  *)
LEMMA RecentKept ==
  ASSUME TypeOK, Timely, StillCounted,
         NEW r \in Requests, phase[r] \in {"stamped", "resent"},
         NEW e \in Served, clock < served[e] + (Window - MaxDelay)
  PROVE  e \in Kept(r)
<1>1. e \in set /\ e \in Requests
  BY DEF StillCounted, Served
<1>2. now[r] <= clock /\ served[e] <= now[e] + MaxDelay
  BY <1>1 DEF Timely, Waiting
<1>3. now[r] < now[e] + Window
  BY <1>1, <1>2, DelayAssumption, LimitAssumption DEF TypeOK
<1>4. QED
  BY <1>1, <1>3 DEF Kept

(* The set holds what has entered it. *)
LEMMA EntriesStep == TypeOK /\ Entries /\ [Next]_vars => Entries'
<1> SUFFICES ASSUME TypeOK, Entries, [Next]_vars PROVE Entries'
  OBVIOUS
<1> USE DEF TypeOK, Entries, Served, history
<1>1. CASE Tick \/ Expire
  BY <1>1 DEF Tick, Expire
<1>2. ASSUME NEW r \in Requests, ReadClock(r) PROVE Entries'
  BY <1>2 DEF ReadClock
<1>3. ASSUME NEW r \in Requests, CheckLimit(r) PROVE Entries'
  BY <1>3 DEF CheckLimit, Runs, Recorded, Kept
<1>4. ASSUME NEW r \in Requests, Unanswered(r) PROVE Entries'
  BY <1>4 DEF Unanswered, Runs, Recorded, Kept
<1>5. ASSUME NEW r \in Requests, TellRetryAfter(r) \/ Unreached(r) PROVE Entries'
  BY <1>5 DEF TellRetryAfter, Unreached, Waiting
<1>6. CASE UNCHANGED vars
  BY <1>6 DEF vars
<1>7. QED
  BY <1>1, <1>2, <1>3, <1>4, <1>5, <1>6 DEF Next

LEMMA StillCountedStep ==
  TypeOK /\ Timely /\ Entries /\ StillCounted /\ [Next]_vars => StillCounted'
<1> SUFFICES ASSUME TypeOK, Timely, Entries, StillCounted, [Next]_vars
             PROVE  StillCounted'
  OBVIOUS
<1>1. CASE Tick
  BY <1>1, DelayAssumption, LimitAssumption DEF Tick, StillCounted, Served, TypeOK
<1>2. CASE Expire
  BY <1>2, DelayAssumption, LimitAssumption DEF Expire, StillCounted, Entries, Served, TypeOK
<1>3. ASSUME NEW r \in Requests, ReadClock(r) PROVE StillCounted'
  <2>1. Served' = Served
    BY <1>3 DEF ReadClock, Served, TypeOK
  <2>2. QED
    BY <1>3, <2>1 DEF ReadClock, StillCounted
<1>4. ASSUME NEW r \in Requests, CheckLimit(r) \/ Unanswered(r) PROVE StillCounted'
  <2>1. /\ phase[r] \in {"stamped", "resent"} /\ Served' \subseteq Served \cup {r}
        /\ set' = Kept(r) \cup {r}
    BY <1>4 DEF CheckLimit, Unanswered, Runs, Served, Recorded, TypeOK
  <2>2. clock' = clock /\ \A e \in Served : e # r => served'[e] = served[e]
    BY <1>4 DEF CheckLimit, Unanswered, Runs, Served, TypeOK
  <2>3. ASSUME NEW e \in Served', clock' < served'[e] + (Window - MaxDelay)
        PROVE  e \in set'
    <3>1. CASE e = r
      BY <2>1, <3>1
    <3>2. CASE e # r
      BY <2>1, <2>2, <2>3, <3>2, RecentKept
    <3>3. QED
      BY <3>1, <3>2
  <2>4. QED
    BY <2>3 DEF StillCounted
<1>5. ASSUME NEW r \in Requests, TellRetryAfter(r) \/ Unreached(r) PROVE StillCounted'
  <2>1. Served' \subseteq Served
    BY <1>5 DEF TellRetryAfter, Unreached, Waiting, Served, TypeOK
  <2>2. QED
    BY <1>5, <2>1 DEF TellRetryAfter, Unreached, StillCounted
<1>6. CASE UNCHANGED vars
  BY <1>6 DEF vars, StillCounted, Served
<1>7. QED
  BY <1>1, <1>2, <1>3, <1>4, <1>5, <1>6 DEF Next

-----------------------------------------------------------------------------
(* Whoever is admitted at the time of r's transaction has only entries     *)
(* beside it that r has counted, and r itself.                             *)
LEMMA BesideCounted ==
  ASSUME TypeOK, Timely, StillCounted,
         NEW r \in Requests, CheckLimit(r),
         NEW x \in Requests, served'[x] = clock
  PROVE  Beside(x)' \subseteq Kept(r) \cup {r}
<1> SUFFICES ASSUME NEW e \in Beside(x)', e # r PROVE e \in Kept(r)
  OBVIOUS
<1>1. phase[r] \in {"stamped", "resent"} /\ e \in Served /\ served'[e] = served[e]
  BY DEF Beside, Admitted, Served, CheckLimit, Runs, TypeOK
<1>2. clock < served[e] + (Window - MaxDelay)
  BY <1>1 DEF Beside
<1>3. QED
  BY <1>1, <1>2, RecentKept

(* A step that admits nobody leaves the admissions beside each other. *)
LEMMA BesideSame ==
  ASSUME WindowBound, Admitted' = Admitted,
         \A e \in Admitted : served'[e] = served[e]
  PROVE  WindowBound'
<1>1. \A x \in Admitted : Beside(x)' = Beside(x)
  BY DEF Beside
<1>2. QED
  BY <1>1 DEF WindowBound

LEMMA WindowStep ==
  TypeOK /\ WindowInv /\ [Next]_vars => WindowBound'
<1> SUFFICES ASSUME TypeOK, Timely, StillCounted, WindowBound, [Next]_vars
             PROVE  WindowBound'
  BY DEF WindowInv
<1>1. CASE Tick \/ Expire \/ UNCHANGED vars
  BY <1>1, BesideSame DEF Tick, Expire, vars, Admitted
<1>2. ASSUME NEW r \in Requests,
             ReadClock(r) \/ TellRetryAfter(r) \/ Unanswered(r) \/ Unreached(r)
      PROVE  WindowBound'
  <2>1. Admitted' = Admitted
    BY <1>2 DEF ReadClock, TellRetryAfter, Unanswered, Unreached, Waiting, Admitted, TypeOK
  <2>2. \A e \in Admitted : served'[e] = served[e]
    BY <1>2 DEF ReadClock, TellRetryAfter, Unanswered, Unreached, Runs, Admitted, TypeOK
  <2>3. QED
    BY <2>1, <2>2, BesideSame
<1>3. ASSUME NEW r \in Requests, CheckLimit(r) PROVE WindowBound'
  <2>1. IsFiniteSet(Kept(r))
    BY RequestsAssumption, FS_Subset DEF Kept, TypeOK
  <2>2. Cardinality(Kept(r)) \in Nat
    BY <2>1, FS_CardinalityType
  <2>3. phase[r] \in {"stamped", "resent"} /\ r \notin Admitted
    BY <1>3 DEF CheckLimit, Admitted
  <2>4. \A e \in Requests : e # r => served'[e] = served[e] /\ phase'[e] = phase[e]
    BY <1>3 DEF CheckLimit, Runs, TypeOK
  <2>5. CASE Exceeds(Cardinality(Kept(r)))
    <3>1. Admitted' = Admitted
      BY <1>3, <2>3, <2>4, <2>5 DEF CheckLimit, Admitted, TypeOK
    <3>2. \A e \in Admitted : served'[e] = served[e]
      BY <2>3, <2>4 DEF Admitted
    <3>3. QED
      BY <3>1, <3>2, BesideSame
  <2>6. CASE ~Exceeds(Cardinality(Kept(r)))
    <3>1. Cardinality(Kept(r) \cup {r}) <= MaxRequests /\ IsFiniteSet(Kept(r) \cup {r})
      <4>1. /\ IsFiniteSet(Kept(r) \cup {r})
            /\ Cardinality(Kept(r) \cup {r}) =
                 IF r \in Kept(r) THEN Cardinality(Kept(r)) ELSE Cardinality(Kept(r)) + 1
        BY <2>1, FS_AddElement
      <4>2. QED
        BY <2>2, <2>6, <4>1, LimitAssumption DEF Exceeds
    <3>2. served'[r] = clock /\ clock' = clock
      BY <1>3 DEF CheckLimit, Runs, TypeOK
    <3>3. ASSUME NEW x \in Requests, served'[x] = clock
          PROVE  Cardinality(Beside(x)') <= MaxRequests
      <4>1. Beside(x)' \in SUBSET (Kept(r) \cup {r})
        BY <1>3, <3>3, BesideCounted
      <4>2. Cardinality(Beside(x)') <= Cardinality(Kept(r) \cup {r}) /\ IsFiniteSet(Beside(x)')
        BY <3>1, <4>1, FS_Subset
      <4>3. Cardinality(Beside(x)') \in Nat /\ Cardinality(Kept(r) \cup {r}) \in Nat
        BY <3>1, <4>2, FS_CardinalityType
      <4>4. QED
        BY <3>1, <4>2, <4>3, LimitAssumption
    <3>4. ASSUME NEW x \in Admitted, served[x] # clock
          PROVE  Cardinality(Beside(x)') <= MaxRequests
      <4>1. x \in Requests /\ x # r /\ served'[x] = served[x] /\ served[x] < clock
        BY <2>3, <2>4, <3>4 DEF Admitted, Timely, Served, TypeOK
      <4>2. r \notin Beside(x)'
        BY <3>2, <4>1 DEF Beside, TypeOK
      <4>3. Beside(x)' = Beside(x)
        BY <2>3, <2>4, <4>1, <4>2 DEF Beside, Admitted
      <4>4. QED
        BY <3>4, <4>3 DEF WindowBound
    <3>5. \A x \in Admitted' : x = r \/ (x \in Admitted /\ served'[x] = served[x])
      BY <2>3, <2>4 DEF Admitted
    <3>6. QED
      BY <3>2, <3>3, <3>4, <3>5 DEF WindowBound, Admitted
  <2>7. QED
    BY <2>5, <2>6
<1>4. QED
  BY <1>1, <1>2, <1>3 DEF Next

(* The limit holds whatever the number, the order and the delay of the     *)
(* requests of a user.                                                     *)
THEOREM LimitKept == Spec => []WindowBound
<1>1. Init => WindowInv /\ Entries
  BY DEF Init, WindowInv, Timely, Waiting, StillCounted, WindowBound, Entries, Served, Admitted
<1>2. TypeOK /\ Entries /\ WindowInv /\ [Next]_vars => Entries' /\ WindowInv'
  BY TimelyStep, EntriesStep, StillCountedStep, WindowStep DEF WindowInv
<1>3. WindowInv => WindowBound
  BY DEF WindowInv
<1>4. QED
  BY <1>1, <1>2, <1>3, TypeCorrect, PTL DEF Spec

-----------------------------------------------------------------------------
(* A refusal stands on entries of the set, which have all entered it; one  *)
(* of them may be the request's own if it was sent again.                  *)
Cause(r) == Cardinality(AskedBefore(r)) + (IF r \in unanswered THEN 1 ELSE 0)

LEMMA CauseGrows ==
  ASSUME TypeOK, TypeOK', NEW x \in Requests,
         AskedBefore(x) \subseteq AskedBefore(x)', x \in unanswered => x \in unanswered',
         Cause(x) >= MaxRequests
  PROVE  Cause(x)' >= MaxRequests
<1>1. IsFiniteSet(AskedBefore(x)')
  BY RequestsAssumption, FS_Subset DEF AskedBefore, TypeOK
<1>2. Cardinality(AskedBefore(x)) <= Cardinality(AskedBefore(x)') /\ IsFiniteSet(AskedBefore(x))
  BY <1>1, FS_Subset
<1>3. Cardinality(AskedBefore(x)) \in Nat /\ Cardinality(AskedBefore(x)') \in Nat
  BY <1>1, <1>2, FS_CardinalityType
<1>4. QED
  BY <1>2, <1>3, LimitAssumption DEF Cause

LEMMA RefusedStep ==
  TypeOK /\ Entries /\ RefusedForCause /\ [Next]_vars => RefusedForCause'
<1> SUFFICES ASSUME TypeOK, Entries, RefusedForCause, [Next]_vars
             PROVE  RefusedForCause'
  OBVIOUS
<1>1. TypeOK' /\ \A x \in Served \ Admitted : x \in Requests /\ Cause(x) >= MaxRequests
  BY TypeStep DEF RefusedForCause, Cause, Served
<1>2. ASSUME \A x \in Served' \ Admitted' : Cause(x)' >= MaxRequests
      PROVE  RefusedForCause'
  BY <1>2 DEF RefusedForCause, Cause
<1>3. CASE Tick \/ Expire \/ UNCHANGED vars
  <2>1. UNCHANGED <<phase, now, history>>
    BY <1>3 DEF Tick, Expire, vars, history
  <2>2. QED
    BY <2>1 DEF RefusedForCause, Served, Admitted, AskedBefore, history
<1>4. ASSUME NEW r \in Requests, ReadClock(r) \/ TellRetryAfter(r) \/ Unreached(r)
      PROVE  RefusedForCause'
  <2>1. /\ Served' \ Admitted' \subseteq Served \ Admitted
        /\ entered' = entered /\ unanswered' = unanswered
        /\ \A x \in entered : now'[x] = now[x]
    BY <1>4 DEF ReadClock, TellRetryAfter, Unreached, Waiting, history, Served, Admitted,
                Entries, TypeOK
  <2>2. \A x \in Served : AskedBefore(x)' = AskedBefore(x)
    BY <2>1 DEF AskedBefore, Entries
  <2>3. \A x \in Served' \ Admitted' : Cause(x)' >= MaxRequests
    BY <1>1, <2>1, <2>2, CauseGrows
  <2>4. QED
    BY <1>2, <2>3
<1>5. ASSUME NEW r \in Requests, CheckLimit(r) \/ Unanswered(r)
      PROVE  RefusedForCause'
  <2>1. /\ entered' = entered \cup {r} /\ now' = now /\ unanswered \subseteq unanswered'
        /\ phase[r] \in {"stamped", "resent"}
    BY <1>5 DEF CheckLimit, Unanswered, Runs
  <2>2. ASSUME NEW x \in Served' \ Admitted', x # r
        PROVE  Cause(x)' >= MaxRequests
    <3>1. x \in Served \ Admitted
      BY <1>5, <2>2 DEF CheckLimit, Unanswered, Admitted, Served, TypeOK
    <3>2. AskedBefore(x) \subseteq AskedBefore(x)'
      BY <2>1 DEF AskedBefore
    <3>3. QED
      BY <1>1, <2>1, <3>1, <3>2, CauseGrows
  <2>3. ASSUME r \in Served' \ Admitted'
        PROVE  Cause(r)' >= MaxRequests
    <3>1. Exceeds(Cardinality(Kept(r))) /\ unanswered' = unanswered
      BY <1>5, <2>3 DEF CheckLimit, Unanswered, Served, Admitted, TypeOK
    <3>2. Kept(r) \ {r} \in SUBSET AskedBefore(r)'
      BY <2>1 DEF Kept, AskedBefore, Entries
    <3>3. r \in Kept(r) => r \in unanswered
      BY <2>1 DEF Kept, Entries
    <3>4. IsFiniteSet(AskedBefore(r)') /\ IsFiniteSet(Kept(r))
      BY <1>1, RequestsAssumption, FS_Subset DEF AskedBefore, Kept, TypeOK
    <3>5. Cardinality(Kept(r) \ {r}) <= Cardinality(AskedBefore(r)')
      BY <3>2, <3>4, FS_Subset
    <3>6. /\ IsFiniteSet(Kept(r) \ {r})
          /\ Cardinality(Kept(r) \ {r}) =
               IF r \in Kept(r) THEN Cardinality(Kept(r)) - 1 ELSE Cardinality(Kept(r))
      BY <3>4, FS_RemoveElement
    <3>7. /\ Cardinality(Kept(r)) \in Nat /\ Cardinality(Kept(r) \ {r}) \in Nat
          /\ Cardinality(AskedBefore(r)') \in Nat
      BY <3>4, <3>6, FS_CardinalityType
    <3>8. QED
      BY <3>1, <3>3, <3>5, <3>6, <3>7, LimitAssumption DEF Exceeds, Cause
  <2>4. QED
    BY <1>2, <2>2, <2>3
<1>6. QED
  BY <1>3, <1>4, <1>5 DEF Next

(* Nobody is refused who keeps to the limit, but for the one request too   *)
(* few that a transaction sent again may cost.                             *)
THEOREM NobodyRefusedWithoutCause == Spec => []RefusedForCause
<1>1. Init => Entries /\ RefusedForCause
  BY DEF Init, Entries, RefusedForCause, Served
<1>2. QED
  BY <1>1, TypeCorrect, EntriesStep, RefusedStep, PTL DEF Spec

=============================================================================
