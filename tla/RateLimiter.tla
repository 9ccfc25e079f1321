----------------------------- MODULE RateLimiter -----------------------------
(***************************************************************************)
(* The upload rate limiter of one user: a sliding window kept in a Redis   *)
(* sorted set, shared by the API processes.  A request reads its clock,    *)
(* and later runs one transaction that prunes the window, counts it and    *)
(* adds the request; a refused request then asks for the oldest entry to   *)
(* tell the client when to come back.  The Redis client gives up waiting   *)
(* for a reply after socket_timeout and, by retry_on_timeout, sends the    *)
(* same commands once more.                                                *)
(*                                                                         *)
(* Time is counted in ticks, and the processes share one clock.  At most   *)
(* MaxDelay ticks pass between a request's clock reading and its last      *)
(* answer from Redis, which two timeouts per call bound.  time.time() has  *)
(* a resolution far below a tick, so requests of the same tick have        *)
(* different members in the set.                                           *)
(***************************************************************************)
EXTENDS Naturals, FiniteSets

CONSTANTS
  Requests,      \* upload requests of the user
  MaxRequests,   \* RATE_LIMIT_UPLOADS_PER_MINUTE
  Window,        \* window_seconds
  MaxDelay,      \* bound on the time between clock reading and last reply
  MaxTimeouts,   \* bound on requests that Redis leaves without an answer
  MaxTime        \* bound on the clock, for model checking

ASSUME RequestsAssumption == IsFiniteSet(Requests)
ASSUME LimitAssumption == MaxRequests \in Nat \ {0} /\ Window \in Nat \ {0}
ASSUME DelayAssumption == MaxDelay \in Nat /\ MaxDelay < Window
ASSUME TimeAssumption == MaxTime \in Nat /\ MaxTimeouts \in Nat

VARIABLES
  clock,     \* the time
  phase,     \* what each request does next
  now,       \* a request's clock reading: its score in the set
  served,    \* when its transaction ran last
  retryAfter,\* what a refused client is told
  set,       \* the requests in the sorted set
  entered,   \* history: requests whose transaction has run
  unanswered \* history: those of them that did not learn of it

history == <<entered, unanswered>>
vars == <<clock, phase, now, served, retryAfter, set, history>>

Phases == {"new", "stamped", "resent", "refused", "admitted", "told", "failed"}

TypeOK ==
  /\ clock \in Nat
  /\ phase \in [Requests -> Phases]
  /\ now \in [Requests -> Nat]
  /\ served \in [Requests -> Nat]
  /\ retryAfter \in [Requests -> Nat]
  /\ set \in SUBSET Requests
  /\ entered \in SUBSET Requests
  /\ unanswered \in SUBSET Requests

Init ==
  /\ clock = 0
  /\ phase = [r \in Requests |-> "new"]
  /\ now = [r \in Requests |-> 0]
  /\ served = [r \in Requests |-> 0]
  /\ retryAfter = [r \in Requests |-> 0]
  /\ set = {}
  /\ entered = {}
  /\ unanswered = {}

(* A request that waits for an answer from Redis. *)
Waiting(r) == phase[r] \in {"stamped", "resent", "refused"}

Tick ==
  /\ clock < MaxTime
  /\ \A r \in Requests : Waiting(r) => clock < now[r] + MaxDelay
  /\ clock' = clock + 1
  /\ UNCHANGED <<phase, now, served, retryAfter, set, history>>

ReadClock(r) ==
  /\ phase[r] = "new"
  /\ phase' = [phase EXCEPT ![r] = "stamped"]
  /\ now' = [now EXCEPT ![r] = clock]
  /\ UNCHANGED <<clock, served, retryAfter, set, history>>

(* Mutants: an entry of the window's very beginning is kept; the members   *)
(* of the set are the scores.                                              *)
Mut_KeptOneMore(r) == {e \in set : now[e] + Window >= now[r]}
Mut_KeptScores(r) == {now[e] : e \in {f \in set : now[f] + Window > now[r]}}

(* zremrangebyscore removes the scores up to and including now - window.   *)
Kept(r) == {e \in set : now[e] + Window > now[r]}

(* Mutant: one request too many. *)
Mut_Exceeds(n) == n > MaxRequests

Exceeds(n) == n >= MaxRequests

(* Every request is added, admitted or not. *)
Recorded(r) == Kept(r) \cup {r}

(* What every run of r's transaction leaves behind. *)
Runs(r) ==
  /\ set' = Recorded(r)
  /\ served' = [served EXCEPT ![r] = clock]
  /\ entered' = entered \cup {r}

(* The transaction runs and is answered.  Run for the second time it       *)
(* counts the entry of its first run.                                      *)
CheckLimit(r) ==
  LET count == Cardinality(Kept(r)) IN
  /\ phase[r] \in {"stamped", "resent"}
  /\ Runs(r)
  /\ phase' = [phase EXCEPT ![r] = IF Exceeds(count) THEN "refused" ELSE "admitted"]
  /\ UNCHANGED <<clock, now, retryAfter, unanswered>>

MayTimeOut(r) ==
  LET late == unanswered \cup {x \in Requests : phase[x] = "failed"} IN
  r \in late \/ Cardinality(late) < MaxTimeouts

(* It runs, and the client times out and sends it again, or fails for good *)
(* the second time.  (A first transaction that runs after the second one   *)
(* finds its entry in the set and changes nothing.)                        *)
Unanswered(r) ==
  /\ phase[r] \in {"stamped", "resent"}
  /\ MayTimeOut(r)
  /\ Runs(r)
  /\ unanswered' = unanswered \cup {r}
  /\ phase' = [phase EXCEPT ![r] = IF phase[r] = "stamped" THEN "resent" ELSE "failed"]
  /\ UNCHANGED <<clock, now, retryAfter>>

(* Redis is not reached twice in a row: the request ends in an exception.  *)
(* Not being reached once changes nothing.                                 *)
Unreached(r) ==
  /\ Waiting(r) /\ MayTimeOut(r)
  /\ phase' = [phase EXCEPT ![r] = "failed"]
  /\ UNCHANGED <<clock, now, served, retryAfter, set, history>>

(* int(window - (now - oldest)) + 1, and 1 at least.  The oldest entry may *)
(* by now be younger than the request, or the set empty.                   *)
RetryAfter(r, oldest) ==
  IF now[r] < Window + oldest THEN (Window + oldest) - now[r] + 1 ELSE 1

Oldest == {e \in set : \A f \in set : now[e] <= now[f]}

TellRetryAfter(r) ==
  /\ phase[r] = "refused"
  /\ phase' = [phase EXCEPT ![r] = "told"]
  /\ \E wait \in IF set = {} THEN {Window} ELSE {RetryAfter(r, now[e]) : e \in Oldest} :
       retryAfter' = [retryAfter EXCEPT ![r] = wait]
  /\ UNCHANGED <<clock, now, served, set, history>>

(* Redis drops the key when two windows have passed since the last run. *)
Expire ==
  /\ set # {}
  /\ \A r \in entered : clock >= served[r] + 2 * Window
  /\ set' = {}
  /\ UNCHANGED <<clock, phase, now, served, retryAfter, history>>

Next ==
  \/ Tick \/ Expire
  \/ \E r \in Requests :
       \/ ReadClock(r) \/ CheckLimit(r) \/ TellRetryAfter(r)
       \/ Unanswered(r) \/ Unreached(r)

Spec == Init /\ [][Next]_vars

-----------------------------------------------------------------------------
(* Properties.                                                             *)

Admitted == {r \in Requests : phase[r] = "admitted"}
Served == {r \in Requests : phase[r] \in {"admitted", "refused", "told"}}

(* Those admitted in a stretch of time that ends with the admission of r.  *)
Beside(r) ==
  {e \in Admitted : served[e] <= served[r] /\ served[r] < served[e] + (Window - MaxDelay)}

(* The limit: in no stretch of time shorter than the window (by what a     *)
(* request may be delayed) are more than MaxRequests uploads admitted,     *)
(* although requests reach Redis in another order than their clock         *)
(* readings and a later reading prunes what an earlier one would count.    *)
WindowBound ==
  \A r \in Admitted : Cardinality(Beside(r)) <= MaxRequests

(* What makes it hold: replies are not overdue, and an admission is still  *)
(* counted for as long as it matters.                                      *)
Timely ==
  \A r \in Requests :
    /\ Waiting(r) => now[r] <= clock /\ clock <= now[r] + MaxDelay
    /\ r \in Served => now[r] <= served[r] /\ served[r] <= now[r] + MaxDelay
                       /\ served[r] <= clock

StillCounted ==
  \A r \in Served : clock < served[r] + (Window - MaxDelay) => r \in set

WindowInv == Timely /\ StillCounted /\ WindowBound

(* The set holds requests whose transaction has run, and a request sent    *)
(* again has not learned of it.                                            *)
Entries ==
  /\ set \subseteq entered /\ Served \subseteq entered
  /\ \A r \in entered : phase[r] \notin {"new", "stamped"}
  /\ \A r \in Requests : phase[r] = "resent" => r \in unanswered

(* The other requests in the window before r that Redis has seen.          *)
AskedBefore(r) == {e \in entered \ {r} : now[e] + Window > now[r]}

(* Nobody is refused who has asked less than MaxRequests times in the      *)
(* window before - one time less when the transaction had to be sent again *)
(* and has counted itself, never less than that.                           *)
RefusedForCause ==
  \A r \in Served \ Admitted :
    Cardinality(AskedBefore(r)) + (IF r \in unanswered THEN 1 ELSE 0) >= MaxRequests

=============================================================================
