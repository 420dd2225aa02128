------------------------- MODULE LLMTransportProofs -------------------------
(* Theorems about _post_json for every retry limit and set of statuses.    *)
EXTENDS LLMTransport, SequenceTheorems, WellFoundedInduction, TLAPS

LastOutcome == log[Len(log)]

(* How many attempts have ended, by where the function is, and what is     *)
(* known of the last one.                                                  *)
RetryInv ==
  /\ attempt <= max_retries
  /\ pc = "start" => attempt = 0 /\ log = <<>>
  /\ pc \in {"loop", "sending", "waiting", "reading"} => Len(log) = attempt
  /\ pc = "sleeping" => Len(log) = attempt + 1 /\ attempt < max_retries
  /\ pc \in {"error_body", "returned", "raised"} => Len(log) = attempt + 1
  /\ pc = "llm_error" => \/ endpoint = "other" /\ log = <<>>
                         \/ Len(log) = attempt + 1
  /\ pc = "error_body" \/ (pc = "llm_error" /\ log # <<>>) =>
       ~Transient(LastOutcome) \/ attempt = max_retries
  /\ \A i \in 1..Len(log) :
       i < Len(log) \/ pc \in {"loop", "sending", "waiting", "reading", "sleeping"}
         => Transient(log[i])
  /\ pc # "unreachable"

LEMMA MaxRetriesNat == max_retries \in Nat
BY LLMTransportAssumption DEF max_retries

(* The codes and reasons the code retries are recoverable ones.            *)
LEMMA TransientIsRecoverable ==
  ASSUME NEW o \in Outcomes, Transient(o)
  PROVE  Recoverable(o)
<1>1. CASE o \in {HTTPError(c) : c \in Statuses}
  BY <1>1, LLMTransportAssumption
  DEF Transient, Recoverable, HTTPError, RETRYABLE_HTTP_CODES
<1>2. CASE o \in {URLError(r) : r \in PermanentReasons \cup TransientReasons}
  BY <1>2 DEF Transient, Recoverable, URLError, PermanentReasons, TransientReasons
<1>3. CASE o \in {Unwrapped(r) : r \in Losses \cup {"not_json"}} \/ o = Answer
  BY <1>3 DEF Transient, Unwrapped, Answer
<1> QED BY <1>1, <1>2, <1>3 DEF Outcomes

LEMMA InitInv == Init => TypeOK /\ RetryInv
<1> SUFFICES ASSUME Init PROVE TypeOK /\ RetryInv
  OBVIOUS
<1>1. TypeOK
  BY EmptySeq DEF Init, TypeOK, PCs
<1>2. Len(log) = 0
  BY DEF Init
<1> QED BY <1>1, <1>2, MaxRetriesNat DEF Init, RetryInv

(* An attempt ends: its outcome is logged, and the function sleeps only    *)
(* after a transient one with attempts left.                               *)
LEMMA AttemptEnds ==
  ASSUME TypeOK, RetryInv, pc \in {"sending", "waiting", "reading"},
         NEW o \in Outcomes, NEW next \in PCs \ {"start", "loop", "sending", "waiting",
                                                 "reading", "unreachable"},
         EndsWith(o, next),
         next = "sleeping" => Retryable(o),
         next \in {"error_body", "llm_error"} => ~Retryable(o)
  PROVE  TypeOK' /\ RetryInv'
<1>1. /\ log \in Seq(Outcomes) /\ Len(log) \in Nat /\ attempt \in Nat /\ max_retries \in Nat
      /\ Len(log) = attempt
  BY LenProperties, MaxRetriesNat DEF TypeOK, RetryInv
<1>2. /\ log' \in Seq(Outcomes) /\ Len(log') = Len(log) + 1 /\ log' # <<>>
      /\ \A i \in 1..Len(log) : log'[i] = log[i]
      /\ log'[Len(log) + 1] = o
  BY <1>1, AppendProperties DEF EndsWith
<1>3. /\ pc' = next /\ attempt' = attempt /\ slept' = slept /\ endpoint' = endpoint
  BY DEF EndsWith
<1>4. TypeOK'
  BY <1>2, <1>3 DEF TypeOK
<1>5. \A i \in 1..Len(log) : Transient(log[i])
  BY DEF RetryInv
<1>6. next = "sleeping" => Transient(o) /\ attempt < max_retries
  BY DEF Retryable, RetriesLeft
<1>7. next \in {"error_body", "llm_error"} => ~Transient(o) \/ attempt = max_retries
  BY <1>1 DEF Retryable, RetriesLeft, RetryInv
<1>8. \A i \in 1..Len(log') : i < Len(log') \/ pc' = "sleeping" => Transient(log'[i])
  <2> SUFFICES ASSUME NEW i \in 1..Len(log'), i < Len(log') \/ pc' = "sleeping"
               PROVE  Transient(log'[i])
    OBVIOUS
  <2>1. CASE i \in 1..Len(log)
    BY <2>1, <1>2, <1>5
  <2>2. CASE i = Len(log) + 1
    BY <2>2, <1>1, <1>2, <1>3, <1>6
  <2> QED BY <1>1, <1>2, <2>1, <2>2
<1>9. max_retries' = max_retries
  BY DEF max_retries
<1>10. LastOutcome' = o
  BY <1>1, <1>2 DEF LastOutcome
<1>11. /\ attempt' <= max_retries' /\ Len(log') = attempt' + 1
       /\ pc' = "sleeping" => attempt' < max_retries'
  BY <1>1, <1>2, <1>3, <1>6, <1>9 DEF RetryInv
<1>12. pc' \in {"error_body", "llm_error"} =>
         ~Transient(LastOutcome') \/ attempt' = max_retries'
  BY <1>3, <1>7, <1>9, <1>10
<1> QED BY <1>2, <1>3, <1>4, <1>8, <1>11, <1>12 DEF RetryInv, PCs

LEMMA StepInv == TypeOK /\ RetryInv /\ [Next]_vars => TypeOK' /\ RetryInv'
<1> SUFFICES ASSUME TypeOK, RetryInv, [Next]_vars PROVE TypeOK' /\ RetryInv'
  OBVIOUS
<1>0. /\ max_retries \in Nat /\ attempt \in Nat /\ slept \in Nat
      /\ log \in Seq(Outcomes) /\ Len(log) \in Nat /\ max_retries' = max_retries
  BY MaxRetriesNat, LenProperties DEF TypeOK, max_retries
<1>1. CASE Refuse \/ Accept \/ StartAttempt
  BY <1>0, <1>1 DEF Refuse, Accept, StartAttempt, LoopRange, TypeOK, RetryInv, PCs
<1>2. CASE WakeUp
  <2>1. PICK delay \in Backoff(attempt) : slept' = slept + delay
    BY <1>2 DEF WakeUp
  <2>2. slept' \in Nat
    BY <1>0, <2>1 DEF Backoff
  <2>3. /\ pc = "sleeping" /\ pc' = "loop" /\ attempt' = attempt + 1
        /\ log' = log /\ endpoint' = endpoint
    BY <1>2 DEF WakeUp
  <2>4. TypeOK'
    BY <1>0, <2>2, <2>3 DEF TypeOK, PCs
  <2> QED BY <1>0, <2>3, <2>4 DEF RetryInv
<1>3. CASE SendFails
  <2>1. PICK r \in PermanentReasons \cup TransientReasons :
          EndsWith(URLError(r), IF Retryable(URLError(r)) THEN "sleeping" ELSE "llm_error")
    BY <1>3 DEF SendFails
  <2>2. URLError(r) \in Outcomes
    BY DEF Outcomes
  <2>3. CASE Retryable(URLError(r))
    BY <1>3, <2>1, <2>2, <2>3, AttemptEnds DEF SendFails, PCs
  <2>4. CASE ~Retryable(URLError(r))
    BY <1>3, <2>1, <2>2, <2>4, AttemptEnds DEF SendFails, PCs
  <2> QED BY <2>3, <2>4
<1>4. CASE ErrorStatus
  <2>1. PICK c \in Statuses :
          EndsWith(HTTPError(c), IF Retryable(HTTPError(c)) THEN "sleeping" ELSE "error_body")
    BY <1>4 DEF ErrorStatus
  <2>2. HTTPError(c) \in Outcomes
    BY DEF Outcomes
  <2>3. CASE Retryable(HTTPError(c))
    BY <1>4, <2>1, <2>2, <2>3, AttemptEnds DEF ErrorStatus, PCs
  <2>4. CASE ~Retryable(HTTPError(c))
    BY <1>4, <2>1, <2>2, <2>4, AttemptEnds DEF ErrorStatus, PCs
  <2> QED BY <2>3, <2>4
<1>5. CASE ResponseLost \/ NotJson \/ BodyRead
  <2>1. Answer \in Outcomes /\ \A r \in Losses \cup {"not_json"} : Unwrapped(r) \in Outcomes
    BY DEF Outcomes
  <2>2. pc \in {"waiting", "reading"}
    BY <1>5 DEF ResponseLost, NotJson, BodyRead
  <2>3. PICK o \in Outcomes, next \in {"raised", "returned"} : EndsWith(o, next)
    BY <1>5, <2>1 DEF ResponseLost, NotJson, BodyRead
  <2> QED BY <2>2, <2>3, AttemptEnds DEF PCs
<1>6. CASE Sent \/ OkStatus
  BY <1>0, <1>6 DEF Sent, OkStatus, TypeOK, RetryInv, PCs
<1>7. CASE ErrorBodyRead \/ ErrorBodyLost
  BY <1>0, <1>7 DEF ErrorBodyRead, ErrorBodyLost, TypeOK, RetryInv, PCs, LastOutcome
<1>8. CASE UNCHANGED vars
  BY <1>0, <1>8 DEF vars, TypeOK, RetryInv, LastOutcome
<1> QED
  BY <1>1, <1>2, <1>3, <1>4, <1>5, <1>6, <1>7, <1>8 DEF Next, ClientStep, NetworkStep

LEMMA Invariant == Spec => [](TypeOK /\ RetryInv)
BY InitInv, StepInv, PTL DEF Spec

(* Every variable of _post_json keeps its type.                            *)
THEOREM TransportTypeCorrect == Spec => []TypeOK
BY Invariant, PTL

(* assert unreachable is right for every retry limit: the loop never falls *)
(* through.                                                                *)
THEOREM AssertionHolds == Spec => []NeverFallsThrough
<1>1. RetryInv => NeverFallsThrough
  BY DEF RetryInv, NeverFallsThrough
<1> QED BY <1>1, Invariant, PTL

(* Only failures that may pass are tried again, max_retries times at most. *)
THEOREM RetriesAreJustified == Spec => []OnlyRecoverableRetried
<1>1. TypeOK /\ RetryInv => OnlyRecoverableRetried
  <2> SUFFICES ASSUME TypeOK, RetryInv PROVE OnlyRecoverableRetried
    OBVIOUS
  <2>1. Len(log) \in Nat /\ attempt \in Nat /\ max_retries \in Nat
    BY LenProperties, MaxRetriesNat DEF TypeOK
  <2>2. Len(log) <= max_retries + 1
    BY <2>1 DEF RetryInv, TypeOK, PCs
  <2>3. \A i \in 1..Len(log) : Transient(log[i]) => Recoverable(log[i])
    <3> SUFFICES ASSUME NEW i \in 1..Len(log), Transient(log[i]) PROVE Recoverable(log[i])
      OBVIOUS
    <3>1. log[i] \in Outcomes
      BY ElementOfSeq DEF TypeOK
    <3> QED BY <3>1, TransientIsRecoverable
  <2> QED BY <2>2, <2>3 DEF RetryInv, OnlyRecoverableRetried
<1> QED BY <1>1, Invariant, PTL

(* _post_json gives up only on a permanent failure or a spent retry limit. *)
THEOREM GivingUpIsJustified == Spec => []GivesUpOnlyAtTheEnd
<1>1. TypeOK /\ RetryInv => GivesUpOnlyAtTheEnd
  <2> SUFFICES ASSUME TypeOK, RetryInv, pc = "llm_error" PROVE GivesUpOnlyAtTheEnd
    BY DEF GivesUpOnlyAtTheEnd
  <2>1. CASE endpoint = "other" /\ log = <<>>
    BY <2>1 DEF GivesUpOnlyAtTheEnd
  <2>2. CASE Len(log) = attempt + 1
    <3>1. attempt \in Nat /\ log # <<>>
      BY <2>2 DEF TypeOK
    <3>2. ~Transient(log[Len(log)]) \/ attempt = max_retries
      BY <3>1 DEF RetryInv, LastOutcome
    <3> QED BY <2>2, <3>1, <3>2 DEF GivesUpOnlyAtTheEnd
  <2> QED BY <2>1, <2>2 DEF RetryInv
<1> QED BY <1>1, Invariant, PTL
-----------------------------------------------------------------------------
(* The time slept.  That powers of two are what their recursive definition *)
(* says takes induction on naturals, and that is their well-foundedness.   *)

(* A set of naturals that is not empty has a least element.                *)
LEMMA LeastNatural ==
  ASSUME NEW T \in SUBSET Nat, T # {}
  PROVE  \E x \in T : \A y \in T : x <= y
<1> DEFINE R == OpToRel(<, Nat)
<1>1. IsWellFoundedOn(R, Nat)
  BY NatLessThanWellFounded
<1>2. \A x, y \in Nat : <<x, y>> \in R <=> x < y
  BY DEF OpToRel
<1> HIDE DEF R
<1>3. PICK x \in T : \A y \in T : ~(<<y, x>> \in R)
  BY <1>1, WFMin
<1>4. \A y \in T : y \in Nat /\ ~(y < x)
  BY <1>2, <1>3
<1>5. x \in Nat
  OBVIOUS
<1>6. \A y \in T : x <= y
  BY <1>4, <1>5
<1> QED BY <1>6

(* Induction, for a set of naturals in place of a predicate.               *)
LEMMA SetInduction ==
  ASSUME NEW S, 0 \in S, \A n \in Nat : n \in S => n + 1 \in S
  PROVE  \A n \in Nat : n \in S
<1> SUFFICES ASSUME Nat \ S # {} PROVE FALSE
  OBVIOUS
<1>1. PICK x \in Nat \ S : \A y \in Nat \ S : x <= y
  BY LeastNatural
<1>2. x # 0 /\ x - 1 \in Nat /\ x - 1 \in S
  BY <1>1
<1> QED BY <1>1, <1>2

(* The powers up to the n-th.                                              *)
Doubles(g, n) == g \in [0..n -> Nat] /\ g[0] = 1 /\ \A k \in 1..n : g[k] = 2 * g[k - 1]

LEMMA DoublesExist ==
  ASSUME NEW n \in Nat
  PROVE  \E g : Doubles(g, n)
<1> DEFINE S == {m \in Nat : \E g : Doubles(g, m)}
<1>1. 0 \in S
  <2> DEFINE g == [k \in 0..0 |-> 1]
  <2>1. Doubles(g, 0)
    BY DEF Doubles
  <2> QED BY <2>1
<1>2. ASSUME NEW m \in Nat, m \in S PROVE m + 1 \in S
  <2>1. PICK g : Doubles(g, m)
    BY <1>2
  <2> DEFINE h == [k \in 0..(m + 1) |-> IF k = m + 1 THEN 2 * g[m] ELSE g[k]]
  <2>2. g[m] \in Nat /\ \A k \in 0..m : g[k] \in Nat
    BY <2>1 DEF Doubles
  <2>3. h \in [0..(m + 1) -> Nat] /\ h[0] = 1
    BY <2>1, <2>2 DEF Doubles
  <2>4. ASSUME NEW k \in 1..(m + 1) PROVE h[k] = 2 * h[k - 1]
    <3>1. CASE k = m + 1
      BY <3>1
    <3>2. CASE k \in 1..m
      <4>1. h[k] = g[k] /\ h[k - 1] = g[k - 1]
        BY <3>2
      <4> HIDE DEF h
      <4> QED BY <2>1, <3>2, <4>1 DEF Doubles
    <3> QED BY <3>1, <3>2
  <2> HIDE DEF h
  <2>5. Doubles(h, m + 1)
    BY <2>3, <2>4 DEF Doubles
  <2> QED BY <2>5
<1> HIDE DEF S
<1>3. n \in S
  BY <1>1, <1>2, SetInduction
<1> QED BY <1>3 DEF S

LEMMA DoublesAgree ==
  ASSUME NEW n \in Nat, NEW m \in Nat, NEW g, NEW h, Doubles(g, n), Doubles(h, m)
  PROVE  \A k \in Nat : k <= n /\ k <= m => g[k] = h[k]
<1> DEFINE S == {k \in Nat : k <= n /\ k <= m => g[k] = h[k]}
<1>1. 0 \in S
  BY DEF Doubles
<1>2. ASSUME NEW k \in Nat, k \in S PROVE k + 1 \in S
  <2> SUFFICES ASSUME k + 1 <= n, k + 1 <= m PROVE g[k + 1] = h[k + 1]
    OBVIOUS
  <2>1. k + 1 \in 1..n /\ k + 1 \in 1..m /\ (k + 1) - 1 = k /\ g[k] = h[k]
    BY <1>2
  <2>2. g[k + 1] = 2 * g[k] /\ h[k + 1] = 2 * h[k]
    BY <2>1 DEF Doubles
  <2> QED BY <2>1, <2>2
<1> HIDE DEF S
<1>3. \A k \in Nat : k \in S
  BY <1>1, <1>2, SetInduction
<1> QED BY <1>3 DEF S

(* PowerOfTwo is what it is defined to be.                                 *)
LEMMA Powers ==
  /\ PowerOfTwo \in [Nat -> Nat] /\ PowerOfTwo[0] = 1
  /\ \A n \in Nat : PowerOfTwo[n + 1] = 2 * PowerOfTwo[n]
<1> DEFINE G(n) == CHOOSE g : Doubles(g, n)
           f == [n \in Nat |-> G(n)[n]]
           Step(g) == [n \in Nat |-> IF n = 0 THEN 1 ELSE 2 * g[n - 1]]
<1>1. \A n \in Nat : Doubles(G(n), n)
  BY DoublesExist
<1> HIDE DEF G
<1>2. \A n \in Nat : G(n)[n] \in Nat
  BY <1>1 DEF Doubles
<1>3. ASSUME NEW n \in Nat, n # 0 PROVE f[n] = 2 * f[n - 1]
  <2>1. n - 1 \in Nat /\ n \in 1..n /\ n - 1 <= n /\ n - 1 <= n - 1
    BY <1>3
  <2>2. Doubles(G(n), n) /\ Doubles(G(n - 1), n - 1)
    BY <1>1, <2>1
  <2>3. G(n)[n] = 2 * G(n)[n - 1]
    BY <2>1, <2>2 DEF Doubles
  <2>4. G(n)[n - 1] = G(n - 1)[n - 1]
    BY <2>1, <2>2, DoublesAgree
  <2> QED BY <2>1, <2>3, <2>4
<1>4. f[0] = 1
  BY <1>1 DEF Doubles
<1>5. f \in [Nat -> Nat]
  BY <1>2
<1> HIDE DEF f
<1>6. f = Step(f)
  BY <1>3, <1>4, <1>5
<1> HIDE DEF Step
<1>7. PowerOfTwo = CHOOSE g : g = Step(g)
  BY DEF PowerOfTwo, Step
<1>8. PowerOfTwo = Step(PowerOfTwo)
  BY <1>6, <1>7
<1>9. PowerOfTwo[0] = 1 /\ \A n \in Nat : PowerOfTwo[n + 1] = 2 * PowerOfTwo[n]
  <2> DEFINE p == PowerOfTwo
  <2>1. p = [n \in Nat |-> IF n = 0 THEN 1 ELSE 2 * p[n - 1]]
    BY <1>8 DEF Step
  <2> HIDE DEF p
  <2>2. p[0] = 1
    BY <2>1
  <2>3. ASSUME NEW n \in Nat PROVE p[n + 1] = 2 * p[n]
    <3>1. n + 1 \in Nat /\ n + 1 # 0 /\ (n + 1) - 1 = n
      OBVIOUS
    <3> QED BY <2>1, <3>1
  <2> QED BY <2>2, <2>3 DEF p
<1>10. \A n \in Nat : PowerOfTwo[n] \in Nat
  <2> DEFINE S == {n \in Nat : PowerOfTwo[n] \in Nat}
  <2>1. 0 \in S
    BY <1>9
  <2>2. ASSUME NEW n \in Nat, n \in S PROVE n + 1 \in S
    BY <1>9, <2>2
  <2> HIDE DEF S
  <2>3. \A n \in Nat : n \in S
    BY <2>1, <2>2, SetInduction
  <2> QED BY <2>3 DEF S
<1>11. PowerOfTwo \in [Nat -> Nat]
  BY <1>8, <1>10 DEF Step
<1> QED BY <1>9, <1>11

(* However often a request is retried, it sleeps less than the next delay  *)
(* may be: the delays add up to no more than their geometric series.       *)
THEOREM BackoffIsBounded == Spec => []BackoffBounded
<1>1. Init => BackoffBounded
  BY Powers DEF Init, BackoffBounded
<1>2. TypeOK /\ BackoffBounded /\ [Next]_vars => BackoffBounded'
  <2> SUFFICES ASSUME TypeOK, BackoffBounded, [Next]_vars PROVE BackoffBounded'
    OBVIOUS
  <2>1. CASE WakeUp
    <3>1. PICK delay \in Backoff(attempt) : slept' = slept + delay
      BY <2>1 DEF WakeUp
    <3>2. /\ attempt \in Nat /\ slept \in Nat /\ attempt' = attempt + 1
          /\ PowerOfTwo[attempt] \in Nat
          /\ PowerOfTwo[attempt + 1] = 2 * PowerOfTwo[attempt]
      BY <2>1, Powers DEF TypeOK, WakeUp
    <3>3. delay \in Nat /\ delay <= PowerOfTwo[attempt]
      BY <3>2 DEF Backoff
    <3> QED BY <3>1, <3>2, <3>3 DEF BackoffBounded
  <2>2. CASE ~WakeUp
    <3>1. attempt' = attempt /\ slept' = slept
      BY <2>2 DEF Next, ClientStep, NetworkStep, Refuse, Accept, StartAttempt, SendFails, Sent,
                  ErrorStatus, ErrorBodyRead, ErrorBodyLost, OkStatus, ResponseLost, NotJson,
                  BodyRead, EndsWith, vars
    <3> QED BY <3>1 DEF BackoffBounded
  <2> QED BY <2>1, <2>2
<1> QED BY <1>1, <1>2, Invariant, PTL DEF Spec
-----------------------------------------------------------------------------
(* Termination, but for the network.  RequestEnds is checked by TLC; here  *)
(* every step of either side uses up something.                            *)
StepsOfAttempt == CASE pc = "start" -> 6
                    [] pc = "loop" -> 5
                    [] pc = "sending" -> 4
                    [] pc = "waiting" -> 3
                    [] pc \in {"reading", "error_body"} -> 2
                    [] pc = "sleeping" -> 1
                    [] pc \in {"returned", "llm_error", "raised", "unreachable"} -> 0

StepsLeft == 5 * (max_retries - attempt) + StepsOfAttempt

(* A request of any behaviour of the network takes at most five steps an   *)
(* attempt and one to begin: StepsLeft is a natural number, and every step *)
(* makes it smaller.                                                       *)
THEOREM RequestWindsDown ==
  Spec => [](StepsLeft \in Nat) /\ [][StepsLeft' < StepsLeft]_vars
<1>0. max_retries \in Nat
  BY MaxRetriesNat
<1>1. TypeOK /\ RetryInv => StepsOfAttempt \in 0..6 /\ StepsLeft \in Nat
  <2> SUFFICES ASSUME TypeOK, RetryInv PROVE StepsOfAttempt \in 0..6 /\ StepsLeft \in Nat
    OBVIOUS
  <2>1. StepsOfAttempt \in 0..6
    BY DEF TypeOK, PCs, StepsOfAttempt
  <2>2. attempt \in Nat /\ attempt <= max_retries
    BY DEF TypeOK, RetryInv
  <2> QED BY <1>0, <2>1, <2>2 DEF StepsLeft
<1>2. TypeOK /\ RetryInv /\ [Next]_vars => [StepsLeft' < StepsLeft]_vars
  <2> SUFFICES ASSUME TypeOK, RetryInv, Next PROVE StepsLeft' < StepsLeft
    OBVIOUS
  <2>0. attempt \in Nat /\ max_retries \in Nat /\ max_retries' = max_retries
    BY <1>0 DEF TypeOK, max_retries
  <2>1. ASSUME attempt' = attempt, StepsOfAttempt' \in Nat, StepsOfAttempt \in Nat,
               StepsOfAttempt' < StepsOfAttempt
        PROVE  StepsLeft' < StepsLeft
    <3>1. \A a, x, y \in Int : y < x => a + y < a + x
      OBVIOUS
    <3>2. 5 * (max_retries - attempt) \in Int
      BY <2>0
    <3>3. /\ StepsLeft = 5 * (max_retries - attempt) + StepsOfAttempt
          /\ StepsLeft' = 5 * (max_retries - attempt) + StepsOfAttempt'
      BY <2>0, <2>1 DEF StepsLeft
    <3>4. StepsOfAttempt \in Int /\ StepsOfAttempt' \in Int
      BY <2>1
    <3> QED BY <2>1, <3>1, <3>2, <3>3, <3>4, Zenon
  <2>2. CASE Refuse \/ Accept
    <3>1. /\ pc = "start" /\ pc' \in {"loop", "llm_error"} /\ attempt' = attempt
      BY <2>2 DEF Refuse, Accept
    <3> QED BY <2>1, <3>1 DEF StepsOfAttempt
  <2>3. CASE StartAttempt
    <3>1. pc = "loop" /\ pc' \in {"sending", "unreachable"} /\ attempt' = attempt
      BY <2>3 DEF StartAttempt
    <3> QED BY <2>1, <3>1 DEF StepsOfAttempt
  <2>4. CASE WakeUp
    <3>1. pc = "sleeping" /\ pc' = "loop" /\ attempt' = attempt + 1
      BY <2>4 DEF WakeUp
    <3>2. StepsOfAttempt = 1 /\ StepsOfAttempt' = 5
      BY <3>1 DEF StepsOfAttempt
    <3> QED BY <2>0, <3>1, <3>2 DEF StepsLeft
  <2>5. CASE SendFails \/ Sent
    <3>1. pc = "sending" /\ pc' \in {"sleeping", "llm_error", "waiting"} /\ attempt' = attempt
      BY <2>5 DEF SendFails, Sent, EndsWith
    <3> QED BY <2>1, <3>1 DEF StepsOfAttempt
  <2>6. CASE ErrorStatus \/ OkStatus
    <3>1. pc = "waiting" /\ pc' \in {"sleeping", "error_body", "reading"} /\ attempt' = attempt
      BY <2>6 DEF ErrorStatus, OkStatus, EndsWith
    <3> QED BY <2>1, <3>1 DEF StepsOfAttempt
  <2>7. CASE ErrorBodyRead \/ ErrorBodyLost \/ ResponseLost \/ NotJson \/ BodyRead
    <3>1. /\ pc \in {"waiting", "reading", "error_body"} /\ attempt' = attempt
          /\ pc' \in {"llm_error", "raised", "returned"}
      BY <2>7 DEF ErrorBodyRead, ErrorBodyLost, ResponseLost, NotJson, BodyRead, EndsWith
    <3> QED BY <2>1, <3>1 DEF StepsOfAttempt
  <2> QED BY <2>2, <2>3, <2>4, <2>5, <2>6, <2>7 DEF Next, ClientStep, NetworkStep
<1> QED BY <1>1, <1>2, Invariant, PTL DEF Spec
=============================================================================
