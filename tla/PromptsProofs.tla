---------------------------- MODULE PromptsProofs ----------------------------
(* Theorems about what is shown of facts and variables, for paths of every *)
(* length.                                                                 *)
EXTENDS Prompts, SequenceTheorems, TLAPS

(* What redact makes of the rest of p from depth d on: the depth is cut at *)
(* five, so that five levels determine the recursion.                      *)
Level(p, d, rest) ==
  IF d > 4 THEN "<...>"
  ELSE IF d = Len(p) THEN "shown"
  ELSE IF p[d + 1] = "secret_key" THEN "<redacted>"
  ELSE rest

(* r[d] is what becomes of the leaf under the first d steps of p.          *)
IsRedaction(r, p) ==
  /\ \A d \in 0..Len(p) : d > 4 => r[d] = "<...>"
  /\ \A d \in 0..Len(p) :
       d <= 4 => r[d] = IF d = Len(p) THEN "shown"
                        ELSE IF p[d + 1] = "secret_key" THEN "<redacted>"
                        ELSE r[d + 1]

(* redact is what its recursion says.                                      *)
LEMMA RedactionExists ==
  ASSUME NEW p \in Seq(Steps)
  PROVE  \E r : redact(p) = r[0] /\ IsRedaction(r, p)
<1> DEFINE Step(r) == [d \in 0..Len(p) |->
                         IF d > 4 THEN "<...>"
                         ELSE IF d = Len(p) THEN "shown"
                         ELSE IF p[d + 1] = "secret_key" THEN "<redacted>"
                         ELSE r[d + 1]]
           v5 == "<...>"
           v4 == Level(p, 4, v5)
           v3 == Level(p, 3, v4)
           v2 == Level(p, 2, v3)
           v1 == Level(p, 1, v2)
           v0 == Level(p, 0, v1)
           w == [d \in 0..Len(p) |->
                   IF d = 0 THEN v0 ELSE IF d = 1 THEN v1 ELSE IF d = 2 THEN v2
                   ELSE IF d = 3 THEN v3 ELSE IF d = 4 THEN v4 ELSE v5]
           r == CHOOSE f : f = Step(f)
<1>1. Len(p) \in Nat
  BY LenProperties
<1> HIDE DEF v0, v1, v2, v3, v4
<1>1a. ASSUME NEW d \in 0..Len(p)
       PROVE  /\ d = 0 => w[d] = v0
              /\ d = 1 => w[d] = v1
              /\ d = 2 => w[d] = v2
              /\ d = 3 => w[d] = v3
              /\ d = 4 => w[d] = v4
              /\ d > 4 => w[d] = "<...>"
  <2>1. d \in Nat
    BY <1>1
  <2>2. w[d] = IF d = 0 THEN v0 ELSE IF d = 1 THEN v1 ELSE IF d = 2 THEN v2
               ELSE IF d = 3 THEN v3 ELSE IF d = 4 THEN v4 ELSE v5
    OBVIOUS
  <2> HIDE DEF w
  <2> QED BY <2>1, <2>2
<1>1b. DOMAIN w = 0..Len(p)
  OBVIOUS
<1> HIDE DEF w
<1>2. ASSUME NEW d \in 0..Len(p) PROVE w[d] = Step(w)[d]
  <2>0. d \in Nat /\ d <= Len(p)
    BY <1>1
  <2>1. CASE d > 4
    BY <1>1a, <2>0, <2>1
  <2>2. CASE d = Len(p) /\ d <= 4
    <3>1. d \in {0, 1, 2, 3, 4} /\ Step(w)[d] = "shown"
      BY <2>0, <2>2
    <3> HIDE DEF Step
    <3>2. /\ \A x : Len(p) = 0 => Level(p, 0, x) = "shown"
          /\ \A x : Len(p) = 1 => Level(p, 1, x) = "shown"
          /\ \A x : Len(p) = 2 => Level(p, 2, x) = "shown"
          /\ \A x : Len(p) = 3 => Level(p, 3, x) = "shown"
          /\ \A x : Len(p) = 4 => Level(p, 4, x) = "shown"
      BY DEF Level
    <3>3. /\ Len(p) = 0 => v0 = "shown"
          /\ Len(p) = 1 => v1 = "shown"
          /\ Len(p) = 2 => v2 = "shown"
          /\ Len(p) = 3 => v3 = "shown"
          /\ Len(p) = 4 => v4 = "shown"
      BY <3>2, Zenon DEF v0, v1, v2, v3, v4
    <3> QED BY <1>1a, <2>2, <3>1, <3>3
  <2>3. CASE d < Len(p) /\ d <= 4
    <3>1. d \in {0, 1, 2, 3, 4} /\ d + 1 \in 0..Len(p) /\ d # Len(p)
      BY <1>1, <2>0, <2>3
    <3>2. Step(w)[d] = IF p[d + 1] = "secret_key" THEN "<redacted>" ELSE w[d + 1]
      BY <2>3, <3>1
    <3> HIDE DEF Step
    <3>3. w[d] = Level(p, d, w[d + 1])
      <4>1. /\ d = 0 => w[0 + 1] = v1
            /\ d = 1 => w[1 + 1] = v2
            /\ d = 2 => w[2 + 1] = v3
            /\ d = 3 => w[3 + 1] = v4
            /\ d = 4 => w[4 + 1] = v5
        BY <1>1a, <3>1
      <4> QED BY <1>1a, <3>1, <4>1 DEF v0, v1, v2, v3, v4
    <3> QED BY <2>3, <3>1, <3>2, <3>3 DEF Level
  <2> QED BY <1>1, <2>0, <2>1, <2>2, <2>3
<1>3. w = Step(w)
  <2>1. w = [d \in 0..Len(p) |-> w[d]]
    BY <1>1b
  <2>2. Step(w) = [d \in 0..Len(p) |-> Step(w)[d]]
    OBVIOUS
  <2> HIDE DEF Step
  <2> QED BY <1>2, <2>1, <2>2
<1>4. r = Step(r)
  <2> HIDE DEF Step
  <2> QED BY <1>3
<1> HIDE DEF r
<1>5. IsRedaction(r, p)
  <2>1. ASSUME NEW d \in 0..Len(p) PROVE r[d] = Step(r)[d]
    BY <1>4
  <2> QED BY <1>1, <2>1 DEF IsRedaction
<1>6. redact(p) = r[0]
  BY DEF redact, r
<1> QED BY <1>5, <1>6

(* What is shown has no secret name above it within five levels, and lies  *)
(* there; and what has none and lies there is shown.                       *)
LEMMA RedactShows ==
  ASSUME NEW p \in Seq(Steps)
  PROVE  redact(p) = "shown" <=> Len(p) <= 4 /\ \A i \in 1..Len(p) : p[i] # "secret_key"
<1>0. Len(p) \in Nat
  BY LenProperties
<1>1. PICK r : redact(p) = r[0] /\ IsRedaction(r, p)
  BY RedactionExists
<1> DEFINE Clear(d) == Len(p) <= 4 /\ \A i \in (d + 1)..Len(p) : p[i] # "secret_key"
<1>2. ASSUME NEW d \in 0..Len(p), d <= 4, d < Len(p) => (r[d + 1] = "shown" <=> Clear(d + 1))
      PROVE  r[d] = "shown" <=> Clear(d)
  <2>0. d \in Nat /\ d <= Len(p)
    BY <1>0
  <2>1. CASE d = Len(p)
    <3>1. r[d] = "shown"
      BY <1>1, <1>2, <2>1 DEF IsRedaction
    <3>2. Clear(d)
      BY <1>0, <1>2, <2>1
    <3> QED BY <3>1, <3>2
  <2>2. CASE d < Len(p) /\ p[d + 1] = "secret_key"
    <3>1. r[d] = "<redacted>"
      BY <1>1, <1>2, <2>0, <2>2 DEF IsRedaction
    <3>2. ~Clear(d)
      <4>1. d + 1 \in (d + 1)..Len(p)
        BY <1>0, <2>0, <2>2
      <4> QED BY <2>2, <4>1
    <3> QED BY <3>1, <3>2
  <2>3. CASE d < Len(p) /\ p[d + 1] # "secret_key"
    <3>1. r[d] = r[d + 1]
      BY <1>1, <1>2, <2>0, <2>3 DEF IsRedaction
    <3>2. Clear(d) <=> Clear(d + 1)
      <4>1. \A i \in (d + 1)..Len(p) : i = d + 1 \/ i \in (d + 2)..Len(p)
        BY <1>0, <2>0
      <4>2. \A i \in (d + 2)..Len(p) : i \in (d + 1)..Len(p)
        BY <1>0, <2>0
      <4>3. (d + 1) + 1 = d + 2
        BY <2>0
      <4> QED BY <2>3, <4>1, <4>2, <4>3
    <3> QED BY <1>2, <2>3, <3>1, <3>2
  <2> QED BY <2>0, <2>1, <2>2, <2>3
<1>3. Len(p) >= 5 => r[5] = "<...>" /\ ~Clear(5)
  BY <1>0, <1>1 DEF IsRedaction
<1> HIDE DEF Clear
<1>4. Len(p) >= 4 => (r[4] = "shown" <=> Clear(4))
  BY <1>0, <1>2, <1>3
<1>5. Len(p) >= 3 => (r[3] = "shown" <=> Clear(3))
  BY <1>0, <1>2, <1>4
<1>6. Len(p) >= 2 => (r[2] = "shown" <=> Clear(2))
  BY <1>0, <1>2, <1>5
<1>7. Len(p) >= 1 => (r[1] = "shown" <=> Clear(1))
  BY <1>0, <1>2, <1>6
<1>8. r[0] = "shown" <=> Clear(0)
  BY <1>0, <1>2, <1>7
<1> QED BY <1>1, <1>8 DEF Clear

PromptsInv ==
  /\ source \in {"facts", "hostvars"} /\ name \in Names
  /\ path \in Seq(Steps)

LEMMA PromptsInvariant == Spec => []PromptsInv
<1>1. Init => PromptsInv
  BY EmptySeq DEF Init, PromptsInv
<1>2. PromptsInv /\ [Nest]_vars => PromptsInv'
  BY AppendProperties DEF PromptsInv, Nest, vars
<1> QED BY <1>1, <1>2, PTL DEF Spec

(* However deep a leaf lies, it is shown only without a secret name above  *)
(* it, and nothing else but the depth of five hides one.                   *)
THEOREM OnlySecretsAreHiddenHolds == Spec => []OnlySecretsAreHidden
<1>1. PromptsInv => OnlySecretsAreHidden
  <2> SUFFICES ASSUME PromptsInv PROVE OnlySecretsAreHidden
    OBVIOUS
  <2>1. /\ path \in Seq(Steps) /\ DOMAIN path = 1..Len(path) /\ Len(path) \in Nat
    BY LenProperties DEF PromptsInv
  <2>2. redact(path) = "shown" <=> Len(path) <= 4 /\ Hidden = {}
    BY <2>1, RedactShows DEF Hidden
  <2>3. Filtered = "shown" => redact(path) = "shown" /\ name # "secret"
    BY DEF Filtered, filter_facts, filter_hostvars, InAnsibleFacts, PromptsInv, Names
  <2>4. source = "hostvars" /\ name = "plain" => Filtered = redact(path)
    BY DEF Filtered, filter_hostvars
  <2> QED BY <2>2, <2>3, <2>4 DEF OnlySecretsAreHidden
<1> QED BY <1>1, PromptsInvariant, PTL
=============================================================================
