--------------------------- MODULE RateLimitProofs ---------------------------
(***************************************************************************)
(* Theorems about RateLimit, for any number of requests and addresses, any *)
(* rate and any burst.                                                     *)
(***************************************************************************)
EXTENDS RateLimit, FiniteSetTheorems, TLAPS

-----------------------------------------------------------------------------
(* Arithmetic: what the provers have to be told of products.               *)

LEMMA Products ==
    ASSUME NEW i \in Nat, NEW m \in Nat
    PROVE  /\ i * m \in Nat /\ i * 0 = 0 /\ i * 1 = i
           /\ i * (m + 1) = i * m + i
  OBVIOUS

LEMMA ProductOrder ==
    ASSUME NEW i \in Nat \ {0}, NEW m \in Nat, NEW k \in Nat, i * k < i * m
    PROVE  k < m
  OBVIOUS

-----------------------------------------------------------------------------
(* The invariant.                                                          *)

ReqType ==
    req \in [Requests -> [pc : {"new", "admitted", "refused"}, at : Nat]]

Type ==
    /\ now \in Nat
    /\ tat \in [Addresses -> Nat]
    /\ ReqType /\ \A r \in Requests : req[r].at <= now

\* How many requests of an address were let through from s to t.
Count(a, s, t) == Cardinality(Admitted(a, s, t))

Finite == \A a \in Addresses, s, t \in Nat : IsFiniteSet(Admitted(a, s, t))

\* Whoever was let through has left the time of the address ahead of the clock.
Ahead == \A r \in Requests : req[r].pc = "admitted" => req[r].at < tat[AddressOf[r]]

\* The time kept of an address is made up of the tokens of those let through since s,
\* at which it was no more than x ahead of the clock; never since then was it further
\* ahead than the burst and one more token.
Busy(a, s, x) ==
    /\ tat[a] = s + x + Interval * Count(a, s, now)
    /\ \A t \in s..now :
          s + x + Interval * Count(a, s, t) <= t + BurstSize * Interval + Interval

Accounted ==
    \A a \in Addresses : tat[a] # 0 => \E s \in 0..now : \E x \in {0, Interval} : Busy(a, s, x)

Core == Type /\ Finite /\ Ahead /\ Accounted

-----------------------------------------------------------------------------
(* How many were let through.                                              *)

LEMMA Parameters ==
    /\ Interval \in Nat \ {0} /\ BurstSize \in Nat \ {0}
    /\ Interval \in Nat /\ BurstSize \in Nat
    /\ BurstSize - 1 \in Nat
    /\ (BurstSize - 1) * Interval + Interval = BurstSize * Interval
    /\ (BurstSize - 1) * Interval \in Nat /\ BurstSize * Interval \in Nat
    /\ BurstSize * Interval # 0
    /\ Interval <= BurstSize * Interval
  BY RateAssumption, SMTT(30) DEF Interval

LEMMA CountType ==
    ASSUME Finite, NEW a \in Addresses, NEW s \in Nat, NEW t \in Nat
    PROVE  /\ Count(a, s, t) \in Nat
           /\ Count(a, s, t) = 0 <=> Admitted(a, s, t) = {}
  BY FS_CardinalityType, FS_EmptySet DEF Finite, Count

\* Nobody has been let through in the future.
LEMMA CountLate ==
    ASSUME Type, NEW a \in Addresses, NEW s \in Nat, NEW t \in Nat
    PROVE  now <= t => Admitted(a, s, t) = Admitted(a, s, now)
<1>1. now \in Nat /\ \A r \in Requests : req[r].at \in Nat /\ req[r].at <= now
  BY DEF Type, ReqType
<1>2. QED
  BY <1>1 DEF Admitted

\* An interval is cut in two.
LEMMA CountSplit ==
    ASSUME Type, Finite, NEW a \in Addresses, NEW s \in Nat, NEW m \in Nat, NEW k \in Nat,
           NEW t \in Nat, k = m + 1, s <= k, m <= t
    PROVE  Count(a, s, t) = Count(a, s, m) + Count(a, k, t)
<1>1. \A r \in Requests : req[r].at \in Nat
  BY DEF Type, ReqType
<1>2. /\ Admitted(a, s, t) = Admitted(a, s, m) \cup Admitted(a, k, t)
      /\ Admitted(a, s, m) \cap Admitted(a, k, t) = {}
  BY <1>1 DEF Admitted
<1>3. IsFiniteSet(Admitted(a, s, m)) /\ IsFiniteSet(Admitted(a, k, t))
  BY DEF Finite
<1>4. Count(a, s, m) \in Nat /\ Count(a, k, t) \in Nat
  BY CountType
<1>5. Cardinality(Admitted(a, s, m) \cap Admitted(a, k, t)) = 0
  BY <1>2, FS_EmptySet
<1>6. Cardinality(Admitted(a, s, t)) =
          Cardinality(Admitted(a, s, m)) + Cardinality(Admitted(a, k, t))
              - Cardinality(Admitted(a, s, m) \cap Admitted(a, k, t))
  BY <1>2, <1>3, FS_Union, Zenon
<1>7. QED
  BY <1>4, <1>5, <1>6 DEF Count

\* A step that lets nobody through.
LEMMA SameCount ==
    ASSUME Type, ReqType',
           \A r \in Requests : req'[r].pc = "admitted" <=> req[r].pc = "admitted",
           \A r \in Requests : req'[r].pc = "admitted" => req'[r].at = req[r].at
    PROVE  \A a \in Addresses, s, t \in Nat :
              Admitted(a, s, t)' = Admitted(a, s, t) /\ Count(a, s, t)' = Count(a, s, t)
<1>1. \A a \in Addresses, s, t \in Nat : Admitted(a, s, t)' = Admitted(a, s, t)
  BY DEF Admitted
<1>2. QED
  BY <1>1 DEF Count

LEMMA AdmitCount ==
    ASSUME Type, Finite, NEW r \in Requests, Admit(r)
    PROVE  \A a \in Addresses, s, t \in Nat :
              /\ IsFiniteSet(Admitted(a, s, t)')
              /\ Admitted(a, s, t) \subseteq Admitted(a, s, t)'
              /\ Count(a, s, t)' = IF a = AddressOf[r] /\ s <= now /\ now <= t
                                   THEN Count(a, s, t) + 1 ELSE Count(a, s, t)
<1>1. /\ req' = [req EXCEPT ![r] = [pc |-> "admitted", at |-> now]] /\ req[r].pc = "new"
      /\ req \in [Requests -> [pc : {"new", "admitted", "refused"}, at : Nat]]
      /\ now \in Nat
  BY DEF Admit, Type, ReqType
<1>2. /\ req'[r].pc = "admitted" /\ req'[r].at = now
      /\ \A x \in Requests \ {r} : req'[x] = req[x]
  BY <1>1
<1>3. SUFFICES ASSUME NEW a \in Addresses, NEW s \in Nat, NEW t \in Nat
               PROVE  /\ IsFiniteSet(Admitted(a, s, t)')
                      /\ Admitted(a, s, t) \subseteq Admitted(a, s, t)'
                      /\ Count(a, s, t)' = IF a = AddressOf[r] /\ s <= now /\ now <= t
                                           THEN Count(a, s, t) + 1 ELSE Count(a, s, t)
  OBVIOUS
<1>4. r \notin Admitted(a, s, t) /\ IsFiniteSet(Admitted(a, s, t))
  BY <1>1 DEF Admitted, Finite
<1>5. CASE a = AddressOf[r] /\ s <= now /\ now <= t
  <2>1. Admitted(a, s, t)' = Admitted(a, s, t) \cup {r}
    BY <1>1, <1>2, <1>5 DEF Admitted
  <2>2. QED
    BY <1>4, <1>5, <2>1, FS_AddElement DEF Count
<1>6. CASE ~(a = AddressOf[r] /\ s <= now /\ now <= t)
  <2>1. Admitted(a, s, t)' = Admitted(a, s, t)
    BY <1>1, <1>2, <1>6 DEF Admitted
  <2>2. QED
    BY <1>4, <1>6, <2>1 DEF Count
<1>7. QED
  BY <1>5, <1>6

-----------------------------------------------------------------------------
(* Core is inductive.                                                      *)

LEMMA InitCore == Init => Core
<1> SUFFICES ASSUME Init PROVE Core
  OBVIOUS
<1>1. Type /\ Ahead
  BY DEF Init, Type, ReqType, Ahead
<1>2. \A a \in Addresses, s, t \in Nat : Admitted(a, s, t) = {}
  BY DEF Init, Admitted
<1>3. Finite
  BY <1>2, FS_EmptySet DEF Finite
<1>4. Accounted
  BY DEF Init, Accounted
<1>5. QED
  BY <1>1, <1>3, <1>4 DEF Core

\* A step that lets nobody through; the clock may tick.
LEMMA QuietCore ==
    ASSUME Core, Type', UNCHANGED tat, now' = now \/ now' = now + 1,
           \A r \in Requests : req'[r].pc = "admitted" <=> req[r].pc = "admitted",
           \A r \in Requests : req'[r].pc = "admitted" => req'[r].at = req[r].at
    PROVE  Core'
<1>0. Type /\ Finite /\ now \in Nat /\ now' \in Nat
  BY DEF Core, Type
<1>1. \A a \in Addresses, s, t \in Nat :
         Admitted(a, s, t)' = Admitted(a, s, t) /\ Count(a, s, t)' = Count(a, s, t)
  BY <1>0, SameCount DEF Type
<1>2. Finite' /\ Ahead'
  BY <1>0, <1>1 DEF Core, Finite, Ahead
<1>3. ASSUME NEW a \in Addresses, NEW s \in Nat
      PROVE  Count(a, s, now') = Count(a, s, now)
  <2>1. now <= now' => Admitted(a, s, now') = Admitted(a, s, now)
    BY <1>0, CountLate
  <2>2. now <= now'
    BY <1>0
  <2>3. QED
    BY <2>1, <2>2 DEF Count
<1>4. ASSUME NEW a \in Addresses, tat[a] # 0
      PROVE  \E s \in 0..now' : \E x \in {0, Interval} : Busy(a, s, x)'
  <2>1. PICK s \in 0..now, x \in {0, Interval} : Busy(a, s, x)
    BY <1>4 DEF Core, Accounted
  <2>2. s \in Nat /\ s \in 0..now' /\ x \in Nat
    BY <1>0, <2>1, Parameters
  <2>3. tat'[a] = s + x + Interval * Count(a, s, now)'
    BY <1>0, <1>1, <1>3, <2>1, <2>2 DEF Busy
  <2>4. ASSUME NEW t \in s..now'
        PROVE  s + x + Interval * Count(a, s, t) <= t + BurstSize * Interval + Interval
    <3>1. CASE t \in s..now
      BY <2>1, <3>1 DEF Busy
    <3>2. CASE t = now'
      <4>1. s + x + Interval * Count(a, s, now) <= now + BurstSize * Interval + Interval
        BY <1>0, <2>1, <2>2 DEF Busy
      <4>2. Count(a, s, t) = Count(a, s, now)
        BY <1>3, <2>2, <3>2
      <4>3. Interval * Count(a, s, now) \in Nat /\ BurstSize * Interval \in Nat /\ Interval \in Nat
        BY <1>0, <2>2, CountType, Parameters, Products
      <4>4. QED
        BY <1>0, <2>2, <3>2, <4>1, <4>2, <4>3
    <3>3. QED
      BY <1>0, <2>2, <3>1, <3>2
  <2>5. \A t \in s..now' : t \in Nat
    BY <1>0, <2>2
  <2>6. Busy(a, s, x)'
    BY <1>0, <1>1, <2>2, <2>3, <2>4, <2>5 DEF Busy
  <2>7. QED
    BY <2>2, <2>6
<1>5. Accounted'
  BY <1>4 DEF Accounted
<1>6. QED
  BY <1>2, <1>5 DEF Core

\* The time that is kept after a request has been let through, case by case.
LEMMA AdmitTat ==
    ASSUME Type, NEW r \in Requests, Admit(r)
    PROVE  LET a == AddressOf[r] IN
           /\ a \in Addresses /\ tat' \in [Addresses -> Nat]
           /\ \A b \in Addresses \ {a} : tat'[b] = tat[b]
           /\ tat[a] = 0 => tat'[a] = now + Interval + Interval
           /\ tat[a] # 0 /\ tat[a] <= now => tat'[a] = now + Interval
           /\ tat[a] > now => /\ tat'[a] = tat[a] + Interval
                              /\ tat[a] <= now + BurstSize * Interval
<1> DEFINE a == AddressOf[r]
           x == Later(now, Arrival(a)) + Interval
<1>0. /\ now \in Nat /\ a \in Addresses /\ tat \in [Addresses -> Nat]
      /\ tat' = [tat EXCEPT ![a] = x]
      /\ Arrival(a) <= now + BurstSize * Interval
  BY DEF Type, Addresses, Admit, Bucket, HasToken
<1>1. x = IF tat[a] = 0 THEN now + Interval + Interval
          ELSE IF now > tat[a] THEN now + Interval ELSE tat[a] + Interval
  BY <1>0, Parameters DEF Later, Arrival
<1>2. tat[a] > now => tat[a] <= now + BurstSize * Interval
  BY <1>0 DEF Arrival
<1> HIDE DEF x
<1>3. x \in Nat
  BY <1>0, <1>1, Parameters
<1>4. tat'[a] = x /\ tat' \in [Addresses -> Nat] /\ \A b \in Addresses \ {a} : tat'[b] = tat[b]
  BY <1>0, <1>3
<1>5. tat[a] \in Nat
  BY <1>0
<1> HIDE DEF a
<1>6. /\ tat[a] = 0 => tat'[a] = now + Interval + Interval
      /\ tat[a] # 0 /\ tat[a] <= now => tat'[a] = now + Interval
      /\ tat[a] > now => tat'[a] = tat[a] + Interval
  BY <1>0, <1>1, <1>4, <1>5, Parameters
<1>7. QED
  BY <1>0, <1>2, <1>4, <1>6 DEF a

LEMMA AdmitType ==
    ASSUME Type, NEW r \in Requests, Admit(r)
    PROVE  Type'
<1>1. req' = [req EXCEPT ![r] = [pc |-> "admitted", at |-> now]] /\ UNCHANGED now
  BY DEF Admit
<1>2. [pc |-> "admitted", at |-> now] \in [pc : {"new", "admitted", "refused"}, at : Nat]
  BY DEF Type
<1>3. ReqType' /\ \A x \in Requests : req'[x].at <= now
  BY <1>1, <1>2 DEF Type, ReqType
<1>4. tat' \in [Addresses -> Nat]
  BY AdmitTat
<1>5. QED
  BY <1>1, <1>3, <1>4 DEF Type

LEMMA AdmitAhead ==
    ASSUME Type, Ahead, NEW r \in Requests, Admit(r)
    PROVE  Ahead'
<1>1. /\ req' = [req EXCEPT ![r] = [pc |-> "admitted", at |-> now]] /\ now \in Nat
      /\ req \in [Requests -> [pc : {"new", "admitted", "refused"}, at : Nat]]
  BY DEF Admit, Type, ReqType
<1>2. /\ req'[r].at = now
      /\ \A x \in Requests \ {r} : req'[x] = req[x]
  BY <1>1
<1>3. \A b \in Addresses : tat[b] \in Nat /\ tat'[b] \in Nat /\ tat[b] <= tat'[b]
  BY <1>1, AdmitTat, Parameters DEF Type
<1>4. now < tat'[AddressOf[r]]
  BY <1>1, AdmitTat, Parameters DEF Type
<1>5. \A x \in Requests : req[x].at \in Nat /\ AddressOf[x] \in Addresses
  BY <1>1 DEF Addresses
<1>6. QED
  BY <1>1, <1>2, <1>3, <1>4, <1>5 DEF Ahead

\* One more of the address, and one more token away.
LEMMA AdmitCore ==
    ASSUME Core, NEW r \in Requests, Admit(r)
    PROVE  Core'
<1> DEFINE a0 == AddressOf[r]
<1>0. /\ Type /\ Finite /\ Ahead /\ now \in Nat /\ tat \in [Addresses -> Nat]
      /\ UNCHANGED now
  BY DEF Core, Type, Admit
<1>1. /\ a0 \in Addresses /\ tat[a0] \in Nat /\ tat' \in [Addresses -> Nat]
      /\ \A b \in Addresses \ {a0} : tat'[b] = tat[b]
      /\ tat[a0] = 0 => tat'[a0] = now + Interval + Interval
      /\ tat[a0] # 0 /\ tat[a0] <= now => tat'[a0] = now + Interval
      /\ tat[a0] > now => /\ tat'[a0] = tat[a0] + Interval
                          /\ tat[a0] <= now + BurstSize * Interval
  BY <1>0, AdmitTat
<1>2. \A a \in Addresses, s, t \in Nat :
         /\ IsFiniteSet(Admitted(a, s, t)')
         /\ Count(a, s, t)' = IF a = a0 /\ s <= now /\ now <= t
                              THEN Count(a, s, t) + 1 ELSE Count(a, s, t)
  BY <1>0, AdmitCount
<1> HIDE DEF a0
<1>3. Type' /\ Finite' /\ Ahead'
  BY <1>0, <1>2, AdmitType, AdmitAhead DEF Finite
<1>4. ASSUME NEW s \in 0..now
      PROVE  /\ s \in Nat /\ Count(a0, s, now) \in Nat
             /\ Count(a0, s, now)' = Count(a0, s, now) + 1
             /\ Interval * Count(a0, s, now)' = Interval * Count(a0, s, now) + Interval
             /\ Interval * Count(a0, s, now) \in Nat
  <2>1. s \in Nat /\ s <= now
    BY <1>0
  <2>2. Count(a0, s, now) \in Nat
    BY <1>0, <1>1, <2>1, CountType
  <2>3. Count(a0, s, now)' = Count(a0, s, now) + 1
    BY <1>0, <1>1, <1>2, <2>1
  <2>4. QED
    BY <2>1, <2>2, <2>3, Parameters, Products
<1>5. ASSUME NEW a \in Addresses \ {a0}, tat'[a] # 0
      PROVE  \E s \in 0..now : \E x \in {0, Interval} : Busy(a, s, x)'
  <2>1. PICK s \in 0..now, x \in {0, Interval} : Busy(a, s, x)
    BY <1>1, <1>5 DEF Core, Accounted
  <2>2. s \in Nat /\ s..now \subseteq Nat
    BY <1>0
  <2>3. Busy(a, s, x)'
    BY <1>0, <1>1, <1>2, <2>1, <2>2 DEF Busy
  <2>4. QED
    BY <2>3
<1>6. ASSUME tat[a0] <= now
      PROVE  \E s \in 0..now : \E x \in {0, Interval} : Busy(a0, s, x)'
  <2>1. now \in 0..now /\ now..now = {now}
    BY <1>0
  <2>2. Admitted(a0, now, now) = {}
    <3>1. ASSUME NEW q \in Requests, AddressOf[q] = a0, req[q].pc = "admitted"
          PROVE  req[q].at # now
      <4>1. req[q].at < tat[a0] /\ req[q].at \in Nat
        BY <1>0, <3>1 DEF Ahead, Type, ReqType
      <4>2. QED
        BY <1>0, <1>1, <1>6, <4>1
    <3>2. QED
      BY <2>1, <3>1 DEF Admitted
  <2>3. Count(a0, now, now) = 0
    BY <2>2, FS_EmptySet DEF Count
  <2>4. Interval * Count(a0, now, now)' = Interval
    <3>1. Interval * 0 = 0 /\ Interval \in Nat
      BY Parameters, Products
    <3>2. QED
      BY <1>0, <1>4, <2>1, <2>3, <3>1
  <2>5. CASE tat[a0] = 0
    BY <1>0, <1>1, <2>1, <2>4, <2>5, Parameters DEF Busy
  <2>6. CASE tat[a0] # 0
    BY <1>0, <1>1, <1>6, <2>1, <2>4, <2>6, Parameters DEF Busy
  <2>7. QED
    BY <2>5, <2>6
<1>7. ASSUME tat[a0] > now
      PROVE  \E s \in 0..now : \E x \in {0, Interval} : Busy(a0, s, x)'
  <2>1. PICK s \in 0..now, x \in {0, Interval} : Busy(a0, s, x)
    BY <1>0, <1>1, <1>7 DEF Core, Accounted
  <2>2. s \in Nat /\ s..now \subseteq Nat /\ x \in Nat
    BY <1>0, <2>1, Parameters
  <2>3. tat'[a0] = s + x + Interval * Count(a0, s, now)'
    <3>1. tat[a0] = s + x + Interval * Count(a0, s, now)
      BY <2>1 DEF Busy
    <3>2. Interval * Count(a0, s, now)' = Interval * Count(a0, s, now) + Interval
      BY <1>4
    <3>3. QED
      BY <1>1, <1>4, <1>7, <2>2, <3>1, <3>2, Parameters
  <2>4. tat'[a0] <= now + BurstSize * Interval + Interval
    BY <1>0, <1>1, <1>7, Parameters
  <2>5. ASSUME NEW t \in s..now
        PROVE  s + x + Interval * Count(a0, s, t)' <= t + BurstSize * Interval + Interval
    <3>1. CASE t = now
      BY <1>0, <2>3, <2>4, <3>1
    <3>2. CASE t # now
      <4>1. Count(a0, s, t)' = Count(a0, s, t)
        BY <1>0, <1>1, <1>2, <2>2, <3>2
      <4>2. QED
        BY <2>1, <4>1 DEF Busy
    <3>3. QED
      BY <3>1, <3>2
  <2>6. Busy(a0, s, x)'
    BY <1>0, <2>2, <2>3, <2>5 DEF Busy
  <2>7. QED
    BY <2>6
<1>8. Accounted'
  <2>1. tat[a0] <= now \/ tat[a0] > now
    BY <1>0, <1>1
  <2>2. QED
    BY <1>0, <1>5, <1>6, <1>7, <2>1 DEF Accounted
<1>9. QED
  BY <1>3, <1>8 DEF Core

\* What a step does to the counts and to the requests that were refused.
LEMMA StepEffect ==
    ASSUME Core, [Next]_vars
    PROVE  /\ Core'
           /\ \A a \in Addresses, s, t \in Nat : Admitted(a, s, t) \subseteq Admitted(a, s, t)'
           /\ \A r \in Requests : req'[r].pc = "refused" =>
                 req'[r] = req[r] \/ (Refuse(r) /\ req'[r].at = now)
<1>0. /\ Type /\ Finite /\ now \in Nat
      /\ req \in [Requests -> [pc : {"new", "admitted", "refused"}, at : Nat]]
  BY DEF Core, Type, ReqType
<1>1. ASSUME NEW r \in Requests, Admit(r)
      PROVE  /\ Core'
             /\ \A a \in Addresses, s, t \in Nat : Admitted(a, s, t) \subseteq Admitted(a, s, t)'
             /\ \A x \in Requests : req'[x].pc = "refused" => req'[x] = req[x]
  <2>1. req' = [req EXCEPT ![r] = [pc |-> "admitted", at |-> now]]
    BY <1>1 DEF Admit
  <2>2. \A x \in Requests : req'[x].pc = "refused" => req'[x] = req[x]
    BY <1>0, <2>1
  <2>3. QED
    BY <1>0, <1>1, <2>2, AdmitCount, AdmitCore
<1>2. ASSUME Type', UNCHANGED tat, now' = now \/ now' = now + 1,
             \A r \in Requests : req'[r].pc = "admitted" <=> req[r].pc = "admitted",
             \A r \in Requests : req'[r].pc = "admitted" => req'[r].at = req[r].at
      PROVE  /\ Core'
             /\ \A a \in Addresses, s, t \in Nat : Admitted(a, s, t) \subseteq Admitted(a, s, t)'
  BY <1>0, <1>2, QuietCore, SameCount DEF Type
<1>3. CASE Tick
  <2>1. now' = now + 1 /\ UNCHANGED <<tat, req>>
    BY <1>3 DEF Tick
  <2>2. Type'
    BY <1>0, <2>1 DEF Type, ReqType
  <2>3. QED
    BY <1>0, <1>2, <2>1, <2>2
<1>4. ASSUME NEW r \in Requests, Refuse(r)
      PROVE  /\ Core'
             /\ \A a \in Addresses, s, t \in Nat : Admitted(a, s, t) \subseteq Admitted(a, s, t)'
             /\ req'[r].at = now /\ \A x \in Requests \ {r} : req'[x] = req[x]
  <2> DEFINE n == [pc |-> "refused", at |-> now]
  <2>1. req' = [req EXCEPT ![r] = n] /\ UNCHANGED <<now, tat>> /\ req[r].pc = "new"
    BY <1>4 DEF Refuse
  <2>2. /\ n \in [pc : {"new", "admitted", "refused"}, at : Nat]
        /\ n.pc = "refused" /\ n.at = now
    BY <1>0
  <2> HIDE DEF n
  <2>3. req'[r] = n /\ \A x \in Requests \ {r} : req'[x] = req[x]
    BY <1>0, <2>1
  <2>4. Type'
    BY <1>0, <2>1, <2>2, <2>3 DEF Type, ReqType
  <2>5. \A x \in Requests : /\ req'[x].pc = "admitted" <=> req[x].pc = "admitted"
                            /\ req'[x].pc = "admitted" => req'[x].at = req[x].at
    BY <2>1, <2>2, <2>3
  <2>6. QED
    BY <1>2, <2>1, <2>2, <2>3, <2>4, <2>5
<1>5. CASE UNCHANGED vars
  <2>1. UNCHANGED <<now, tat, req>>
    BY <1>5 DEF vars
  <2>2. Type'
    BY <1>0, <2>1 DEF Type, ReqType
  <2>3. QED
    BY <1>0, <1>2, <2>1, <2>2
<1>6. QED
  BY <1>1, <1>3, <1>4, <1>5 DEF Next

LEMMA CoreCorrect == Spec => []Core
<1>1. Core /\ [Next]_vars => Core'
  BY StepEffect
<1>2. QED
  BY <1>1, InitCore, PTL DEF Spec

-----------------------------------------------------------------------------
(* What Core says of a refusal.                                            *)

\* Without a token, the burst has been used within the time in which it comes back.
LEMMA BurstOfCore ==
    ASSUME Core, NEW a \in Addresses, ~HasToken(a)
    PROVE  \E s \in 0..now : now - s < BurstSize * Interval /\ Count(a, s, now) >= BurstSize
<1> DEFINE w == BurstSize * Interval
           v == (BurstSize - 1) * Interval
<1>0. /\ Type /\ Finite /\ now \in Nat /\ tat[a] \in Nat
      /\ w \in Nat \ {0} /\ v \in Nat /\ v + Interval = w /\ Interval \in Nat \ {0}
      /\ Interval <= w
  BY Parameters DEF Core, Type
<1>1. tat[a] # 0 /\ tat[a] > now + w
  <2>1. ~(Arrival(a) <= now + w)
    BY DEF HasToken
  <2> HIDE DEF w
  <2>2. tat[a] # 0
    BY <1>0, <2>1 DEF Arrival
  <2>3. QED
    BY <1>0, <2>1, <2>2 DEF Arrival
<1>2. PICK b \in 0..now, x \in {0, Interval} : Busy(a, b, x)
  BY <1>1 DEF Core, Accounted
<1>3. /\ tat[a] = b + x + Interval * Count(a, b, now) /\ b \in Nat
      /\ x \in Nat /\ x <= Interval
  BY <1>0, <1>2 DEF Busy
<1>4. \A t \in b..now : b + x + Interval * Count(a, b, t) <= t + w + Interval
  BY <1>2 DEF Busy
<1>5. ASSUME NEW m \in Nat, Interval * m > v PROVE m >= BurstSize
  <2>1. Interval * (BurstSize - 1) < Interval * m
    BY <1>5, Parameters
  <2>2. BurstSize - 1 < m
    BY <2>1, Parameters, ProductOrder
  <2>3. QED
    BY <2>2, Parameters
<1> HIDE DEF w, v
<1>6. CASE now - b < w
  <2>1. Count(a, b, now) \in Nat
    BY <1>0, <1>3, CountType
  <2>2. Interval * Count(a, b, now) \in Nat
    BY <2>1, Parameters, Products
  <2>3. Interval * Count(a, b, now) > v
    BY <1>0, <1>1, <1>3, <2>2
  <2>4. Count(a, b, now) >= BurstSize
    BY <1>5, <2>1, <2>3
  <2>5. QED
    BY <1>6, <2>4 DEF w
<1>7. CASE now - b >= w
  <2> DEFINE m == now - w
             k == m + 1
  <2>1. /\ m \in Nat /\ k \in Nat /\ m \in b..now /\ k \in 0..now /\ k = m + 1
        /\ b <= k /\ m <= now /\ now - k < w /\ m + w = now
    BY <1>0, <1>3, <1>7
  <2> HIDE DEF m, k
  <2>2. Count(a, b, now) = Count(a, b, m) + Count(a, k, now)
    BY <1>0, <1>3, <2>1, CountSplit
  <2>3. Count(a, b, m) \in Nat /\ Count(a, k, now) \in Nat
    BY <1>0, <1>3, <2>1, CountType
  <2>4. b + x + Interval * Count(a, b, m) <= now + Interval
    BY <1>4, <2>1
  <2>5. Interval * Count(a, b, now) = Interval * Count(a, b, m) + Interval * Count(a, k, now)
    BY <2>2, <2>3, Parameters
  <2>6. Interval * Count(a, b, m) \in Nat /\ Interval * Count(a, k, now) \in Nat
    BY <2>3, Parameters, Products
  <2>7. Interval * Count(a, k, now) > v
    BY <1>0, <1>1, <1>3, <2>4, <2>5, <2>6
  <2>8. Count(a, k, now) >= BurstSize
    BY <1>5, <2>3, <2>7
  <2>9. QED
    BY <2>1, <2>8 DEF w
<1>8. QED
  BY <1>0, <1>3, <1>6, <1>7

-----------------------------------------------------------------------------
(* The theorem.                                                            *)

LEMMA RefusedStep ==
    ASSUME Core, RefusedOverLimit, [Next]_vars
    PROVE  RefusedOverLimit'
<1> SUFFICES ASSUME NEW r \in Requests, req'[r].pc = "refused"
             PROVE  \E s \in 0..req'[r].at :
                       /\ req'[r].at - s < BurstSize * Interval
                       /\ Count(AddressOf[r], s, req[r].at)' >= BurstSize
  BY DEF RefusedOverLimit, Count
<1>0. /\ now \in Nat /\ Finite /\ Finite' /\ AddressOf[r] \in Addresses
      /\ req[r].at \in Nat
  BY StepEffect DEF Core, Type, ReqType, Addresses
<1>1. ASSUME NEW s \in Nat, NEW t \in Nat, Count(AddressOf[r], s, t) >= BurstSize
      PROVE  Count(AddressOf[r], s, t)' >= BurstSize
  <2>1. /\ Admitted(AddressOf[r], s, t) \subseteq Admitted(AddressOf[r], s, t)'
        /\ IsFiniteSet(Admitted(AddressOf[r], s, t)')
        /\ IsFiniteSet(Admitted(AddressOf[r], s, t))
    BY <1>0, StepEffect DEF Finite
  <2>2. /\ Cardinality(Admitted(AddressOf[r], s, t)) <= Cardinality(Admitted(AddressOf[r], s, t)')
        /\ Cardinality(Admitted(AddressOf[r], s, t)) \in Nat
        /\ Cardinality(Admitted(AddressOf[r], s, t)') \in Nat
    BY <2>1, FS_Subset, FS_CardinalityType
  <2>3. QED
    BY <1>1, <2>2, Parameters DEF Count
<1>2. CASE req'[r] = req[r]
  <2>1. PICK s \in 0..req[r].at :
           /\ req[r].at - s < BurstSize * Interval
           /\ Count(AddressOf[r], s, req[r].at) >= BurstSize
    BY <1>2 DEF RefusedOverLimit, Count
  <2>2. s \in Nat
    BY <1>0
  <2>3. QED
    BY <1>0, <1>1, <1>2, <2>1, <2>2
<1>3. CASE Refuse(r) /\ req'[r].at = now
  <2>1. ~HasToken(AddressOf[r])
    BY <1>3 DEF Refuse, Bucket
  <2>2. PICK s \in 0..now : /\ now - s < BurstSize * Interval
                            /\ Count(AddressOf[r], s, now) >= BurstSize
    BY <1>0, <2>1, BurstOfCore
  <2>3. s \in Nat
    BY <1>0
  <2>4. QED
    BY <1>0, <1>1, <1>3, <2>2, <2>3
<1>4. QED
  BY <1>2, <1>3, StepEffect

\* It refuses a request only after its address has had a burst, within the time in
\* which a burst comes back; requests of other addresses do not count.
THEOREM RefusedCorrect == Spec => []RefusedOverLimit
<1>1. Init => RefusedOverLimit
  BY DEF Init, RefusedOverLimit
<1>2. Core /\ RefusedOverLimit /\ [Next]_vars => RefusedOverLimit'
  BY RefusedStep
<1>3. QED
  BY <1>1, <1>2, CoreCorrect, PTL DEF Spec

=============================================================================
