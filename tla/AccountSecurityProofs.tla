------------------------- MODULE AccountSecurityProofs -------------------------
(***************************************************************************)
(* What limits guesses, key chains and erasure requests, for any number of *)
(* calls at a time and any limits.  Three inductive invariants, one for    *)
(* each: the throttle's log, the wrong codes, the API keys.                *)
(***************************************************************************)
EXTENDS AccountSecurity, FiniteSetTheorems, SequenceTheorems, TLAPS

-----------------------------------------------------------------------------
(* The throttle: rows are in the order of their age, stated so that every  *)
(* cutoff parts them at one place, and the newest are those of the         *)
(* requests that were let through within the window.                       *)

OldestFirst(s) ==
    \A age \in Nat : \E k \in 0 .. Len(s) : \A i \in 1 .. Len(s) : s[i] > age <=> i <= k

LetIsLogged ==
    LET older == Len(log) - Len(let) IN
    /\ older >= 0
    /\ \A i \in 1 .. Len(let) : let[i] = log[older + i]
    /\ \A i \in 1 .. older : log[i] > Window

ThrottleInv ==
    /\ log \in Seq(Nat) /\ let \in Seq(0 .. Window)
    /\ OldestFirst(log)
    /\ LetIsLogged
    /\ WindowHolds

-----------------------------------------------------------------------------
(* The codes: failures that the row counts, those of calls that still have *)
(* a dropped code in hand, and those whose count was lost.                 *)

OnFile(c) == mfa # None /\ mfa.code = c
Pending(c) == {h \in Handlers : calls[h].step = "wrong" /\ calls[h].code = c}

FailsCounted ==
    \A c \in Codes :
       /\ OnFile(c) => wrong[c] <= mfa.fails + slips
       /\ ~OnFile(c) /\ c <= codes =>
             wrong[c] + Cardinality(Pending(c))
                <= MaxFails + (Cardinality(Handlers) - 1) + slips
       /\ c > codes => wrong[c] = 0

-----------------------------------------------------------------------------
(* The keys: a rotation whose snapshot still holds has a live key, and a   *)
(* chain is named after its first key.                                     *)

RotatesLive ==
    \A h \in Handlers :
       calls[h].step = "rotating" /\ ~calls[h].stale => keys[calls[h].key].live

ChainsNamed ==
    /\ \A k \in DOMAIN keys : keys[k].chain \in 1 .. Len(keys)
    /\ ended \subseteq 1 .. Len(keys)

KeysInv == RotatesLive /\ ChainsNamed /\ KeysEnd

-----------------------------------------------------------------------------
(* The rows of at most an age, where a cutoff parts the rows at one place. *)
LEMMA YoungerFacts ==
    ASSUME NEW S, NEW s \in Seq(S), NEW age \in Nat, NEW k \in 0 .. Len(s),
           \A i \in 1 .. Len(s) : s[i] > age <=> i <= k,
           \A i \in 1 .. Len(s) : s[i] \in Nat
    PROVE  /\ Cardinality(Recent(s, age)) = Len(s) - k
           /\ Younger(s, age) = SubSeq(s, k + 1, Len(s))
           /\ Younger(s, age) \in Seq(S) /\ Len(Younger(s, age)) = Len(s) - k
           /\ \A i \in 1 .. Len(s) - k : Younger(s, age)[i] = s[k + i]
<1>1. Len(s) \in Nat /\ DOMAIN s = 1 .. Len(s) /\ \A i \in 1 .. Len(s) : s[i] \in S
  BY LenProperties, ElementOfSeq
<1>2. Recent(s, age) = k + 1 .. Len(s)
  BY <1>1 DEF Recent
<1>3. Cardinality(k + 1 .. Len(s)) = IF k + 1 > Len(s) THEN 0 ELSE Len(s) - (k + 1) + 1
  <2>1. k + 1 \in Int /\ Len(s) \in Int
    BY <1>1
  <2>2. QED
    BY ONLY <2>1, FS_Interval, Zenon
<1>4. Cardinality(Recent(s, age)) = Len(s) - k
  <2>1. CASE k < Len(s)
    BY <1>1, <1>2, <1>3, <2>1
  <2>2. CASE k = Len(s)
    <3>1. k + 1 > Len(s) /\ Len(s) - k = 0
      BY <1>1, <2>2
    <3>2. QED
      BY <1>2, <1>3, <3>1
  <2>3. k < Len(s) \/ k = Len(s)
    <3>1. k \in Int /\ Len(s) \in Int /\ k <= Len(s)
      BY <1>1
    <3>2. QED
      BY ONLY <3>1
  <2>4. QED
    BY ONLY <2>1, <2>2, <2>3
<1>5. Len(s) - Cardinality(Recent(s, age)) + 1 = k + 1
  BY <1>1, <1>4
<1>6. Younger(s, age) = SubSeq(s, k + 1, Len(s))
  BY <1>5 DEF Younger
<1> DEFINE t == Younger(s, age)
<1>7. \A i \in k + 1 .. Len(s) : s[i] \in S
  BY <1>1
<1>8. /\ t \in Seq(S)
      /\ Len(t) = IF k + 1 <= Len(s) THEN Len(s) - (k + 1) + 1 ELSE 0
      /\ \A i \in 1 .. Len(s) - (k + 1) + 1 : t[i] = s[(k + 1) + i - 1]
  BY <1>1, <1>6, <1>7, SubSeqProperties
<1> HIDE DEF t
<1>9. Len(t) = Len(s) - k
  <2>1. CASE k < Len(s)
    <3>1. k + 1 <= Len(s) /\ Len(s) - (k + 1) + 1 = Len(s) - k
      BY <1>1, <2>1
    <3>2. QED
      BY <1>8, <3>1
  <2>2. CASE k = Len(s)
    <3>1. ~(k + 1 <= Len(s)) /\ Len(s) - k = 0
      BY <1>1, <2>2
    <3>2. QED
      BY <1>8, <3>1
  <2>3. k < Len(s) \/ k = Len(s)
    <3>1. k \in Int /\ Len(s) \in Int /\ k <= Len(s)
      BY <1>1
    <3>2. QED
      BY ONLY <3>1
  <2>4. QED
    BY ONLY <2>1, <2>2, <2>3
<1>10. ASSUME NEW i \in 1 .. Len(s) - k PROVE t[i] = s[k + i]
  <2>1. i \in 1 .. Len(s) - (k + 1) + 1 /\ (k + 1) + i - 1 = k + i
    BY <1>1
  <2>2. QED
    BY <1>8, <2>1
<1>11. QED
  BY <1>4, <1>6, <1>8, <1>9, <1>10 DEF t

(* The newest rows of a sequence.                                          *)
LEMMA NewestFacts ==
    ASSUME NEW S, NEW s \in Seq(S), NEW n \in 0 .. Len(s)
    PROVE  LET t == SubSeq(s, Len(s) - n + 1, Len(s)) IN
           /\ t \in Seq(S) /\ Len(t) = n
           /\ \A i \in 1 .. n : t[i] = s[Len(s) - n + i]
<1> DEFINE m == Len(s) - n + 1
           t == SubSeq(s, m, Len(s))
<1>1. Len(s) \in Nat /\ m \in Int /\ \A i \in m .. Len(s) : s[i] \in S
  BY LenProperties, ElementOfSeq
<1>2. /\ t \in Seq(S)
      /\ Len(t) = IF m <= Len(s) THEN Len(s) - m + 1 ELSE 0
      /\ \A i \in 1 .. Len(s) - m + 1 : t[i] = s[m + i - 1]
  BY <1>1, SubSeqProperties
<1> HIDE DEF t
<1>3. Len(t) = n
  BY <1>1, <1>2
<1>4. ASSUME NEW i \in 1 .. n PROVE t[i] = s[Len(s) - n + i]
  <2>1. i \in 1 .. Len(s) - m + 1 /\ m + i - 1 = Len(s) - n + i
    BY <1>1
  <2>2. QED
    BY <1>2, <2>1
<1>5. QED
  BY <1>2, <1>3, <1>4 DEF t

(* How many attempts count: those that were let through.                   *)
LEMMA CountedFacts ==
    ASSUME ThrottleInv
    PROVE  /\ Counted = Len(let) /\ Len(let) \in Nat /\ Len(log) \in Nat
           /\ Len(let) <= Len(log)
<1>1. log \in Seq(Nat) /\ Len(let) \in Nat /\ Len(log) \in Nat /\ Len(let) <= Len(log)
  BY LenProperties DEF ThrottleInv, LetIsLogged
<1> DEFINE k == Len(log) - Len(let)
<1>2. k \in 0 .. Len(log)
  BY <1>1
<1>3. \A i \in 1 .. Len(log) : log[i] \in Nat
  BY <1>1, ElementOfSeq
<1>4. ASSUME NEW i \in 1 .. Len(log) PROVE log[i] > Window <=> i <= k
  <2>1. CASE i <= k
    BY <1>2, <2>1 DEF ThrottleInv, LetIsLogged
  <2>2. CASE i > k
    <3>1. i - k \in 1 .. Len(let) /\ k + (i - k) = i
      BY <1>1, <1>2, <2>2
    <3>2. let[i - k] = log[i] /\ let[i - k] \in 0 .. Window
      BY <3>1, ElementOfSeq DEF ThrottleInv, LetIsLogged
    <3>3. QED
      BY <1>3, <2>2, <3>2, AuthThrottleAssumption
  <2>3. QED
    BY <1>2, <2>1, <2>2
<1>5. Len(Younger(log, Window)) = Len(log) - k
  <2> HIDE DEF k
  <2>1. QED
    BY <1>1, <1>2, <1>3, <1>4, YoungerFacts, AuthThrottleAssumption
<1>6. QED
  BY <1>1, <1>5 DEF Counted

(* What pruning leaves: the newest rows, all that count among them.        *)
LEMMA PrunedFacts ==
    ASSUME ThrottleInv, Counted < MaxAttempts
    PROVE  \E m \in Len(let) .. Len(log) :
              /\ Capped(Kept) \in Seq(Nat) /\ Len(Capped(Kept)) = m
              /\ \A i \in 1 .. m : Capped(Kept)[i] = log[Len(log) - m + i]
<1> DEFINE n == Len(log)
<1>1. /\ n \in Nat /\ Len(let) \in Nat /\ Len(let) <= n /\ Counted = Len(let)
      /\ log \in Seq(Nat) /\ \A i \in 1 .. n : log[i] \in Nat
  BY CountedFacts, LenProperties, ElementOfSeq DEF ThrottleInv
<1>2. PICK k \in 0 .. n : \A i \in 1 .. n : log[i] > Retention <=> i <= k
  BY AuthThrottleAssumption DEF ThrottleInv, OldestFirst
<1>3. Retention \in Nat /\ Window \in Nat /\ VolumeCap \in Nat /\ MaxAttempts \in Nat
      /\ Window <= Retention /\ MaxAttempts <= VolumeCap
  BY AuthThrottleAssumption
<1>4. /\ Kept \in Seq(Nat) /\ Len(Kept) = n - k
      /\ \A i \in 1 .. n - k : Kept[i] = log[k + i]
  BY <1>1, <1>2, <1>3, YoungerFacts DEF Kept
<1>5. Len(let) <= n - k
  <2> SUFFICES ASSUME Len(let) > n - k PROVE FALSE
    BY <1>1
  <2> DEFINE j == n - Len(let) + 1
  <2>1. j \in 1 .. n /\ j <= k /\ 1 \in 1 .. Len(let) /\ j = n - Len(let) + 1
    BY <1>1
  <2> HIDE DEF j
  <2>2. log[j] > Retention
    BY <1>2, <2>1
  <2>3. let[1] = log[j]
    BY <2>1 DEF ThrottleInv, LetIsLogged
  <2>4. let[1] \in 0 .. Window
    BY <2>1, ElementOfSeq DEF ThrottleInv
  <2>5. QED
    BY <1>3, <2>2, <2>3, <2>4
<1> HIDE DEF n
<1>6. CASE Capped(Kept) = Kept
  <2>1. n - k \in Len(let) .. n /\ n - (n - k) = k
    BY <1>1, <1>5
  <2> DEFINE m == n - k
  <2>2. \A i \in 1 .. m : Kept[i] = log[n - m + i]
    BY <1>4, <2>1
  <2>3. QED
    BY <1>4, <1>6, <2>1, <2>2 DEF n
<1>7. CASE Capped(Kept) # Kept
  <2>1. Len(Kept) > VolumeCap /\ Capped(Kept) = Newest(Kept)
    BY <1>7 DEF Capped
  <2>2. VolumeCap \in Len(let) .. n /\ VolumeCap \in 0 .. Len(Kept)
    BY <1>1, <1>3, <1>4, <2>1
  <2>3. /\ Newest(Kept) \in Seq(Nat) /\ Len(Newest(Kept)) = VolumeCap
        /\ \A i \in 1 .. VolumeCap : Newest(Kept)[i] = Kept[Len(Kept) - VolumeCap + i]
    BY <1>4, <2>2, NewestFacts DEF Newest
  <2>4. ASSUME NEW i \in 1 .. VolumeCap PROVE Newest(Kept)[i] = log[n - VolumeCap + i]
    <3> DEFINE j == Len(Kept) - VolumeCap + i
    <3>1. j \in 1 .. n - k /\ k + j = n - VolumeCap + i
      BY <1>1, <1>3, <1>4, <2>1
    <3>2. QED
      BY <1>4, <2>3, <3>1
  <2>5. QED
    BY <2>1, <2>2, <2>3, <2>4 DEF n
<1>8. QED
  BY <1>6, <1>7

LEMMA LetThroughKeepsThrottle ==
    ASSUME ThrottleInv, LetThrough PROVE ThrottleInv'
<1> DEFINE n == Len(log)
           r == Capped(Kept)
<1>1. /\ n \in Nat /\ Len(let) \in Nat /\ Len(let) <= n /\ Counted = Len(let)
      /\ log \in Seq(Nat) /\ let \in Seq(0 .. Window)
  BY CountedFacts DEF ThrottleInv
<1>2. PICK m \in Len(let) .. n :
         /\ r \in Seq(Nat) /\ Len(r) = m
         /\ \A i \in 1 .. m : r[i] = log[n - m + i]
  BY PrunedFacts DEF LetThrough
<1>3. log' = Append(r, 0) /\ let' = Append(let, 0) /\ Len(let) < MaxAttempts
  BY <1>1 DEF LetThrough
<1> HIDE DEF n, r
<1>4. /\ log' \in Seq(Nat) /\ Len(log') = m + 1
      /\ \A i \in 1 .. m : log'[i] = log[n - m + i]
      /\ log'[m + 1] = 0
  BY <1>2, <1>3, AppendProperties
<1>5. /\ let' \in Seq(0 .. Window) /\ Len(let') = Len(let) + 1
      /\ \A i \in 1 .. Len(let) : let'[i] = let[i]
      /\ let'[Len(let) + 1] = 0
  BY <1>1, <1>3, AppendProperties, AuthThrottleAssumption
<1>6. OldestFirst(log')
  <2> SUFFICES ASSUME NEW age \in Nat
               PROVE  \E k \in 0 .. Len(log') :
                         \A i \in 1 .. Len(log') : log'[i] > age <=> i <= k
    BY DEF OldestFirst
  <2>1. PICK k \in 0 .. n : \A i \in 1 .. n : log[i] > age <=> i <= k
    BY DEF ThrottleInv, OldestFirst, n
  <2> DEFINE d == n - m
             j == IF k >= d THEN k - d ELSE 0
  <2>2. j \in 0 .. m /\ d \in Nat /\ n = d + m /\ m \in Nat /\ d <= n
    BY <1>1, <1>2
  <2>3. \A i \in Int : i >= 1 => (i <= j <=> d + i <= k)
    BY <2>2
  <2> HIDE DEF d, j
  <2>4. ASSUME NEW i \in 1 .. m PROVE log'[i] > age <=> i <= j
    <3>1. d + i \in 1 .. n /\ log'[i] = log[d + i]
      BY <1>4, <2>2 DEF d
    <3>2. QED
      BY <2>1, <2>2, <2>3, <3>1
  <2>5. ~(log'[m + 1] > age) /\ ~(m + 1 <= j)
    BY <1>4, <2>2
  <2>6. \A i \in 1 .. m + 1 : i \in 1 .. m \/ i = m + 1
    BY <2>2
  <2>7. j \in 0 .. m + 1
    BY <2>2
  <2>8. QED
    BY <1>4, <2>4, <2>5, <2>6, <2>7
<1>7. LetIsLogged'
  <2> DEFINE older == Len(log') - Len(let')
  <2>1. older = m - Len(let) /\ older \in Nat /\ n - Len(let) >= 0
    BY <1>1, <1>2, <1>4, <1>5
  <2> HIDE DEF older
  <2>2. ASSUME NEW i \in 1 .. Len(let') PROVE let'[i] = log'[older + i]
    <3>1. CASE i \in 1 .. Len(let)
      <4>1. older + i \in 1 .. m /\ n - m + (older + i) = n - Len(let) + i
        BY <1>1, <1>2, <2>1, <3>1
      <4>2. let[i] = log[n - Len(let) + i]
        BY <3>1 DEF ThrottleInv, LetIsLogged, n
      <4>3. QED
        BY <1>4, <1>5, <3>1, <4>1, <4>2
    <3>2. CASE i = Len(let) + 1
      <4>1. older + i = m + 1
        BY <1>1, <1>2, <2>1, <3>2
      <4>2. QED
        BY <1>4, <1>5, <3>2, <4>1
    <3>3. i \in 1 .. Len(let) \/ i = Len(let) + 1
      BY <1>1, <1>5
    <3>4. QED
      BY <3>1, <3>2, <3>3
  <2>3. ASSUME NEW i \in 1 .. older PROVE log'[i] > Window
    <3>1. i \in 1 .. m /\ n - m + i \in 1 .. n - Len(let)
      BY <1>1, <1>2, <2>1
    <3>2. QED
      BY <1>4, <3>1 DEF ThrottleInv, LetIsLogged, n
  <2>4. QED
    BY <2>1, <2>2, <2>3 DEF LetIsLogged, older
<1>8. WindowHolds'
  BY <1>1, <1>3, <1>5, AuthThrottleAssumption DEF WindowHolds
<1>9. QED
  BY <1>4, <1>5, <1>6, <1>7, <1>8 DEF ThrottleInv, OldestFirst

LEMMA ThrottleAgesKeepsThrottle ==
    ASSUME ThrottleInv, ThrottleAges PROVE ThrottleInv'
<1> DEFINE n == Len(log)
           older == n - Len(let)
<1>1. /\ n \in Nat /\ Len(let) \in Nat /\ older \in Nat /\ older + Len(let) = n
      /\ log \in Seq(Nat) /\ let \in Seq(0 .. Window)
      /\ DOMAIN log = 1 .. n /\ DOMAIN let = 1 .. Len(let)
      /\ \A i \in 1 .. n : log[i] \in Nat
      /\ \A i \in 1 .. Len(let) : let[i] \in 0 .. Window
  <2>1. log \in Seq(Nat) /\ let \in Seq(0 .. Window)
    BY DEF ThrottleInv
  <2>2. n \in Nat /\ Len(let) \in Nat /\ Len(let) <= n
    BY CountedFacts
  <2> HIDE DEF n
  <2>3. older \in Nat /\ older + Len(let) = n
    BY <2>2
  <2>4. DOMAIN log = 1 .. n /\ DOMAIN let = 1 .. Len(let)
    BY <2>1, LenProperties DEF n
  <2>5. \A i \in 1 .. n : log[i] \in Nat
    BY <2>1, ElementOfSeq DEF n
  <2>6. \A i \in 1 .. Len(let) : let[i] \in 0 .. Window
    BY <2>1, ElementOfSeq
  <2>7. QED
    BY <2>1, <2>2, <2>3, <2>4, <2>5, <2>6
<1>2. Retention \in Nat /\ Window \in Nat /\ Window <= Retention
  BY AuthThrottleAssumption
<1>3. /\ \A i \in 1 .. Len(let) : let[i] = log[older + i]
      /\ \A i \in 1 .. older : log[i] > Window
  BY DEF ThrottleInv, LetIsLogged
<1>4. /\ log' = [i \in 1 .. n |-> IF log[i] > Retention THEN log[i] ELSE log[i] + 1]
      /\ let' = Younger(Aged(let), Window)
  BY <1>1 DEF ThrottleAges
<1> HIDE DEF n, older
<1>5. log' \in Seq(Nat) /\ Len(log') = n
  BY <1>1, <1>4
<1>6. \A i \in 1 .. n : log'[i] = IF log[i] > Retention THEN log[i] ELSE log[i] + 1
  BY <1>4
<1>7. OldestFirst(log')
  <2> SUFFICES ASSUME NEW age \in Nat
               PROVE  \E k \in 0 .. n : \A i \in 1 .. n : log'[i] > age <=> i <= k
    BY <1>5 DEF OldestFirst
  <2>1. CASE age = 0
    <3>1. \A i \in 1 .. n : log'[i] > age <=> i <= n
      BY <1>1, <1>2, <1>6, <2>1, SMTT(30)
    <3>2. n \in 0 .. n
      BY <1>1
    <3>3. QED
      BY <3>1, <3>2
  <2>2. CASE age > Retention
    <3>1. PICK k \in 0 .. n : \A i \in 1 .. n : log[i] > age <=> i <= k
      BY DEF ThrottleInv, OldestFirst, n
    <3>2. \A i \in 1 .. n : log'[i] > age <=> log[i] > age
      BY <1>1, <1>2, <1>6, <2>2, SMTT(30)
    <3>3. QED
      BY <3>1, <3>2
  <2>3. CASE age # 0 /\ age <= Retention
    <3>1. age - 1 \in Nat
      BY <2>3
    <3>2. PICK k \in 0 .. n : \A i \in 1 .. n : log[i] > age - 1 <=> i <= k
      BY <3>1 DEF ThrottleInv, OldestFirst, n
    <3>3. ASSUME NEW i \in 1 .. n PROVE log'[i] > age <=> log[i] > age - 1
      <4> DEFINE x == log[i]
                 y == log'[i]
      <4>1. x \in Nat /\ y = IF x > Retention THEN x ELSE x + 1
        BY <1>1, <1>6
      <4> HIDE DEF x, y
      <4>2. y > age <=> x > age - 1
        BY <1>2, <2>3, <4>1
      <4>3. QED
        BY <4>2 DEF x, y
    <3>4. QED
      BY <3>2, <3>3
  <2>4. QED
    BY <1>2, <2>1, <2>2, <2>3
<1>8. PICK k \in 0 .. n : \A i \in 1 .. n : log'[i] > Window <=> i <= k
  BY <1>2, <1>5, <1>7 DEF OldestFirst
<1>9. older <= k
  <2>1. CASE older = 0
    BY <1>8, <2>1
  <2>2. CASE older # 0
    <3>1. older \in 1 .. older /\ older \in 1 .. n
      BY <1>1, <2>2
    <3>2. log'[older] > Window
      BY <1>1, <1>2, <1>3, <1>6, <3>1
    <3>3. QED
      BY <1>8, <3>1, <3>2
  <2>3. QED
    BY <2>1, <2>2
<1> DEFINE s == Aged(let)
           d == k - older
<1>10. /\ s \in Seq(Nat) /\ Len(s) = Len(let)
       /\ \A i \in 1 .. Len(let) : s[i] = let[i] + 1
  BY <1>1 DEF Aged
<1> HIDE DEF s
<1>11. d \in 0 .. Len(let) /\ Len(let) - d = n - k /\ d + older = k
  BY <1>1, <1>8, <1>9
<1> HIDE DEF d
<1>12. ASSUME NEW i \in 1 .. Len(let)
       PROVE  older + i \in 1 .. n /\ s[i] = log'[older + i]
  <2>1. older + i \in 1 .. n
    BY <1>1
  <2>2. let[i] = log[older + i] /\ let[i] \in 0 .. Window
    BY <1>1, <1>3
  <2>3. ~(log[older + i] > Retention)
    BY <1>2, <2>2
  <2>4. log'[older + i] = log[older + i] + 1
    BY <1>6, <2>1, <2>3
  <2>5. QED
    BY <1>10, <2>1, <2>2, <2>4
<1>13. ASSUME NEW i \in 1 .. Len(let) PROVE s[i] > Window <=> i <= d
  <2>1. older + i <= k <=> i <= d
    BY <1>1, <1>11
  <2>2. QED
    BY <1>8, <1>12, <2>1
<1>14. /\ let' \in Seq(Nat) /\ Len(let') = Len(let) - d
       /\ \A i \in 1 .. Len(let) - d : let'[i] = s[d + i]
  <2>1. \A i \in 1 .. Len(s) : s[i] > Window <=> i <= d
    BY <1>10, <1>13
  <2>2. \A i \in 1 .. Len(s) : s[i] \in Nat
    BY <1>10, ElementOfSeq
  <2>3. let' = Younger(s, Window) /\ d \in 0 .. Len(s)
    BY <1>4, <1>10, <1>11 DEF s
  <2>4. /\ Younger(s, Window) \in Seq(Nat) /\ Len(Younger(s, Window)) = Len(s) - d
        /\ \A i \in 1 .. Len(s) - d : Younger(s, Window)[i] = s[d + i]
    BY <1>2, <1>10, <2>1, <2>2, <2>3, YoungerFacts, ZenonT(60)
  <2>5. QED
    BY <1>10, <2>3, <2>4
<1>15. ASSUME NEW i \in 1 .. Len(let')
       PROVE  let'[i] = log'[k + i] /\ let'[i] \in 0 .. Window
  <2> DEFINE m == Len(let)
             p == Len(let')
  <2>a. /\ m \in Nat /\ older \in Nat /\ d \in 0 .. m /\ d + older = k
        /\ p = m - d /\ i \in 1 .. p
    BY <1>1, <1>11, <1>14
  <2> HIDE DEF m, p
  <2>b. d + i \in 1 .. m /\ ~(d + i <= d) /\ older + (d + i) = k + i
    BY ONLY <2>a, k \in 0 .. n, SMT
  <2>1. d + i \in 1 .. Len(let) /\ ~(d + i <= d) /\ older + (d + i) = k + i
    BY <2>b DEF m
  <2>2. let'[i] = s[d + i] /\ s[d + i] \in Nat
    BY <1>10, <1>14, <2>1, ElementOfSeq
  <2>3. ~(s[d + i] > Window) /\ s[d + i] = log'[k + i]
    BY <1>12, <1>13, <2>1
  <2>4. QED
    BY <1>2, <2>2, <2>3
<1>16. let' \in Seq(0 .. Window)
  <2>1. DOMAIN let' = 1 .. Len(let') /\ Len(let') \in Nat
    BY <1>14, LenProperties
  <2>2. let' = [i \in 1 .. Len(let') |-> let'[i]]
    BY <1>14, <2>1
  <2>3. let' \in [1 .. Len(let') -> 0 .. Window]
    BY <1>15, <2>2
  <2>4. QED
    BY <2>1, <2>3, SeqDef
<1>17. LetIsLogged'
  <2>1. Len(log') - Len(let') = k /\ k >= 0
    BY <1>1, <1>5, <1>8, <1>11, <1>14
  <2>2. \A i \in 1 .. k : log'[i] > Window
    <3>1. \A i \in 1 .. k : i \in 1 .. n /\ i <= k
      BY <1>1
    <3>2. QED
      BY <1>8, <3>1
  <2>3. QED
    BY <1>15, <2>1, <2>2 DEF LetIsLogged
<1>18. WindowHolds'
  BY <1>1, <1>11, <1>14, AuthThrottleAssumption DEF ThrottleInv, WindowHolds
<1>19. QED
  BY <1>5, <1>7, <1>16, <1>17, <1>18 DEF ThrottleInv, OldestFirst

(* Only requests to be erased and time touch the throttle.                 *)
LEMMA ThrottleStep == ThrottleInv /\ [Next]_vars => ThrottleInv'
<1> SUFFICES ASSUME ThrottleInv, [Next]_vars PROVE ThrottleInv'
  OBVIOUS
<1>1. CASE UNCHANGED <<log, let>>
  BY <1>1 DEF ThrottleInv, OldestFirst, LetIsLogged, WindowHolds
<1>2. CASE LetThrough
  BY <1>2, LetThroughKeepsThrottle
<1>3. CASE ThrottleAges
  BY <1>3, ThrottleAgesKeepsThrottle
<1>4. UNCHANGED <<log, let>> \/ LetThrough \/ ThrottleAges
  <2>1. CASE UNCHANGED vars
    BY <2>1 DEF vars
  <2>2. ASSUME NEW h \in Handlers, Step(h)
        PROVE  UNCHANGED <<log, let>> \/ LetThrough
    BY <2>2 DEF Step, Admit, Fail, Setup, ChallengeRead, ChallengeInsert, ChallengeIssue,
                VerifyRead, VerifyWrong, VerifyRight, DisableRead, DisableWrite,
                KeyCreate, KeyRevoke, RotateRead, RotateCommit, RotateFails,
                EraseAsk, Erase, EraseFails, Refuse, throttleVars
  <2>3. CASE TimePasses
    BY <2>3 DEF TimePasses
  <2>4. QED
    BY <2>1, <2>2, <2>3 DEF Next
<1>5. QED
  BY <1>1, <1>2, <1>3, <1>4

LEMMA ThrottleInitHolds == Init => ThrottleInv
<1> SUFFICES ASSUME log = <<>>, let = <<>> PROVE ThrottleInv
  BY DEF Init, ThrottleInit
<1>1. Len(log) = 0 /\ Len(let) = 0 /\ log \in Seq(Nat) /\ let \in Seq(0 .. Window)
  BY EmptySeq
<1>2. OldestFirst(log)
  BY <1>1 DEF OldestFirst
<1>3. QED
  BY <1>1, <1>2, AuthThrottleAssumption DEF ThrottleInv, LetIsLogged, WindowHolds

-----------------------------------------------------------------------------
(* What a step does to the calls: the other calls go on, except that a     *)
(* write makes their snapshots stale.                                      *)
KeyRow == [chain : Keys, live : BOOLEAN]

LEMMA StaleFacts ==
    ASSUME NEW call \in Call
    PROVE  /\ Stale(call) \in Call
           /\ Stale(call).step = call.step
           /\ call.step \in {"right", "wrong"} => Stale(call).code = call.code
           /\ call.step = "rotating" => Stale(call).key = call.key /\ Stale(call).stale
<1>1. CASE call.step = "rotating"
  <2>1. call \in [step : {"rotating"}, key : Keys, stale : BOOLEAN]
    BY <1>1 DEF Call, Ops
  <2>2. Stale(call) = [call EXCEPT !.stale = TRUE]
    BY <1>1 DEF Stale
  <2>3. /\ Stale(call) \in [step : {"rotating"}, key : Keys, stale : BOOLEAN]
        /\ Stale(call).step = call.step /\ Stale(call).key = call.key
        /\ Stale(call).stale = TRUE
    BY <2>1, <2>2
  <2>4. QED
    BY <1>1, <2>3 DEF Call
<1>2. CASE call.step # "rotating"
  BY <1>2 DEF Stale
<1>3. QED
  BY <1>1, <1>2

LEMMA CallFields ==
    ASSUME NEW call \in Call
    PROVE  /\ call.step \in {"right", "wrong"} => call.code \in Codes
           /\ call.step = "rotating" => call.key \in Keys /\ call.stale \in BOOLEAN
BY DEF Call, Ops

LEMMA OtherCalls ==
    ASSUME TypeOK, NEW h \in Handlers, Step(h)
    PROVE  /\ calls' = [g \in Handlers |-> calls'[g]]
           /\ \/ /\ \A g \in Handlers \ {h} : calls'[g] = calls[g]
                 /\ UNCHANGED <<active, mfa, codes, keys, ended>>
              \/ \A g \in Handlers \ {h} : calls'[g] = Stale(calls[g])
<1>1. calls = [g \in Handlers |-> calls[g]]
  BY DEF TypeOK
<1> DEFINE Went == /\ calls' = [g \in Handlers |-> calls'[g]]
                   /\ \A g \in Handlers \ {h} : calls'[g] = calls[g]
           WroteOver == /\ calls' = [g \in Handlers |-> calls'[g]]
                        /\ \A g \in Handlers \ {h} : calls'[g] = Stale(calls[g])
           Rest == UNCHANGED <<active, mfa, codes, keys, ended>>
<1>2. ASSUME NEW local, Goto(h, local) PROVE Went
  BY <1>1, <1>2 DEF Goto
<1>3. ASSUME NEW local, Wrote(h, local) PROVE WroteOver
  BY <1>3 DEF Wrote
<1> HIDE DEF Went, WroteOver
<1>4. CASE Admit(h)
  BY <1>2, <1>4 DEF Admit, customer, Rest, Went
<1>5. CASE Fail(h)
  BY <1>2, <1>5 DEF Fail, Done, Rest, Went
<1>6. CASE ChallengeRead(h)
  BY <1>2, <1>6 DEF ChallengeRead, customer, Rest, Went
<1>7. CASE VerifyRead(h)
  BY <1>2, <1>7 DEF VerifyRead, Done, customer, Rest, Went
<1>8. CASE DisableRead(h)
  BY <1>2, <1>8 DEF DisableRead, Done, customer, Rest, Went
<1>9. CASE RotateRead(h) \/ RotateFails(h)
  BY <1>2, <1>9 DEF RotateRead, RotateFails, Done, customer, Rest, Went
<1>10. CASE EraseFails(h)
  BY <1>2, <1>10 DEF EraseFails, Done, customer, Rest, Went
<1>11. CASE Setup(h) \/ ChallengeIssue(h) \/ VerifyWrong(h) \/ VerifyRight(h)
  BY <1>3, <1>11 DEF Setup, ChallengeIssue, VerifyWrong, VerifyRight, WroteOver
<1>12. CASE DisableWrite(h) \/ KeyCreate(h) \/ RotateCommit(h) \/ Erase(h)
  BY <1>3, <1>12 DEF DisableWrite, KeyCreate, RotateCommit, Erase, WroteOver
<1>13. CASE ChallengeInsert(h)
  BY <1>2, <1>3, <1>13 DEF ChallengeInsert, Done, Rest, Went, WroteOver
<1>14. CASE KeyRevoke(h)
  BY <1>2, <1>3, <1>14 DEF KeyRevoke, Done, Rest, Went, WroteOver
<1>15. CASE EraseAsk(h)
  BY <1>2, <1>3, <1>15 DEF EraseAsk, Done, customer, Rest, Went, WroteOver
<1>16. QED
  BY <1>4, <1>5, <1>6, <1>7, <1>8, <1>9, <1>10, <1>11, <1>12, <1>13, <1>14, <1>15 DEF Step

(* A call that has a code in hand or a key to rotate has just read it.     *)
LEMMA OwnCall ==
    ASSUME TypeOK, NEW h \in Handlers, Step(h)
    PROVE  /\ calls'[h] \in Call
           /\ calls'[h].step \in {"right", "wrong"} =>
                 /\ HasCode /\ calls'[h].code = mfa.code /\ calls[h].step = "verify"
                 /\ UNCHANGED <<customer, slips>>
           /\ calls'[h].step = "rotating" =>
                 /\ calls'[h].key \in LiveKeys
                 /\ UNCHANGED keys
<1>1. calls \in [Handlers -> Call]
  BY DEF TypeOK
<1>2. ASSUME NEW local, Goto(h, local) \/ Wrote(h, local) PROVE calls'[h] = local
  BY <1>1, <1>2 DEF Goto, Wrote
<1> DEFINE Plain == /\ calls'[h] \in Call
                    /\ calls'[h].step \notin {"right", "wrong", "rotating"}
<1>3. ASSUME NEW step \in Ops \cup {"idle", "insert", "issue", "disabling", "erasing"},
             Goto(h, [step |-> step]) \/ Wrote(h, [step |-> step])
      PROVE  Plain
  <2>1. calls'[h] = [step |-> step]
    BY <1>2, <1>3
  <2>2. QED
    BY <2>1 DEF Call, Ops
<1>4. ASSUME Done(h) \/ Wrote(h, Idle) PROVE Plain
  BY <1>3, <1>4 DEF Done, Idle
<1> HIDE DEF Plain
<1>5. CASE Admit(h)
  BY <1>3, <1>5 DEF Admit, Plain
<1>6. CASE ChallengeRead(h)
  BY <1>3, <1>6 DEF ChallengeRead, Plain
<1>7. CASE ChallengeInsert(h)
  BY <1>3, <1>4, <1>7 DEF ChallengeInsert, Plain
<1>8. CASE VerifyRead(h)
  <2>1. CASE Done(h)
    BY <1>4, <2>1 DEF Plain
  <2>2. ASSUME NEW outcome \in {"right", "wrong"}, HasCode,
               Goto(h, [step |-> outcome, code |-> mfa.code])
        PROVE  /\ calls'[h] \in Call /\ calls'[h].step # "rotating"
               /\ HasCode /\ calls'[h].code = mfa.code
    <3>1. calls'[h] = [step |-> outcome, code |-> mfa.code]
      BY <1>2, <2>2
    <3>2. mfa.code \in Codes
      BY <2>2 DEF HasCode, TypeOK, Row
    <3>3. QED
      BY <2>2, <3>1, <3>2 DEF Call
  <2>3. calls[h].step = "verify" /\ UNCHANGED <<customer, slips>>
    BY <1>8 DEF VerifyRead
  <2>4. QED
    BY <1>8, <2>1, <2>2, <2>3 DEF VerifyRead, Plain
<1>9. CASE DisableRead(h)
  BY <1>3, <1>4, <1>9 DEF DisableRead, Plain
<1>10. CASE RotateRead(h)
  <2>1. CASE Done(h)
    BY <1>4, <2>1 DEF Plain
  <2>2. ASSUME NEW k \in LiveKeys,
               Goto(h, [step |-> "rotating", key |-> k, stale |-> FALSE])
        PROVE  /\ calls'[h] \in Call /\ calls'[h].step = "rotating"
               /\ calls'[h].key \in LiveKeys
    <3>1. calls'[h] = [step |-> "rotating", key |-> k, stale |-> FALSE]
      BY <1>2, <2>2
    <3>2. k \in Keys
      <4>1. DOMAIN keys = 1 .. Len(keys) /\ Len(keys) \in Nat /\ Len(keys) <= MaxKeys
        BY LenProperties DEF TypeOK
      <4>2. k \in DOMAIN keys /\ MaxKeys \in Nat
        BY AccountSecurityAssumption DEF LiveKeys
      <4>3. QED
        BY <4>1, <4>2 DEF Keys
    <3>3. QED
      BY <3>1, <3>2 DEF Call
  <2>3. UNCHANGED keys
    BY <1>10 DEF RotateRead, customer
  <2>4. QED
    BY <1>10, <2>1, <2>2, <2>3 DEF RotateRead, Plain
<1>11. CASE EraseAsk(h)
  BY <1>3, <1>4, <1>11 DEF EraseAsk, Plain
<1>12. CASE Fail(h) \/ RotateFails(h) \/ EraseFails(h)
  BY <1>4, <1>12 DEF Fail, RotateFails, EraseFails, Plain
<1>13. CASE Setup(h) \/ ChallengeIssue(h) \/ VerifyWrong(h) \/ VerifyRight(h)
  BY <1>4, <1>13 DEF Setup, ChallengeIssue, VerifyWrong, VerifyRight, Plain
<1>14. CASE DisableWrite(h) \/ KeyCreate(h) \/ RotateCommit(h) \/ Erase(h) \/ KeyRevoke(h)
  BY <1>4, <1>14 DEF DisableWrite, KeyCreate, RotateCommit, Erase, KeyRevoke, Plain
<1>15. QED
  BY <1>5, <1>6, <1>7, <1>8, <1>9, <1>10, <1>11, <1>12, <1>13, <1>14 DEF Step

-----------------------------------------------------------------------------
(* What a step does to the row of codes.                                   *)
MfaOK == mfa = None \/ /\ mfa \in Row
                       /\ mfa.code # None => mfa.code <= codes /\ mfa.fails < MaxFails

LEMMA RowEffects ==
    ASSUME TypeOK, NEW h \in Handlers, Step(h)
    PROVE  MfaOK' /\ codes' \in 0 .. MaxCodes /\ codes <= codes'
<1>1. MfaOK /\ codes \in 0 .. MaxCodes /\ codes \in Nat /\ MaxCodes \in Nat
  BY AccountSecurityAssumption DEF TypeOK, MfaOK
<1>2. MaxFails \in Nat \ {0} /\ None \notin Nat
  BY AccountSecurityAssumption
<1>3. NewMfa \in Row /\ NewMfa.code = None
  BY DEF NewMfa, Row
<1>4. CASE UNCHANGED <<mfa, codes>>
  BY <1>1, <1>4 DEF MfaOK
<1>5. ASSUME UNCHANGED codes,
             mfa' = IF mfa = None THEN NewMfa ELSE [mfa EXCEPT !.enabled = FALSE]
      PROVE  MfaOK' /\ UNCHANGED codes
  <2>1. CASE mfa = None
    BY <1>3, <1>5, <2>1 DEF MfaOK
  <2>2. CASE mfa # None
    <3>1. mfa \in Row /\ mfa' = [mfa EXCEPT !.enabled = FALSE]
      BY <1>1, <1>5, <2>2 DEF MfaOK
    <3>2. mfa' \in Row /\ mfa'.code = mfa.code /\ mfa'.fails = mfa.fails
      BY <3>1 DEF Row
    <3>3. QED
      BY <1>1, <1>5, <2>2, <3>2 DEF MfaOK
  <2>3. QED
    BY <1>5, <2>1, <2>2
<1>6. ASSUME Answered(TRUE) \/ Answered(FALSE), UNCHANGED codes PROVE MfaOK'
  <2>1. /\ [enabled |-> TRUE, code |-> None, fails |-> 0] \in Row
        /\ [enabled |-> FALSE, code |-> None, fails |-> 0] \in Row
    BY DEF Row
  <2>2. mfa' = None \/ mfa' = [enabled |-> TRUE, code |-> None, fails |-> 0]
        \/ mfa' = [enabled |-> FALSE, code |-> None, fails |-> 0]
    BY <1>6, Zenon DEF Answered
  <2>3. mfa' = None \/ (mfa' \in Row /\ mfa'.code = None)
    <3>1. CASE mfa' = [enabled |-> TRUE, code |-> None, fails |-> 0]
      BY <2>1, <3>1
    <3>2. CASE mfa' = [enabled |-> FALSE, code |-> None, fails |-> 0]
      BY <2>1, <3>2
    <3>3. QED
      BY <2>2, <3>1, <3>2
  <2>4. QED
    BY <2>3 DEF MfaOK
<1>7. CASE Setup(h)
  BY <1>1, <1>5, <1>7 DEF Setup
<1>8. CASE ChallengeInsert(h)
  BY <1>1, <1>3, <1>8 DEF ChallengeInsert, MfaOK
<1>9. CASE ChallengeIssue(h)
  <2>1. codes' = codes + 1 /\ codes' \in Codes /\ codes' \in 0 .. MaxCodes
    BY <1>1, <1>9 DEF ChallengeIssue, Codes
  <2>2. CASE mfa = None
    BY <1>1, <1>9, <2>1, <2>2 DEF ChallengeIssue, MfaOK
  <2>3. CASE mfa # None
    <3>1. mfa \in Row /\ mfa' = [mfa EXCEPT !.code = codes + 1, !.fails = 0]
      BY <1>1, <1>9, <2>3 DEF ChallengeIssue, MfaOK
    <3>2. mfa' \in Row /\ mfa'.code = codes' /\ mfa'.fails = 0
      BY <2>1, <3>1 DEF Row
    <3>3. QED
      BY <1>1, <1>2, <2>1, <3>2 DEF MfaOK
  <2>4. QED
    BY <2>2, <2>3
<1>10. CASE VerifyWrong(h)
  <2>1. UNCHANGED codes /\ mfa' = IF mfa = None THEN None ELSE CountedWrong(mfa)
    BY <1>10 DEF VerifyWrong
  <2>2. CASE mfa = None
    BY <1>1, <2>1, <2>2 DEF MfaOK
  <2>3. CASE mfa # None
    <3>1. mfa \in Row /\ mfa' = CountedWrong(mfa) /\ mfa.fails \in Nat
      BY <1>1, <2>1, <2>3 DEF MfaOK, Row
    <3>2. /\ mfa' \in Row /\ mfa'.fails = mfa.fails + 1
          /\ mfa'.code = IF mfa.fails + 1 >= MaxFails THEN None ELSE mfa.code
      <4> DEFINE left == IF mfa.fails + 1 >= MaxFails THEN None ELSE mfa.code
      <4>1. left \in Codes \cup {None} /\ mfa.fails + 1 \in Nat
        BY <3>1 DEF Row
      <4>2. mfa' = [mfa EXCEPT !.fails = mfa.fails + 1, !.code = left]
        BY <3>1 DEF CountedWrong, Row
      <4> HIDE DEF left
      <4>3. mfa' \in Row /\ mfa'.fails = mfa.fails + 1 /\ mfa'.code = left
        BY <3>1, <4>1, <4>2 DEF Row
      <4>4. QED
        BY <4>3 DEF left
    <3>3. QED
      BY <1>1, <1>2, <2>1, <2>3, <3>1, <3>2 DEF MfaOK
  <2>4. QED
    BY <1>1, <2>1, <2>2, <2>3
<1>11. CASE VerifyRight(h)
  BY <1>1, <1>6, <1>11 DEF VerifyRight
<1>12. CASE DisableWrite(h)
  BY <1>1, <1>6, <1>12 DEF DisableWrite
<1>13. CASE Erase(h)
  BY <1>1, <1>13 DEF Erase, MfaOK
<1>14. CASE \/ Admit(h) \/ Fail(h) \/ ChallengeRead(h) \/ VerifyRead(h) \/ DisableRead(h)
            \/ KeyCreate(h) \/ KeyRevoke(h) \/ RotateRead(h) \/ RotateCommit(h)
            \/ RotateFails(h) \/ EraseAsk(h) \/ EraseFails(h)
  BY <1>4, <1>1, <1>14 DEF Admit, Fail, ChallengeRead, VerifyRead, DisableRead, KeyCreate,
     KeyRevoke, RotateRead, RotateCommit, RotateFails, EraseAsk, EraseFails, customer
<1>15. QED
  BY <1>1, <1>5, <1>7, <1>8, <1>9, <1>10, <1>11, <1>12, <1>13, <1>14 DEF Step

-----------------------------------------------------------------------------
(* What a step does to the keys.                                           *)
KeysOK == keys \in Seq(KeyRow) /\ Len(keys) <= MaxKeys /\ ended \subseteq Keys

LEMMA KeysFacts ==
    ASSUME TypeOK
    PROVE  /\ KeysOK /\ Len(keys) \in Nat /\ MaxKeys \in Nat
           /\ DOMAIN keys = 1 .. Len(keys) /\ DOMAIN keys \subseteq Keys
           /\ \A k \in DOMAIN keys : keys[k] \in KeyRow
<1>1. KeysOK /\ MaxKeys \in Nat
  BY AccountSecurityAssumption DEF TypeOK, KeysOK, KeyRow
<1>2. Len(keys) \in Nat /\ DOMAIN keys = 1 .. Len(keys)
  BY <1>1, LenProperties DEF KeysOK
<1>3. \A k \in DOMAIN keys : keys[k] \in KeyRow
  BY <1>1, <1>2, ElementOfSeq DEF KeysOK
<1>4. QED
  BY <1>1, <1>2, <1>3 DEF KeysOK, Keys

(* The four ways to write the keys.                                        *)
LEMMA CreateFacts ==
    ASSUME TypeOK, NEW h \in Handlers, KeyCreate(h)
    PROVE  LET new == Len(keys) + 1 IN
           /\ keys' \in Seq(KeyRow) /\ Len(keys') = new /\ new <= MaxKeys
           /\ DOMAIN keys' = DOMAIN keys \cup {new}
           /\ \A k \in DOMAIN keys : keys'[k] = keys[k]
           /\ keys'[new].chain = new
           /\ UNCHANGED ended
<1> DEFINE new == Len(keys) + 1
           row == [chain |-> new, live |-> TRUE]
<1>1. keys \in Seq(KeyRow) /\ Len(keys) \in Nat /\ MaxKeys \in Nat
      /\ DOMAIN keys = 1 .. Len(keys)
  BY KeysFacts DEF KeysOK
<1>2. keys' = Append(keys, row) /\ Len(keys) < MaxKeys /\ UNCHANGED ended
  BY DEF KeyCreate
<1>3. row \in KeyRow /\ row.chain = new
  BY <1>1, <1>2 DEF KeyRow, Keys
<1> HIDE DEF row
<1>4. /\ keys' \in Seq(KeyRow) /\ Len(keys') = new
      /\ \A k \in 1 .. Len(keys) : keys'[k] = keys[k]
      /\ keys'[new] = row
  BY <1>1, <1>2, <1>3, AppendProperties
<1>5. DOMAIN keys' = 1 .. new
  BY <1>4, LenProperties
<1>6. 1 .. new = 1 .. Len(keys) \cup {new}
  BY <1>1
<1>7. QED
  BY <1>1, <1>2, <1>3, <1>4, <1>5, <1>6

LEMMA DeadFacts ==
    ASSUME TypeOK, NEW k \in DOMAIN keys
    PROVE  LET dead == [keys EXCEPT ![k].live = FALSE] IN
           /\ dead \in Seq(KeyRow) /\ Len(dead) = Len(keys) /\ DOMAIN dead = DOMAIN keys
           /\ \A j \in DOMAIN keys : dead[j].chain = keys[j].chain
           /\ \A j \in DOMAIN keys : dead[j].live = (keys[j].live /\ j # k)
<1> DEFINE dead == [keys EXCEPT ![k].live = FALSE]
<1>1. /\ keys \in Seq(KeyRow) /\ Len(keys) \in Nat
      /\ DOMAIN keys = 1 .. Len(keys) /\ \A j \in DOMAIN keys : keys[j] \in KeyRow
  BY KeysFacts DEF KeysOK
<1>2. /\ keys = [j \in 1 .. Len(keys) |-> keys[j]]
      /\ dead = [keys EXCEPT ![k] = [keys[k] EXCEPT !.live = FALSE]]
  BY <1>1
<1>3. /\ [keys[k] EXCEPT !.live = FALSE] \in KeyRow
      /\ [keys[k] EXCEPT !.live = FALSE].chain = keys[k].chain
      /\ [keys[k] EXCEPT !.live = FALSE].live = FALSE
  BY <1>1 DEF KeyRow
<1> HIDE DEF dead
<1>4. /\ dead \in [1 .. Len(keys) -> KeyRow]
      /\ dead[k] = [keys[k] EXCEPT !.live = FALSE]
      /\ \A j \in DOMAIN keys : j # k => dead[j] = keys[j]
  BY <1>1, <1>2, <1>3
<1>5. dead \in Seq(KeyRow) /\ DOMAIN dead = 1 .. Len(keys)
  BY <1>1, <1>4, SeqDef
<1>6. Len(dead) = Len(keys)
  BY <1>1, <1>5, LenProperties
<1>7. \A j \in DOMAIN keys : dead[j].chain = keys[j].chain
  BY <1>3, <1>4
<1>8. ASSUME NEW j \in DOMAIN keys PROVE dead[j].live = (keys[j].live /\ j # k)
  <2>1. CASE j = k
    BY <1>3, <1>4, <2>1
  <2>2. CASE j # k
    <3>1. dead[j] = keys[j] /\ keys[j].live \in BOOLEAN
      BY <1>1, <1>4, <2>2 DEF KeyRow
    <3>2. QED
      BY <2>2, <3>1
  <2>3. QED
    BY <2>1, <2>2
<1>9. QED
  BY <1>1, <1>5, <1>6, <1>7, <1>8 DEF dead

LEMMA RotateFacts ==
    ASSUME TypeOK, NEW h \in Handlers, RotateCommit(h)
    PROVE  LET new == Len(keys) + 1
               old == calls[h].key IN
           /\ keys' \in Seq(KeyRow) /\ Len(keys') = new /\ new <= MaxKeys
           /\ DOMAIN keys' = DOMAIN keys \cup {new} /\ old \in DOMAIN keys
           /\ \A k \in DOMAIN keys : keys'[k].chain = keys[k].chain
           /\ \A k \in DOMAIN keys : keys'[k].live = (keys[k].live /\ k # old)
           /\ keys'[new].chain = keys[old].chain
           /\ UNCHANGED ended
<1> DEFINE new == Len(keys) + 1
           old == calls[h].key
           dead == [keys EXCEPT ![old].live = FALSE]
           row == [chain |-> keys[old].chain, live |-> TRUE]
<1>1. /\ keys' = Append(dead, row) /\ Len(keys) < MaxKeys /\ UNCHANGED ended
      /\ old \in DOMAIN keys
  BY DEF RotateCommit, TypeOK
<1> HIDE DEF old
<1>2. /\ Len(keys) \in Nat /\ MaxKeys \in Nat /\ DOMAIN keys = 1 .. Len(keys)
      /\ keys[old] \in KeyRow
  BY <1>1, KeysFacts
<1>3. row \in KeyRow /\ row.chain = keys[old].chain
  BY <1>2 DEF KeyRow
<1> HIDE DEF row
<1>4. /\ dead \in Seq(KeyRow) /\ Len(dead) = Len(keys)
      /\ \A j \in DOMAIN keys : dead[j].chain = keys[j].chain
      /\ \A j \in DOMAIN keys : dead[j].live = (keys[j].live /\ j # old)
  BY <1>1, DeadFacts
<1> HIDE DEF dead
<1>5. /\ keys' \in Seq(KeyRow) /\ Len(keys') = new
      /\ \A k \in 1 .. Len(keys) : keys'[k] = dead[k]
      /\ keys'[new] = row
  BY <1>1, <1>3, <1>4, AppendProperties
<1>6. DOMAIN keys' = 1 .. new /\ 1 .. new = 1 .. Len(keys) \cup {new}
  BY <1>2, <1>5, LenProperties
<1>7. QED
  BY <1>1, <1>2, <1>3, <1>4, <1>5, <1>6 DEF old

LEMMA EraseFacts ==
    ASSUME TypeOK, NEW h \in Handlers, Erase(h)
    PROVE  /\ keys' \in Seq(KeyRow) /\ Len(keys') = Len(keys) /\ DOMAIN keys' = DOMAIN keys
           /\ \A k \in DOMAIN keys : keys'[k].chain = keys[k].chain /\ ~keys'[k].live
           /\ ended' = ended \cup {keys[k].chain : k \in DOMAIN keys}
<1>1. /\ Len(keys) \in Nat
      /\ DOMAIN keys = 1 .. Len(keys) /\ \A j \in DOMAIN keys : keys[j] \in KeyRow
  BY KeysFacts
<1>2. /\ keys' = [k \in DOMAIN keys |-> [keys[k] EXCEPT !.live = FALSE]]
      /\ ended' = ended \cup {keys[k].chain : k \in DOMAIN keys}
  BY DEF Erase
<1>3. ASSUME NEW k \in DOMAIN keys
      PROVE  keys'[k] \in KeyRow /\ keys'[k].chain = keys[k].chain /\ ~keys'[k].live
  BY <1>1, <1>2 DEF KeyRow
<1>4. keys' \in [1 .. Len(keys) -> KeyRow]
  BY <1>1, <1>2, <1>3
<1>5. keys' \in Seq(KeyRow) /\ DOMAIN keys' = 1 .. Len(keys)
  BY <1>1, <1>4, SeqDef
<1>6. Len(keys') = Len(keys)
  BY <1>1, <1>5, LenProperties
<1>7. QED
  BY <1>1, <1>2, <1>3, <1>5, <1>6

LEMMA KeysEffects ==
    ASSUME TypeOK, NEW h \in Handlers, Step(h)
    PROVE  KeysOK' /\ DOMAIN keys \subseteq DOMAIN keys'
<1>1. /\ KeysOK /\ Len(keys) \in Nat /\ MaxKeys \in Nat /\ DOMAIN keys \subseteq Keys
      /\ \A k \in DOMAIN keys : keys[k] \in KeyRow
  BY KeysFacts
<1>2. \A k \in DOMAIN keys : keys[k].chain \in Keys
  BY <1>1 DEF KeyRow
<1>3. CASE UNCHANGED <<keys, ended>>
  BY <1>1, <1>3 DEF KeysOK
<1>4. CASE KeyCreate(h)
  BY <1>1, <1>4, CreateFacts DEF KeysOK
<1>5. CASE RotateCommit(h)
  BY <1>1, <1>5, RotateFacts DEF KeysOK
<1>6. CASE Erase(h)
  BY <1>1, <1>2, <1>6, EraseFacts DEF KeysOK
<1>7. ASSUME NEW k \in LiveKeys, keys' = [keys EXCEPT ![k].live = FALSE],
             ended' = ended \cup {keys[k].chain}
      PROVE  KeysOK' /\ DOMAIN keys \subseteq DOMAIN keys'
  <2>1. k \in DOMAIN keys
    BY DEF LiveKeys
  <2>2. keys' \in Seq(KeyRow) /\ Len(keys') = Len(keys) /\ DOMAIN keys' = DOMAIN keys
    BY <1>7, <2>1, DeadFacts
  <2>3. QED
    BY <1>1, <1>2, <1>7, <2>1, <2>2 DEF KeysOK
<1>8. CASE KeyRevoke(h)
  BY <1>3, <1>7, <1>8 DEF KeyRevoke
<1>9. CASE \/ Admit(h) \/ Fail(h) \/ Setup(h) \/ ChallengeRead(h) \/ ChallengeInsert(h)
           \/ ChallengeIssue(h) \/ VerifyRead(h) \/ VerifyWrong(h) \/ VerifyRight(h)
           \/ DisableRead(h) \/ DisableWrite(h) \/ RotateRead(h)
           \/ RotateFails(h) \/ EraseAsk(h) \/ EraseFails(h)
  BY <1>3, <1>9 DEF Admit, Fail, Setup, ChallengeRead, ChallengeInsert, ChallengeIssue,
     VerifyRead, VerifyWrong, VerifyRight, DisableRead, DisableWrite, RotateRead,
     RotateFails, EraseAsk, EraseFails, customer
<1>10. QED
  BY <1>4, <1>5, <1>6, <1>8, <1>9 DEF Step

(* What a step does to the counters: a wrong code that has been compared   *)
(* is counted, or its statement fails.                                     *)
LEMMA CountEffects ==
    ASSUME TypeOK, NEW h \in Handlers, Step(h)
    PROVE  /\ active' \in BOOLEAN /\ slips' \in 0 .. MaxSlips /\ slips <= slips'
           /\ wrong' \in [Codes -> Nat]
           /\ \/ UNCHANGED wrong
              \/ /\ calls[h].step = "wrong" /\ calls[h].code \in Codes
                 /\ wrong' = [wrong EXCEPT ![calls[h].code] = wrong[calls[h].code] + 1]
                 /\ UNCHANGED codes
                 /\ VerifyWrong(h) \/ (slips' = slips + 1 /\ UNCHANGED mfa)
<1>1. /\ active \in BOOLEAN /\ slips \in 0 .. MaxSlips /\ wrong \in [Codes -> Nat]
      /\ calls[h] \in Call /\ MaxSlips \in Nat
  BY AccountSecurityAssumption DEF TypeOK
<1>2. CASE Fail(h)
  <2>1. slips' = slips + 1 /\ slips' \in 0 .. MaxSlips /\ UNCHANGED <<active, mfa, codes>>
    BY <1>1, <1>2 DEF Fail, Slip
  <2>2. CASE calls[h].step = "wrong"
    <3>1. calls[h].code \in Codes
      BY <1>1, <2>2, CallFields
    <3>2. wrong' = [wrong EXCEPT ![calls[h].code] = wrong[calls[h].code] + 1]
      BY <1>2, <2>2 DEF Fail
    <3>3. QED
      BY <1>1, <2>1, <2>2, <3>1, <3>2
  <2>3. CASE calls[h].step # "wrong"
    <3>1. UNCHANGED wrong
      BY <1>2, <2>3 DEF Fail
    <3>2. QED
      BY <1>1, <2>1, <3>1
  <2>4. QED
    BY <2>2, <2>3
<1>3. CASE VerifyWrong(h)
  <2>1. /\ UNCHANGED <<active, codes, slips>> /\ calls[h].step = "wrong"
        /\ wrong' = [wrong EXCEPT ![calls[h].code] = wrong[calls[h].code] + 1]
    BY <1>3 DEF VerifyWrong
  <2>2. calls[h].code \in Codes
    BY <1>1, <2>1, CallFields
  <2>3. QED
    BY <1>1, <1>3, <2>1, <2>2
<1>4. CASE Erase(h)
  <2>1. active' = FALSE /\ UNCHANGED <<slips, wrong>>
    BY <1>4 DEF Erase
  <2>2. active' \in BOOLEAN
    BY <2>1
  <2>3. slips' \in 0 .. MaxSlips /\ slips <= slips' /\ wrong' \in [Codes -> Nat]
    BY <1>1, <2>1
  <2>4. QED
    BY <2>1, <2>2, <2>3
<1>5. CASE \/ Admit(h) \/ Setup(h) \/ ChallengeRead(h) \/ ChallengeInsert(h)
           \/ ChallengeIssue(h) \/ VerifyRead(h) \/ VerifyRight(h)
           \/ DisableRead(h) \/ DisableWrite(h) \/ KeyCreate(h) \/ KeyRevoke(h)
           \/ RotateRead(h) \/ RotateCommit(h) \/ RotateFails(h) \/ EraseAsk(h)
           \/ EraseFails(h)
  <2>1. UNCHANGED <<active, slips, wrong>>
    BY <1>5 DEF Admit, Setup, ChallengeRead, ChallengeInsert, ChallengeIssue,
       VerifyRead, VerifyRight, DisableRead, DisableWrite, KeyCreate, KeyRevoke, RotateRead,
       RotateCommit, RotateFails, EraseAsk, EraseFails, customer
  <2>2. QED
    BY <1>1, <2>1
<1>6. QED
  BY <1>2, <1>3, <1>4, <1>5 DEF Step

LEMMA TypeStep == TypeOK /\ ThrottleInv /\ [Next]_vars => TypeOK'
<1> SUFFICES ASSUME TypeOK, ThrottleInv, [Next]_vars PROVE TypeOK'
  OBVIOUS
<1>1. ThrottleTypeOK'
  BY ThrottleStep DEF ThrottleInv, ThrottleTypeOK
<1>2. ASSUME NEW h \in Handlers, Step(h) PROVE TypeOK'
  <2>1. MfaOK' /\ codes' \in 0 .. MaxCodes /\ codes <= codes'
    BY <1>2, RowEffects
  <2>2. KeysOK' /\ DOMAIN keys \subseteq DOMAIN keys'
    BY <1>2, KeysEffects
  <2>3. active' \in BOOLEAN /\ slips' \in 0 .. MaxSlips /\ wrong' \in [Codes -> Nat]
    BY <1>2, CountEffects
  <2> DEFINE Good(call) ==
        /\ call \in Call
        /\ call.step \in {"right", "wrong"} => call.code <= codes'
        /\ call.step = "rotating" => call.key \in DOMAIN keys'
  <2>4. ASSUME NEW g \in Handlers PROVE Good(calls'[g])
    <3>1. /\ calls[g] \in Call
          /\ calls[g].step \in {"right", "wrong"} => calls[g].code <= codes
          /\ calls[g].step = "rotating" => calls[g].key \in DOMAIN keys
      BY DEF TypeOK
    <3>2. Good(calls[g])
      <4>1. calls[g].step \in {"right", "wrong"} => calls[g].code \in Nat
        BY <3>1, CallFields DEF Codes
      <4>2. codes \in Nat /\ codes' \in Nat
        BY <2>1 DEF TypeOK
      <4>3. QED
        BY <2>1, <2>2, <3>1, <4>1, <4>2
    <3>3. Good(Stale(calls[g]))
      BY <3>1, <3>2, StaleFacts
    <3>4. CASE g # h
      <4>1. calls'[g] = calls[g] \/ calls'[g] = Stale(calls[g])
        BY <1>2, <3>4, OtherCalls
      <4>2. QED
        BY <3>2, <3>3, <4>1
    <3>5. CASE g = h
      <4>1. calls'[h] \in Call
        BY <1>2, OwnCall
      <4>2. ASSUME calls'[h].step \in {"right", "wrong"} PROVE calls'[h].code <= codes'
        <5>1. HasCode /\ calls'[h].code = mfa.code /\ UNCHANGED codes
          BY <1>2, <4>2, OwnCall DEF customer
        <5>2. QED
          BY <5>1 DEF HasCode, TypeOK
      <4>3. ASSUME calls'[h].step = "rotating" PROVE calls'[h].key \in DOMAIN keys'
        BY <1>2, <4>3, OwnCall DEF LiveKeys
      <4>4. QED
        BY <3>5, <4>1, <4>2, <4>3
    <3>6. QED
      BY <3>4, <3>5
  <2>5. calls' \in [Handlers -> Call]
    <3>1. calls' = [g \in Handlers |-> calls'[g]]
      BY <1>2, OtherCalls
    <3>2. QED
      BY <2>4, <3>1
  <2>6. QED
    BY <1>1, <2>1, <2>2, <2>3, <2>4, <2>5 DEF TypeOK, MfaOK, KeysOK, KeyRow
<1>3. ASSUME UNCHANGED <<active, mfa, codes, keys, calls, slips, wrong, ended>>
      PROVE  TypeOK'
  BY <1>1, <1>3 DEF TypeOK
<1>4. CASE UNCHANGED vars
  BY <1>3, <1>4 DEF vars
<1>5. CASE TimePasses
  BY <1>3, <1>5 DEF TimePasses, customer
<1>6. QED
  BY <1>2, <1>4, <1>5 DEF Next

LEMMA TypeInit == Init => TypeOK
<1> SUFFICES ASSUME Init PROVE TypeOK
  OBVIOUS
<1>1. ThrottleTypeOK
  BY ThrottleInitHolds DEF ThrottleInv, ThrottleTypeOK
<1>2. keys \in Seq([chain : Keys, live : BOOLEAN]) /\ Len(keys) = 0
  BY EmptySeq DEF Init
<1>3. Idle \in Call /\ Idle.step = "idle"
  BY DEF Idle, Call
<1>4. /\ calls = [h \in Handlers |-> Idle] /\ active = TRUE /\ mfa = None /\ codes = 0
      /\ slips = 0 /\ wrong = [c \in Codes |-> 0] /\ ended = {}
  BY DEF Init
<1>5. calls \in [Handlers -> Call] /\ \A h \in Handlers : calls[h].step = "idle"
  BY <1>3, <1>4
<1>6. /\ codes \in 0 .. MaxCodes /\ slips \in 0 .. MaxSlips /\ wrong \in [Codes -> Nat]
      /\ Len(keys) <= MaxKeys
  BY <1>2, <1>4, AccountSecurityAssumption
<1>7. QED
  BY <1>1, <1>2, <1>4, <1>5, <1>6 DEF TypeOK

-----------------------------------------------------------------------------
(* Sets of calls are finite, and leave out at least the one that moves on. *)
LEMMA CallSetFacts ==
    ASSUME NEW P \in SUBSET Handlers, NEW h \in Handlers
    PROVE  /\ Cardinality(P) \in Nat /\ Cardinality(Handlers) \in Nat
           /\ Cardinality(P \ {h}) \in Nat
           /\ Cardinality(P \ {h}) <= Cardinality(Handlers) - 1
           /\ Cardinality(P \ {h}) <= Cardinality(P)
           /\ h \in P => Cardinality(P \ {h}) = Cardinality(P) - 1
<1>1. IsFiniteSet(Handlers) /\ IsFiniteSet(P)
  BY AccountSecurityAssumption, FS_Subset
<1> DEFINE Q == Handlers \ {h}
           R == P \ {h}
<1>2. IsFiniteSet(Q) /\ Cardinality(Q) = Cardinality(Handlers) - 1
  BY <1>1, FS_RemoveElement
<1>3. R \in SUBSET Q /\ R \in SUBSET P
  OBVIOUS
<1>4. IsFiniteSet(R) /\ Cardinality(R) <= Cardinality(Q) /\ Cardinality(R) <= Cardinality(P)
  BY <1>1, <1>2, <1>3, FS_Subset
<1>5. h \in P => Cardinality(R) = Cardinality(P) - 1
  BY <1>1, FS_RemoveElement
<1>6. /\ Cardinality(P) \in Nat /\ Cardinality(Handlers) \in Nat
      /\ Cardinality(R) \in Nat
  BY <1>1, <1>4, FS_CardinalityType
<1>7. QED
  BY <1>2, <1>4, <1>5, <1>6

(* A call gets a code in hand only when it reads it from the file.         *)
LEMMA PendingEffects ==
    ASSUME TypeOK, NEW h \in Handlers, Step(h), NEW c \in Codes,
           ~OnFile(c) \/ calls'[h].step # "wrong"
    PROVE  Pending(c)' = Pending(c) \ {h}
<1>1. ASSUME NEW g \in Handlers \ {h}
      PROVE  (calls'[g].step = "wrong" /\ calls'[g].code = c)
                <=> (calls[g].step = "wrong" /\ calls[g].code = c)
  <2>1. calls[g] \in Call
    BY DEF TypeOK
  <2>2. calls'[g] = calls[g] \/ calls'[g] = Stale(calls[g])
    BY OtherCalls
  <2>3. QED
    BY <2>1, <2>2, StaleFacts
<1>2. ~(calls'[h].step = "wrong" /\ calls'[h].code = c)
  BY OwnCall DEF OnFile, HasCode
<1>3. Pending(c)' = {g \in Handlers : calls'[g].step = "wrong" /\ calls'[g].code = c}
  BY DEF Pending
<1>4. QED
  BY <1>1, <1>2, <1>3 DEF Pending

(* A code is put on file once, when it is issued; a wrong code is counted  *)
(* in the row whichever code is on file by then.                           *)
LEMMA FileEffects ==
    ASSUME TypeOK, NEW h \in Handlers, Step(h), NEW c \in Codes, OnFile(c)'
    PROVE  /\ VerifyWrong(h) => OnFile(c) /\ mfa'.fails = mfa.fails + 1
           /\ ~VerifyWrong(h) =>
                 (OnFile(c) /\ mfa'.fails = mfa.fails) \/ c > codes
<1>1. /\ mfa' # None /\ mfa'.code = c /\ c # None /\ codes \in Nat
      /\ mfa # None => mfa \in Row
  BY AccountSecurityAssumption DEF OnFile, Codes, TypeOK
<1>2. ASSUME VerifyWrong(h) PROVE OnFile(c) /\ mfa'.fails = mfa.fails + 1
  <2>1. mfa # None /\ mfa' = CountedWrong(mfa)
    BY <1>1, <1>2 DEF VerifyWrong
  <2>2. /\ mfa'.fails = mfa.fails + 1
        /\ mfa'.code = IF mfa.fails + 1 >= MaxFails THEN None ELSE mfa.code
    BY <1>1, <2>1 DEF CountedWrong, Row
  <2>3. QED
    BY <1>1, <2>1, <2>2 DEF OnFile
<1> DEFINE Goal == (OnFile(c) /\ mfa'.fails = mfa.fails) \/ c > codes
<1>3. ASSUME UNCHANGED mfa PROVE Goal
  BY <1>1, <1>3 DEF OnFile
<1>4. ASSUME mfa' = IF mfa = None THEN NewMfa ELSE [mfa EXCEPT !.enabled = FALSE]
      PROVE  Goal
  <2>1. mfa # None
    BY <1>1, <1>4 DEF NewMfa
  <2>2. mfa'.code = mfa.code /\ mfa'.fails = mfa.fails
    BY <1>1, <1>4, <2>1 DEF Row
  <2>3. QED
    BY <1>1, <2>1, <2>2 DEF OnFile
<1>5. ~(Answered(TRUE) \/ Answered(FALSE))
  <2>1. ~Answered(TRUE)
    BY <1>1 DEF Answered
  <2>2. ~Answered(FALSE)
    BY <1>1 DEF Answered
  <2>3. QED
    BY <2>1, <2>2
<1>6. CASE Setup(h)
  BY <1>2, <1>4, <1>6 DEF Setup
<1>7. CASE ChallengeInsert(h)
  BY <1>1, <1>2, <1>3, <1>7 DEF ChallengeInsert, NewMfa
<1>8. CASE ChallengeIssue(h)
  <2>1. mfa # None /\ mfa' = [mfa EXCEPT !.code = codes + 1, !.fails = 0]
    BY <1>1, <1>8 DEF ChallengeIssue
  <2>2. c = codes + 1
    BY <1>1, <2>1 DEF Row
  <2>3. QED
    BY <1>1, <1>2, <2>2
<1>9. CASE VerifyWrong(h)
  BY <1>2, <1>9
<1>10. CASE VerifyRight(h) \/ DisableWrite(h)
  BY <1>5, <1>10 DEF VerifyRight, DisableWrite
<1>11. CASE Erase(h)
  BY <1>1, <1>11 DEF Erase
<1>12. CASE \/ Admit(h) \/ Fail(h) \/ ChallengeRead(h) \/ VerifyRead(h) \/ DisableRead(h)
            \/ KeyCreate(h) \/ KeyRevoke(h) \/ RotateRead(h) \/ RotateCommit(h)
            \/ RotateFails(h) \/ EraseAsk(h) \/ EraseFails(h)
  <2>1. UNCHANGED mfa
    BY <1>12 DEF Admit, Fail, ChallengeRead, VerifyRead, DisableRead, KeyCreate,
       KeyRevoke, RotateRead, RotateCommit, RotateFails, EraseAsk, EraseFails, customer
  <2>2. QED
    BY <1>2, <1>3, <2>1
<1>13. QED
  BY <1>2, <1>6, <1>7, <1>8, <1>9, <1>10, <1>11, <1>12 DEF Step

LEMMA FailsStep == TypeOK /\ FailsCounted /\ [Next]_vars => FailsCounted'
<1> SUFFICES ASSUME TypeOK, FailsCounted, [Next]_vars PROVE FailsCounted'
  OBVIOUS
<1>1. ASSUME NEW h \in Handlers, Step(h), NEW c \in Codes
      PROVE  /\ OnFile(c)' => wrong'[c] <= mfa'.fails + slips'
             /\ ~OnFile(c)' /\ c <= codes' =>
                   wrong'[c] + Cardinality(Pending(c)')
                      <= MaxFails + (Cardinality(Handlers) - 1) + slips'
             /\ c > codes' => wrong'[c] = 0
  <2> DEFINE W == wrong[c]
             P == Pending(c)
             H == Cardinality(Handlers)
  <2>1. /\ W \in Nat /\ slips \in Nat /\ slips' \in Nat /\ slips <= slips'
        /\ codes \in Nat /\ codes' \in Nat /\ codes <= codes' /\ c \in Nat
        /\ MaxFails \in Nat /\ MaxFails >= 1
    BY <1>1, RowEffects, CountEffects, AccountSecurityAssumption DEF TypeOK, Codes
  <2>2. /\ OnFile(c) => W <= mfa.fails + slips
        /\ ~OnFile(c) /\ c <= codes => W + Cardinality(P) <= MaxFails + (H - 1) + slips
        /\ c > codes => W = 0
    BY DEF FailsCounted
  <2>3. OnFile(c) => c <= codes /\ mfa.fails \in Nat /\ mfa.fails <= MaxFails - 1
    BY <2>1, AccountSecurityAssumption DEF OnFile, TypeOK, Row, Codes
  <2>4. OnFile(c)' => mfa'.fails \in Nat
    BY <1>1, RowEffects DEF OnFile, MfaOK, Row
  <2>5. P \in SUBSET Handlers
    BY DEF Pending
  <2>6. /\ Cardinality(P) \in Nat /\ H \in Nat /\ Cardinality(P \ {h}) \in Nat
        /\ Cardinality(P \ {h}) <= H - 1 /\ Cardinality(P \ {h}) <= Cardinality(P)
        /\ h \in P => Cardinality(P \ {h}) = Cardinality(P) - 1
    BY <2>5, CallSetFacts
  <2>7. ~OnFile(c) \/ calls'[h].step # "wrong" => Pending(c)' = P \ {h}
    BY <1>1, PendingEffects
  <2>8. \/ wrong'[c] = W
        \/ /\ wrong'[c] = W + 1 /\ h \in P /\ c <= codes
           /\ VerifyWrong(h) \/ slips' = slips + 1
    <3>1. CASE UNCHANGED wrong
      BY <3>1
    <3>2. CASE /\ calls[h].step = "wrong" /\ calls[h].code \in Codes
               /\ wrong' = [wrong EXCEPT ![calls[h].code] = wrong[calls[h].code] + 1]
               /\ VerifyWrong(h) \/ slips' = slips + 1
      <4>1. calls[h].code <= codes
        BY <3>2 DEF TypeOK
      <4>2. wrong'[c] = IF c = calls[h].code THEN W + 1 ELSE W
        BY <3>2 DEF TypeOK
      <4>3. c = calls[h].code => h \in P
        BY <3>2 DEF Pending
      <4>4. QED
        BY <3>2, <4>1, <4>2, <4>3
    <3>3. QED
      BY <1>1, <3>1, <3>2, CountEffects
  <2>9. OnFile(c)' => /\ VerifyWrong(h) => OnFile(c) /\ mfa'.fails = mfa.fails + 1
                      /\ ~VerifyWrong(h) =>
                            (OnFile(c) /\ mfa'.fails = mfa.fails) \/ c > codes
    BY <1>1, FileEffects
  <2> DEFINE C == Cardinality(P)
             D == Cardinality(P \ {h})
  <2>10. CASE calls'[h].step = "wrong"
    <3>1. UNCHANGED <<mfa, codes, wrong, slips>>
      BY <1>1, <2>10, OwnCall DEF customer
    <3>2. OnFile(c)' = OnFile(c)
      BY <3>1 DEF OnFile
    <3>3. ~OnFile(c) => Cardinality(Pending(c)') = D
      BY <2>7
    <3>4. wrong'[c] = W
      BY <3>1
    <3>5. OnFile(c)' => wrong'[c] <= mfa'.fails + slips'
      BY <2>2, <3>1, <3>2, <3>4
    <3>6. ~OnFile(c)' /\ c <= codes' => wrong'[c] + D <= MaxFails + (H - 1) + slips'
      <4>1. ~OnFile(c)' /\ c <= codes' => W + C <= MaxFails + (H - 1) + slips
        BY <2>2, <3>1, <3>2
      <4>2. W \in Nat /\ C \in Nat /\ D \in Nat /\ D <= C /\ H \in Nat
        BY <2>1, <2>6
      <4>3. wrong'[c] = W /\ slips' = slips
        BY <3>1
      <4> HIDE DEF W, P, H, C, D
      <4>4. QED
        BY <2>1, <4>1, <4>2, <4>3
    <3>7. c > codes' => wrong'[c] = 0
      BY <2>2, <3>1
    <3>8. QED
      BY <3>2, <3>3, <3>5, <3>6, <3>7
  <2>11. CASE calls'[h].step # "wrong"
    <3>1. Cardinality(Pending(c)') = D
      BY <2>7, <2>11
    <3> DEFINE w == wrong'[c]
               f == mfa.fails
               e == mfa'.fails
               On == OnFile(c)
               OnNext == OnFile(c)'
               In == h \in P
               Counts == VerifyWrong(h)
    <3>2. w = W \/ (w = W + 1 /\ In /\ c <= codes /\ (Counts \/ slips' = slips + 1))
      BY <2>8
    <3>3. C \in Nat /\ D \in Nat /\ D <= H - 1 /\ D <= C /\ (In => D = C - 1) /\ H \in Nat
      BY <2>6
    <3>4. On => W <= f + slips /\ c <= codes /\ f \in Nat /\ f <= MaxFails - 1
      BY <2>2, <2>3
    <3>5. ~On /\ c <= codes => W + C <= MaxFails + (H - 1) + slips
      BY <2>2
    <3>6. c > codes => W = 0
      BY <2>2
    <3>7. OnNext => e \in Nat /\ (Counts => On /\ e = f + 1)
                    /\ (~Counts => (On /\ e = f) \/ c > codes)
      BY <2>4, <2>9
    <3> HIDE DEF W, P, H, C, D, w, f, e, On, OnNext, In, Counts
    <3>8. OnNext => w <= e + slips'
      BY <2>1, <3>2, <3>4, <3>6, <3>7
    <3>9. ~OnNext /\ c <= codes' => w + D <= MaxFails + (H - 1) + slips'
      <4>1. CASE On
        BY <2>1, <3>2, <3>3, <3>4, <4>1
      <4>2. CASE ~On /\ c <= codes
        BY <2>1, <3>2, <3>3, <3>5, <4>2
      <4>3. CASE c > codes
        BY <2>1, <3>2, <3>3, <3>6, <4>3
      <4>4. QED
        BY <2>1, <4>1, <4>2, <4>3
    <3>10. c > codes' => w = 0
      BY <2>1, <3>2, <3>6
    <3>11. QED
      BY <3>1, <3>8, <3>9, <3>10 DEF w, e, OnNext, H
  <2>12. QED
    BY <2>10, <2>11
<1>2. ASSUME UNCHANGED <<mfa, codes, calls, slips, wrong>> PROVE FailsCounted'
  BY <1>2 DEF FailsCounted, OnFile, Pending
<1>3. CASE UNCHANGED vars
  BY <1>2, <1>3 DEF vars
<1>4. CASE TimePasses
  BY <1>2, <1>4 DEF TimePasses, customer
<1>5. ASSUME NEW h \in Handlers, Step(h) PROVE FailsCounted'
  BY <1>1, <1>5 DEF FailsCounted
<1>6. QED
  BY <1>3, <1>4, <1>5 DEF Next

-----------------------------------------------------------------------------
(* A rotation whose snapshot holds was not overtaken by any write.         *)
LEMMA RotatesLiveStep ==
    ASSUME TypeOK, KeysInv, NEW h \in Handlers, Step(h) PROVE RotatesLive'
<1> SUFFICES ASSUME NEW g \in Handlers,
                    calls'[g].step = "rotating", ~calls'[g].stale
             PROVE  keys'[calls'[g].key].live
  BY DEF RotatesLive
<1>1. CASE g = h
  <2>1. calls'[h].key \in LiveKeys /\ UNCHANGED keys
    BY <1>1, OwnCall
  <2>2. QED
    BY <1>1, <2>1 DEF LiveKeys
<1>2. CASE g # h
  <2>1. calls[g] \in Call
    BY DEF TypeOK
  <2>2. CASE calls'[g] = Stale(calls[g])
    BY <2>1, <2>2, StaleFacts
  <2>3. CASE calls'[g] = calls[g] /\ UNCHANGED keys
    BY <2>3 DEF KeysInv, RotatesLive
  <2>4. QED
    BY <1>2, <2>2, <2>3, OtherCalls
<1>3. QED
  BY <1>1, <1>2

(* The keys themselves, by the way they are written.                       *)
LEMMA KeysStep ==
    ASSUME TypeOK, KeysInv, NEW h \in Handlers, Step(h)
    PROVE  ChainsNamed' /\ KeysEnd'
<1>1. /\ Len(keys) \in Nat /\ DOMAIN keys = 1 .. Len(keys)
      /\ \A k \in DOMAIN keys : keys[k].chain \in 1 .. Len(keys)
      /\ ended \subseteq 1 .. Len(keys)
      /\ \A j, k \in DOMAIN keys :
            keys[j].live /\ keys[k].live /\ keys[j].chain = keys[k].chain => j = k
      /\ \A k \in DOMAIN keys : keys[k].live => keys[k].chain \notin ended
  BY KeysFacts DEF KeysInv, ChainsNamed, KeysEnd, LiveKeys
<1> DEFINE new == Len(keys) + 1
<1>2. new \notin DOMAIN keys /\ new \notin ended /\ 1 .. Len(keys) \subseteq 1 .. new
      /\ new \in 1 .. new
  BY <1>1
<1>3. SUFFICES
         /\ \A k \in DOMAIN keys' : keys'[k].chain \in 1 .. Len(keys')
         /\ ended' \subseteq 1 .. Len(keys')
         /\ \A j, k \in DOMAIN keys' :
               keys'[j].live /\ keys'[k].live /\ keys'[j].chain = keys'[k].chain => j = k
         /\ \A k \in DOMAIN keys' : keys'[k].live => keys'[k].chain \notin ended'
  BY DEF ChainsNamed, KeysEnd, LiveKeys
<1>4. CASE UNCHANGED <<keys, ended>>
  BY <1>1, <1>4
<1>5. CASE KeyCreate(h)
  <2>1. /\ Len(keys') = new /\ DOMAIN keys' = DOMAIN keys \cup {new}
        /\ \A k \in DOMAIN keys : keys'[k] = keys[k]
        /\ keys'[new].chain = new
        /\ UNCHANGED ended
    BY <1>5, CreateFacts
  <2> HIDE DEF new
  <2>2. \A k \in DOMAIN keys : keys'[k].chain # new
    BY <1>1, <1>2, <2>1
  <2>3. \A k \in DOMAIN keys' : keys'[k].chain \in 1 .. Len(keys')
    BY <1>1, <1>2, <2>1
  <2>4. ended' \subseteq 1 .. Len(keys')
    BY <1>1, <1>2, <2>1
  <2>5. \A j, k \in DOMAIN keys' :
           keys'[j].live /\ keys'[k].live /\ keys'[j].chain = keys'[k].chain => j = k
    BY <1>1, <2>1, <2>2
  <2>6. \A k \in DOMAIN keys' : keys'[k].live => keys'[k].chain \notin ended'
    BY <1>1, <1>2, <2>1
  <2>7. QED
    BY <2>3, <2>4, <2>5, <2>6
<1>6. CASE RotateCommit(h)
  <2> DEFINE old == calls[h].key
  <2>1. /\ Len(keys') = new /\ DOMAIN keys' = DOMAIN keys \cup {new} /\ old \in DOMAIN keys
        /\ \A k \in DOMAIN keys : keys'[k].chain = keys[k].chain
        /\ \A k \in DOMAIN keys : keys'[k].live = (keys[k].live /\ k # old)
        /\ keys'[new].chain = keys[old].chain
        /\ UNCHANGED ended
    BY <1>6, RotateFacts
  <2>2. keys[old].live
    BY <1>6 DEF RotateCommit, SnapshotHolds, KeysInv, RotatesLive
  <2> HIDE DEF new, old
  <2>3. \A k \in DOMAIN keys' : keys'[k].chain \in 1 .. Len(keys')
    BY <1>1, <1>2, <2>1
  <2>4. ended' \subseteq 1 .. Len(keys')
    BY <1>1, <1>2, <2>1
  <2>5. \A k \in DOMAIN keys : keys'[k].live =>
           keys[k].live /\ keys'[k].chain # keys[old].chain
    BY <1>1, <2>1, <2>2
  <2>6. \A j, k \in DOMAIN keys' :
           keys'[j].live /\ keys'[k].live /\ keys'[j].chain = keys'[k].chain => j = k
    BY <1>1, <2>1, <2>5
  <2>7. \A k \in DOMAIN keys' : keys'[k].live => keys'[k].chain \notin ended'
    BY <1>1, <1>2, <2>1, <2>2, <2>5
  <2>8. QED
    BY <2>3, <2>4, <2>6, <2>7
<1>7. ASSUME NEW k \in LiveKeys, keys' = [keys EXCEPT ![k].live = FALSE],
             ended' = ended \cup {keys[k].chain}
      PROVE  /\ \A i \in DOMAIN keys' : keys'[i].chain \in 1 .. Len(keys')
             /\ ended' \subseteq 1 .. Len(keys')
             /\ \A i, j \in DOMAIN keys' :
                   keys'[i].live /\ keys'[j].live /\ keys'[i].chain = keys'[j].chain => i = j
             /\ \A i \in DOMAIN keys' : keys'[i].live => keys'[i].chain \notin ended'
  <2>1. k \in DOMAIN keys /\ keys[k].live
    BY DEF LiveKeys
  <2>2. /\ Len(keys') = Len(keys) /\ DOMAIN keys' = DOMAIN keys
        /\ \A j \in DOMAIN keys : keys'[j].chain = keys[j].chain
        /\ \A j \in DOMAIN keys : keys'[j].live = (keys[j].live /\ j # k)
    BY <1>7, <2>1, DeadFacts
  <2>3. \A j \in DOMAIN keys : keys'[j].live =>
           keys[j].live /\ keys'[j].chain # keys[k].chain
    BY <1>1, <2>1, <2>2
  <2>4. ended' = ended \cup {keys[k].chain}
    BY <1>7
  <2>5. QED
    BY <1>1, <2>1, <2>2, <2>3, <2>4
<1>8. CASE KeyRevoke(h)
  BY <1>4, <1>7, <1>8 DEF KeyRevoke
<1>9. CASE Erase(h)
  <2>1. /\ Len(keys') = Len(keys) /\ DOMAIN keys' = DOMAIN keys
        /\ \A k \in DOMAIN keys : keys'[k].chain = keys[k].chain
        /\ \A k \in DOMAIN keys : ~keys'[k].live
        /\ ended' = ended \cup {keys[k].chain : k \in DOMAIN keys}
    BY <1>9, EraseFacts
  <2>2. ended' \subseteq 1 .. Len(keys')
    BY <1>1, <2>1
  <2>3. \A k \in DOMAIN keys' : keys'[k].chain \in 1 .. Len(keys') /\ ~keys'[k].live
    BY <1>1, <2>1
  <2>4. QED
    BY <2>2, <2>3
<1>10. CASE \/ Admit(h) \/ Fail(h) \/ Setup(h) \/ ChallengeRead(h) \/ ChallengeInsert(h)
            \/ ChallengeIssue(h) \/ VerifyRead(h) \/ VerifyWrong(h) \/ VerifyRight(h)
            \/ DisableRead(h) \/ DisableWrite(h) \/ RotateRead(h)
            \/ RotateFails(h) \/ EraseAsk(h) \/ EraseFails(h)
  <2>1. UNCHANGED <<keys, ended>>
    BY <1>10 DEF Admit, Fail, Setup, ChallengeRead, ChallengeInsert, ChallengeIssue,
       VerifyRead, VerifyWrong, VerifyRight, DisableRead, DisableWrite, RotateRead,
       RotateFails, EraseAsk, EraseFails, customer
  <2>2. QED
    BY <1>4, <2>1
<1>11. QED
  BY <1>5, <1>6, <1>8, <1>9, <1>10 DEF Step

LEMMA KeysInvStep == TypeOK /\ KeysInv /\ [Next]_vars => KeysInv'
<1> SUFFICES ASSUME TypeOK, KeysInv, [Next]_vars PROVE KeysInv'
  OBVIOUS
<1>1. ASSUME UNCHANGED <<keys, calls, ended>> PROVE KeysInv'
  BY <1>1 DEF KeysInv, RotatesLive, ChainsNamed, KeysEnd, LiveKeys
<1>2. CASE UNCHANGED vars
  BY <1>1, <1>2 DEF vars
<1>3. CASE TimePasses
  BY <1>1, <1>3 DEF TimePasses, customer
<1>4. ASSUME NEW h \in Handlers, Step(h) PROVE KeysInv'
  BY <1>4, RotatesLiveStep, KeysStep DEF KeysInv
<1>5. QED
  BY <1>2, <1>3, <1>4 DEF Next

-----------------------------------------------------------------------------
(* One inductive invariant for the module: each part is preserved given    *)
(* the types.                                                              *)
IInv == TypeOK /\ ThrottleInv /\ FailsCounted /\ KeysInv

LEMMA Inductive == Spec => []IInv
<1>1. Init => IInv
  <2> SUFFICES ASSUME Init PROVE IInv
    OBVIOUS
  <2>1. TypeOK /\ ThrottleInv
    BY TypeInit, ThrottleInitHolds
  <2>2. /\ mfa = None /\ codes = 0 /\ wrong = [c \in Codes |-> 0] /\ keys = <<>>
        /\ calls = [h \in Handlers |-> Idle] /\ ended = {} /\ slips = 0
    BY DEF Init
  <2>3. FailsCounted
    BY <2>2 DEF FailsCounted, OnFile, Codes
  <2>4. DOMAIN keys = {} /\ Len(keys) = 0
    BY <2>2, EmptySeq
  <2>5. KeysInv
    BY <2>2, <2>4 DEF KeysInv, RotatesLive, ChainsNamed, KeysEnd, LiveKeys, Idle
  <2>6. QED
    BY <2>1, <2>3, <2>5 DEF IInv
<1>2. IInv /\ [Next]_vars => IInv'
  BY ThrottleStep, TypeStep, FailsStep, KeysInvStep DEF IInv
<1>3. QED
  BY <1>1, <1>2, PTL DEF Spec

(* Type correctness of what /security keeps: a code on file is one that    *)
(* was sent and has failures left, a rotation's key exists.                *)
THEOREM SecurityTypeCorrect == Spec => []TypeOK
<1>1. IInv => TypeOK
  BY DEF IInv
<1>2. QED
  BY <1>1, Inductive, PTL

(* CheckAndRecordAuthRequest never lets more than MaxAttempts requests     *)
(* through in a window, though it deletes rows by age and by volume: what  *)
(* it deletes is never what a later request is judged on.                  *)
THEOREM WindowHoldsCorrect == Spec => []WindowHolds
<1>1. IInv => WindowHolds
  BY DEF IInv, ThrottleInv
<1>2. QED
  BY <1>1, Inductive, PTL

(* securityMFAVerify compares no code with more wrong ones than the limit, *)
(* the other calls that hold it, and the lost counts allow, however many   *)
(* challenges, setups and verifications of the customer interleave.        *)
THEOREM GuessesBoundedCorrect == Spec => []GuessesBounded
<1>1. IInv => GuessesBounded
  <2> SUFFICES ASSUME IInv, NEW c \in Codes
               PROVE  wrong[c] <= MaxFails + (Cardinality(Handlers) - 1) + slips
    BY DEF GuessesBounded
  <2> DEFINE P == Pending(c)
             W == wrong[c]
             f == mfa.fails
             H == Cardinality(Handlers)
  <2>1. /\ W \in Nat /\ slips \in Nat /\ MaxFails \in Nat /\ codes \in Nat /\ c \in Nat
    BY AccountSecurityAssumption DEF IInv, TypeOK, Codes
  <2>2. CASE Handlers = {}
    <3>1. H = 0 /\ MaxFails >= 1
      BY <2>2, FS_EmptySet, AccountSecurityAssumption
    <3>2. P = {} /\ Cardinality(P) = 0
      BY <2>2, FS_EmptySet DEF Pending
    <3>3. OnFile(c) => W <= f + slips /\ f \in Nat /\ f <= MaxFails - 1
      BY <2>1, AccountSecurityAssumption
         DEF IInv, FailsCounted, OnFile, TypeOK, Row, Codes
    <3>4. ~OnFile(c) /\ c <= codes => W + 0 <= MaxFails + (H - 1) + slips
      BY <3>2 DEF IInv, FailsCounted
    <3>5. c > codes => W = 0
      BY DEF IInv, FailsCounted
    <3> HIDE DEF P, W, f, H
    <3>6. QED
      BY <2>1, <3>1, <3>3, <3>4, <3>5 DEF W, H
  <2>3. CASE Handlers # {}
    <3>1. PICK h \in Handlers : TRUE
      BY <2>3
    <3>2. P \in SUBSET Handlers
      BY DEF Pending
    <3>3. /\ Cardinality(P) \in Nat /\ H \in Nat /\ Cardinality(P \ {h}) \in Nat
          /\ Cardinality(P \ {h}) <= H - 1
      BY <3>1, <3>2, CallSetFacts
    <3>4. OnFile(c) => W <= f + slips /\ f \in Nat /\ f <= MaxFails - 1
      BY <2>1, AccountSecurityAssumption
         DEF IInv, FailsCounted, OnFile, TypeOK, Row, Codes
    <3>5. ~OnFile(c) /\ c <= codes =>
             W + Cardinality(P) <= MaxFails + (H - 1) + slips
      BY DEF IInv, FailsCounted
    <3>6. c > codes => W = 0
      BY DEF IInv, FailsCounted
    <3>7. MaxFails >= 1
      BY AccountSecurityAssumption
    <3> DEFINE C == Cardinality(P)
               D == Cardinality(P \ {h})
    <3> HIDE DEF P, W, f, H, C, D
    <3>8. C \in Nat /\ H \in Nat /\ D \in Nat /\ D <= H - 1
      BY <3>3 DEF C, D
    <3>9. ~OnFile(c) /\ c <= codes => W + C <= MaxFails + (H - 1) + slips
      BY <3>5 DEF C
    <3>10. W <= MaxFails + (H - 1) + slips
      BY <2>1, <3>4, <3>6, <3>7, <3>8, <3>9
    <3>11. QED
      BY <3>10 DEF W, H
  <2>4. QED
    BY <2>2, <2>3
<1>2. QED
  BY <1>1, Inductive, PTL

(* However securityAPIKeyRotate, revocation, creation and AnonymizeUserData *)
(* interleave, a key has at most one live successor, and none once its     *)
(* chain was revoked or the customer erased.                               *)
THEOREM KeysEndCorrect == Spec => []KeysEnd
<1>1. IInv => KeysEnd
  BY DEF IInv, KeysInv
<1>2. QED
  BY <1>1, Inductive, PTL
==============================================================================
