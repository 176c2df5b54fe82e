------------------------------ MODULE ModArith -----------------------------
(***************************************************************************)
(* Remainders, for the counters and ring indices that wrap around: those   *)
(* of kernel/pipe.c and of kernel/virtio_disk.c.                           *)
(***************************************************************************)
EXTENDS Integers, TLAPS

\* x % n is in range.
LEMMA ModRange ==
    ASSUME NEW n \in Nat \ {0}, NEW x \in Int
    PROVE  x % n \in 0..(n - 1)
  OBVIOUS

\* The remainder of n * q + r.
LEMMA ModUnique ==
    ASSUME NEW n \in Nat \ {0}, NEW q \in Int, NEW r \in 0..(n - 1)
    PROVE  (n * q + r) % n = r
  OBVIOUS

\* Every x has a quotient and a remainder.
LEMMA DivMod ==
    ASSUME NEW n \in Nat \ {0}, NEW x \in Int
    PROVE  \E q \in Int, r \in 0..(n - 1) : x % n = r /\ x = n * q + r
<1>1. PICK q \in Int : q = x \div n
  OBVIOUS
<1>2. PICK r \in 0..(n - 1) : r = x % n
  BY ModRange
<1>3. PICK m \in Int : m = n * q
  OBVIOUS
<1>4. x % n = x - n * q
  BY <1>1
<1>5. r = x - m
  BY <1>2, <1>3, <1>4
<1>6. x = m + r
  BY <1>5
<1>7. x = n * q + r
  BY <1>3, <1>6
<1> QED
  BY <1>2, <1>7

\* A multiple of n more or less does not change the remainder.
LEMMA ModShift ==
    ASSUME NEW n \in Nat \ {0}, NEW x \in Int, NEW k \in Int
    PROVE  (x + k * n) % n = x % n
<1>1. PICK q \in Int, r \in 0..(n - 1) : x % n = r /\ x = n * q + r
  BY DivMod
<1>2. PICK s \in Int : s = q + k
  OBVIOUS
<1>3. x + k * n = n * s + r
  BY <1>1, <1>2
<1>4. (n * s + r) % n = r
  BY ModUnique
<1> QED
  BY <1>1, <1>3, <1>4

\* Two numbers less than n apart have different remainders.
LEMMA ModApart ==
    ASSUME NEW n \in Nat \ {0}, NEW x \in Int, NEW d \in 1..(n - 1)
    PROVE  (x + d) % n # x % n
<1>1. PICK q \in Int, r \in 0..(n - 1) : x % n = r /\ x = n * q + r
  BY DivMod
<1>2. CASE r + d < n
  <2>1. PICK s \in 0..(n - 1) : s = r + d
    BY <1>2
  <2>2. x + d = n * q + s
    BY <1>1, <2>1
  <2>3. (n * q + s) % n = s
    BY ModUnique
  <2>4. (x + d) % n = s
    BY <2>2, <2>3
  <2> QED
    BY <1>1, <2>1, <2>4
<1>3. CASE r + d >= n
  <2>1. PICK s \in 0..(n - 1) : s = r + d - n
    BY <1>3
  <2>2. PICK t \in Int : t = q + 1
    OBVIOUS
  <2>3. x + d = n * t + s
    BY <1>1, <2>1, <2>2
  <2>4. (n * t + s) % n = s
    BY ModUnique
  <2>5. (x + d) % n = s
    BY <2>3, <2>4
  <2> QED
    BY <1>1, <2>1, <2>5
<1> QED
  BY <1>2, <1>3

\* The remainder of a difference of two counters.
LEMMA ModDiff ==
    ASSUME NEW n \in Nat \ {0}, NEW x \in (1 - n)..(n - 1)
    PROVE  x % n = IF x >= 0 THEN x ELSE x + n
<1>1. CASE x >= 0
  BY <1>1
<1>2. CASE x < 0
  BY <1>2
<1> QED
  BY <1>1, <1>2
============================================================================
