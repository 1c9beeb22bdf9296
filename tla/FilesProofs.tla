---------------------------- MODULE FilesProofs ----------------------------
(***************************************************************************)
(* Proofs about the files, for every width of the integers: what encode    *)
(* accepts, decode gives back (numbers, tags, lists, records); what frames *)
(* carry and where they lie; and what a segment and a log give back after  *)
(* they are damaged, for which the state keeps an invariant, FileInv.      *)
(***************************************************************************)
EXTENDS Files, SumProofs
LOCAL INSTANCE SequencesExt

-----------------------------------------------------------------------------
(* Numbers *)

Contents == Seq(Nat)

LEMMA PowType ==
  ASSUME NEW w \in Nat
  PROVE  Pow(w) \in Nat \ {0}
  <1> DEFINE s == [i \in 1..w |-> Base]
  <1>1. s \in [1..w -> Nat] /\ \A i \in 1..w : s[i] # 0
    BY CodecAssumption
  <1>2. Pow(w) = Product(s)
    BY DEF Pow
  <1> HIDE DEF s
  <1>3. PICK f \in [0..w -> Nat] :
            f[0] = 1 /\ (\A i \in 1..w : f[i] = f[i - 1] * s[i]) /\ Product(s) = f[w]
    BY <1>1, ProductIs
  <1>4. \A x, y \in Nat \ {0} : x * y \in Nat \ {0}
    OBVIOUS
  <1> DEFINE good == {i \in 0..w : f[i] \in Nat \ {0}}
  <1>5. 0 \in good
    BY <1>3
  <1>6. ASSUME NEW i \in 1..w, i - 1 \in good PROVE i \in good
    BY <1>1, <1>3, <1>4, <1>6
  <1> HIDE DEF good
  <1>7. \A i \in 0..w : i \in good
    BY <1>5, <1>6, UpToAll
  <1> QED
    BY <1>2, <1>3, <1>7 DEF good

LEMMA PowZero == Pow(0) = 1
  <1> DEFINE s == [i \in 1..0 |-> Base]
  <1>1. s \in [1..0 -> Nat] /\ Pow(0) = Product(s)
    BY DEF Pow
  <1> QED
    BY <1>1, ProductIs

LEMMA PowStep ==
  ASSUME NEW w \in Nat
  PROVE  Pow(w + 1) = Pow(w) * Base
  <1> DEFINE s == [i \in 1..w |-> Base]
             t == [i \in 1..(w + 1) |-> Base]
  <1>1. /\ s \in [1..w -> Nat] /\ \A i \in 1..w : s[i] = Base
        /\ t \in [1..(w + 1) -> Nat] /\ \A i \in 1..(w + 1) : t[i] = Base
    BY CodecAssumption
  <1>2. Pow(w) = Product(s) /\ Pow(w + 1) = Product(t)
    BY DEF Pow
  <1> HIDE DEF s, t
  <1>3. PICK f \in [0..w -> Nat] :
            f[0] = 1 /\ (\A i \in 1..w : f[i] = f[i - 1] * s[i]) /\ Product(s) = f[w]
    BY <1>1, ProductIs
  <1>4. PICK g \in [0..(w + 1) -> Nat] :
            /\ g[0] = 1 /\ (\A i \in 1..(w + 1) : g[i] = g[i - 1] * t[i])
            /\ Product(t) = g[w + 1]
    <2>1. w + 1 \in Nat
      OBVIOUS
    <2> QED
      BY <1>1, <2>1, ProductIs
  <1> DEFINE good == {i \in 0..w : f[i] = g[i]}
  <1>5. 0 \in good
    BY <1>3, <1>4
  <1>6. ASSUME NEW i \in 1..w, i - 1 \in good PROVE i \in good
    <2>1. i \in 1..(w + 1) /\ f[i - 1] = g[i - 1]
      BY <1>6
    <2>2. f[i] = f[i - 1] * Base /\ g[i] = g[i - 1] * Base
      BY <1>1, <1>3, <1>4, <2>1
    <2> QED
      BY <2>1, <2>2
  <1> HIDE DEF good
  <1>7. \A i \in 0..w : i \in good
    BY <1>5, <1>6, UpToAll
  <1>8. f[w] = g[w]
    BY <1>7 DEF good
  <1>9. g[w + 1] = g[w] * Base
    <2>1. w + 1 \in 1..(w + 1) /\ (w + 1) - 1 = w
      OBVIOUS
    <2> QED
      BY <1>1, <1>4, <2>1
  <1> QED
    BY <1>2, <1>3, <1>4, <1>8, <1>9

(* The remainder by a product, from the digit between. *)
LEMMA MultipleAbove ==
  ASSUME NEW q \in Nat, NEW c \in Nat, NEW m \in Nat, q < c
  PROVE  q * m + m <= c * m
  <1>1. PICK d \in Nat : c = q + 1 + d
    <2>1. c - q - 1 \in Nat /\ c = q + 1 + (c - q - 1)
      OBVIOUS
    <2> QED
      BY <2>1
  <1>2. c * m = q * m + m + d * m
    BY <1>1
  <1>3. d * m \in Nat /\ q * m \in Nat
    OBVIOUS
  <1> QED
    BY <1>2, <1>3

LEMMA RemainderUnique ==
  ASSUME NEW k \in Nat, NEW m \in Nat \ {0}, NEW c \in Nat, NEW y \in 0..(m - 1), k = c * m + y
  PROVE  k % m = y /\ k \div m = c
  <1> DEFINE q == k \div m
             x == k % m
  <1>1. q \in Nat /\ x \in 0..(m - 1) /\ k = q * m + x
    OBVIOUS
  <1> HIDE DEF q, x
  <1>2. q * m \in Nat /\ c * m \in Nat
    BY <1>1
  <1>3. ~(q < c)
    <2>1. q < c => q * m + m <= c * m
      BY <1>1, MultipleAbove
    <2> QED
      BY <1>1, <1>2, <2>1
  <1>4. ~(c < q)
    <2>1. c < q => c * m + m <= q * m
      BY <1>1, MultipleAbove
    <2> QED
      BY <1>1, <1>2, <2>1
  <1>5. q = c
    BY <1>1, <1>3, <1>4
  <1>6. x = y
    BY <1>1, <1>2, <1>5
  <1> QED
    BY <1>5, <1>6 DEF q, x

LEMMA RemainderByDigit ==
  ASSUME NEW k \in Nat, NEW p \in Nat \ {0}, NEW d \in Nat \ {0}
  PROVE  k % (p * d) = (k % p) + ((k \div p) % d) * p
  <1> DEFINE a == k \div p
             r == k % p
             c == a \div d
             e == a % d
  <1>1. a \in Nat /\ r \in 0..(p - 1) /\ k = a * p + r
    OBVIOUS
  <1> HIDE DEF a, r
  <1>2. c \in Nat /\ e \in 0..(d - 1) /\ a = c * d + e
    BY <1>1
  <1> HIDE DEF c, e
  <1>3. a * p = c * (p * d) + e * p
    BY <1>2
  <1>4. /\ p * d \in Nat \ {0} /\ e * p \in Nat /\ c * (p * d) \in Nat
        /\ e * p + p <= d * p /\ d * p = p * d
    <2>1. p * d \in Nat \ {0}
      OBVIOUS
    <2>2. e \in Nat /\ e < d
      BY <1>2
    <2>3. e * p + p <= d * p
      BY <2>2, MultipleAbove
    <2> QED
      BY <1>2, <2>1, <2>2, <2>3
  <1>5. k = c * (p * d) + (e * p + r) /\ e * p + r \in 0..(p * d - 1)
    BY <1>1, <1>3, <1>4
  <1>6. k % (p * d) = e * p + r
    BY <1>2, <1>4, <1>5, RemainderUnique
  <1> QED
    BY <1>1, <1>4, <1>6 DEF a, r, e

(* The digits of a number that fits are the number. *)
LEMMA NumberIs ==
  ASSUME NEW w \in Nat, NEW k \in 0..MaxOf(w)
  PROVE  /\ LE(k, w) \in Contents /\ Len(LE(k, w)) = w
         /\ FromLE(LE(k, w)) = k
  <1> DEFINE digit(i) == (k \div Pow(i - 1)) % Base
             t == [i \in 1..w |-> LE(k, w)[i] * Pow(i - 1)]
  <1>1. k \in Nat /\ k < Pow(w) /\ Base \in Nat \ {0}
    BY PowType, CodecAssumption DEF MaxOf
  <1>2. ASSUME NEW i \in 1..w PROVE digit(i) \in Nat /\ Pow(i - 1) \in Nat \ {0}
    <2>1. Pow(i - 1) \in Nat \ {0}
      BY PowType
    <2>2. k \div Pow(i - 1) \in Nat
      BY <1>1, <2>1
    <2> QED
      BY <1>1, <2>1, <2>2
  <1>3. LE(k, w) \in [1..w -> Nat] /\ \A i \in 1..w : LE(k, w)[i] = digit(i)
    BY <1>2 DEF LE
  <1>4. LE(k, w) \in Contents /\ Len(LE(k, w)) = w
    BY <1>2 DEF LE, Contents
  <1>5. t \in [1..w -> Nat] /\ \A i \in 1..w : t[i] = digit(i) * Pow(i - 1)
    BY <1>2, <1>3
  <1>6. FromLE(LE(k, w)) = Sum(t)
    BY <1>3 DEF FromLE
  <1> HIDE DEF t, digit
  <1>7. PICK f \in [0..w -> Nat] :
            f[0] = 0 /\ (\A i \in 1..w : f[i] = f[i - 1] + t[i]) /\ Sum(t) = f[w]
    BY <1>5, SumIs
  <1> DEFINE good == {i \in 0..w : f[i] = k % Pow(i)}
  <1>8. 0 \in good
    BY <1>1, <1>7, PowZero
  <1>9. ASSUME NEW i \in 1..w, i - 1 \in good PROVE i \in good
    <2>1. f[i] = (k % Pow(i - 1)) + ((k \div Pow(i - 1)) % Base) * Pow(i - 1)
      BY <1>5, <1>7, <1>9 DEF digit
    <2>2. Pow(i) = Pow(i - 1) * Base
      <3>1. i - 1 \in Nat /\ (i - 1) + 1 = i
        OBVIOUS
      <3> QED
        BY <3>1, PowStep
    <2>3. k % (Pow(i - 1) * Base) = (k % Pow(i - 1)) + ((k \div Pow(i - 1)) % Base) * Pow(i - 1)
      BY <1>1, <1>2, RemainderByDigit
    <2> QED
      BY <2>1, <2>2, <2>3
  <1> HIDE DEF good
  <1>10. \A i \in 0..w : i \in good
    BY <1>8, <1>9, UpToAll
  <1>11. f[w] = k % Pow(w)
    BY <1>10 DEF good
  <1>12. k % Pow(w) = k
    <2> DEFINE m == Pow(w)
    <2>1. m \in Nat \ {0} /\ k < m
      BY <1>1, PowType
    <2> HIDE DEF m
    <2>2. k = 0 * m + k /\ k \in 0..(m - 1)
      BY <1>1, <2>1
    <2>3. k % m = k
      BY <1>1, <2>1, <2>2, RemainderUnique
    <2> QED
      BY <2>3 DEF m
  <1> QED
    BY <1>6, <1>7, <1>11, <1>12, <1>4

LEMMA NumberChanged ==
  ASSUME NEW w \in Nat, NEW s \in [1..w -> Nat], NEW t \in [1..w -> Nat], NEW k \in 1..w,
         s[k] # t[k], \A i \in 1..w : i # k => s[i] = t[i]
  PROVE  FromLE(s) # FromLE(t)
  <1> DEFINE u(r) == [i \in 1..w |-> r[i] * Pow(i - 1)]
  <1>1. ASSUME NEW i \in 1..w PROVE Pow(i - 1) \in Nat \ {0}
    <2>1. i - 1 \in Nat
      OBVIOUS
    <2> QED
      BY <2>1, PowType
  <1>2. u(s) \in [1..w -> Nat] /\ u(t) \in [1..w -> Nat]
    <2>1. \A x, y \in Nat : x * y \in Nat
      OBVIOUS
    <2> QED
      BY <1>1, <2>1
  <1>3. FromLE(s) = Sum(u(s)) /\ FromLE(t) = Sum(u(t))
    BY DEF FromLE
  <1>4. \A x, y \in Nat, z \in Nat \ {0} : x < y => x * z < y * z
    <2> TAKE x, y \in Nat, z \in Nat \ {0}
    <2> HAVE x < y
    <2>1. x * z + z <= y * z
      BY MultipleAbove
    <2>2. x * z \in Nat /\ y * z \in Nat
      OBVIOUS
    <2> QED
      BY <2>1, <2>2
  <1>5. \A i \in 1..w : u(s)[i] = s[i] * Pow(i - 1) /\ u(t)[i] = t[i] * Pow(i - 1)
    OBVIOUS
  <1>6. \A i \in 1..w : i # k => u(s)[i] = u(t)[i]
    OBVIOUS
  <1>7. s[k] \in Nat /\ t[k] \in Nat /\ Pow(k - 1) \in Nat \ {0}
    BY <1>1
  <1>8. \A i \in 1..w : u(s)[i] \in Nat /\ u(t)[i] \in Nat
    <2> HIDE DEF u
    <2> QED
      BY <1>2
  <1>9. Sum(u(s)) \in Nat /\ Sum(u(t)) \in Nat
    <2> HIDE DEF u
    <2> QED
      BY <1>2, SumType
  <1>10. CASE s[k] < t[k]
    <2>1. u(s)[k] < u(t)[k]
      BY <1>4, <1>5, <1>7, <1>10
    <2> HIDE DEF u
    <2>2. \A i \in 1..w : u(s)[i] <= u(t)[i]
      <3> TAKE i \in 1..w
      <3>1. u(s)[i] \in Nat /\ u(t)[i] \in Nat
        BY <1>8
      <3>2. CASE i = k
        BY <2>1, <3>1, <3>2
      <3>3. CASE i # k
        BY <1>6, <3>1, <3>3
      <3> QED
        BY <3>2, <3>3
    <2>3. Sum(u(s)) < Sum(u(t))
      BY <1>2, <2>1, <2>2, SumLess
    <2> QED
      BY <1>3, <1>9, <2>3
  <1>11. CASE t[k] < s[k]
    <2>1. u(t)[k] < u(s)[k]
      BY <1>4, <1>5, <1>7, <1>11
    <2> HIDE DEF u
    <2>2. \A i \in 1..w : u(t)[i] <= u(s)[i]
      <3> TAKE i \in 1..w
      <3>1. u(t)[i] \in Nat /\ u(s)[i] \in Nat
        BY <1>8
      <3>2. CASE i = k
        BY <2>1, <3>1, <3>2
      <3>3. CASE i # k
        BY <1>6, <3>1, <3>3
      <3> QED
        BY <3>2, <3>3
    <2>3. Sum(u(t)) < Sum(u(s))
      BY <1>2, <2>1, <2>2, SumLess
    <2> QED
      BY <1>3, <1>9, <2>3
  <1> QED
    BY <1>7, <1>10, <1>11

LEMMA MaxLarge ==
  ASSUME NEW w \in Nat \ {0}
  PROVE  MaxOf(w) \in Nat /\ MaxOf(w) >= 7
  <1> DEFINE x == Pow(w - 1)
  <1>1. w - 1 \in Nat /\ (w - 1) + 1 = w /\ Base \in Nat /\ Base > 7
    BY CodecAssumption
  <1>2. x \in Nat \ {0} /\ Pow(w) = x * Base
    <2>1. Pow((w - 1) + 1) = Pow(w - 1) * Base
      BY <1>1, PowStep
    <2> QED
      BY <1>1, <2>1, PowType
  <1> HIDE DEF x
  <1>3. x * Base \in Nat
    BY <1>1, <1>2
  <1>4. 0 * Base + Base <= x * Base
    BY <1>1, <1>2, MultipleAbove
  <1> QED
    BY <1>1, <1>2, <1>3, <1>4 DEF MaxOf

(* The codes for none are the last numbers of their widths. *)
LEMMA NoneCodes ==
  /\ W16 \in Nat /\ W32 \in Nat /\ MaxOf(W16) \in Nat /\ MaxOf(W32) \in Nat /\ MaxOf(W32) > 2
  /\ NoText = MaxOf(W32) /\ NoNorm = MaxOf(W32) /\ Infinity = MaxOf(W32) - 1
  <1>1. W16 \in Nat \ {0} /\ W32 \in Nat \ {0}
    BY CodecAssumption
  <1>2. MaxOf(W16) \in Nat /\ MaxOf(W32) \in Nat /\ MaxOf(W32) >= 7
    BY <1>1, MaxLarge
  <1> QED
    BY <1>1, <1>2 DEF NoText, NoNorm, Infinity

-----------------------------------------------------------------------------
(* Reading: bytes that agree with the encoding of a value as far as they   *)
(* go, and the cursor behind it, if they go so far.                        *)
Reads(b, p, e) == \A i \in 1..Len(e) : p + i <= Len(b) => b[p + i] = e[i]
Till(b, p, v) == IF p <= Len(b) THEN Cursor(p, v) ELSE Broken

LEMMA TillValue ==
  ASSUME NEW b, NEW p, NEW v, NEW u
  PROVE  Value(Till(b, p, v), u) = Till(b, p, u)
  BY DEF Value, Till, Cursor, Broken

LEMMA ReadsConcat ==
  ASSUME NEW b \in Contents, NEW p \in Nat, NEW e \in Contents, NEW f \in Contents,
         Reads(b, p, e \o f)
  PROVE  /\ Reads(b, p, e) /\ Reads(b, p + Len(e), f)
         /\ e \o f \in Contents /\ Len(e \o f) = Len(e) + Len(f)
  <1>1. /\ e \o f \in Contents /\ Len(e \o f) = Len(e) + Len(f) /\ Len(e) \in Nat /\ Len(f) \in Nat
        /\ \A i \in 1..Len(e) : (e \o f)[i] = e[i]
        /\ \A i \in 1..Len(f) : (e \o f)[Len(e) + i] = f[i]
    BY DEF Contents
  <1>2. Reads(b, p, e)
    <2> SUFFICES ASSUME NEW i \in 1..Len(e), p + i <= Len(b)
                 PROVE  b[p + i] = e[i]
      BY DEF Reads
    <2>1. i \in 1..Len(e \o f)
      BY <1>1
    <2>2. b[p + i] = (e \o f)[i]
      BY <2>1 DEF Reads
    <2> QED
      BY <1>1, <2>2
  <1>3. Reads(b, p + Len(e), f)
    <2> SUFFICES ASSUME NEW i \in 1..Len(f), p + Len(e) + i <= Len(b)
                 PROVE  b[p + Len(e) + i] = f[i]
      BY DEF Reads
    <2>1. Len(e) + i \in 1..Len(e \o f) /\ p + (Len(e) + i) = p + Len(e) + i
      BY <1>1
    <2>2. b[p + (Len(e) + i)] = (e \o f)[Len(e) + i]
      BY <2>1 DEF Reads
    <2> QED
      BY <1>1, <2>1, <2>2
  <1> QED
    BY <1>1, <1>2, <1>3

LEMMA TakeSliceIs ==
  ASSUME NEW b \in Contents, NEW p \in Nat, NEW y, NEW e \in Contents, Reads(b, p, e)
  PROVE  TakeSlice(b, Till(b, p, y), Len(e)) = Till(b, p + Len(e), e)
  <1>1. Len(e) \in Nat /\ Len(b) \in Nat
    BY DEF Contents
  <1>2. CASE p + Len(e) <= Len(b)
    <2>1. p <= Len(b)
      BY <1>1, <1>2
    <2> DEFINE m == Len(e)
               u == SubSeq(b, p + 1, p + m)
    <2>2. b \in Seq(Nat) /\ e \in [1..m -> Nat]
      BY <1>1 DEF Contents
    <2>3. u \in Seq(Nat) /\ Len(u) = m /\ \A i \in 1..m : u[i] = b[p + i]
      BY <1>1, <1>2, <2>2
    <2>4. \A i \in 1..m : b[p + i] = e[i]
      BY <1>1, <1>2 DEF Reads
    <2> HIDE DEF u, m
    <2>5. u = e
      <3>1. u \in [1..m -> Nat]
        BY <2>3
      <3>2. \A i \in 1..m : u[i] = e[i]
        BY <2>3, <2>4
      <3>3. e \in [1..m -> Nat]
        BY <2>2
      <3>4. u = [i \in 1..m |-> u[i]]
        BY <3>1
      <3>5. e = [i \in 1..m |-> e[i]]
        BY <3>3
      <3>6. u = [i \in 1..m |-> e[i]]
        BY <3>2, <3>4
      <3> QED
        BY <3>5, <3>6
    <2> QED
      BY <1>2, <2>1, <2>5 DEF TakeSlice, Till, Cursor, m, u
  <1>3. CASE ~(p + Len(e) <= Len(b))
    BY <1>3 DEF TakeSlice, Till, Cursor, Broken
  <1> QED
    BY <1>2, <1>3

LEMMA UIntIs ==
  ASSUME NEW b \in Contents, NEW p \in Nat, NEW y, NEW w \in Nat, NEW k \in 0..MaxOf(w),
         Reads(b, p, LE(k, w))
  PROVE  TakeUInt(b, Till(b, p, y), w) = Till(b, p + w, k)
  <1>1. LE(k, w) \in Contents /\ Len(LE(k, w)) = w /\ FromLE(LE(k, w)) = k
    BY NumberIs
  <1>2. TakeSlice(b, Till(b, p, y), w) = Till(b, p + w, LE(k, w))
    <2> DEFINE e == LE(k, w)
    <2>1. e \in Contents /\ Len(e) = w /\ Reads(b, p, e)
      BY <1>1
    <2> HIDE DEF e
    <2>2. TakeSlice(b, Till(b, p, y), Len(e)) = Till(b, p + Len(e), e)
      BY <2>1, TakeSliceIs
    <2> QED
      BY <2>1, <2>2 DEF e
  <1>3. Number(Till(b, p + w, LE(k, w))) = Till(b, p + w, FromLE(LE(k, w)))
    BY DEF Number, Value, Till, Cursor, Broken
  <1> QED
    BY <1>1, <1>2, <1>3 DEF TakeUInt

(* A text behind its length, and the strings with a length of two bytes.   *)
LEMMA TextAtIs ==
  ASSUME NEW b \in Contents, NEW p \in Nat, NEW e \in Contents, Reads(b, p, e)
  PROVE  TextAt(b, Till(b, p, Len(e))) = Till(b, p + Len(e), e)
  <1>1. CASE p <= Len(b)
    <2>1. Till(b, p, Len(e)).v = Len(e)
      BY <1>1 DEF Till, Cursor
    <2> QED
      BY <2>1, TakeSliceIs DEF TextAt
  <1>2. CASE ~(p <= Len(b))
    <2>1. ~(p + Len(e) <= Len(b)) /\ Len(e) \in Nat
      BY <1>2
    <2> QED
      BY <1>2, <2>1 DEF Till, TextAt, TakeSlice, Broken
  <1> QED
    BY <1>1, <1>2

Strings(w) == {s \in Contents : Len(s) \in 0..MaxOf(w)}

LEMMA CountedType ==
  ASSUME NEW s \in Strings(W16)
  PROVE  Counted(s) \in Contents
  <1>1. s \in Contents /\ Len(s) \in 0..MaxOf(W16) /\ W16 \in Nat
    BY CodecAssumption DEF Strings
  <1>2. LE(Len(s), W16) \in Contents
    BY <1>1, NumberIs
  <1> QED
    BY <1>1, <1>2 DEF Counted, Contents

LEMMA CountedIs ==
  ASSUME NEW b \in Contents, NEW p \in Nat, NEW y, NEW s \in Strings(W16), Reads(b, p, Counted(s))
  PROVE  TakeCounted(b, Till(b, p, y)) = Till(b, p + Len(Counted(s)), s)
  <1> DEFINE k == Len(s)
  <1>1. s \in Contents /\ k \in 0..MaxOf(W16) /\ W16 \in Nat
    BY CodecAssumption DEF Strings
  <1>2. LE(k, W16) \in Contents /\ Len(LE(k, W16)) = W16
    BY <1>1, NumberIs
  <1>3. Reads(b, p, LE(k, W16) \o s) /\ Counted(s) = LE(k, W16) \o s
    BY DEF Counted
  <1> HIDE DEF k
  <1>4. /\ Reads(b, p, LE(k, W16)) /\ Reads(b, p + W16, s)
        /\ LE(k, W16) \o s \in Contents /\ Len(LE(k, W16) \o s) = W16 + Len(s)
    <2> DEFINE e == LE(k, W16)
    <2>1. e \in Contents /\ Len(e) = W16 /\ Reads(b, p, e \o s)
      BY <1>2, <1>3
    <2> HIDE DEF e
    <2>2. /\ Reads(b, p, e) /\ Reads(b, p + Len(e), s)
          /\ e \o s \in Contents /\ Len(e \o s) = Len(e) + Len(s)
      BY <1>1, <2>1, ReadsConcat
    <2> QED
      BY <2>1, <2>2 DEF e
  <1>5. TakeUInt(b, Till(b, p, y), W16) = Till(b, p + W16, k)
    BY <1>1, <1>4, UIntIs
  <1>6. TextAt(b, Till(b, p + W16, k)) = Till(b, p + W16 + Len(s), s)
    <2>1. p + W16 \in Nat
      BY <1>1
    <2> QED
      BY <1>1, <1>4, <2>1, TextAtIs DEF k
  <1>7. p + W16 + Len(s) = p + Len(Counted(s))
    BY <1>1, <1>3, <1>4
  <1> QED
    BY <1>3, <1>4, <1>5, <1>6, <1>7 DEF TakeCounted

-----------------------------------------------------------------------------
(* Tags *)

LEMMA ByteIs ==
  ASSUME NEW b \in Contents, NEW p \in Nat, NEW y, NEW k \in 0..7, Reads(b, p, <<k>>)
  PROVE  /\ <<k>> \in Contents /\ Len(<<k>>) = 1
         /\ TakeUInt(b, Till(b, p, y), 1) = Till(b, p + 1, k)
  <1>1. <<k>> \in Contents /\ Len(<<k>>) = 1
    BY DEF Contents
  <1>2. Pow(0) = 1 /\ Pow(1) = Base
    <2>1. 0 \in Nat /\ 0 + 1 = 1
      OBVIOUS
    <2>2. Pow(1) = Pow(0) * Base
      BY <2>1, PowStep
    <2> QED
      BY <2>2, PowZero, CodecAssumption
  <1>3. k \in 0..MaxOf(1)
    BY <1>2, CodecAssumption DEF MaxOf
  <1>4. LE(k, 1) = <<k>>
    <2>1. (k \div 1) % Base = k
      BY CodecAssumption
    <2>2. LE(k, 1) = [i \in 1..1 |-> k]
      BY <1>2, <2>1 DEF LE
    <2> QED
      BY <2>2
  <1> QED
    BY <1>1, <1>3, <1>4, UIntIs

LEMMA LifeIs ==
  ASSUME NEW b, NEW p, NEW name \in DOMAIN LifeCodes
  PROVE  /\ LifeCodes[name] \in 0..7
         /\ KindOf(Till(b, p, LifeCodes[name]), LifeCodes) = Till(b, p, name)
  <1>1. LifeCodes[name] \in 0..7 /\ WithCode(LifeCodes, LifeCodes[name]) = {name}
    BY DEF LifeCodes, WithCode
  <1>2. (CHOOSE x \in {name} : TRUE) = name
    OBVIOUS
  <1> QED
    BY <1>1, <1>2 DEF KindOf, Value, Till, Cursor, Broken

LEMMA IdKindIs ==
  ASSUME NEW b, NEW p, NEW name \in DOMAIN IdCodes
  PROVE  /\ IdCodes[name] \in 0..7
         /\ KindOf(Till(b, p, IdCodes[name]), IdCodes) = Till(b, p, name)
  <1>1. IdCodes[name] \in 0..7 /\ WithCode(IdCodes, IdCodes[name]) = {name}
    BY DEF IdCodes, WithCode
  <1>2. (CHOOSE x \in {name} : TRUE) = name
    OBVIOUS
  <1> QED
    BY <1>1, <1>2 DEF KindOf, Value, Till, Cursor, Broken

LEMMA ValueKindIs ==
  ASSUME NEW b, NEW p, NEW name \in DOMAIN ValueCodes
  PROVE  /\ ValueCodes[name] \in 0..7
         /\ KindOf(Till(b, p, ValueCodes[name]), ValueCodes) = Till(b, p, name)
  <1>1. ValueCodes[name] \in 0..7 /\ WithCode(ValueCodes, ValueCodes[name]) = {name}
    BY DEF ValueCodes, WithCode
  <1>2. (CHOOSE x \in {name} : TRUE) = name
    OBVIOUS
  <1> QED
    BY <1>1, <1>2 DEF KindOf, Value, Till, Cursor, Broken

LEMMA ReadsTagged ==
  ASSUME NEW b \in Contents, NEW p \in Nat, NEW k \in Nat, NEW f \in Contents,
         Reads(b, p, <<k>> \o f)
  PROVE  /\ Reads(b, p, <<k>>) /\ Reads(b, p + 1, f)
         /\ <<k>> \o f \in Contents /\ Len(<<k>> \o f) = 1 + Len(f)
  <1>1. \A e \in Contents : Reads(b, p, e \o f) =>
            /\ Reads(b, p, e) /\ Reads(b, p + Len(e), f)
            /\ e \o f \in Contents /\ Len(e \o f) = Len(e) + Len(f)
    BY ReadsConcat
  <1>2. <<k>> \in Contents /\ Len(<<k>>) = 1
    BY DEF Contents
  <1> QED
    BY <1>1, <1>2

LEMMA KindedIs ==
  ASSUME NEW b, NEW p, NEW tag, NEW v
  PROVE  Kinded(tag, Till(b, p, v)) = Till(b, p, [kind |-> tag.v, v |-> v])
  <1>1. CASE p <= Len(b)
    <2>1. Till(b, p, v) = Cursor(p, v)
      BY <1>1 DEF Till
    <2>2. Cursor(p, v).ok /\ Cursor(p, v).v = v /\ Cursor(p, v).at = p
      BY DEF Cursor
    <2> QED
      BY <1>1, <2>1, <2>2 DEF Kinded, Value, Till
  <1>2. CASE ~(p <= Len(b))
    <2>1. Till(b, p, v) = Broken /\ ~Broken.ok
      BY <1>2 DEF Till, Broken
    <2> QED
      BY <1>2, <2>1 DEF Kinded, Value, Till
  <1> QED
    BY <1>1, <1>2

(* Ids *)
FittingIds ==
    [kind : {"Int"}, v : 0..MaxOf(W64)] \cup [kind : {"Str"}, v : Strings(W16)]

LEMMA IdIs ==
  ASSUME NEW b \in Contents, NEW p \in Nat, NEW y, NEW id \in FittingIds,
         Reads(b, p, EncodeId(id))
  PROVE  DecodeId(b, Till(b, p, y)) = Till(b, p + Len(EncodeId(id)), id)
  <1> DEFINE code == IdCodes[id.kind]
             body == IF id.kind = "Int" THEN LE(id.v, W64) ELSE Counted(id.v)
             tag == Till(b, p + 1, id.kind)
             got == IF id.kind = "Int" THEN TakeUInt(b, tag, W64) ELSE TakeCounted(b, tag)
  <1>1. /\ id = [kind |-> id.kind, v |-> id.v] /\ id.kind \in DOMAIN IdCodes
        /\ id.kind = "Int" => id.v \in 0..MaxOf(W64)
        /\ id.kind # "Int" => id.v \in Strings(W16)
    BY DEF FittingIds, IdCodes
  <1>2. EncodeId(id) = <<code>> \o body
    BY DEF EncodeId
  <1>3. code \in 0..7 /\ KindOf(Till(b, p + 1, code), IdCodes) = tag
    BY <1>1, IdKindIs
  <1>4. W64 \in Nat /\ p + 1 \in Nat
    BY CodecAssumption
  <1> HIDE DEF code
  <1>5. <<code>> \in Contents /\ Len(<<code>>) = 1
    BY <1>3 DEF Contents
  <1>6. body \in Contents
    <2>1. CASE id.kind = "Int"
      BY <1>1, <1>4, <2>1, NumberIs
    <2>2. CASE id.kind # "Int"
      BY <1>1, <2>2, CountedType
    <2> QED
      BY <2>1, <2>2
  <1> HIDE DEF body, tag
  <1>7. /\ Reads(b, p, <<code>>) /\ Reads(b, p + 1, body)
        /\ Len(EncodeId(id)) = 1 + Len(body)
    <2>1. Reads(b, p, <<code>> \o body) /\ code \in Nat
      BY <1>2, <1>3
    <2> QED
      BY <1>2, <1>6, <2>1, ReadsTagged
  <1>8. DecodeId(b, Till(b, p, y)) = IdOfKind(b, tag)
    <2>1. TakeUInt(b, Till(b, p, y), 1) = Till(b, p + 1, code)
      BY <1>3, <1>7, ByteIs
    <2> QED
      BY <1>3, <2>1 DEF DecodeId
  <1>9. got = Till(b, p + 1 + Len(body), id.v)
    <2>1. CASE id.kind = "Int"
      <3>1. Reads(b, p + 1, LE(id.v, W64)) /\ Len(body) = W64
        BY <1>1, <1>4, <1>7, <2>1, NumberIs DEF body
      <3> QED
        BY <1>1, <1>4, <2>1, <3>1, UIntIs DEF tag
    <2>2. CASE id.kind # "Int"
      <3>1. Reads(b, p + 1, Counted(id.v)) /\ body = Counted(id.v)
        BY <1>7, <2>2 DEF body
      <3> QED
        BY <1>1, <1>4, <2>2, <3>1, CountedIs DEF tag
    <2> QED
      BY <2>1, <2>2
  <1>10. Len(body) \in Nat /\ Len(b) \in Nat
    BY <1>6 DEF Contents
  <1>11. IdOfKind(b, tag) = Till(b, p + 1 + Len(body), id)
    <2>1. CASE p + 1 <= Len(b)
      <3>1. tag.ok /\ tag.v = id.kind
        BY <2>1 DEF tag, Till, Cursor
      <3>2. IdOfKind(b, tag) = Kinded(tag, got)
        BY <3>1 DEF IdOfKind
      <3> HIDE DEF got
      <3>3. Kinded(tag, got) = Till(b, p + 1 + Len(body), [kind |-> tag.v, v |-> id.v])
        BY <1>9, KindedIs
      <3> QED
        BY <1>1, <3>1, <3>2, <3>3
    <2>2. CASE ~(p + 1 <= Len(b))
      <3>1. ~tag.ok /\ ~(p + 1 + Len(body) <= Len(b))
        BY <1>10, <2>2 DEF tag, Till, Broken
      <3> QED
        BY <3>1 DEF IdOfKind, Till
    <2> QED
      BY <2>1, <2>2
  <1>12. p + 1 + Len(body) = p + Len(EncodeId(id))
    BY <1>7, <1>10
  <1> QED
    BY <1>7, <1>8, <1>11, <1>12

(* Metadata values *)
FittingValues ==
    [kind : {"Int", "Float"}, v : 0..MaxOf(W64)] \cup [kind : {"Bool"}, v : {0, 1}]
        \cup [kind : Bytestrings, v : Strings(W16)]

LEMMA TruthIs ==
  ASSUME NEW b, NEW p, NEW v \in {0, 1}
  PROVE  Truth(Till(b, p, v)) = Till(b, p, v)
  <1>1. (IF v # 0 THEN 1 ELSE 0) = v
    OBVIOUS
  <1>2. CASE p <= Len(b)
    BY <1>1, <1>2 DEF Truth, Value, Till, Cursor
  <1>3. CASE ~(p <= Len(b))
    BY <1>3 DEF Truth, Value, Till, Broken
  <1> QED
    BY <1>2, <1>3

LEMMA ValueIs ==
  ASSUME NEW b \in Contents, NEW p \in Nat, NEW y, NEW x \in FittingValues,
         Reads(b, p, EncodeValue(x))
  PROVE  DecodeValue(b, Till(b, p, y)) = Till(b, p + Len(EncodeValue(x)), x)
  <1> DEFINE code == ValueCodes[x.kind]
             body == CASE x.kind \in Bytestrings -> Counted(x.v)
                       [] x.kind = "Bool" -> <<x.v>>
                       [] OTHER -> LE(x.v, W64)
             tag == Till(b, p + 1, x.kind)
             got == CASE x.kind \in Bytestrings -> TakeCounted(b, tag)
                      [] x.kind = "Bool" -> Truth(TakeUInt(b, tag, 1))
                      [] OTHER -> TakeUInt(b, tag, W64)
  <1>1. /\ x = [kind |-> x.kind, v |-> x.v] /\ x.kind \in DOMAIN ValueCodes
        /\ x.kind \in Bytestrings => x.kind # "Bool" /\ x.v \in Strings(W16)
        /\ x.kind = "Bool" => x.v \in {0, 1}
        /\ x.kind \notin Bytestrings /\ x.kind # "Bool" => x.v \in 0..MaxOf(W64)
    BY DEF FittingValues, ValueCodes, Bytestrings
  <1>2. EncodeValue(x) = <<code>> \o body
    BY DEF EncodeValue
  <1>3. code \in 0..7 /\ KindOf(Till(b, p + 1, code), ValueCodes) = tag
    BY <1>1, ValueKindIs
  <1>4. W64 \in Nat /\ p + 1 \in Nat
    BY CodecAssumption
  <1> HIDE DEF code
  <1>5. /\ x.kind \in Bytestrings => body = Counted(x.v) /\ got = TakeCounted(b, tag)
        /\ x.kind = "Bool" => body = <<x.v>> /\ got = Truth(TakeUInt(b, tag, 1))
        /\ x.kind \notin Bytestrings /\ x.kind # "Bool" =>
              body = LE(x.v, W64) /\ got = TakeUInt(b, tag, W64)
    BY <1>1
  <1> HIDE DEF body, got
  <1>6. body \in Contents
    <2>1. CASE x.kind \in Bytestrings
      BY <1>1, <1>5, <2>1, CountedType
    <2>2. CASE x.kind = "Bool"
      <3>1. x.v \in Nat
        BY <1>1, <2>2
      <3>2. <<x.v>> \in Contents
        BY <3>1 DEF Contents
      <3> QED
        BY <1>5, <2>2, <3>2
    <2>3. CASE x.kind \notin Bytestrings /\ x.kind # "Bool"
      BY <1>1, <1>4, <1>5, <2>3, NumberIs
    <2> QED
      BY <2>1, <2>2, <2>3
  <1> HIDE DEF tag
  <1>7. /\ Reads(b, p, <<code>>) /\ Reads(b, p + 1, body)
        /\ Len(EncodeValue(x)) = 1 + Len(body)
    <2>1. Reads(b, p, <<code>> \o body) /\ code \in Nat
      BY <1>2, <1>3
    <2> QED
      BY <1>2, <1>6, <2>1, ReadsTagged
  <1>8. DecodeValue(b, Till(b, p, y)) = ValueOfKind(b, tag)
    <2>1. TakeUInt(b, Till(b, p, y), 1) = Till(b, p + 1, code)
      BY <1>3, <1>7, ByteIs
    <2> QED
      BY <1>3, <2>1 DEF DecodeValue
  <1>9. got = Till(b, p + 1 + Len(body), x.v)
    <2>1. CASE x.kind \in Bytestrings
      BY <1>1, <1>4, <1>5, <1>7, <2>1, CountedIs DEF tag
    <2>2. CASE x.kind = "Bool"
      <3>1. x.v \in 0..7 /\ Reads(b, p + 1, <<x.v>>) /\ body = <<x.v>>
        BY <1>1, <1>5, <1>7, <2>2
      <3>2. TakeUInt(b, tag, 1) = Till(b, p + 1 + 1, x.v) /\ Len(body) = 1
        BY <1>4, <3>1, ByteIs DEF tag
      <3> QED
        BY <1>1, <1>5, <2>2, <3>2, TruthIs
    <2>3. CASE x.kind \notin Bytestrings /\ x.kind # "Bool"
      <3>1. Reads(b, p + 1, LE(x.v, W64)) /\ Len(body) = W64
        BY <1>1, <1>4, <1>5, <1>7, <2>3, NumberIs
      <3> QED
        BY <1>1, <1>4, <1>5, <2>3, <3>1, UIntIs DEF tag
    <2> QED
      BY <2>1, <2>2, <2>3
  <1>10. Len(body) \in Nat /\ Len(b) \in Nat
    BY <1>6 DEF Contents
  <1>11. ValueOfKind(b, tag) = Till(b, p + 1 + Len(body), x)
    <2>1. CASE p + 1 <= Len(b)
      <3>1. tag.ok /\ tag.v = x.kind
        BY <2>1 DEF tag, Till, Cursor
      <3>2. ValueOfKind(b, tag) = Kinded(tag, got)
        BY <3>1 DEF ValueOfKind, got
      <3>3. Kinded(tag, got) = Till(b, p + 1 + Len(body), [kind |-> tag.v, v |-> x.v])
        BY <1>9, KindedIs
      <3> QED
        BY <1>1, <3>1, <3>2, <3>3
    <2>2. CASE ~(p + 1 <= Len(b))
      <3>1. ~tag.ok /\ ~(p + 1 + Len(body) <= Len(b))
        BY <1>10, <2>2 DEF tag, Till, Broken
      <3> QED
        BY <3>1 DEF ValueOfKind, Till
    <2> QED
      BY <2>1, <2>2
  <1>12. p + 1 + Len(body) = p + Len(EncodeValue(x))
    BY <1>7, <1>10
  <1> QED
    BY <1>8, <1>11, <1>12

LEMMA ValueType ==
  ASSUME NEW x \in FittingValues
  PROVE  EncodeValue(x) \in Contents
  <1> DEFINE code == ValueCodes[x.kind]
             body == CASE x.kind \in Bytestrings -> Counted(x.v)
                       [] x.kind = "Bool" -> <<x.v>>
                       [] OTHER -> LE(x.v, W64)
  <1>1. EncodeValue(x) = <<code>> \o body
    BY DEF EncodeValue
  <1>2. code \in Nat
    BY DEF FittingValues, ValueCodes, Bytestrings
  <1>3. body \in Contents
    <2>1. CASE x.kind \in Bytestrings
      <3>1. x.v \in Strings(W16) /\ x.kind # "Bool"
        BY <2>1 DEF FittingValues, Bytestrings
      <3>2. body = Counted(x.v)
        BY <2>1, <3>1
      <3> HIDE DEF body
      <3> QED
        BY <3>1, <3>2, CountedType
    <2>2. CASE x.kind = "Bool"
      <3>1. x.v \in Nat /\ x.kind \notin Bytestrings
        BY <2>2 DEF FittingValues, Bytestrings
      <3>2. <<x.v>> \in Contents
        BY <3>1 DEF Contents
      <3> QED
        BY <2>2, <3>1, <3>2
    <2>3. CASE x.kind \notin Bytestrings /\ x.kind # "Bool"
      <3>1. x.v \in 0..MaxOf(W64) /\ W64 \in Nat
        BY <2>3, CodecAssumption DEF FittingValues, Bytestrings
      <3> QED
        BY <2>3, <3>1, NumberIs
    <2> QED
      BY <2>1, <2>2, <2>3
  <1> HIDE DEF code, body
  <1>4. <<code>> \o body \in Contents
    BY <1>2, <1>3 DEF Contents
  <1> QED
    BY <1>1, <1>4

(* Metadata entries *)
FittingEntries == [key : Strings(W16), value : FittingValues]
EncodeEntry(entry) == Counted(entry.key) \o EncodeValue(entry.value)

LEMMA EntryIs ==
  ASSUME NEW b \in Contents, NEW p \in Nat, NEW y, NEW entry \in FittingEntries,
         Reads(b, p, EncodeEntry(entry))
  PROVE  DecodeEntry(b, Till(b, p, y)) = Till(b, p + Len(EncodeEntry(entry)), entry)
  <1> DEFINE key == entry.key
             value == entry.value
             e == Counted(key)
             f == EncodeValue(value)
             q == p + Len(e)
  <1>1. key \in Strings(W16) /\ value \in FittingValues /\ entry = [key |-> key, value |-> value]
    BY DEF FittingEntries
  <1>2. e \in Contents /\ f \in Contents
    BY <1>1, CountedType, ValueType
  <1>3. EncodeEntry(entry) = e \o f
    BY DEF EncodeEntry
  <1> HIDE DEF key, value
  <1>4. TakeCounted(b, Till(b, p, y)) = Till(b, q, key) \/ ~Reads(b, p, e)
    BY <1>1, CountedIs
  <1>5. q \in Nat /\ Len(f) \in Nat /\ Len(b) \in Nat
    BY <1>2 DEF Contents
  <1>6. DecodeValue(b, Till(b, q, key)) = Till(b, q + Len(f), value) \/ ~Reads(b, q, f)
    BY <1>1, <1>5, ValueIs
  <1> HIDE DEF e, f
  <1>7. Reads(b, p, e) /\ Reads(b, q, f) /\ Len(EncodeEntry(entry)) = Len(e) + Len(f)
    BY <1>2, <1>3, ReadsConcat
  <1>8. DecodeEntry(b, Till(b, p, y)) = Entry(Till(b, q, key), Till(b, q + Len(f), value))
    BY <1>4, <1>6, <1>7 DEF DecodeEntry, EntryOfKey
  <1>9. Entry(Till(b, q, key), Till(b, q + Len(f), value)) = Till(b, q + Len(f), entry)
    <2> HIDE DEF q
    <2>1. CASE q + Len(f) <= Len(b)
      <3>1. q <= Len(b)
        BY <1>5, <2>1
      <3>2. Till(b, q, key).v = key /\ Till(b, q + Len(f), value).v = value
        BY <2>1, <3>1 DEF Till, Cursor
      <3> QED
        BY <1>1, <3>2, TillValue DEF Entry
    <2>2. CASE ~(q + Len(f) <= Len(b))
      BY <2>2 DEF Entry, Value, Till, Broken
    <2> QED
      BY <2>1, <2>2
  <1>10. q + Len(f) = p + Len(EncodeEntry(entry))
    <2>1. Len(e) \in Nat
      BY <1>2 DEF Contents
    <2> QED
      BY <1>5, <1>7, <2>1
  <1> QED
    BY <1>8, <1>9, <1>10

LEMMA EntryType ==
  ASSUME NEW entry \in FittingEntries
  PROVE  EncodeEntry(entry) \in Contents
  <1>1. Counted(entry.key) \in Contents /\ EncodeValue(entry.value) \in Contents
    BY CountedType, ValueType DEF FittingEntries
  <1> QED
    BY <1>1 DEF EncodeEntry, Contents

-----------------------------------------------------------------------------
(* Lists: the elements of a list lie one behind the other.                 *)

LEMMA FlattenIs ==
  ASSUME NEW n \in Nat, NEW ss \in [1..n -> Contents]
  PROVE  \E f \in [0..n -> Contents] :
            f[0] = <<>> /\ (\A i \in 1..n : f[i] = f[i - 1] \o ss[i]) /\ FlattenSeq(ss) = f[n]
  <1> DEFINE step == [x \in (1..n) \X Contents |-> x[2] \o ss[x[1]]]
  <1>1. \A s, t \in Contents : s \o t \in Contents
    BY DEF Contents
  <1>2. step \in [(1..n) \X Contents -> Contents]
        /\ \A i \in 1..n, s \in Contents : step[<<i, s>>] = s \o ss[i]
    BY <1>1
  <1> HIDE DEF step
  <1>3. <<>> \in Contents /\ \A s \in Contents : <<>> \o s = s
    BY DEF Contents
  <1>4. Recursion(Contents)
    BY RecursionExists
  <1>5. PICK f \in [0..n -> Contents] :
            f[0] = <<>> /\ \A i \in 1..n : f[i] = step[<<i, f[i - 1]>>]
    BY <1>2, <1>3, <1>4 DEF Recursion
  <1>6. ASSUME NEW i \in 1..n PROVE f[i] = f[i - 1] \o ss[i]
    <2>1. f[i - 1] \in Contents
      OBVIOUS
    <2> QED
      BY <1>2, <1>5, <2>1
  <1>7. FlattenSeq(ss) = f[n]
    <2>1. CASE n = 0
      <3>1. Len(ss) = 0 /\ ss = <<>>
        BY <2>1
      <3>2. FlattenSeq(ss) = ss
        BY <3>1 DEF FlattenSeq
      <3> QED
        BY <1>5, <2>1, <3>1, <3>2
    <2>2. CASE n # 0
      <3> DEFINE Eq(u) == u = [i \in 1..n |-> IF i = 1 THEN ss[i] ELSE u[i - 1] \o ss[i]]
                 chosen == CHOOSE u : Eq(u)
                 g == [i \in 1..n |-> f[i]]
      <3>1. FlattenSeq(ss) = chosen[n]
        <4>1. Len(ss) = n /\ Len(ss) # 0
          BY <2>2
        <4> QED
          BY <4>1, Zenon DEF FlattenSeq
      <3>2. Eq(g)
        <4>1. ASSUME NEW i \in 1..n
              PROVE  f[i] = IF i = 1 THEN ss[i] ELSE g[i - 1] \o ss[i]
          <5>1. CASE i = 1
            <6>1. f[1] = <<>> \o ss[1] /\ ss[1] \in Contents
              <7>1. 1 \in 1..n /\ 1 - 1 = 0
                BY <2>2
              <7> QED
                BY <1>5, <1>6, <7>1
            <6> QED
              BY <1>3, <5>1, <6>1
          <5>2. CASE i # 1
            <6>1. i - 1 \in 1..n
              BY <5>2
            <6> QED
              BY <1>6, <5>2, <6>1
          <5> QED
            BY <5>1, <5>2
        <4> QED
          BY <4>1
      <3>3. Eq(chosen)
        <4> HIDE DEF Eq
        <4> QED
          BY <3>2
      <3> HIDE DEF chosen
      <3>4. /\ chosen[1] = ss[1]
            /\ \A i \in 1..n : i # 1 => chosen[i] = chosen[i - 1] \o ss[i]
        <4>1. 1 \in 1..n
          BY <2>2
        <4> QED
          BY <3>3, <4>1
      <3> DEFINE good == {i \in 0..n : i # 0 => chosen[i] = f[i]}
      <3>5. 0 \in good
        OBVIOUS
      <3>6. ASSUME NEW i \in 1..n, i - 1 \in good PROVE i \in good
        <4>1. CASE i = 1
          <5>1. f[1] = <<>> \o ss[1] /\ ss[1] \in Contents
            <6>1. 1 \in 1..n /\ 1 - 1 = 0
              BY <2>2
            <6> QED
              BY <1>5, <1>6, <6>1
          <5> QED
            BY <1>3, <3>4, <4>1, <5>1
        <4>2. CASE i # 1
          <5>1. chosen[i - 1] = f[i - 1]
            BY <3>6, <4>2
          <5>2. chosen[i] = chosen[i - 1] \o ss[i]
            BY <3>4, <4>2
          <5>3. chosen[i] = f[i]
            BY <1>6, <5>1, <5>2
          <5> QED
            BY <5>3
        <4> QED
          BY <4>1, <4>2
      <3> HIDE DEF good
      <3>7. \A i \in 0..n : i \in good
        BY <3>5, <3>6, UpToAll
      <3>8. n \in good
        BY <3>7
      <3> QED
        BY <2>2, <3>1, <3>8 DEF good
    <2> QED
      BY <2>1, <2>2
  <1> QED
    BY <1>5, <1>6, <1>7

(* Where each element lies. *)
Laid(b, p, n, ss) ==
    \E at \in [0..n -> Nat] :
        /\ at[0] = p /\ at[n] = p + Len(FlattenSeq(ss))
        /\ \A i \in 1..n : at[i] = at[i - 1] + Len(ss[i]) /\ Reads(b, at[i - 1], ss[i])

LEMMA ListReads ==
  ASSUME NEW b \in Contents, NEW p \in Nat, NEW n \in Nat, NEW ss \in [1..n -> Contents],
         Reads(b, p, FlattenSeq(ss))
  PROVE  FlattenSeq(ss) \in Contents /\ Laid(b, p, n, ss)
  <1>1. PICK f \in [0..n -> Contents] :
            f[0] = <<>> /\ (\A i \in 1..n : f[i] = f[i - 1] \o ss[i]) /\ FlattenSeq(ss) = f[n]
    BY FlattenIs
  <1> DEFINE good == {i \in 0..n : Reads(b, p, f[n - i])}
             at == [i \in 0..n |-> p + Len(f[i])]
  <1>2. \A e, s \in Contents : Reads(b, p, e \o s) =>
            Reads(b, p, e) /\ Reads(b, p + Len(e), s) /\ Len(e \o s) = Len(e) + Len(s)
    BY ReadsConcat
  <1>3. 0 \in good
    BY <1>1
  <1>4. ASSUME NEW i \in 1..n, i - 1 \in good PROVE i \in good
    <2>1. n - (i - 1) \in 1..n /\ (n - (i - 1)) - 1 = n - i /\ n - i \in 0..n
      OBVIOUS
    <2> DEFINE j == n - (i - 1)
    <2>2. Reads(b, p, f[j - 1] \o ss[j]) /\ f[j - 1] \in Contents /\ ss[j] \in Contents
      BY <1>1, <1>4, <2>1
    <2> HIDE DEF j
    <2>3. Reads(b, p, f[j - 1])
      BY <1>2, <2>2
    <2> QED
      BY <2>1, <2>3 DEF j
  <1> HIDE DEF good
  <1>5. \A i \in 0..n : i \in good
    BY <1>3, <1>4, UpToAll
  <1>6. ASSUME NEW i \in 0..n PROVE Reads(b, p, f[i]) /\ at[i] = p + Len(f[i]) /\ Len(f[i]) \in Nat
    <2>1. n - i \in 0..n /\ n - (n - i) = i
      OBVIOUS
    <2>2. n - i \in good
      BY <1>5, <2>1
    <2> QED
      BY <2>1, <2>2 DEF good, Contents
  <1>7. at \in [0..n -> Nat]
    BY <1>6
  <1> HIDE DEF at
  <1>8. ASSUME NEW i \in 1..n PROVE at[i] = at[i - 1] + Len(ss[i]) /\ Reads(b, at[i - 1], ss[i])
    <2>1. i \in 0..n /\ i - 1 \in 0..n
      OBVIOUS
    <2>2. /\ Reads(b, p, f[i - 1] \o ss[i]) /\ f[i - 1] \in Contents /\ ss[i] \in Contents
          /\ f[i] = f[i - 1] \o ss[i]
      BY <1>1, <1>6, <2>1
    <2>3. Reads(b, p + Len(f[i - 1]), ss[i]) /\ Len(f[i]) = Len(f[i - 1]) + Len(ss[i])
      BY <1>2, <2>2
    <2>4. Len(ss[i]) \in Nat /\ Len(f[i - 1]) \in Nat
      BY <2>2 DEF Contents
    <2>5. at[i] = p + Len(f[i])
      BY <1>6, <2>1
    <2>6. at[i - 1] = p + Len(f[i - 1])
      BY <1>6, <2>1
    <2> QED
      BY <2>3, <2>4, <2>5, <2>6
  <1>9. at[0] = p /\ at[n] = p + Len(FlattenSeq(ss))
    <2>1. Len(f[0]) = 0 /\ 0 \in 0..n /\ n \in 0..n
      BY <1>1
    <2>2. at[0] = p + Len(f[0]) /\ at[n] = p + Len(f[n])
      BY <1>6, <2>1
    <2> QED
      BY <1>1, <2>1, <2>2
  <1>10. FlattenSeq(ss) \in Contents
    BY <1>1
  <1> QED
    BY <1>7, <1>8, <1>9, <1>10 DEF Laid

LEMMA CollectIs ==
  ASSUME NEW b, Len(b) \in Nat, NEW p \in Nat, NEW q \in Nat, p <= q, NEW s, NEW x
  PROVE  Collect(Till(b, p, s), Till(b, q, x)) = Till(b, q, Append(s, x))
  <1>1. CASE q <= Len(b)
    <2>1. Till(b, p, s).v = s /\ Till(b, q, x).v = x
      BY <1>1 DEF Till, Cursor
    <2> QED
      BY <2>1, TillValue DEF Collect
  <1>2. CASE ~(q <= Len(b))
    BY <1>2 DEF Collect, Value, Till, Broken
  <1> QED
    BY <1>1, <1>2

LEMMA AppendPrefix ==
  ASSUME NEW n \in Nat, NEW V, NEW v \in [1..n -> V], NEW i \in 1..n
  PROVE  Append([j \in 1..(i - 1) |-> v[j]], v[i]) = [j \in 1..i |-> v[j]]
  <1> DEFINE s == [j \in 1..(i - 1) |-> v[j]]
             t == [j \in 1..i |-> v[j]]
  <1>1. s \in Seq(V) /\ Len(s) = i - 1 /\ \A j \in 1..(i - 1) : s[j] = v[j]
    OBVIOUS
  <1> HIDE DEF s
  <1>2. Append(s, v[i]) = [j \in 1..i |-> IF j = i THEN v[i] ELSE s[j]]
    BY <1>1
  <1>3. [j \in 1..i |-> IF j = i THEN v[i] ELSE s[j]] = t
    BY <1>1
  <1> QED
    BY <1>2, <1>3 DEF s

FloatsBytes(v) == FlattenSeq([i \in DOMAIN v |-> LE(v[i], W32)])
EntriesBytes(v) == FlattenSeq([i \in DOMAIN v |-> EncodeEntry(v[i])])

LEMMA FloatsIs ==
  ASSUME NEW b \in Contents, NEW p \in Nat, NEW n \in Nat, NEW v \in [1..n -> 0..MaxOf(W32)],
         Reads(b, p, FloatsBytes(v))
  PROVE  TakeFloats(b, Till(b, p, n)) = Till(b, p + Len(FloatsBytes(v)), v)
  <1> DEFINE ss == [i \in 1..n |-> LE(v[i], W32)]
             count == Till(b, p, n)
             Eq(u) == u = [i \in 0..count.v |->
                              IF i = 0 THEN Value(count, <<>>) ELSE NextFloat(b, u[i - 1])]
             chosen == CHOOSE u : Eq(u)
             pre(i) == [j \in 1..i |-> v[j]]
  <1>1. FloatsBytes(v) = FlattenSeq(ss)
    BY DEF FloatsBytes
  <1>2. \A i \in 1..n : LE(v[i], W32) \in Contents /\ Len(LE(v[i], W32)) = W32
    BY NumberIs, CodecAssumption
  <1>3. ss \in [1..n -> Contents] /\ \A i \in 1..n : ss[i] = LE(v[i], W32)
    BY <1>2
  <1> HIDE DEF ss
  <1>4. FlattenSeq(ss) \in Contents /\ Laid(b, p, n, ss)
    BY <1>1, <1>3, ListReads
  <1>5. Len(b) \in Nat
    BY DEF Contents
  <1>6. PICK at \in [0..n -> Nat] :
            /\ at[0] = p /\ at[n] = p + Len(FlattenSeq(ss))
            /\ \A i \in 1..n : at[i] = at[i - 1] + Len(ss[i]) /\ Reads(b, at[i - 1], ss[i])
    BY <1>4 DEF Laid
  <1>7. TakeFloats(b, count) = chosen[count.v]
    BY Zenon DEF TakeFloats
  <1>8. ASSUME NEW i \in 1..n
        PROVE  /\ NextFloat(b, Till(b, at[i - 1], pre(i - 1))) = Till(b, at[i], pre(i))
               /\ at[i - 1] <= at[i]
    <2>1. /\ i - 1 \in 0..n /\ at[i - 1] \in Nat /\ at[i] = at[i - 1] + Len(ss[i])
          /\ Len(ss[i]) \in Nat /\ Reads(b, at[i - 1], ss[i])
      <3>1. ss[i] \in Contents
        BY <1>3
      <3> QED
        BY <1>6, <3>1 DEF Contents
    <2> DEFINE q == at[i - 1]
               s == pre(i - 1)
               x == v[i]
    <2>2. q \in Nat /\ x \in 0..MaxOf(W32) /\ Reads(b, q, LE(x, W32))
      BY <1>3, <2>1
    <2>3. Append(s, x) = pre(i)
      BY AppendPrefix
    <2> HIDE DEF q, s, x, pre
    <2>4. TakeUInt(b, Till(b, q, s), W32) = Till(b, q + Len(LE(x, W32)), x)
      <3>1. Len(LE(x, W32)) = W32 /\ W32 \in Nat
        BY <2>2, NumberIs, CodecAssumption
      <3> QED
        BY <2>2, <3>1, UIntIs
    <2>5. q + Len(LE(x, W32)) = at[i] /\ q <= at[i] /\ at[i] \in Nat
      BY <1>3, <2>1 DEF q, x
    <2>6. Collect(Till(b, q, s), Till(b, at[i], x)) = Till(b, at[i], Append(s, x))
      BY <1>5, <2>2, <2>5, CollectIs
    <2> QED
      BY <2>3, <2>4, <2>5, <2>6 DEF NextFloat, q, s
  <1> HIDE DEF pre
  <1>9. CASE p <= Len(b)
    <2> DEFINE g == [i \in 0..n |-> Till(b, at[i], pre(i))]
    <2>1. count.v = n /\ Value(count, <<>>) = Till(b, at[0], pre(0))
      <3>1. pre(0) = <<>>
        BY DEF pre
      <3>2. Value(count, <<>>) = Till(b, p, <<>>)
        BY TillValue
      <3> QED
        BY <1>6, <1>9, <3>1, <3>2 DEF Till, Cursor
    <2> HIDE DEF count
    <2>2. g[0] = Value(count, <<>>) /\ \A i \in 1..n : g[i] = NextFloat(b, g[i - 1])
      <3>1. g[0] = Value(count, <<>>)
        BY <2>1
      <3>2. ASSUME NEW i \in 1..n PROVE g[i] = NextFloat(b, g[i - 1])
        <4>1. i \in 0..n /\ i - 1 \in 0..n
          OBVIOUS
        <4>2. g[i] = Till(b, at[i], pre(i)) /\ g[i - 1] = Till(b, at[i - 1], pre(i - 1))
          BY <4>1
        <4> HIDE DEF g
        <4> QED
          BY <1>8, <4>2
      <3> QED
        BY <3>1, <3>2
    <2>3. g[n] = Till(b, at[n], pre(n))
      OBVIOUS
    <2>4. Eq(g)
      <3>1. g = [i \in 0..n |-> g[i]]
        OBVIOUS
      <3> HIDE DEF g
      <3>2. ASSUME NEW i \in 0..n
            PROVE  g[i] = IF i = 0 THEN Value(count, <<>>) ELSE NextFloat(b, g[i - 1])
        <4>1. CASE i = 0
          BY <2>2, <4>1
        <4>2. CASE i # 0
          BY <2>2, <4>2
        <4> QED
          BY <4>1, <4>2
      <3>3. g = [i \in 0..n |-> IF i = 0 THEN Value(count, <<>>) ELSE NextFloat(b, g[i - 1])]
        BY <3>2, <3>1
      <3> QED
        BY <2>1, <3>3
    <2> HIDE DEF g
    <2>5. Eq(chosen)
      <3> HIDE DEF Eq
      <3> QED
        BY <2>4
    <2> HIDE DEF chosen
    <2>6. chosen[0] = Value(count, <<>>) /\ \A i \in 1..n : chosen[i] = NextFloat(b, chosen[i - 1])
      BY <2>1, <2>5
    <2> DEFINE good == {i \in 0..n : chosen[i] = g[i]}
    <2>7. 0 \in good /\ \A i \in 1..n : i - 1 \in good => i \in good
      BY <2>2, <2>6
    <2> HIDE DEF good
    <2>8. \A i \in 0..n : i \in good
      BY <2>7, UpToAll
    <2>9. chosen[n] = g[n]
      BY <2>8 DEF good
    <2>10. pre(n) = v
      BY DEF pre
    <2> QED
      BY <1>1, <1>4, <1>6, <1>7, <2>1, <2>3, <2>9, <2>10 DEF count
  <1>10. CASE ~(p <= Len(b))
    <2>1. count = Broken /\ count.v = 0 /\ Value(count, <<>>) = Broken
      BY <1>10 DEF Till, Broken, Value
    <2> HIDE DEF count
    <2>2. Eq([i \in 0..0 |-> Broken])
      BY <2>1
    <2>3. Eq(chosen)
      <3> HIDE DEF Eq
      <3> QED
        BY <2>2
    <2> HIDE DEF chosen
    <2>4. chosen[0] = Broken
      BY <2>1, <2>3
    <2>5. ~(p + Len(FlattenSeq(ss)) <= Len(b))
      <3>1. Len(FlattenSeq(ss)) \in Nat
        BY <1>4 DEF Contents
      <3> QED
        BY <1>10, <1>5, <3>1
    <2> QED
      BY <1>1, <1>4, <1>7, <2>1, <2>4, <2>5 DEF Till, count
  <1> QED
    BY <1>9, <1>10

LEMMA EntriesIs ==
  ASSUME NEW b \in Contents, NEW p \in Nat, NEW n \in Nat, NEW v \in [1..n -> FittingEntries],
         Reads(b, p, EntriesBytes(v))
  PROVE  TakeEntries(b, Till(b, p, n)) = Till(b, p + Len(EntriesBytes(v)), v)
  <1> DEFINE ss == [i \in 1..n |-> EncodeEntry(v[i])]
             count == Till(b, p, n)
             Eq(u) == u = [i \in 0..count.v |->
                              IF i = 0 THEN Value(count, <<>>) ELSE NextEntry(b, u[i - 1])]
             chosen == CHOOSE u : Eq(u)
             pre(i) == [j \in 1..i |-> v[j]]
  <1>1. EntriesBytes(v) = FlattenSeq(ss)
    BY DEF EntriesBytes
  <1>2. \A i \in 1..n : EncodeEntry(v[i]) \in Contents
    BY EntryType
  <1>3. ss \in [1..n -> Contents] /\ \A i \in 1..n : ss[i] = EncodeEntry(v[i])
    BY <1>2
  <1> HIDE DEF ss
  <1>4. FlattenSeq(ss) \in Contents /\ Laid(b, p, n, ss)
    BY <1>1, <1>3, ListReads
  <1>5. Len(b) \in Nat
    BY DEF Contents
  <1>6. PICK at \in [0..n -> Nat] :
            /\ at[0] = p /\ at[n] = p + Len(FlattenSeq(ss))
            /\ \A i \in 1..n : at[i] = at[i - 1] + Len(ss[i]) /\ Reads(b, at[i - 1], ss[i])
    BY <1>4 DEF Laid
  <1>7. TakeEntries(b, count) = chosen[count.v]
    BY Zenon DEF TakeEntries
  <1>8. ASSUME NEW i \in 1..n
        PROVE  /\ NextEntry(b, Till(b, at[i - 1], pre(i - 1))) = Till(b, at[i], pre(i))
               /\ at[i - 1] <= at[i]
    <2>1. /\ i - 1 \in 0..n /\ at[i - 1] \in Nat /\ at[i] = at[i - 1] + Len(ss[i])
          /\ Len(ss[i]) \in Nat /\ Reads(b, at[i - 1], ss[i])
      <3>1. ss[i] \in Contents
        BY <1>3
      <3> QED
        BY <1>6, <3>1 DEF Contents
    <2> DEFINE q == at[i - 1]
               s == pre(i - 1)
               x == v[i]
    <2>2. q \in Nat /\ x \in FittingEntries /\ Reads(b, q, EncodeEntry(x))
      BY <1>3, <2>1
    <2>3. Append(s, x) = pre(i)
      BY AppendPrefix
    <2> HIDE DEF q, s, x, pre
    <2>4. DecodeEntry(b, Till(b, q, s)) = Till(b, q + Len(EncodeEntry(x)), x)
      BY <2>2, EntryIs
    <2>5. q + Len(EncodeEntry(x)) = at[i] /\ q <= at[i] /\ at[i] \in Nat
      BY <1>3, <2>1 DEF q, x
    <2>6. Collect(Till(b, q, s), Till(b, at[i], x)) = Till(b, at[i], Append(s, x))
      BY <1>5, <2>2, <2>5, CollectIs
    <2> QED
      BY <2>3, <2>4, <2>5, <2>6 DEF NextEntry, q, s
  <1> HIDE DEF pre
  <1>9. CASE p <= Len(b)
    <2> DEFINE g == [i \in 0..n |-> Till(b, at[i], pre(i))]
    <2>1. count.v = n /\ Value(count, <<>>) = Till(b, at[0], pre(0))
      <3>1. pre(0) = <<>>
        BY DEF pre
      <3>2. Value(count, <<>>) = Till(b, p, <<>>)
        BY TillValue
      <3> QED
        BY <1>6, <1>9, <3>1, <3>2 DEF Till, Cursor
    <2> HIDE DEF count
    <2>2. g[0] = Value(count, <<>>) /\ \A i \in 1..n : g[i] = NextEntry(b, g[i - 1])
      <3>1. g[0] = Value(count, <<>>)
        BY <2>1
      <3>2. ASSUME NEW i \in 1..n PROVE g[i] = NextEntry(b, g[i - 1])
        <4>1. i \in 0..n /\ i - 1 \in 0..n
          OBVIOUS
        <4>2. g[i] = Till(b, at[i], pre(i)) /\ g[i - 1] = Till(b, at[i - 1], pre(i - 1))
          BY <4>1
        <4> HIDE DEF g
        <4> QED
          BY <1>8, <4>2
      <3> QED
        BY <3>1, <3>2
    <2>3. g[n] = Till(b, at[n], pre(n))
      OBVIOUS
    <2>4. Eq(g)
      <3>1. g = [i \in 0..n |-> g[i]]
        OBVIOUS
      <3> HIDE DEF g
      <3>2. ASSUME NEW i \in 0..n
            PROVE  g[i] = IF i = 0 THEN Value(count, <<>>) ELSE NextEntry(b, g[i - 1])
        <4>1. CASE i = 0
          BY <2>2, <4>1
        <4>2. CASE i # 0
          BY <2>2, <4>2
        <4> QED
          BY <4>1, <4>2
      <3>3. g = [i \in 0..n |-> IF i = 0 THEN Value(count, <<>>) ELSE NextEntry(b, g[i - 1])]
        BY <3>2, <3>1
      <3> QED
        BY <2>1, <3>3
    <2> HIDE DEF g
    <2>5. Eq(chosen)
      <3> HIDE DEF Eq
      <3> QED
        BY <2>4
    <2> HIDE DEF chosen
    <2>6. chosen[0] = Value(count, <<>>) /\ \A i \in 1..n : chosen[i] = NextEntry(b, chosen[i - 1])
      BY <2>1, <2>5
    <2> DEFINE good == {i \in 0..n : chosen[i] = g[i]}
    <2>7. 0 \in good /\ \A i \in 1..n : i - 1 \in good => i \in good
      BY <2>2, <2>6
    <2> HIDE DEF good
    <2>8. \A i \in 0..n : i \in good
      BY <2>7, UpToAll
    <2>9. chosen[n] = g[n]
      BY <2>8 DEF good
    <2>10. pre(n) = v
      BY DEF pre
    <2> QED
      BY <1>1, <1>4, <1>6, <1>7, <2>1, <2>3, <2>9, <2>10 DEF count
  <1>10. CASE ~(p <= Len(b))
    <2>1. count = Broken /\ count.v = 0 /\ Value(count, <<>>) = Broken
      BY <1>10 DEF Till, Broken, Value
    <2> HIDE DEF count
    <2>2. Eq([i \in 0..0 |-> Broken])
      BY <2>1
    <2>3. Eq(chosen)
      <3> HIDE DEF Eq
      <3> QED
        BY <2>2
    <2> HIDE DEF chosen
    <2>4. chosen[0] = Broken
      BY <2>1, <2>3
    <2>5. ~(p + Len(FlattenSeq(ss)) <= Len(b))
      <3>1. Len(FlattenSeq(ss)) \in Nat
        BY <1>4 DEF Contents
      <3> QED
        BY <1>10, <1>5, <3>1
    <2> QED
      BY <1>1, <1>4, <1>7, <2>1, <2>4, <2>5 DEF Till, count
  <1> QED
    BY <1>9, <1>10

(* The same of whole lists. *)
FloatLists == Seq(0..MaxOf(W32))
EntryLists == Seq(FittingEntries)

LEMMA ListFunctions ==
  /\ \A v \in FloatLists : Len(v) \in Nat /\ v \in [1..Len(v) -> 0..MaxOf(W32)]
  /\ \A v \in EntryLists : Len(v) \in Nat /\ v \in [1..Len(v) -> FittingEntries]
  <1> DEFINE numbers == 0..MaxOf(W32)
  <1>1. FloatLists = Seq(numbers)
    BY DEF FloatLists
  <1> HIDE DEF numbers
  <1>2. \A v \in FloatLists : Len(v) \in Nat /\ v \in [1..Len(v) -> numbers]
    BY <1>1
  <1>3. \A v \in EntryLists : Len(v) \in Nat /\ v \in [1..Len(v) -> FittingEntries]
    BY DEF EntryLists
  <1> QED
    BY <1>2, <1>3 DEF numbers

LEMMA VectorIs ==
  ASSUME NEW b \in Contents, NEW p \in Nat, NEW v \in FloatLists, Reads(b, p, FloatsBytes(v))
  PROVE  TakeFloats(b, Till(b, p, Len(v))) = Till(b, p + Len(FloatsBytes(v)), v)
  BY ListFunctions, FloatsIs

LEMMA MetaIs ==
  ASSUME NEW b \in Contents, NEW p \in Nat, NEW v \in EntryLists, Reads(b, p, EntriesBytes(v))
  PROVE  TakeEntries(b, Till(b, p, Len(v))) = Till(b, p + Len(EntriesBytes(v)), v)
  BY ListFunctions, EntriesIs

LEMMA ListTypes ==
  /\ \A v \in FloatLists : FloatsBytes(v) \in Contents
  /\ \A v \in EntryLists : EntriesBytes(v) \in Contents
  <1>1. ASSUME NEW n \in Nat, NEW ss \in [1..n -> Contents] PROVE FlattenSeq(ss) \in Contents
    <2>1. PICK f \in [0..n -> Contents] : FlattenSeq(ss) = f[n]
      BY FlattenIs
    <2> QED
      BY <2>1
  <1>2. ASSUME NEW v \in FloatLists PROVE FloatsBytes(v) \in Contents
    <2> DEFINE n == Len(v)
               ss == [i \in 1..n |-> LE(v[i], W32)]
    <2>1. ss \in [1..n -> Contents]
      BY ListFunctions, NumberIs, NoneCodes
    <2>2. FloatsBytes(v) = FlattenSeq(ss)
      BY ListFunctions DEF FloatsBytes
    <2>3. n \in Nat
      BY ListFunctions
    <2> HIDE DEF ss, n
    <2> QED
      BY <1>1, <2>1, <2>2, <2>3
  <1>3. ASSUME NEW v \in EntryLists PROVE EntriesBytes(v) \in Contents
    <2> DEFINE n == Len(v)
               ss == [i \in 1..n |-> EncodeEntry(v[i])]
    <2>1. ss \in [1..n -> Contents]
      BY ListFunctions, EntryType
    <2>2. EntriesBytes(v) = FlattenSeq(ss)
      BY ListFunctions DEF EntriesBytes
    <2>3. n \in Nat
      BY ListFunctions
    <2> HIDE DEF ss, n
    <2> QED
      BY <1>1, <2>1, <2>2, <2>3
  <1> QED
    BY <1>2, <1>3

-----------------------------------------------------------------------------
(* Records *)

NormCode(norm) == IF norm = None THEN NoNorm ELSE norm
FittingNorms == {None} \cup 0..(Infinity - 1)

LEMMA NormIs ==
  ASSUME NEW b \in Contents, NEW p \in Nat, NEW y, NEW norm \in FittingNorms,
         Reads(b, p, LE(NormCode(norm), W32))
  PROVE  NormOf(TakeUInt(b, Till(b, p, y), W32)) = Till(b, p + W32, norm)
  <1> DEFINE k == NormCode(norm)
  <1>1. k \in 0..MaxOf(W32) /\ norm = IF k = NoNorm THEN None ELSE k
    BY NoneCodes DEF NormCode, FittingNorms
  <1> HIDE DEF k
  <1>2. TakeUInt(b, Till(b, p, y), W32) = Till(b, p + W32, k)
    BY <1>1, NoneCodes, UIntIs DEF k
  <1>3. CASE p + W32 <= Len(b)
    <2>1. Till(b, p + W32, k).v = k
      BY <1>3 DEF Till, Cursor
    <2> QED
      BY <1>1, <1>2, <2>1, TillValue DEF NormOf
  <1>4. CASE ~(p + W32 <= Len(b))
    BY <1>2, <1>4 DEF NormOf, Value, Till, Broken
  <1> QED
    BY <1>3, <1>4

TextBytes(text) == IF text = None THEN LE(NoText, W32) ELSE LE(Len(text), W32) \o text
FittingTexts == {None} \cup {s \in Contents : Len(s) < NoText}

LEMMA TextIs ==
  ASSUME NEW b \in Contents, NEW p \in Nat, NEW y, NEW text \in FittingTexts,
         Reads(b, p, TextBytes(text))
  PROVE  OrNone(b, TakeUInt(b, Till(b, p, y), W32)) = Till(b, p + Len(TextBytes(text)), text)
  <1>1. CASE text = None
    <2>1. Reads(b, p, LE(NoText, W32)) /\ TextBytes(text) = LE(NoText, W32)
      BY <1>1 DEF TextBytes
    <2>2. NoText \in 0..MaxOf(W32) /\ W32 \in Nat
      BY NoneCodes
    <2>3. TakeUInt(b, Till(b, p, y), W32) = Till(b, p + W32, NoText)
      BY <2>1, <2>2, UIntIs
    <2>4. Len(TextBytes(text)) = W32
      BY <2>1, <2>2, NumberIs
    <2>5. CASE p + W32 <= Len(b)
      <3>1. Till(b, p + W32, NoText).v = NoText
        BY <2>5 DEF Till, Cursor
      <3> QED
        BY <1>1, <2>3, <2>4, <3>1, TillValue DEF OrNone
    <2>6. CASE ~(p + W32 <= Len(b))
      <3>1. Broken.v = 0 /\ NoText # 0
        BY NoneCodes DEF Broken
      <3>2. TextAt(b, Broken) = Broken
        BY DEF TextAt, TakeSlice, Broken
      <3> QED
        BY <2>3, <2>4, <2>6, <3>1, <3>2 DEF OrNone, Till
    <2> QED
      BY <2>5, <2>6
  <1>2. CASE text # None
    <2> DEFINE k == Len(text)
               e == LE(k, W32)
    <2>1. text \in Contents /\ k \in 0..MaxOf(W32) /\ k # NoText /\ W32 \in Nat
      BY <1>2, NoneCodes DEF FittingTexts, Contents
    <2>2. e \in Contents /\ Len(e) = W32
      BY <2>1, NumberIs
    <2>3. TextBytes(text) = e \o text /\ Reads(b, p, e \o text)
      BY <1>2 DEF TextBytes
    <2> HIDE DEF k
    <2>4. TakeUInt(b, Till(b, p, y), W32) = Till(b, p + W32, k) \/ ~Reads(b, p, e)
      BY <2>1, UIntIs
    <2> HIDE DEF e
    <2>5. Reads(b, p, e) /\ Reads(b, p + Len(e), text) /\ Len(e \o text) = Len(e) + Len(text)
      <3>1. \A d \in Contents : Reads(b, p, d \o text) =>
                Reads(b, p, d) /\ Reads(b, p + Len(d), text) /\ Len(d \o text) = Len(d) + Len(text)
        BY <2>1, ReadsConcat
      <3> QED
        BY <2>2, <2>3, <3>1
    <2>6. TextAt(b, Till(b, p + W32, k)) = Till(b, p + W32 + k, text)
      <3>1. p + W32 \in Nat /\ Reads(b, p + W32, text)
        BY <2>1, <2>2, <2>5
      <3> QED
        BY <2>1, <3>1, TextAtIs DEF k
    <2>7. p + W32 + k = p + Len(TextBytes(text)) /\ Len(b) \in Nat
      BY <2>1, <2>2, <2>3, <2>5 DEF k, Contents
    <2>8. OrNone(b, Till(b, p + W32, k)) = TextAt(b, Till(b, p + W32, k))
      <3>1. Till(b, p + W32, k).v # NoText
        <4>1. CASE p + W32 <= Len(b)
          BY <2>1, <4>1 DEF Till, Cursor
        <4>2. CASE ~(p + W32 <= Len(b))
          BY <4>2, NoneCodes DEF Till, Broken
        <4> QED
          BY <4>1, <4>2
      <3> QED
        BY <3>1 DEF OrNone
    <2> QED
      BY <2>4, <2>5, <2>6, <2>7, <2>8
  <1> QED
    BY <1>1, <1>2

LEMMA TextType ==
  ASSUME NEW text \in FittingTexts
  PROVE  TextBytes(text) \in Contents
  <1>1. CASE text = None
    <2>1. NoText \in 0..MaxOf(W32) /\ W32 \in Nat
      BY NoneCodes
    <2> QED
      BY <1>1, <2>1, NumberIs DEF TextBytes
  <1>2. CASE text # None
    <2>1. text \in Contents /\ Len(text) \in 0..MaxOf(W32) /\ W32 \in Nat
      BY <1>2, NoneCodes DEF FittingTexts, Contents
    <2>2. LE(Len(text), W32) \in Contents
      BY <2>1, NumberIs
    <2> QED
      BY <1>2, <2>1, <2>2 DEF TextBytes, Contents
  <1> QED
    BY <1>1, <1>2

(* A record whose lengths and numbers fit their fields. *)
Fits(r) ==
    /\ r = [life |-> r.life, id |-> r.id, vector |-> r.vector, norm |-> r.norm,
            text |-> r.text, meta |-> r.meta]
    /\ r.life \in DOMAIN LifeCodes
    /\ r.id \in FittingIds
    /\ r.vector \in FloatLists /\ Len(r.vector) <= MaxOf(W16)
    /\ \A i \in DOMAIN r.vector : Finite(r.vector[i])
    /\ r.norm \in FittingNorms
    /\ r.text \in FittingTexts
    /\ r.meta \in EntryLists /\ Len(r.meta) <= MaxOf(W16)

(* The fields of a record lie one behind the other. *)
Fields(b, c1, c2, c3, c4, c5, c6, c7, c8, n) ==
    \E p1, p2, p3, p4, p5, p6, p7 \in Nat :
        /\ p1 = Len(c1) /\ p2 = p1 + Len(c2) /\ p3 = p2 + Len(c3) /\ p4 = p3 + Len(c4)
        /\ p5 = p4 + Len(c5) /\ p6 = p5 + Len(c6) /\ p7 = p6 + Len(c7) /\ n = p7 + Len(c8)
        /\ Reads(b, 0, c1) /\ Reads(b, p1, c2) /\ Reads(b, p2, c3) /\ Reads(b, p3, c4)
        /\ Reads(b, p4, c5) /\ Reads(b, p5, c6) /\ Reads(b, p6, c7) /\ Reads(b, p7, c8)

LEMMA FieldsRead ==
  ASSUME NEW b \in Contents,
         NEW c1 \in Contents, NEW c2 \in Contents, NEW c3 \in Contents, NEW c4 \in Contents,
         NEW c5 \in Contents, NEW c6 \in Contents, NEW c7 \in Contents, NEW c8 \in Contents,
         NEW e, e = c1 \o c2 \o c3 \o c4 \o c5 \o c6 \o c7 \o c8, Reads(b, 0, e)
  PROVE  Fields(b, c1, c2, c3, c4, c5, c6, c7, c8, Len(e))
  <1> DEFINE s2 == c1 \o c2
             s3 == s2 \o c3
             s4 == s3 \o c4
             s5 == s4 \o c5
             s6 == s5 \o c6
             s7 == s6 \o c7
             s8 == s7 \o c8
  <1>1. \A c, d \in Contents :
            /\ c \o d \in Contents /\ Len(c \o d) = Len(c) + Len(d)
            /\ Reads(b, 0, c \o d) => Reads(b, 0, c) /\ Reads(b, Len(c), d)
    <2> SUFFICES ASSUME NEW c \in Contents, NEW d \in Contents
                 PROVE  /\ c \o d \in Contents /\ Len(c \o d) = Len(c) + Len(d)
                        /\ Reads(b, 0, c \o d) => Reads(b, 0, c) /\ Reads(b, Len(c), d)
      OBVIOUS
    <2>1. c \o d \in Contents /\ Len(c \o d) = Len(c) + Len(d) /\ Len(c) \in Nat
      BY DEF Contents
    <2>2. \A p \in Nat : Reads(b, p, c \o d) => Reads(b, p, c) /\ Reads(b, p + Len(c), d)
      BY ReadsConcat
    <2>3. 0 \in Nat /\ 0 + Len(c) = Len(c)
      BY <2>1
    <2> QED
      BY <2>1, <2>2, <2>3
  <1>2. /\ s2 \in Contents /\ Len(s2) = Len(c1) + Len(c2)
        /\ Reads(b, 0, s2) => Reads(b, 0, c1) /\ Reads(b, Len(c1), c2)
    BY <1>1
  <1>3. /\ s3 \in Contents /\ Len(s3) = Len(s2) + Len(c3)
        /\ Reads(b, 0, s3) => Reads(b, 0, s2) /\ Reads(b, Len(s2), c3)
    BY <1>1, <1>2
  <1>4. /\ s4 \in Contents /\ Len(s4) = Len(s3) + Len(c4)
        /\ Reads(b, 0, s4) => Reads(b, 0, s3) /\ Reads(b, Len(s3), c4)
    BY <1>1, <1>3
  <1>5. /\ s5 \in Contents /\ Len(s5) = Len(s4) + Len(c5)
        /\ Reads(b, 0, s5) => Reads(b, 0, s4) /\ Reads(b, Len(s4), c5)
    BY <1>1, <1>4
  <1>6. /\ s6 \in Contents /\ Len(s6) = Len(s5) + Len(c6)
        /\ Reads(b, 0, s6) => Reads(b, 0, s5) /\ Reads(b, Len(s5), c6)
    BY <1>1, <1>5
  <1>7. /\ s7 \in Contents /\ Len(s7) = Len(s6) + Len(c7)
        /\ Reads(b, 0, s7) => Reads(b, 0, s6) /\ Reads(b, Len(s6), c7)
    BY <1>1, <1>6
  <1>8. /\ s8 \in Contents /\ Len(s8) = Len(s7) + Len(c8)
        /\ Reads(b, 0, s8) => Reads(b, 0, s7) /\ Reads(b, Len(s7), c8)
    BY <1>1, <1>7
  <1>9. Reads(b, 0, s8) /\ e = s8
    OBVIOUS
  <1>10. \A c \in Contents : Len(c) \in Nat
    BY DEF Contents
  <1> HIDE DEF s2, s3, s4, s5, s6, s7, s8
  <1> QED
    BY <1>2, <1>3, <1>4, <1>5, <1>6, <1>7, <1>8, <1>9, <1>10 DEF Fields

LEMMA IdType ==
  ASSUME NEW id \in FittingIds
  PROVE  EncodeId(id) \in Contents
  <1> DEFINE code == IdCodes[id.kind]
             body == IF id.kind = "Int" THEN LE(id.v, W64) ELSE Counted(id.v)
  <1>1. code \in Nat
    BY DEF FittingIds, IdCodes
  <1>2. body \in Contents
    <2>1. CASE id.kind = "Int"
      <3>1. id.v \in 0..MaxOf(W64) /\ W64 \in Nat
        BY <2>1, CodecAssumption DEF FittingIds
      <3> QED
        BY <2>1, <3>1, NumberIs
    <2>2. CASE id.kind # "Int"
      <3>1. id.v \in Strings(W16)
        BY <2>2 DEF FittingIds
      <3> QED
        BY <2>2, <3>1, CountedType
    <2> QED
      BY <2>1, <2>2
  <1>3. EncodeId(id) = <<code>> \o body
    BY DEF EncodeId
  <1> HIDE DEF code, body
  <1>4. <<code>> \o body \in Contents
    BY <1>1, <1>2 DEF Contents
  <1> QED
    BY <1>3, <1>4

(* The fields of a record, one by one. *)
LEMMA FieldTypes ==
  ASSUME NEW r, Fits(r)
  PROVE  /\ <<LifeCodes[r.life]>> \in Contents /\ EncodeId(r.id) \in Contents
         /\ LE(Len(r.vector), W16) \in Contents /\ FloatsBytes(r.vector) \in Contents
         /\ LE(NormCode(r.norm), W32) \in Contents /\ TextBytes(r.text) \in Contents
         /\ LE(Len(r.meta), W16) \in Contents /\ EntriesBytes(r.meta) \in Contents
         /\ LifeCodes[r.life] \in 0..7 /\ NormCode(r.norm) \in 0..MaxOf(W32)
         /\ Len(r.vector) \in 0..MaxOf(W16) /\ Len(r.meta) \in 0..MaxOf(W16)
         /\ Len(LE(Len(r.vector), W16)) = W16 /\ Len(LE(NormCode(r.norm), W32)) = W32
         /\ Len(LE(Len(r.meta), W16)) = W16
  <1>1. LifeCodes[r.life] \in 0..7
    BY LifeIs DEF Fits
  <1>2. <<LifeCodes[r.life]>> \in Contents
    BY <1>1 DEF Contents
  <1>3. EncodeId(r.id) \in Contents
    BY IdType DEF Fits
  <1>4. Len(r.vector) \in 0..MaxOf(W16) /\ Len(r.meta) \in 0..MaxOf(W16)
    BY ListFunctions, NoneCodes DEF Fits
  <1>5. NormCode(r.norm) \in 0..MaxOf(W32)
    BY NoneCodes DEF Fits, NormCode, FittingNorms
  <1>6. /\ LE(Len(r.vector), W16) \in Contents /\ Len(LE(Len(r.vector), W16)) = W16
        /\ LE(Len(r.meta), W16) \in Contents /\ Len(LE(Len(r.meta), W16)) = W16
        /\ LE(NormCode(r.norm), W32) \in Contents /\ Len(LE(NormCode(r.norm), W32)) = W32
    BY <1>4, <1>5, NoneCodes, NumberIs
  <1>7. FloatsBytes(r.vector) \in Contents /\ EntriesBytes(r.meta) \in Contents
    BY ListTypes DEF Fits
  <1>8. TextBytes(r.text) \in Contents
    BY TextType DEF Fits
  <1> QED
    BY <1>1, <1>2, <1>3, <1>4, <1>5, <1>6, <1>7, <1>8

LEMMA EncodeIs ==
  ASSUME NEW r
  PROVE  Encode(r) = <<LifeCodes[r.life]>> \o EncodeId(r.id) \o LE(Len(r.vector), W16)
                        \o FloatsBytes(r.vector) \o LE(NormCode(r.norm), W32) \o TextBytes(r.text)
                        \o LE(Len(r.meta), W16) \o EntriesBytes(r.meta)
  BY DEF Encode, FloatsBytes, NormCode, TextBytes, EntriesBytes, EncodeEntry

LEMMA EncodeType ==
  ASSUME NEW r, Fits(r)
  PROVE  Encode(r) \in Contents
  <1>1. \A c, d \in Contents : c \o d \in Contents
    BY DEF Contents
  <1> QED
    BY <1>1, EncodeIs, FieldTypes

(* Bytes that end with the encoding of a record, or before, decode to the  *)
(* record or to none.                                                      *)
LEMMA RecordIs ==
  ASSUME NEW r, Fits(r), NEW b \in Contents, Reads(b, 0, Encode(r)), Len(b) <= Len(Encode(r))
  PROVE  Decode(b) = IF Len(b) = Len(Encode(r)) THEN {r} ELSE {}
  <1> DEFINE c1 == <<LifeCodes[r.life]>>
             c2 == EncodeId(r.id)
             c3 == LE(Len(r.vector), W16)
             c4 == FloatsBytes(r.vector)
             c5 == LE(NormCode(r.norm), W32)
             c6 == TextBytes(r.text)
             c7 == LE(Len(r.meta), W16)
             c8 == EntriesBytes(r.meta)
             p8 == Len(Encode(r))
             life == KindOf(TakeUInt(b, Cursor(0, 0), 1), LifeCodes)
             id == DecodeId(b, life)
             vector == TakeFloats(b, TakeUInt(b, id, W16))
             norm == NormOf(TakeUInt(b, vector, W32))
             text == OrNone(b, TakeUInt(b, norm, W32))
             meta == TakeEntries(b, TakeUInt(b, text, W16))
  <1>1. /\ c1 \in Contents /\ c2 \in Contents /\ c3 \in Contents /\ c4 \in Contents
        /\ c5 \in Contents /\ c6 \in Contents /\ c7 \in Contents /\ c8 \in Contents
        /\ Len(c1) = 1 /\ Len(c3) = W16 /\ Len(c5) = W32 /\ Len(c7) = W16
    BY FieldTypes
  <1>2. /\ \A c \in Contents : Len(c) \in Nat
        /\ Len(b) \in Nat
    BY DEF Contents
  <1>3. PICK p1, p2, p3, p4, p5, p6, p7 \in Nat :
        /\ p1 = Len(c1) /\ p2 = p1 + Len(c2) /\ p3 = p2 + Len(c3) /\ p4 = p3 + Len(c4)
        /\ p5 = p4 + Len(c5) /\ p6 = p5 + Len(c6) /\ p7 = p6 + Len(c7) /\ p8 = p7 + Len(c8)
        /\ Reads(b, 0, c1) /\ Reads(b, p1, c2) /\ Reads(b, p2, c3) /\ Reads(b, p3, c4)
        /\ Reads(b, p4, c5) /\ Reads(b, p5, c6) /\ Reads(b, p6, c7) /\ Reads(b, p7, c8)
    <2>1. Encode(r) = c1 \o c2 \o c3 \o c4 \o c5 \o c6 \o c7 \o c8
      BY EncodeIs
    <2> HIDE DEF c1, c2, c3, c4, c5, c6, c7, c8
    <2>2. Fields(b, c1, c2, c3, c4, c5, c6, c7, c8, p8)
      BY <1>1, <2>1, FieldsRead
    <2> QED
      BY <2>2 DEF Fields
  <1>4. /\ p1 = 1 /\ p8 \in Nat /\ p3 = p2 + W16 /\ p5 = p4 + W32 /\ p7 = p6 + W16
        /\ p1 <= p2 /\ p2 <= p3 /\ p3 <= p4 /\ p4 <= p5 /\ p5 <= p6 /\ p6 <= p7 /\ p7 <= p8
    <2>1. /\ Len(c1) = 1 /\ Len(c2) \in Nat /\ Len(c3) \in Nat /\ Len(c4) \in Nat
          /\ Len(c5) \in Nat /\ Len(c6) \in Nat /\ Len(c7) \in Nat /\ Len(c8) \in Nat
      BY <1>1, <1>2
    <2> HIDE DEF c1, c2, c3, c4, c5, c6, c7, c8, p8
    <2>2. /\ p1 = Len(c1) /\ p2 = p1 + Len(c2) /\ p3 = p2 + Len(c3) /\ p4 = p3 + Len(c4)
          /\ p5 = p4 + Len(c5) /\ p6 = p5 + Len(c6) /\ p7 = p6 + Len(c7) /\ p8 = p7 + Len(c8)
      BY <1>3
    <2>3. p1 = 1 /\ p3 = p2 + W16 /\ p5 = p4 + W32 /\ p7 = p6 + W16
      BY <1>1, <2>2
    <2>4. \A p, n \in Nat : p + n \in Nat /\ p <= p + n
      OBVIOUS
    <2>5. p1 <= p2 /\ p2 <= p3
      BY <2>1, <2>2, <2>4
    <2>6. p3 <= p4 /\ p4 <= p5
      BY <2>1, <2>2, <2>4
    <2>7. p5 <= p6 /\ p6 <= p7
      BY <2>1, <2>2, <2>4
    <2>8. p7 <= p8 /\ p8 \in Nat
      BY <2>1, <2>2, <2>4
    <2> QED
      BY <2>3, <2>5, <2>6, <2>7, <2>8
  <1> HIDE DEF p8
  <1>5. life = Till(b, 1, r.life)
    <2>1. Cursor(0, 0) = Till(b, 0, 0)
      BY <1>2 DEF Till
    <2>2. TakeUInt(b, Till(b, 0, 0), 1) = Till(b, 0 + 1, LifeCodes[r.life])
      <3>1. \A k \in 0..7 : \A p \in Nat :
                Reads(b, p, <<k>>) => TakeUInt(b, Till(b, p, 0), 1) = Till(b, p + 1, k)
        BY ByteIs
      <3>2. LifeCodes[r.life] \in 0..7 /\ Reads(b, 0, <<LifeCodes[r.life]>>)
        BY <1>3, FieldTypes
      <3> QED
        BY <3>1, <3>2
    <2>3. 0 + 1 = 1
      OBVIOUS
    <2> QED
      BY <2>1, <2>2, <2>3, LifeIs DEF Fits
  <1> HIDE DEF life
  <1>6. id = Till(b, p2, r.id)
    <2>1. r.id \in FittingIds /\ life = Till(b, p1, r.life)
      BY <1>4, <1>5 DEF Fits
    <2> QED
      BY <1>3, <2>1, IdIs
  <1> HIDE DEF id
  <1>7. vector = Till(b, p4, r.vector)
    <2>1. TakeUInt(b, id, W16) = Till(b, p3, Len(r.vector))
      <3>1. Len(r.vector) \in 0..MaxOf(W16) /\ W16 \in Nat
        BY FieldTypes, NoneCodes
      <3>2. TakeUInt(b, Till(b, p2, r.id), W16) = Till(b, p2 + W16, Len(r.vector))
        <4>1. Reads(b, p2, LE(Len(r.vector), W16))
          BY <1>3
        <4> QED
          BY <3>1, <4>1, UIntIs
      <3>3. p3 = p2 + W16
        BY <1>4
      <3> QED
        BY <1>6, <3>2, <3>3
    <2>2. r.vector \in FloatLists
      BY DEF Fits
    <2> QED
      BY <1>3, <2>1, <2>2, VectorIs
  <1> HIDE DEF vector
  <1>8. norm = Till(b, p5, r.norm)
    <2>1. r.norm \in FittingNorms
      BY DEF Fits
    <2>2. NormOf(TakeUInt(b, Till(b, p4, r.vector), W32)) = Till(b, p4 + W32, r.norm)
      BY <1>3, <2>1, NormIs
    <2> QED
      BY <1>4, <1>7, <2>2
  <1> HIDE DEF norm
  <1>9. text = Till(b, p6, r.text)
    <2>1. r.text \in FittingTexts
      BY DEF Fits
    <2> QED
      BY <1>3, <1>8, <2>1, TextIs
  <1> HIDE DEF text
  <1>10. meta = Till(b, p8, r.meta)
    <2>1. TakeUInt(b, text, W16) = Till(b, p7, Len(r.meta))
      <3>1. Len(r.meta) \in 0..MaxOf(W16) /\ W16 \in Nat
        BY FieldTypes, NoneCodes
      <3>2. TakeUInt(b, Till(b, p6, r.text), W16) = Till(b, p6 + W16, Len(r.meta))
        <4>1. Reads(b, p6, LE(Len(r.meta), W16))
          BY <1>3
        <4> QED
          BY <3>1, <4>1, UIntIs
      <3>3. p7 = p6 + W16
        BY <1>4
      <3> QED
        BY <1>9, <3>2, <3>3
    <2>2. r.meta \in EntryLists
      BY DEF Fits
    <2> QED
      BY <1>3, <2>1, <2>2, MetaIs
  <1> HIDE DEF meta
  <1>11. Decode(b) = IF /\ meta.ok /\ meta.at = Len(b)
                        /\ \A i \in DOMAIN vector.v : Finite(vector.v[i])
                        /\ norm.v # None => Finite(norm.v)
                     THEN {[life |-> life.v, id |-> id.v, vector |-> vector.v, norm |-> norm.v,
                            text |-> text.v, meta |-> meta.v]}
                     ELSE {}
    BY DEF Decode, life, id, vector, norm, text, meta
  <1>12. CASE Len(b) = Len(Encode(r))
    <2>1. /\ 1 <= Len(b) /\ p2 <= Len(b) /\ p4 <= Len(b) /\ p5 <= Len(b)
          /\ p6 <= Len(b) /\ p8 <= Len(b) /\ p8 = Len(b)
      BY <1>2, <1>4, <1>12 DEF p8
    <2>2. /\ life.v = r.life /\ id.v = r.id /\ vector.v = r.vector /\ norm.v = r.norm
          /\ text.v = r.text /\ meta.v = r.meta /\ meta.ok /\ meta.at = Len(b)
      <3>1. \A p, x : p <= Len(b) => Till(b, p, x).v = x
                                   /\ Till(b, p, x).ok /\ Till(b, p, x).at = p
        BY DEF Till, Cursor
      <3>2. life.v = r.life /\ id.v = r.id /\ vector.v = r.vector
        BY <1>5, <1>6, <1>7, <2>1, <3>1
      <3>3. norm.v = r.norm /\ text.v = r.text
        BY <1>8, <1>9, <2>1, <3>1
      <3>4. meta.v = r.meta /\ meta.ok /\ meta.at = Len(b)
        BY <1>10, <2>1, <3>1
      <3> QED
        BY <3>2, <3>3, <3>4
    <2>3. \A i \in DOMAIN r.vector : Finite(r.vector[i])
      BY DEF Fits
    <2>4. r.norm # None => Finite(r.norm)
      <3>1. r.norm \in FittingNorms
        BY DEF Fits
      <3> QED
        BY <3>1, NoneCodes DEF FittingNorms, Finite
    <2>5. r = [life |-> r.life, id |-> r.id, vector |-> r.vector, norm |-> r.norm,
               text |-> r.text, meta |-> r.meta]
      BY DEF Fits
    <2> QED
      BY <1>11, <1>12, <2>2, <2>3, <2>4, <2>5
  <1>13. CASE Len(b) # Len(Encode(r))
    <2>1. ~(p8 <= Len(b))
      BY <1>2, <1>4, <1>13 DEF p8
    <2>2. ~meta.ok
      BY <1>10, <2>1 DEF Till, Broken
    <2> QED
      BY <1>11, <1>13, <2>2
  <1> QED
    BY <1>12, <1>13

(* What is encoded decodes, and no proper part of it does.                 *)
LEMMA RoundTrip ==
  ASSUME NEW r, Fits(r)
  PROVE  DecodesOnlyWhole(r, Encode(r))
  <1> DEFINE e == Encode(r)
  <1>1. e \in Contents /\ Len(e) \in Nat
    BY EncodeType DEF Contents
  <1>2. ASSUME NEW b \in Contents, Len(b) <= Len(e), \A i \in 1..Len(b) : b[i] = e[i]
        PROVE  Decode(b) = IF Len(b) = Len(e) THEN {r} ELSE {}
    <2>1. Len(b) \in Nat
      BY DEF Contents
    <2>2. Reads(b, 0, e)
      <3> SUFFICES ASSUME NEW i \in 1..Len(e), 0 + i <= Len(b) PROVE b[0 + i] = e[i]
        BY DEF Reads
      <3>1. i \in 1..Len(b) /\ 0 + i = i
        BY <1>1, <2>1
      <3> QED
        BY <1>2, <3>1
    <2> QED
      BY <1>2, <2>2, RecordIs
  <1> HIDE DEF e
  <1>3. Decode(e) = {r}
    <2>1. Len(e) <= Len(e)
      BY <1>1
    <2> QED
      BY <1>1, <1>2, <2>1
  <1>4. ASSUME NEW n \in 0..(Len(e) - 1) PROVE Decode(SubSeq(e, 1, n)) = {}
    <2> DEFINE b == SubSeq(e, 1, n)
    <2>1. b \in Contents /\ Len(b) = n /\ \A i \in 1..n : b[i] = e[i]
      BY <1>1 DEF Contents
    <2> HIDE DEF b
    <2>2. Decode(b) = {}
      BY <1>1, <1>2, <2>1
    <2> QED
      BY <2>2 DEF b
  <1> QED
    BY <1>3, <1>4 DEF DecodesOnlyWhole, e

-----------------------------------------------------------------------------
(* The builder *)

(* What encode does not check: the length of an id, the number of metadata *)
(* entries, and that a text is shorter than the code for none.             *)
LengthsFit ==
    /\ \A id \in BuiltIds : id.kind = "Str" => Len(id.v) <= MaxOf(W16)
    /\ \A text \in Texts : Len(text) < NoText
    /\ MaxMeta <= MaxOf(W16)

Built(r) ==
    /\ r = [life |-> r.life, id |-> r.id, vector |-> r.vector, norm |-> r.norm,
            text |-> r.text, meta |-> r.meta]
    /\ r.life \in {"live", "tombstone"}
    /\ r.id \in BuiltIds
    /\ r.vector \in Vectors
    /\ r.norm \in {None} \cup 0..Infinity
    /\ r.text \in {None} \cup Texts
    /\ r.meta \in Seq(Metas) /\ Len(r.meta) <= MaxMeta

DraftInv == draft = None \/ Built(draft)

LEMMA BytesAreContents == Seq(Byte) \subseteq Contents
  <1>1. Byte \subseteq Nat
    BY CodecAssumption DEF Byte
  <1>2. ASSUME NEW s \in Seq(Byte) PROVE s \in Seq(Nat)
    <2>1. Len(s) \in Nat /\ s \in [1..Len(s) -> Byte]
      OBVIOUS
    <2>2. s \in [1..Len(s) -> Nat]
      BY <1>1, <2>1
    <2> QED
      BY <2>1, <2>2
  <1> QED
    BY <1>2 DEF Contents

LEMMA NormType ==
  ASSUME NEW v \in Vectors
  PROVE  L2Norm(v) \in 0..Infinity
  <1>1. v \in FloatLists
    BY FilesAssumption DEF FloatLists
  <1>2. Len(v) \in Nat /\ v \in [1..Len(v) -> 0..MaxOf(W32)]
    BY <1>1, ListFunctions
  <1>3. v \in [1..Len(v) -> Nat]
    BY <1>2, NoneCodes
  <1>4. Sum(v) \in Nat
    BY <1>2, <1>3, SumType
  <1> QED
    BY <1>4, NoneCodes DEF L2Norm

LEMMA BuiltFits ==
  ASSUME NEW r, Built(r), Encodable(r), LengthsFit
  PROVE  Fits(r)
  <1>1. r.life \in DOMAIN LifeCodes
    BY DEF Built, LifeCodes
  <1>2. r.id \in FittingIds
    <2>1. r.id \in ExternalIds /\ r.id \in BuiltIds
      BY FilesAssumption DEF Built
    <2>2. CASE r.id \in [kind : {"Int"}, v : 0..MaxOf(W64)]
      BY <2>2 DEF FittingIds
    <2>3. CASE r.id \in [kind : {"Str"}, v : Seq(Byte)]
      <3>1. r.id.v \in Contents /\ r.id.kind = "Str"
        BY <2>3, BytesAreContents
      <3>2. Len(r.id.v) \in 0..MaxOf(W16)
        BY <2>1, <3>1, NoneCodes DEF LengthsFit, Contents
      <3>3. r.id.v \in Strings(W16) /\ r.id = [kind |-> "Str", v |-> r.id.v]
        BY <2>3, <3>1, <3>2 DEF Strings
      <3> QED
        BY <3>3 DEF FittingIds
    <2> QED
      BY <2>1, <2>2, <2>3 DEF ExternalIds
  <1>3. /\ r.vector \in FloatLists /\ Len(r.vector) <= MaxOf(W16)
        /\ \A i \in DOMAIN r.vector : Finite(r.vector[i])
    BY FilesAssumption DEF Built, Encodable, FloatLists
  <1>4. r.norm \in FittingNorms
    BY NoneCodes DEF Built, Encodable, FittingNorms, Finite
  <1>5. r.text \in FittingTexts
    <2>1. CASE r.text = None
      BY <2>1 DEF FittingTexts
    <2>2. CASE r.text \in Texts
      <3>1. r.text \in Contents /\ Len(r.text) < NoText
        BY <2>2, FilesAssumption, BytesAreContents DEF LengthsFit
      <3> QED
        BY <3>1 DEF FittingTexts
    <2> QED
      BY <2>1, <2>2 DEF Built
  <1>6. r.meta \in EntryLists /\ Len(r.meta) <= MaxOf(W16)
    <2> DEFINE m == r.meta
    <2>1. m \in Seq(Metas) /\ Len(m) <= MaxMeta /\ Len(m) \in Nat
      BY DEF Built
    <2>2. ASSUME NEW i \in 1..Len(m) PROVE m[i] \in FittingEntries
      <3> DEFINE key == m[i].key
                 value == m[i].value
      <3>1. m[i] \in Metas
        BY <2>1
      <3>2. /\ m[i] = [key |-> key, value |-> value]
            /\ key \in Contents /\ value \in MetaValues
        BY <3>1, FilesAssumption, BytesAreContents
      <3>3. /\ Len(key) <= MaxOf(W16)
            /\ value.kind \in Bytestrings => Len(value.v) <= MaxOf(W16)
        <4>1. i \in DOMAIN r.meta
          BY <2>1
        <4> QED
          BY <4>1 DEF Encodable
      <3> HIDE DEF key, value, m
      <3>4. \A s \in Contents : Len(s) <= MaxOf(W16) => s \in Strings(W16)
        BY NoneCodes DEF Strings, Contents
      <3>5. value \in FittingValues
        <4>1. CASE value \in [kind : Bytestrings, v : Seq(Byte)]
          <5>1. value.kind \in Bytestrings /\ value.v \in Contents
                /\ value = [kind |-> value.kind, v |-> value.v]
            BY <4>1, BytesAreContents
          <5>2. value.v \in Strings(W16)
            BY <3>3, <3>4, <5>1
          <5> QED
            BY <5>1, <5>2 DEF FittingValues
        <4>2. CASE value \in [kind : {"Int", "Float"}, v : 0..MaxOf(W64)]
                              \cup [kind : {"Bool"}, v : {0, 1}]
          BY <4>2 DEF FittingValues
        <4> QED
          BY <3>2, <4>1, <4>2 DEF MetaValues
      <3> QED
        BY <3>2, <3>3, <3>4, <3>5 DEF FittingEntries
    <2> HIDE DEF m
    <2>3. m \in EntryLists
      <3>1. m = [i \in 1..Len(m) |-> m[i]]
        BY <2>1
      <3>2. m \in [1..Len(m) -> FittingEntries]
        BY <2>2, <3>1
      <3> QED
        BY <2>1, <3>2 DEF EntryLists
    <2> QED
      BY <2>1, <2>3, NoneCodes, FilesAssumption DEF LengthsFit, m
  <1> QED
    BY <1>1, <1>2, <1>3, <1>4, <1>5, <1>6 DEF Built, Fits

LEMMA DraftInit == Init => DraftInv
  BY DEF Init, DraftInv

LEMMA DraftStep == DraftInv /\ [Next]_vars => DraftInv'
  <1> SUFFICES ASSUME DraftInv, [Next]_vars PROVE DraftInv'
    OBVIOUS
  <1>1. CASE UNCHANGED draft
    BY <1>1 DEF DraftInv, Built
  <1>2. ASSUME NEW id \in BuiltIds, NEW vector \in Vectors, New(id, vector) PROVE DraftInv'
    <2>1. <<>> \in Seq(Metas) /\ Len(<<>>) = 0 /\ MaxMeta \in Nat
      BY FilesAssumption
    <2> QED
      BY <1>2, <2>1 DEF New, DraftInv, Built
  <1>3. CASE WithNorm
    <2>1. Built(draft) /\ draft' = [draft EXCEPT !.norm = L2Norm(draft.vector)]
      BY <1>3 DEF WithNorm, Build, DraftInv
    <2>2. L2Norm(draft.vector) \in 0..Infinity
      BY <2>1, NormType DEF Built
    <2> QED
      BY <2>1, <2>2 DEF DraftInv, Built
  <1>4. ASSUME NEW text \in Texts, WithText(text) PROVE DraftInv'
    <2>1. Built(draft) /\ draft' = [draft EXCEPT !.text = text]
      BY <1>4 DEF WithText, Build, DraftInv
    <2> QED
      BY <2>1 DEF DraftInv, Built
  <1>5. ASSUME NEW entry \in Metas, WithMeta(entry) PROVE DraftInv'
    <2>1. /\ Built(draft) /\ draft' = [draft EXCEPT !.meta = Append(draft.meta, entry)]
          /\ Len(draft.meta) < MaxMeta
      BY <1>5 DEF WithMeta, Build, DraftInv
    <2>2. \A s \in Seq(Metas) : /\ Append(s, entry) \in Seq(Metas)
                                 /\ Len(Append(s, entry)) = Len(s) + 1 /\ Len(s) \in Nat
      OBVIOUS
    <2>3. /\ Append(draft.meta, entry) \in Seq(Metas)
          /\ Len(Append(draft.meta, entry)) <= MaxMeta
      BY <2>1, <2>2, FilesAssumption DEF Built
    <2> QED
      BY <2>1, <2>3 DEF DraftInv, Built
  <1>6. CASE AsTombstone
    <2>1. Built(draft) /\ draft' = [draft EXCEPT !.life = "tombstone"]
      BY <1>6 DEF AsTombstone, Build, DraftInv
    <2> QED
      BY <2>1 DEF DraftInv, Built
  <1>7. \A es : WriteSegment(es) => UNCHANGED draft
    BY DEF WriteSegment, Written
  <1>8. CreateLog => UNCHANGED draft
    BY DEF CreateLog, Written
  <1>9. (\A r : AppendRecord(r) => UNCHANGED draft) /\ (Commit => UNCHANGED draft)
    BY DEF AppendRecord, Commit, Extend, Written
  <1>10. \A n : Cut(n) \/ Zero(n) \/ Change(n) => UNCHANGED draft
    BY DEF Cut, Zero, Change, Damage
  <1>11. CASE UNCHANGED vars
    BY <1>1, <1>11 DEF vars
  <1> QED
    BY <1>1, <1>2, <1>3, <1>4, <1>5, <1>6, <1>7, <1>8, <1>9, <1>10, <1>11 DEF Next

(* Whatever the widths of the integers are, a record that encode accepts   *)
(* decodes to itself, to the last bit, and no proper part of its bytes     *)
(* decodes, as long as its id, its text and its metadata do not exceed     *)
(* what their fields can count: encode checks that of neither the id nor   *)
(* the metadata, and lets one text too many pass.  (Record::encode,        *)
(* Record::decode)                                                         *)
THEOREM RecordsRoundTrip ==
  ASSUME LengthsFit
  PROVE  Spec => []EncodedDecodes
  <1>1. DraftInv => EncodedDecodes
    <2> SUFFICES ASSUME DraftInv, draft # None, Encodable(draft)
                 PROVE  DecodesOnlyWhole(draft, Encode(draft))
      BY DEF EncodedDecodes
    <2>1. Fits(draft)
      BY BuiltFits DEF DraftInv
    <2> QED
      BY <2>1, RoundTrip
  <1> QED
    BY <1>1, DraftInit, DraftStep, PTL DEF Spec

-----------------------------------------------------------------------------
(* Frames *)

(* The frames whose length their length field can say.                     *)
SmallFrames ==
    {f \in [kind : DOMAIN FrameCodes, payload : Contents] : Len(f.payload) + 2 <= MaxOf(W32)}
FrameBytes(f) == EncodeFrame(f.kind, f.payload)

LEMMA Joined ==
  ASSUME NEW s \in Contents, NEW t \in Contents
  PROVE  /\ s \o t \in Contents /\ Len(s) \in Nat /\ Len(t) \in Nat
         /\ Len(s \o t) = Len(s) + Len(t)
         /\ \A i \in 1..Len(s) : (s \o t)[i] = s[i]
         /\ \A i \in 1..Len(t) : (s \o t)[Len(s) + i] = t[i]
  BY DEF Contents

LEMMA JoinedThree ==
  ASSUME NEW s \in Contents, NEW t \in Contents, NEW u \in Contents
  PROVE  (s \o t) \o u = s \o (t \o u)
  BY SMTT(30) DEF Contents

LEMMA Single ==
  ASSUME NEW k \in Nat
  PROVE  <<k>> \in Contents /\ Len(<<k>>) = 1 /\ <<k>>[1] = k
  BY DEF Contents

(* The slice of bytes that agree with e.                                   *)
LEMMA SliceIs ==
  ASSUME NEW b \in Contents, NEW p \in Nat, NEW e \in Contents, Reads(b, p, e),
         p + Len(e) <= Len(b)
  PROVE  SubSeq(b, p + 1, p + Len(e)) = e
  <1>1. TakeSlice(b, Till(b, p, 0), Len(e)) = Till(b, p + Len(e), e)
    BY TakeSliceIs
  <1>2. p <= Len(b)
    BY DEF Contents
  <1>3. Till(b, p, 0) = Cursor(p, 0) /\ Till(b, p + Len(e), e) = Cursor(p + Len(e), e)
    BY <1>2 DEF Till
  <1>4. TakeSlice(b, Cursor(p, 0), Len(e)) = Cursor(p + Len(e), SubSeq(b, p + 1, p + Len(e)))
    BY DEF TakeSlice, Cursor
  <1> DEFINE x == SubSeq(b, p + 1, p + Len(e))
  <1>5. Cursor(p + Len(e), x) = Cursor(p + Len(e), e)
    BY <1>1, <1>3, <1>4
  <1> HIDE DEF x
  <1>6. Cursor(p + Len(e), x).v = x /\ Cursor(p + Len(e), e).v = e
    BY DEF Cursor
  <1>7. x = e
    BY <1>5, <1>6
  <1> QED
    BY <1>7 DEF x

LEMMA CrcType ==
  ASSUME NEW code \in Nat, NEW payload \in Contents
  PROVE  Crc(code, payload) \in Nat
  <1> DEFINE n == Len(payload)
             next(i, crc) == (Base * crc + payload[i] + 1) % CrcValues
             Eq(u) == u = [i \in 0..n |-> IF i = 0 THEN code + 1 ELSE next(i, u[i - 1])]
             chosen == CHOOSE u : Eq(u)
             step == [x \in (1..n) \X Nat |-> next(x[1], x[2])]
  <1>1. n \in Nat /\ payload \in [1..n -> Nat]
    BY DEF Contents
  <1>2. \A i \in 1..n, crc \in Nat : next(i, crc) \in Nat
    <2> SUFFICES ASSUME NEW i \in 1..n, NEW crc \in Nat
                 PROVE  (Base * crc + payload[i] + 1) % CrcValues \in Nat
      OBVIOUS
    <2>1. payload[i] \in Nat /\ Base * crc \in Nat
      BY <1>1, CodecAssumption
    <2>2. CrcValues \in Nat \ {0}
      BY SMT DEF CrcValues
    <2>3. \A x \in Nat, m \in Nat \ {0} : x % m \in Nat
      OBVIOUS
    <2>4. Base * crc + payload[i] + 1 \in Nat
      BY <2>1
    <2> QED
      BY <2>2, <2>3, <2>4
  <1>3. Crc(code, payload) = chosen[n]
    BY Zenon DEF Crc
  <1> HIDE DEF next
  <1>4. /\ step \in [(1..n) \X Nat -> Nat]
        /\ \A i \in 1..n, crc \in Nat : step[<<i, crc>>] = next(i, crc)
    BY <1>2
  <1> HIDE DEF step, n
  <1>5. PICK f \in [0..n -> Nat] : f[0] = code + 1 /\ \A i \in 1..n : f[i] = step[<<i, f[i - 1]>>]
    <2>1. code + 1 \in Nat
      OBVIOUS
    <2> QED
      BY <1>1, <1>4, <2>1, NumberRecursion
  <1>6. Eq(f)
    <2>1. f = [i \in 0..n |-> f[i]]
      OBVIOUS
    <2>2. ASSUME NEW i \in 0..n PROVE f[i] = IF i = 0 THEN code + 1 ELSE next(i, f[i - 1])
      <3>1. CASE i = 0
        BY <1>5, <3>1
      <3>2. CASE i # 0
        <4>1. i \in 1..n /\ f[i - 1] \in Nat
          BY <1>1, <3>2
        <4> QED
          BY <1>4, <1>5, <3>2, <4>1
      <3> QED
        BY <3>1, <3>2
    <2> QED
      BY <2>1, <2>2
  <1>7. Eq(chosen)
    <2> HIDE DEF Eq
    <2> QED
      BY <1>6
  <1> HIDE DEF chosen
  <1>8. chosen[0] = code + 1 /\ \A i \in 1..n : chosen[i] = next(i, chosen[i - 1])
    BY <1>1, <1>7
  <1> DEFINE good == {i \in 0..n : chosen[i] \in Nat}
  <1>9. 0 \in good /\ \A i \in 1..n : i - 1 \in good => i \in good
    <2>1. 0 \in good
      BY <1>1, <1>8
    <2>2. ASSUME NEW i \in 1..n, i - 1 \in good PROVE i \in good
      <3>1. chosen[i - 1] \in Nat /\ i \in 0..n
        BY <2>2
      <3>2. next(i, chosen[i - 1]) \in Nat
        BY <1>2, <3>1
      <3> QED
        BY <1>8, <3>1, <3>2
    <2> QED
      BY <2>1, <2>2
  <1> HIDE DEF good
  <1>10. \A i \in 0..n : i \in good
    BY <1>1, <1>9, UpToAll
  <1> QED
    BY <1>1, <1>3, <1>10 DEF good

LEMMA FrameTypes ==
  ASSUME NEW f \in SmallFrames
  PROVE  /\ f.payload \in Contents /\ Len(f.payload) \in Nat /\ W32 \in Nat \ {0}
         /\ Len(f.payload) + 2 \in 0..MaxOf(W32)
         /\ LE(Len(f.payload) + 2, W32) \in Contents /\ Len(LE(Len(f.payload) + 2, W32)) = W32
         /\ FrameCodes[f.kind] \in Nat /\ WithCode(FrameCodes, FrameCodes[f.kind]) = {f.kind}
         /\ Crc(FrameCodes[f.kind], f.payload) \in Nat
         /\ f = [kind |-> f.kind, payload |-> f.payload]
         /\ FrameBytes(f) \in Contents /\ Len(FrameBytes(f)) = Size(f)
         /\ Size(f) = W32 + (Len(f.payload) + 2)
  <1>1. /\ f.payload \in Contents /\ Len(f.payload) \in Nat /\ f.kind \in DOMAIN FrameCodes
        /\ Len(f.payload) + 2 <= MaxOf(W32) /\ f = [kind |-> f.kind, payload |-> f.payload]
    BY DEF SmallFrames, Contents
  <1>2. W32 \in Nat \ {0} /\ Len(f.payload) + 2 \in 0..MaxOf(W32)
    BY <1>1, NoneCodes, CodecAssumption
  <1>3. LE(Len(f.payload) + 2, W32) \in Contents /\ Len(LE(Len(f.payload) + 2, W32)) = W32
    BY <1>2, NumberIs
  <1>4. FrameCodes[f.kind] \in Nat /\ WithCode(FrameCodes, FrameCodes[f.kind]) = {f.kind}
    BY <1>1 DEF FrameCodes, WithCode
  <1>5. Crc(FrameCodes[f.kind], f.payload) \in Nat
    BY <1>1, <1>4, CrcType
  <1> DEFINE e == LE(Len(f.payload) + 2, W32)
             c == FrameCodes[f.kind]
             k == Crc(FrameCodes[f.kind], f.payload)
  <1>6. FrameBytes(f) = e \o <<c>> \o f.payload \o <<k>>
    BY DEF FrameBytes, EncodeFrame
  <1>7. e \in Contents /\ c \in Nat /\ k \in Nat /\ Len(e) = W32
    BY <1>3, <1>4, <1>5
  <1> HIDE DEF e, c, k
  <1>8. /\ e \o <<c>> \o f.payload \o <<k>> \in Contents
        /\ Len(e \o <<c>> \o f.payload \o <<k>>) = W32 + 1 + Len(f.payload) + 1
    <2> DEFINE t == e \o <<c>>
               u == t \o f.payload
    <2>1. t \in Contents /\ Len(t) = W32 + 1
      BY <1>7, Joined, Single
    <2> HIDE DEF t
    <2>2. u \in Contents /\ Len(u) = W32 + 1 + Len(f.payload)
      <3>1. Len(f.payload) \in Nat /\ f.payload \in Contents
        BY <1>1
      <3>2. t \o f.payload \in Contents /\ Len(t \o f.payload) = Len(t) + Len(f.payload)
        BY <2>1, <3>1, Joined
      <3> QED
        BY <2>1, <3>1, <3>2
    <2> HIDE DEF u
    <2>3. u \o <<k>> \in Contents /\ Len(u \o <<k>>) = W32 + 1 + Len(f.payload) + 1
      <3>1. Len(f.payload) \in Nat /\ <<k>> \in Contents /\ Len(<<k>>) = 1
        BY <1>1, <1>7, Single
      <3>2. u \o <<k>> \in Contents /\ Len(u \o <<k>>) = Len(u) + Len(<<k>>)
        BY <2>2, <3>1, Joined
      <3> QED
        BY <2>2, <3>1, <3>2
    <2> QED
      BY <2>3 DEF t, u
  <1>9. Size(f) = W32 + 2 + Len(f.payload)
    BY DEF Size, FRAME_BASE
  <1>10. Len(FrameBytes(f)) = Size(f) /\ Size(f) = W32 + (Len(f.payload) + 2)
    <2> DEFINE n == Len(f.payload)
    <2>1. Len(FrameBytes(f)) = W32 + 1 + n + 1 /\ Size(f) = W32 + 2 + n /\ n \in Nat /\ W32 \in Nat
      BY <1>1, <1>2, <1>6, <1>8, <1>9
    <2> HIDE DEF n
    <2>2. Len(FrameBytes(f)) = Size(f) /\ Size(f) = W32 + (n + 2)
      BY <2>1
    <2> QED
      BY <2>2 DEF n
  <1> QED
    BY <1>1, <1>2, <1>3, <1>4, <1>5, <1>6, <1>8, <1>10

(* What is behind an offset where the bytes are those of a frame.          *)
LEMMA FrameReads ==
  ASSUME NEW b \in Contents, NEW p \in Nat, NEW f \in SmallFrames, Reads(b, p, FrameBytes(f))
  PROVE  /\ Reads(b, p, LE(Len(f.payload) + 2, W32))
         /\ Reads(b, p + W32, <<FrameCodes[f.kind]>>)
         /\ Reads(b, p + W32 + 1, f.payload)
         /\ Reads(b, p + W32 + 1 + Len(f.payload), <<Crc(FrameCodes[f.kind], f.payload)>>)
  <1> DEFINE e == LE(Len(f.payload) + 2, W32)
             c == FrameCodes[f.kind]
             k == Crc(FrameCodes[f.kind], f.payload)
             s == f.payload
  <1>1. /\ FrameBytes(f) = e \o <<c>> \o s \o <<k>>
        /\ e \in Contents /\ Len(e) = W32 /\ W32 \in Nat /\ c \in Nat /\ k \in Nat
        /\ s \in Contents /\ Len(s) \in Nat
    <2>1. FrameBytes(f) = e \o <<c>> \o s \o <<k>>
      BY DEF FrameBytes, EncodeFrame
    <2>2. /\ e \in Contents /\ Len(e) = W32 /\ W32 \in Nat /\ c \in Nat /\ k \in Nat
          /\ s \in Contents /\ Len(s) \in Nat
      BY FrameTypes
    <2> HIDE DEF e, c, k, s
    <2> QED
      BY <2>1, <2>2
  <1> HIDE DEF e, c, k, s
  <1>2. /\ <<c>> \in Contents /\ <<k>> \in Contents /\ Len(<<c>>) = 1
        /\ e \o <<c>> \in Contents /\ Len(e \o <<c>>) = W32 + 1
        /\ e \o <<c>> \o s \in Contents /\ Len(e \o <<c>> \o s) = W32 + 1 + Len(s)
    <2> DEFINE t == e \o <<c>>
    <2>1. /\ <<c>> \in Contents /\ <<k>> \in Contents /\ Len(<<c>>) = 1
          /\ t \in Contents /\ Len(t) = W32 + 1
      BY <1>1, Joined, Single
    <2> HIDE DEF t
    <2>2. t \o s \in Contents /\ Len(t \o s) = W32 + 1 + Len(s)
      <3>1. t \o s \in Contents /\ Len(t \o s) = Len(t) + Len(s)
        BY <1>1, <2>1, Joined
      <3> QED
        BY <2>1, <3>1
    <2> QED
      BY <2>1, <2>2 DEF t
  <1>3. Reads(b, p, e \o <<c>> \o s) /\ Reads(b, p + (W32 + 1 + Len(s)), <<k>>)
    <2> DEFINE t == e \o <<c>> \o s
    <2>1. t \in Contents /\ Len(t) = W32 + 1 + Len(s) /\ Reads(b, p, t \o <<k>>)
      BY <1>1, <1>2
    <2> HIDE DEF t
    <2>2. Reads(b, p, t) /\ Reads(b, p + Len(t), <<k>>)
      BY <1>2, <2>1, ReadsConcat
    <2> QED
      BY <2>1, <2>2 DEF t
  <1>4. Reads(b, p, e \o <<c>>) /\ Reads(b, p + (W32 + 1), s)
    <2> DEFINE t == e \o <<c>>
    <2>1. t \in Contents /\ Len(t) = W32 + 1 /\ Reads(b, p, t \o s)
      BY <1>2, <1>3
    <2> HIDE DEF t
    <2>2. Reads(b, p, t) /\ Reads(b, p + Len(t), s)
      BY <1>1, <2>1, ReadsConcat
    <2> QED
      BY <2>1, <2>2 DEF t
  <1>5. Reads(b, p, e) /\ Reads(b, p + W32, <<c>>)
    <2>1. Reads(b, p, e) /\ Reads(b, p + Len(e), <<c>>)
      BY <1>1, <1>2, <1>4, ReadsConcat
    <2> QED
      BY <1>1, <2>1
  <1>6. p + (W32 + 1) = p + W32 + 1 /\ p + (W32 + 1 + Len(s)) = p + W32 + 1 + Len(s)
    BY <1>1
  <1> QED
    BY <1>3, <1>4, <1>5, <1>6 DEF e, c, k, s

(* The length that is read where a frame was written.                      *)
LEMMA LengthIs ==
  ASSUME NEW b \in Contents, NEW p \in Nat, NEW f \in SmallFrames,
         Reads(b, p, LE(Len(f.payload) + 2, W32)), p + FRAME_BASE <= Len(b)
  PROVE  LengthAt(b, p) = Len(f.payload) + 2
  <1> DEFINE n == Len(f.payload) + 2
  <1>1. /\ n \in 0..MaxOf(W32) /\ W32 \in Nat
        /\ LE(n, W32) \in Contents /\ Len(LE(n, W32)) = W32
    BY FrameTypes
  <1>2. Len(b) \in Nat
    BY DEF Contents
  <1>3. FRAME_BASE = W32 + 2
    BY DEF FRAME_BASE
  <1> HIDE DEF n
  <1>4. Len(b) - p >= FRAME_BASE /\ p + W32 <= Len(b)
    BY <1>1, <1>2, <1>3
  <1>5. SubSeq(b, p + 1, p + W32) = LE(n, W32)
    <2> DEFINE e == LE(n, W32)
    <2>1. e \in Contents /\ Len(e) = W32 /\ Reads(b, p, e)
      BY <1>1 DEF n
    <2> HIDE DEF e
    <2>2. SubSeq(b, p + 1, p + Len(e)) = e
      BY <1>4, <2>1, SliceIs
    <2> QED
      BY <2>1, <2>2 DEF e
  <1>6. FromLE(LE(n, W32)) = n
    BY <1>1, NumberIs
  <1> QED
    BY <1>4, <1>5, <1>6 DEF LengthAt, n

(* A frame that nothing changed is read as it was written. *)
LEMMA FrameIs ==
  ASSUME NEW b \in Contents, NEW p \in Nat, NEW f \in SmallFrames, Reads(b, p, FrameBytes(f)),
         p + Size(f) <= Len(b)
  PROVE  FrameAt(b, p) = {f}
  <1> DEFINE n == Len(f.payload)
             code == FrameCodes[f.kind]
             crc == Crc(code, f.payload)
  <1>1. /\ f.payload \in Contents /\ n \in Nat /\ W32 \in Nat \ {0}
        /\ code \in Nat /\ WithCode(FrameCodes, code) = {f.kind} /\ crc \in Nat
        /\ f = [kind |-> f.kind, payload |-> f.payload] /\ Size(f) = W32 + (n + 2)
    <2>1. n \in Nat /\ W32 \in Nat \ {0} /\ Size(f) = W32 + (n + 2)
      BY FrameTypes
    <2>2. /\ f.payload \in Contents /\ f = [kind |-> f.kind, payload |-> f.payload]
          /\ code \in Nat /\ WithCode(FrameCodes, code) = {f.kind} /\ crc \in Nat
      BY FrameTypes
    <2> HIDE DEF n, code, crc
    <2> QED
      BY <2>1, <2>2
  <1>2. /\ Reads(b, p, LE(n + 2, W32)) /\ Reads(b, p + W32, <<code>>)
        /\ Reads(b, p + W32 + 1, f.payload) /\ Reads(b, p + W32 + 1 + n, <<crc>>)
    BY FrameReads
  <1>3. Len(b) \in Nat
    BY DEF Contents
  <1>4. p + FRAME_BASE <= Len(b)
    BY <1>1, <1>3 DEF FRAME_BASE
  <1>5. LengthAt(b, p) = n + 2
    BY <1>2, <1>4, LengthIs
  <1> HIDE DEF n, code, crc
  <1>6. /\ n + 2 >= 2 /\ Len(b) - p >= W32 + (n + 2)
        /\ p + W32 + (n + 2) - 1 = p + W32 + 1 + n
    <2>1. n \in Nat /\ W32 \in Nat /\ Size(f) = W32 + (n + 2)
      BY <1>1
    <2>2. p + Size(f) <= Len(b)
      OBVIOUS
    <2> QED
      BY <1>3, <2>1, <2>2
  <1>7. b[p + W32 + 1] = code /\ b[p + W32 + (n + 2)] = crc
    <2>1. 1 \in 1..Len(<<code>>) /\ 1 \in 1..Len(<<crc>>) /\ <<code>>[1] = code /\ <<crc>>[1] = crc
      OBVIOUS
    <2>2. p + W32 + 1 <= Len(b) /\ p + W32 + 1 + n + 1 <= Len(b)
      BY <1>1, <1>3, <1>6
    <2>3. b[p + W32 + 1] = code /\ b[p + W32 + 1 + n + 1] = crc
      BY <1>2, <2>1, <2>2 DEF Reads
    <2>4. p + W32 + 1 + n + 1 = p + W32 + (n + 2)
      BY <1>1
    <2> QED
      BY <2>3, <2>4
  <1>8. SubSeq(b, p + W32 + 2, p + W32 + (n + 2) - 1) = f.payload
    <2>1. p + W32 + 1 \in Nat /\ p + W32 + 1 + n <= Len(b)
      BY <1>1, <1>3, <1>6
    <2>2. SubSeq(b, p + W32 + 1 + 1, p + W32 + 1 + Len(f.payload)) = f.payload
      BY <1>1, <1>2, <2>1, SliceIs DEF n
    <2>3. p + W32 + 1 + 1 = p + W32 + 2
      BY <1>1
    <2> QED
      BY <1>6, <2>2, <2>3 DEF n
  <1>9. FrameAt(b, p) = Checked(code, f.payload, crc)
    BY <1>5, <1>6, <1>7, <1>8 DEF FrameAt, FrameOfLength
  <1>10. CrcHolds(crc, code, f.payload)
    BY DEF CrcHolds, crc
  <1> QED
    BY <1>1, <1>9, <1>10 DEF Checked

LEMMA LengthType ==
  ASSUME NEW b \in Contents, NEW p \in Nat
  PROVE  LengthAt(b, p) \in Nat
  <1>1. Len(b) \in Nat /\ b \in Seq(Nat) /\ W32 \in Nat \ {0}
    BY CodecAssumption DEF Contents
  <1>2. CASE Len(b) - p >= FRAME_BASE
    <2> DEFINE s == SubSeq(b, p + 1, p + W32)
    <2>1. p + W32 <= Len(b)
      BY <1>1, <1>2 DEF FRAME_BASE
    <2>2. s \in Seq(Nat) /\ Len(s) = W32 /\ DOMAIN s = 1..W32
      BY <1>1, <2>1
    <2> HIDE DEF s
    <2>3. s \in [1..W32 -> Nat]
      BY <2>2
    <2> DEFINE t == [i \in 1..W32 |-> s[i] * Pow(i - 1)]
    <2>4. t \in [1..W32 -> Nat]
      <3> SUFFICES ASSUME NEW i \in 1..W32 PROVE s[i] * Pow(i - 1) \in Nat
        OBVIOUS
      <3>1. i - 1 \in Nat
        BY <1>1
      <3>2. Pow(i - 1) \in Nat /\ s[i] \in Nat
        BY <3>1, <2>3, PowType
      <3> QED
        BY <3>2
    <2>5. FromLE(s) = Sum(t)
      BY <2>2 DEF FromLE
    <2> HIDE DEF t
    <2>6. Sum(t) \in Nat
      BY <1>1, <2>4, SumType
    <2> QED
      BY <1>2, <2>5, <2>6 DEF LengthAt, s
  <1>3. CASE ~(Len(b) - p >= FRAME_BASE)
    BY <1>3 DEF LengthAt
  <1> QED
    BY <1>2, <1>3

(* How long a frame is that was found.                                     *)
LEMMA FoundPayload ==
  ASSUME NEW b \in Contents, NEW p \in Nat, NEW g \in FrameAt(b, p)
  PROVE  /\ LengthAt(b, p) - 2 \in Nat /\ p + W32 + LengthAt(b, p) <= Len(b)
         /\ Len(g.payload) = LengthAt(b, p) - 2 /\ Size(g) = W32 + LengthAt(b, p)
  <1> DEFINE len == LengthAt(b, p)
  <1>1. Len(b) \in Nat /\ b \in Seq(Nat) /\ W32 \in Nat \ {0}
    BY CodecAssumption DEF Contents
  <1>2. len >= 2 /\ Len(b) - p >= W32 + len
        /\ g \in Checked(b[p + W32 + 1], SubSeq(b, p + W32 + 2, p + W32 + len - 1),
                        b[p + W32 + len])
    BY DEF FrameAt, FrameOfLength
  <1>3. len \in Nat
    BY LengthType
  <1> HIDE DEF len
  <1>4. Len(g.payload) = len - 2
    <2>1. g.payload = SubSeq(b, p + W32 + 2, p + W32 + len - 1)
      BY <1>2 DEF Checked
    <2> DEFINE x == p + W32 + 2
               y == p + W32 + len - 1
    <2>2. x \in Nat /\ y \in Nat /\ 1 <= x /\ y <= Len(b) /\ y - x + 1 = len - 2 /\ len - 2 \in Nat
      BY <1>1, <1>2, <1>3
    <2> HIDE DEF x, y
    <2>3. Len(SubSeq(b, x, y)) = IF x <= y THEN y - x + 1 ELSE 0
      BY <1>1, <2>2
    <2>4. Len(SubSeq(b, x, y)) = len - 2
      BY <2>2, <2>3
    <2> QED
      BY <2>1, <2>4 DEF x, y
  <1>5. Size(g) = W32 + len
    BY <1>1, <1>3, <1>4 DEF Size, FRAME_BASE
  <1>6. len - 2 \in Nat /\ p + W32 + len <= Len(b)
    BY <1>1, <1>2, <1>3
  <1> QED
    BY <1>4, <1>5, <1>6 DEF len

(* From p on, b is the frame f up to m. *)
UpTo(m, b, p, f) == \A k \in 1..Size(f) : p + k <= m => b[p + k] = FrameBytes(f)[k]

(* What is read where a frame was written, if the length of it is as it    *)
(* was, has the size of that frame.                                        *)
LEMMA FrameInside ==
  ASSUME NEW b \in Contents, NEW p \in Nat, NEW f \in SmallFrames, NEW g \in FrameAt(b, p),
         NEW m \in Nat, UpTo(m, b, p, f), p + Size(g) <= m
  PROVE  Size(g) = Size(f)
  <1> DEFINE len == LengthAt(b, p)
  <1>1. Len(b) \in Nat /\ b \in Seq(Nat) /\ W32 \in Nat \ {0}
    BY CodecAssumption DEF Contents
  <1>2. len - 2 \in Nat /\ p + W32 + len <= Len(b)
    BY FoundPayload
  <1>3. len \in Nat
    BY LengthType
  <1>4. Size(g) = W32 + len
    BY FoundPayload
  <1> HIDE DEF len
  <1>5. /\ Len(f.payload) \in Nat /\ LE(Len(f.payload) + 2, W32) \in Contents
        /\ Len(LE(Len(f.payload) + 2, W32)) = W32
        /\ Size(f) = W32 + (Len(f.payload) + 2) /\ FrameBytes(f) \in Contents
    BY FrameTypes
  <1>6. Reads(b, p, LE(Len(f.payload) + 2, W32))
    <2> SUFFICES ASSUME NEW i \in 1..W32 PROVE b[p + i] = LE(Len(f.payload) + 2, W32)[i]
      BY <1>5 DEF Reads
    <2>1. i \in 1..Size(f) /\ p + i <= m
      BY <1>1, <1>3, <1>4, <1>5
    <2>2. b[p + i] = FrameBytes(f)[i]
      BY <2>1 DEF UpTo
    <2> DEFINE e == LE(Len(f.payload) + 2, W32)
               t == <<FrameCodes[f.kind]>> \o f.payload \o <<Crc(FrameCodes[f.kind], f.payload)>>
    <2>3. FrameBytes(f) = e \o t /\ t \in Contents
      <3> DEFINE c == FrameCodes[f.kind]
                 k == Crc(FrameCodes[f.kind], f.payload)
                 s == f.payload
      <3>1. /\ FrameBytes(f) = e \o <<c>> \o s \o <<k>> /\ t = <<c>> \o s \o <<k>>
            /\ e \in Contents /\ c \in Nat /\ k \in Nat /\ s \in Contents
        <4>1. FrameBytes(f) = e \o <<c>> \o s \o <<k>> /\ t = <<c>> \o s \o <<k>>
          BY DEF FrameBytes, EncodeFrame
        <4>2. e \in Contents /\ c \in Nat /\ k \in Nat /\ s \in Contents
          BY FrameTypes
        <4> HIDE DEF e, c, k, s, t
        <4> QED
          BY <4>1, <4>2
      <3> HIDE DEF e, c, k, s, t
      <3>2. /\ e \o <<c>> \o s \o <<k>> = e \o (<<c>> \o s \o <<k>>)
            /\ <<c>> \o s \o <<k>> \in Contents
        <4> DEFINE x == <<c>>
                   y == <<k>>
        <4>1. x \in Contents /\ y \in Contents
          BY <3>1, Single
        <4> HIDE DEF x, y
        <4>2. x \o s \in Contents /\ e \o x \in Contents
          BY <3>1, <4>1, Joined
        <4>3. /\ (e \o x) \o s = e \o (x \o s) /\ (e \o (x \o s)) \o y = e \o ((x \o s) \o y)
              /\ (x \o s) \o y \in Contents
          <5>1. (e \o x) \o s = e \o (x \o s)
            BY <3>1, <4>1, JoinedThree
          <5>2. (e \o (x \o s)) \o y = e \o ((x \o s) \o y) /\ (x \o s) \o y \in Contents
            <6> DEFINE z == x \o s
            <6>1. z \in Contents
              BY <4>2
            <6> HIDE DEF z
            <6>2. z \o y \in Contents
              BY <4>1, <6>1, Joined
            <6>3. (e \o z) \o y = e \o (z \o y)
              <7>1. e \in Contents
                BY <3>1
              <7> QED
                BY <4>1, <6>1, <7>1, JoinedThree
            <6> QED
              BY <6>2, <6>3 DEF z
          <5> QED
            BY <5>1, <5>2
        <4> QED
          BY <4>3 DEF x, y
      <3> QED
        BY <3>1, <3>2
    <2>4. e \in Contents /\ Len(e) = W32
      BY <1>5
    <2> HIDE DEF e, t
    <2>5. (e \o t)[i] = e[i]
      BY <2>3, <2>4 DEF Contents
    <2> QED
      BY <2>3, <2>5, <2>2 DEF e
  <1>7. p + FRAME_BASE <= Len(b)
    BY <1>1, <1>2, <1>3 DEF FRAME_BASE
  <1>8. len = Len(f.payload) + 2
    BY <1>6, <1>7, LengthIs DEF len
  <1> QED
    BY <1>4, <1>5, <1>8

-----------------------------------------------------------------------------
(* Frames one behind the other *)

LEMMA Places ==
  ASSUME NEW n \in Nat, NEW fs \in [1..n -> SmallFrames]
  PROVE  /\ Place(fs, 0) = 0
         /\ \A j \in 0..n : Place(fs, j) \in Nat /\ j * FRAME_BASE <= Place(fs, j)
         /\ \A j \in 1..n : /\ Place(fs, j) = Place(fs, j - 1) + Size(fs[j])
                            /\ Size(fs[j]) \in Nat /\ FRAME_BASE <= Size(fs[j])
         /\ FRAME_BASE \in Nat \ {0}
  <1> DEFINE s == [i \in 1..n |-> Size(fs[i])]
  <1>1. W32 \in Nat /\ FRAME_BASE = W32 + 2
    BY CodecAssumption DEF FRAME_BASE
  <1>2. ASSUME NEW i \in 1..n PROVE Size(fs[i]) \in Nat /\ FRAME_BASE <= Size(fs[i])
    <2>1. Len(fs[i].payload) \in Nat /\ Size(fs[i]) = W32 + (Len(fs[i].payload) + 2)
      BY FrameTypes
    <2> QED
      BY <1>1, <2>1
  <1>3. s \in [1..n -> Nat] /\ \A i \in 1..n : s[i] = Size(fs[i])
    BY <1>2
  <1> HIDE DEF s
  <1>4. ASSUME NEW j \in 0..n PROVE Place(fs, j) = Sum([i \in 1..j |-> s[i]])
    <2>1. [i \in 1..j |-> s[i]] = [i \in 1..j |-> Size(fs[i])]
      BY <1>3
    <2> QED
      BY <2>1 DEF Place
  <1>5. Place(fs, 0) = 0
    <2> DEFINE e == [i \in 1..0 |-> s[i]]
    <2>1. e \in [1..0 -> Nat] /\ \A i \in 1..0 : e[i] = 0
      OBVIOUS
    <2> HIDE DEF e
    <2>2. Sum(e) = 0
      BY <2>1, SumNone
    <2>3. Place(fs, 0) = Sum(e)
      <3>1. 0 \in 0..n
        OBVIOUS
      <3> QED
        BY <1>4, <3>1 DEF e
    <2> QED
      BY <2>2, <2>3
  <1>6. ASSUME NEW j \in 1..n PROVE Place(fs, j) = Place(fs, j - 1) + Size(fs[j])
    <2>1. j \in 0..n /\ j - 1 \in 0..n
      OBVIOUS
    <2>2. Sum([i \in 1..j |-> s[i]]) = Sum([i \in 1..(j - 1) |-> s[i]]) + s[j]
      BY <1>3, SumStep
    <2>3. /\ Place(fs, j) = Sum([i \in 1..j |-> s[i]])
          /\ Place(fs, j - 1) = Sum([i \in 1..(j - 1) |-> s[i]])
      BY <1>4, <2>1
    <2> QED
      BY <1>3, <2>2, <2>3
  <1> DEFINE good == {j \in 0..n : Place(fs, j) \in Nat /\ j * FRAME_BASE <= Place(fs, j)}
  <1>7. 0 \in good
    BY <1>1, <1>5
  <1>8. ASSUME NEW j \in 1..n, j - 1 \in good PROVE j \in good
    <2>1. /\ Place(fs, j) = Place(fs, j - 1) + Size(fs[j]) /\ Size(fs[j]) \in Nat
          /\ FRAME_BASE <= Size(fs[j]) /\ Place(fs, j - 1) \in Nat
          /\ (j - 1) * FRAME_BASE <= Place(fs, j - 1)
      BY <1>2, <1>6, <1>8
    <2>2. FRAME_BASE \in Nat /\ j * FRAME_BASE = (j - 1) * FRAME_BASE + FRAME_BASE
      BY <1>1
    <2>3. (j - 1) * FRAME_BASE \in Nat
      BY <1>1
    <2> QED
      BY <2>1, <2>2, <2>3
  <1> HIDE DEF good
  <1>9. \A j \in 0..n : j \in good
    BY <1>7, <1>8, UpToAll
  <1> QED
    BY <1>1, <1>2, <1>5, <1>6, <1>9 DEF good

(* A frame ends where the next one begins, or before.                      *)
LEMMA PlacesGrow ==
  ASSUME NEW n \in Nat, NEW fs \in [1..n -> SmallFrames], NEW i \in 0..n, NEW j \in 0..n, i < j
  PROVE  Place(fs, i) + Size(fs[i + 1]) <= Place(fs, j)
  <1>1. /\ \A k \in 0..n : Place(fs, k) \in Nat
        /\ \A k \in 1..n : Place(fs, k) = Place(fs, k - 1) + Size(fs[k]) /\ Size(fs[k]) \in Nat
    BY Places
  <1> DEFINE m == j - (i + 1)
             good == {k \in 0..m : Place(fs, i + 1) <= Place(fs, i + 1 + k)}
  <1>2. m \in Nat
    OBVIOUS
  <1>3. 0 \in good
    <2>1. i + 1 \in 0..n /\ i + 1 + 0 = i + 1
      OBVIOUS
    <2> QED
      BY <1>1, <1>2, <2>1
  <1>4. ASSUME NEW k \in 1..m, k - 1 \in good PROVE k \in good
    <2>1. /\ i + 1 + k \in 1..n /\ i + 1 + k \in 0..n /\ i + 1 + k - 1 \in 0..n /\ i + 1 \in 0..n
          /\ i + 1 + (k - 1) = i + 1 + k - 1
      OBVIOUS
    <2>2. Place(fs, i + 1 + k) = Place(fs, i + 1 + k - 1) + Size(fs[i + 1 + k])
          /\ Size(fs[i + 1 + k]) \in Nat
      BY <1>1, <2>1
    <2>3. /\ Place(fs, i + 1) <= Place(fs, i + 1 + k - 1) /\ Place(fs, i + 1) \in Nat
          /\ Place(fs, i + 1 + k - 1) \in Nat
      BY <1>1, <1>4, <2>1
    <2> QED
      BY <2>2, <2>3
  <1> HIDE DEF good
  <1>5. \A k \in 0..m : k \in good
    BY <1>2, <1>3, <1>4, UpToAll
  <1>6. m \in good /\ i + 1 + m = j
    BY <1>2, <1>5
  <1>7. Place(fs, i + 1) <= Place(fs, j)
    BY <1>6 DEF good
  <1>8. i + 1 \in 1..n /\ (i + 1) - 1 = i
    OBVIOUS
  <1>9. Place(fs, i + 1) = Place(fs, i) + Size(fs[i + 1])
    BY <1>1, <1>8
  <1> QED
    BY <1>7, <1>9

(* Decoding reads the frames one by one up to a place where there is none. *)
LEMMA DecodeStops ==
  ASSUME NEW b \in Contents, NEW n \in Nat, NEW fs \in [1..n -> SmallFrames],
         \A i \in 1..n : FrameAt(b, Place(fs, i - 1)) = {fs[i]},
         Place(fs, n) <= Len(b), FrameAt(b, Place(fs, n)) = {}
  PROVE  DecodeFrames(b) = [frames |-> fs, at |-> Place(fs, n)]
  <1> DEFINE most == Len(b) \div FRAME_BASE
             start == [frames |-> <<>>, at |-> 0]
             Eq(u) == u = [i \in 0..most |-> IF i = 0 THEN start ELSE NextFrame(b, u[i - 1])]
             chosen == CHOOSE u : Eq(u)
             upto(i) == [frames |-> [j \in 1..i |-> fs[j]], at |-> Place(fs, i)]
  <1>1. /\ Place(fs, 0) = 0 /\ FRAME_BASE \in Nat \ {0}
        /\ \A j \in 0..n : Place(fs, j) \in Nat /\ j * FRAME_BASE <= Place(fs, j)
        /\ \A j \in 1..n : Place(fs, j) = Place(fs, j - 1) + Size(fs[j])
    BY Places
  <1>2. Len(b) \in Nat
    BY DEF Contents
  <1>3. most \in Nat /\ n <= most
    <2> DEFINE x == Len(b)
               d == FRAME_BASE
    <2>1. x \in Nat /\ d \in Nat \ {0} /\ n * d <= x
      BY <1>1, <1>2
    <2> HIDE DEF x, d
    <2>2. x \div d \in Nat /\ x = (x \div d) * d + (x % d) /\ x % d \in 0..(d - 1)
      BY <2>1
    <2> DEFINE q == x \div d
    <2>3. q \in Nat /\ x < q * d + d
      BY <2>1, <2>2
    <2> HIDE DEF q
    <2>4. ASSUME q < n PROVE FALSE
      <3>1. q * d + d <= n * d
        BY <2>1, <2>3, <2>4, MultipleAbove
      <3>2. q * d \in Nat /\ n * d \in Nat
        BY <2>1, <2>3
      <3> QED
        BY <2>1, <2>3, <3>1, <3>2
    <2> QED
      BY <2>2, <2>3, <2>4 DEF q, x, d
  <1>4. DecodeFrames(b) = chosen[most]
    BY Zenon DEF DecodeFrames
  <1>5. ASSUME NEW i \in 1..n PROVE NextFrame(b, upto(i - 1)) = upto(i)
    <2>1. FrameAt(b, Place(fs, i - 1)) = {fs[i]} /\ upto(i - 1).at = Place(fs, i - 1)
      OBVIOUS
    <2>2. (CHOOSE frame \in {fs[i]} : TRUE) = fs[i]
      OBVIOUS
    <2>3. NextFrame(b, upto(i - 1)) = Behind(upto(i - 1), fs[i])
      BY <2>1, <2>2 DEF NextFrame, Advance
    <2>4. Append([j \in 1..(i - 1) |-> fs[j]], fs[i]) = [j \in 1..i |-> fs[j]]
      BY AppendPrefix
    <2> QED
      BY <1>1, <2>3, <2>4 DEF Behind
  <1>6. NextFrame(b, upto(n)) = upto(n)
    BY DEF NextFrame, Advance
  <1>7. upto(0) = start /\ upto(n) = [frames |-> fs, at |-> Place(fs, n)]
    BY <1>1
  <1> HIDE DEF most, upto, start
  <1> DEFINE g == [i \in 0..most |-> IF i <= n THEN upto(i) ELSE upto(n)]
  <1>8. g[0] = start /\ \A i \in 1..most : g[i] = NextFrame(b, g[i - 1])
    <2>1. g[0] = start
      BY <1>3, <1>7
    <2>2. ASSUME NEW i \in 1..most PROVE g[i] = NextFrame(b, g[i - 1])
      <3>1. i \in 0..most /\ i - 1 \in 0..most
        BY <1>3
      <3>2. CASE i <= n
        <4>1. i \in 1..n /\ g[i] = upto(i) /\ g[i - 1] = upto(i - 1)
          BY <1>3, <3>1, <3>2
        <4> QED
          BY <1>5, <4>1
      <3>3. CASE ~(i <= n)
        <4>1. g[i] = upto(n) /\ g[i - 1] = upto(n)
          <5>1. CASE i - 1 <= n
            <6>1. i - 1 = n
              BY <1>3, <3>3, <5>1
            <6> QED
              BY <3>1, <3>3, <6>1
          <5>2. CASE ~(i - 1 <= n)
            BY <3>1, <3>3, <5>2
          <5> QED
            BY <5>1, <5>2
        <4> QED
          BY <1>6, <4>1
      <3> QED
        BY <3>2, <3>3
    <2> QED
      BY <2>1, <2>2
  <1>9. g[most] = upto(n)
    BY <1>3
  <1>10. Eq(g)
    <2>1. g = [i \in 0..most |-> g[i]]
      OBVIOUS
    <2> HIDE DEF g
    <2>2. ASSUME NEW i \in 0..most PROVE g[i] = IF i = 0 THEN start ELSE NextFrame(b, g[i - 1])
      <3>1. CASE i = 0
        BY <1>8, <3>1
      <3>2. CASE i # 0
        BY <1>3, <1>8, <3>2
      <3> QED
        BY <3>1, <3>2
    <2> QED
      BY <2>1, <2>2
  <1> HIDE DEF g
  <1>11. Eq(chosen)
    <2> HIDE DEF Eq
    <2> QED
      BY <1>10
  <1> HIDE DEF chosen
  <1>12. chosen[0] = start /\ \A i \in 1..most : chosen[i] = NextFrame(b, chosen[i - 1])
    BY <1>3, <1>11
  <1> DEFINE good == {i \in 0..most : chosen[i] = g[i]}
  <1>13. 0 \in good /\ \A i \in 1..most : i - 1 \in good => i \in good
    BY <1>3, <1>8, <1>12
  <1> HIDE DEF good
  <1>14. \A i \in 0..most : i \in good
    BY <1>3, <1>13, UpToAll
  <1>15. chosen[most] = g[most]
    BY <1>3, <1>14 DEF good
  <1> QED
    BY <1>4, <1>7, <1>9, <1>15

-----------------------------------------------------------------------------
(* Files *)

(* The bytes of a file: a header and n frames behind it.                   *)
IsFile(whole, header, n, fs) ==
    /\ whole \in Contents /\ header \in Contents
    /\ Len(whole) = Len(header) + Place(fs, n)
    /\ Reads(whole, 0, header)
    /\ \A i \in 1..n : Reads(whole, Len(header) + Place(fs, i - 1), FrameBytes(fs[i]))

(* What is left of a file: the first m bytes are as they were.             *)
Kept(b, whole, m) ==
    /\ b \in Contents /\ m \in 0..Len(b) /\ Len(b) <= Len(whole)
    /\ \A i \in 1..m : b[i] = whole[i]

LEMMA AfterIs ==
  ASSUME NEW b \in Contents, NEW h \in 0..Len(b)
  PROVE  /\ Len(b) \in Nat /\ After(b, h) \in Contents /\ Len(After(b, h)) = Len(b) - h
         /\ \A i \in 1..(Len(b) - h) : After(b, h)[i] = b[h + i]
  <1>1. Len(b) \in Nat /\ b \in Seq(Nat)
    BY DEF Contents
  <1> DEFINE m == Len(b)
  <1>2. /\ m \in Nat /\ h + 1 \in Nat /\ h + 1 >= 1 /\ m <= Len(b)
        /\ m - (h + 1) + 1 = m - h /\ m - h \in Nat
    BY <1>1
  <1> HIDE DEF m
  <1> DEFINE t == SubSeq(b, h + 1, m)
  <1>3. t \in Seq(Nat)
    BY <1>1, <1>2
  <1>4. Len(t) = IF h + 1 <= m THEN m - (h + 1) + 1 ELSE 0
    BY <1>1, <1>2
  <1>5. Len(t) = m - h
    BY <1>2, <1>4
  <1>6. \A i \in 1..(m - h) : t[i] = b[h + i]
    <2>1. \A i \in 1..(m - (h + 1) + 1) : t[i] = b[h + 1 + i - 1]
      BY <1>1, <1>2
    <2>2. \A i \in 1..(m - h) : h + 1 + i - 1 = h + i
      BY <1>2
    <2> QED
      BY <1>2, <2>1, <2>2
  <1> QED
    BY <1>1, <1>3, <1>5, <1>6 DEF After, Contents, m

LEMMA NothingPast ==
  ASSUME NEW b \in Contents, NEW p \in Nat, Len(b) < p + FRAME_BASE
  PROVE  FrameAt(b, p) = {}
  <1>1. Len(b) \in Nat /\ FRAME_BASE \in Nat
    BY CodecAssumption DEF Contents, FRAME_BASE
  <1>2. LengthAt(b, p) = 0
    BY <1>1 DEF LengthAt
  <1> QED
    BY <1>2 DEF FrameAt, FrameOfLength

(* A frame in front of the damage is read, and one that reaches into it is *)
(* there up to the damage.                                                 *)
LEMMA FrameKept ==
  ASSUME NEW whole, NEW header, NEW n \in Nat, NEW fs \in [1..n -> SmallFrames],
         IsFile(whole, header, n, fs),
         NEW m \in Nat, NEW b, Kept(b, whole, m), NEW i \in 1..n,
         Len(header) <= m
  PROVE  /\ UpTo(m - Len(header), After(b, Len(header)), Place(fs, i - 1), fs[i])
         /\ Len(header) + Place(fs, i) <= m =>
                FrameAt(After(b, Len(header)), Place(fs, i - 1)) = {fs[i]}
  <1> DEFINE h == Len(header)
             p == Place(fs, i - 1)
             c == After(b, h)
             f == fs[i]
  <1>1. /\ whole \in Contents /\ b \in Contents /\ h \in Nat /\ Len(b) \in Nat /\ Len(whole) \in Nat
        /\ m <= Len(b) /\ h <= Len(b) /\ Len(b) <= Len(whole)
        /\ \A k \in 1..m : b[k] = whole[k]
    <2>1. whole \in Contents /\ header \in Contents /\ b \in Contents
      BY DEF IsFile, Kept
    <2>2. m <= Len(b) /\ Len(b) <= Len(whole) /\ \A k \in 1..m : b[k] = whole[k]
      BY DEF Kept
    <2>3. Len(header) \in Nat /\ Len(b) \in Nat /\ Len(whole) \in Nat
      BY <2>1 DEF Contents
    <2> QED
      BY <2>1, <2>2, <2>3
  <1>2. c \in Contents /\ Len(c) = Len(b) - h /\ \A k \in 1..(Len(b) - h) : c[k] = b[h + k]
    BY <1>1, AfterIs
  <1>3. p \in Nat /\ Place(fs, i) = p + Size(f) /\ Size(f) \in Nat
    <2>1. i - 1 \in 0..n
      OBVIOUS
    <2> QED
      BY <2>1, Places
  <1>4. f \in SmallFrames /\ FrameBytes(f) \in Contents /\ Len(FrameBytes(f)) = Size(f)
    BY FrameTypes
  <1>5. Reads(whole, h + p, FrameBytes(f))
    BY DEF IsFile
  <1> HIDE DEF h, p, c, f
  <1>6. ASSUME NEW k \in 1..Size(f), h + p + k <= m PROVE c[p + k] = FrameBytes(f)[k]
    <2>1. p + k \in 1..(Len(b) - h) /\ h + (p + k) \in 1..m /\ h + (p + k) = h + p + k
      BY <1>1, <1>3, <1>6
    <2>2. c[p + k] = b[h + (p + k)] /\ b[h + (p + k)] = whole[h + (p + k)]
      BY <1>1, <1>2, <2>1
    <2>3. whole[h + p + k] = FrameBytes(f)[k]
      <3>1. h + p + k <= Len(whole)
        BY <1>1, <1>3, <1>6
      <3> QED
        BY <1>4, <1>5, <3>1 DEF Reads
    <2> QED
      BY <2>1, <2>2, <2>3
  <1>7. ASSUME h + Place(fs, i) <= m PROVE FrameAt(c, p) = {f}
    <2>1. p + Size(f) <= Len(c)
      BY <1>1, <1>2, <1>3, <1>7
    <2>2. ASSUME NEW k \in 1..Size(f) PROVE h + p + k <= m
      BY <1>1, <1>3, <1>7, <2>2
    <2>3. Reads(c, p, FrameBytes(f))
      BY <1>4, <1>6, <2>2 DEF Reads
    <2> QED
      BY <1>2, <1>3, <1>4, <2>1, <2>3, FrameIs
  <1>8. UpTo(m - h, c, p, f)
    <2>1. \A k \in 1..Size(f) : p + k <= m - h => h + p + k <= m
      BY <1>1, <1>3
    <2> QED
      BY <1>6, <2>1 DEF UpTo
  <1> QED
    BY <1>7, <1>8 DEF h, p, c, f

(* If every damaged frame shows, decoding finds the frames before the      *)
(* damage, and stops there.                                                *)
Shows(b, m, h, n, fs) ==
    \A i \in 1..n : h + Place(fs, i - 1) <= m =>
        \A g \in FrameAt(After(b, h), Place(fs, i - 1)) : h + Place(fs, i - 1) + Size(g) <= m

FirstPart(fs, j) == [i \in 1..j |-> fs[i]]

(* Decoding finds the first j frames, which are at least all in front of   *)
(* the damage.                                                             *)
Found(b, m, h, n, fs, j) ==
    /\ \A i \in 1..n : h + Place(fs, i) <= m => i <= j
    /\ DecodeFrames(After(b, h)) = [frames |-> FirstPart(fs, j), at |-> Place(fs, j)]

LEMMA IntactRead ==
  ASSUME NEW whole, NEW header, NEW n \in Nat, NEW fs \in [1..n -> SmallFrames],
         IsFile(whole, header, n, fs),
         NEW m \in Nat, NEW b, Kept(b, whole, m), Len(header) <= m,
         Shows(b, m, Len(header), n, fs)
  PROVE  \E j \in 0..n : Found(b, m, Len(header), n, fs, j)
  <1> DEFINE h == Len(header)
             c == After(b, h)
             T == {k \in 0..n : h + Place(fs, n - k) <= m}
  <1>1. /\ Place(fs, 0) = 0 /\ FRAME_BASE \in Nat \ {0}
        /\ \A j \in 0..n : Place(fs, j) \in Nat
        /\ \A j \in 1..n : /\ Place(fs, j) = Place(fs, j - 1) + Size(fs[j])
                            /\ Size(fs[j]) \in Nat /\ FRAME_BASE <= Size(fs[j])
    BY Places
  <1>2. /\ b \in Contents /\ h \in Nat /\ Len(b) \in Nat /\ m <= Len(b) /\ h <= Len(b)
        /\ Len(b) <= Len(whole) /\ Len(whole) = h + Place(fs, n)
    BY DEF IsFile, Kept, Contents
  <1>3. c \in Contents /\ Len(c) = Len(b) - h
    BY <1>2, AfterIs
  <1>4. ASSUME NEW i \in 1..n
         PROVE  /\ UpTo(m - h, c, Place(fs, i - 1), fs[i])
                /\ h + Place(fs, i) <= m => FrameAt(c, Place(fs, i - 1)) = {fs[i]}
    <2> HIDE DEF T
    <2>1. UpTo(m - Len(header), After(b, Len(header)), Place(fs, i - 1), fs[i])
      BY FrameKept, Zenon
    <2>2. Len(header) + Place(fs, i) <= m =>
                FrameAt(After(b, Len(header)), Place(fs, i - 1)) = {fs[i]}
      BY FrameKept, SMT
    <2> QED
      BY <2>1, <2>2
  <1> HIDE DEF h, c
  <1>5. h <= m
    BY DEF h
  <1>6. T \in SUBSET Nat /\ n \in T
    BY <1>1, <1>2, <1>5
  <1>7. PICK least \in T : \A y \in T : least <= y
    BY <1>6, LeastExists
  <1> DEFINE j == n - least
  <1>8. j \in 0..n /\ h + Place(fs, j) <= m
    BY <1>7
  <1>9. ASSUME NEW i \in 1..n, h + Place(fs, i) <= m PROVE i <= j
    <2>1. n - i \in 0..n /\ n - (n - i) = i
      OBVIOUS
    <2>2. n - i \in T
      BY <1>9, <2>1
    <2>3. least <= n - i /\ least \in 0..n
      BY <1>7, <2>2
    <2> QED
      BY <2>3
  <1> HIDE DEF j, T
  <1> DEFINE part == FirstPart(fs, j)
  <1>10. /\ part \in [1..j -> SmallFrames] /\ j \in Nat
        /\ \A i \in 1..j : part[i] = fs[i] /\ i \in 1..n
    BY <1>8 DEF FirstPart
  <1>11. ASSUME NEW i \in 0..j PROVE Place(part, i) = Place(fs, i)
    <2>1. [k \in 1..i |-> Size(part[k])] = [k \in 1..i |-> Size(fs[k])]
      BY <1>8, <1>10
    <2> QED
      BY <2>1 DEF Place
  <1> HIDE DEF part
  <1>12. ASSUME NEW i \in 1..j PROVE FrameAt(c, Place(part, i - 1)) = {part[i]}
    <2>1. i \in 1..n /\ i - 1 \in 0..j /\ part[i] = fs[i]
      BY <1>10
    <2>2. Place(fs, i) <= Place(fs, j)
      <3>1. i - 1 \in 0..n /\ i - 1 < j /\ (i - 1) + 1 = i
        BY <1>8, <2>1
      <3>2. Place(fs, i - 1) + Size(fs[i]) <= Place(fs, j)
        BY <1>8, <3>1, PlacesGrow
      <3> QED
        BY <1>1, <2>1, <3>2
    <2>3. h + Place(fs, i) <= m
      <3>1. Place(fs, i) \in Nat /\ Place(fs, j) \in Nat
        BY <1>1, <1>8, <2>1
      <3> QED
        BY <1>2, <1>8, <2>2, <3>1
    <2>4. FrameAt(c, Place(fs, i - 1)) = {fs[i]}
      BY <1>4, <2>1, <2>3
    <2> QED
      BY <1>11, <2>1, <2>4
  <1>13. Place(part, j) = Place(fs, j) /\ Place(fs, j) \in Nat /\ Place(fs, j) <= Len(c)
    BY <1>1, <1>2, <1>3, <1>8, <1>10, <1>11
  <1>14. FrameAt(c, Place(fs, j)) = {}
    <2>1. CASE j = n
      <3>1. Len(c) < Place(fs, j) + FRAME_BASE
        BY <1>1, <1>2, <1>3, <1>13, <2>1
      <3> QED
        BY <1>3, <1>13, <3>1, NothingPast
    <2>2. CASE j # n
      <3> SUFFICES ASSUME NEW g \in FrameAt(c, Place(fs, j)) PROVE FALSE
        OBVIOUS
      <3> DEFINE i == j + 1
      <3>1. i \in 1..n /\ i - 1 = j
        BY <1>8, <2>2
      <3>2. ~(h + Place(fs, i) <= m)
        BY <1>8, <1>9, <3>1
      <3> HIDE DEF i
      <3>3. h + Place(fs, j) + Size(g) <= m
        BY <1>8, <3>1 DEF Shows, h, c
      <3>4. UpTo(m - h, c, Place(fs, j), fs[i])
        BY <1>4, <3>1
      <3>5. Size(g) \in Nat
        <4>1. Len(g.payload) \in Nat
          BY <1>3, <1>13, FoundPayload
        <4> QED
          BY <1>1, <4>1 DEF Size
      <3>6. Size(g) = Size(fs[i])
        <4> DEFINE q == Place(fs, j)
                   l == m - h
        <4>1. l \in Nat /\ q \in Nat /\ q + Size(g) <= l
          BY <1>2, <1>5, <1>13, <3>3, <3>5
        <4>2. UpTo(l, c, q, fs[i])
          BY <3>4
        <4>3. fs[i] \in SmallFrames /\ g \in FrameAt(c, q)
          BY <3>1
        <4> HIDE DEF q, l, i
        <4> QED
          BY <1>3, <4>1, <4>2, <4>3, FrameInside
      <3>7. Place(fs, i) = Place(fs, j) + Size(fs[i])
        BY <1>1, <3>1
      <3> QED
        BY <1>2, <1>13, <3>2, <3>3, <3>5, <3>6, <3>7
    <2> QED
      BY <2>1, <2>2
  <1>15. DecodeFrames(c) = [frames |-> part, at |-> Place(part, j)]
    BY <1>3, <1>10, <1>12, <1>13, <1>14, DecodeStops
  <1> QED
    BY <1>8, <1>9, <1>13, <1>15 DEF Found, h, c, part

(* A file as it was written reads to its end. *)
LEMMA WholeRead ==
  ASSUME NEW whole, NEW header, NEW n \in Nat, NEW fs \in [1..n -> SmallFrames],
         IsFile(whole, header, n, fs)
  PROVE  /\ Len(whole) \in Nat /\ Len(header) <= Len(whole) /\ Kept(whole, whole, Len(whole))
         /\ Shows(whole, Len(whole), Len(header), n, fs)
         /\ DecodeFrames(After(whole, Len(header))) = [frames |-> fs, at |-> Place(fs, n)]
  <1> DEFINE m == Len(whole)
             h == Len(header)
  <1>1. whole \in Contents /\ header \in Contents /\ m = h + Place(fs, n)
    BY DEF IsFile
  <1>2. m \in Nat /\ h \in Nat
    BY <1>1 DEF Contents
  <1>3. /\ \A j \in 0..n : Place(fs, j) \in Nat
        /\ \A j \in 1..n : Place(fs, j) = Place(fs, j - 1) + Size(fs[j]) /\ Size(fs[j]) \in Nat
    BY Places
  <1>4. n \in 0..n /\ Place(fs, n) \in Nat
    BY <1>3
  <1>5. Kept(whole, whole, m) /\ h <= m
    BY <1>1, <1>2, <1>4 DEF Kept
  <1>6. Shows(whole, m, h, n, fs)
    <2> SUFFICES ASSUME NEW i \in 1..n, NEW g \in FrameAt(After(whole, h), Place(fs, i - 1))
                 PROVE  h + Place(fs, i - 1) + Size(g) <= m
      BY DEF Shows
    <2>1. h + Place(fs, i) <= m
      <3>1. i - 1 \in 0..n /\ i - 1 < n /\ (i - 1) + 1 = i /\ i \in 0..n
        OBVIOUS
      <3>2. Place(fs, i - 1) + Size(fs[i]) <= Place(fs, n)
        BY <1>4, <3>1, PlacesGrow
      <3> QED
        BY <1>1, <1>2, <1>3, <1>4, <3>1, <3>2
    <2>2. FrameAt(After(whole, h), Place(fs, i - 1)) = {fs[i]}
      <3>1. m \in Nat /\ Len(header) <= m /\ Kept(whole, whole, m)
        BY <1>2, <1>5
      <3> HIDE DEF m
      <3> QED
        BY <2>1, <3>1, FrameKept
    <2>3. g = fs[i] /\ Place(fs, i - 1) \in Nat /\ Size(fs[i]) \in Nat
          /\ Place(fs, i) = Place(fs, i - 1) + Size(fs[i])
      BY <1>3, <2>2
    <2> QED
      BY <1>2, <2>1, <2>3
  <1>7. PICK j \in 0..n :
          /\ \A i \in 1..n : h + Place(fs, i) <= m => i <= j
          /\ DecodeFrames(After(whole, h)) = [frames |-> FirstPart(fs, j), at |-> Place(fs, j)]
    <2>1. m \in Nat /\ Len(header) <= m /\ Kept(whole, whole, m)
          /\ Shows(whole, m, Len(header), n, fs)
      BY <1>2, <1>5, <1>6
    <2> HIDE DEF m
    <2>2. PICK j \in 0..n : Found(whole, m, Len(header), n, fs, j)
      BY <2>1, IntactRead
    <2> QED
      BY <2>2 DEF Found
  <1>8. j = n
    <2>1. CASE n = 0
      BY <2>1
    <2>2. CASE n # 0
      <3>1. n \in 1..n /\ h + Place(fs, n) <= m
        BY <1>1, <1>2, <1>4, <2>2
      <3> QED
        BY <1>7, <3>1
    <2> QED
      BY <2>1, <2>2
  <1>9. FirstPart(fs, n) = fs
    BY DEF FirstPart
  <1> QED
    BY <1>2, <1>5, <1>6, <1>7, <1>8, <1>9

(* The header of a file that is damaged behind it.                        *)
LEMMA HeaderKept ==
  ASSUME NEW whole, NEW header, NEW n, NEW fs, IsFile(whole, header, n, fs),
         NEW m \in Nat, NEW b, Kept(b, whole, m), Len(header) <= m
  PROVE  Reads(b, 0, header) /\ b \in Contents /\ Len(header) \in Nat
         /\ Len(b) \in Nat /\ Len(header) <= Len(b) /\ m <= Len(b)
  <1>1. /\ header \in Contents /\ whole \in Contents /\ Reads(whole, 0, header)
        /\ b \in Contents /\ m <= Len(b) /\ Len(b) <= Len(whole)
        /\ \A i \in 1..m : b[i] = whole[i]
    BY DEF IsFile, Kept
  <1>2. Len(header) \in Nat /\ Len(b) \in Nat /\ Len(whole) \in Nat
    BY <1>1 DEF Contents
  <1>3. ASSUME NEW i \in 1..Len(header) PROVE b[0 + i] = header[i]
    <2>1. i \in 1..m /\ 0 + i = i /\ 0 + i <= Len(whole)
      BY <1>1, <1>2
    <2>2. whole[0 + i] = header[i]
      BY <1>1, <2>1 DEF Reads
    <2> QED
      BY <1>1, <2>1, <2>2
  <1> QED
    BY <1>1, <1>2, <1>3 DEF Reads

(* A header and its frames one behind the other are a file. *)
LEMMA FileOfList ==
  ASSUME NEW header \in Contents, NEW n \in Nat, NEW fs \in [1..n -> SmallFrames]
  PROVE  IsFile(header \o FlattenSeq([i \in 1..n |-> FrameBytes(fs[i])]), header, n, fs)
  <1> DEFINE ss == [i \in 1..n |-> FrameBytes(fs[i])]
             all == FlattenSeq(ss)
             whole == header \o all
             h == Len(header)
  <1>1. /\ ss \in [1..n -> Contents]
        /\ \A i \in 1..n : ss[i] = FrameBytes(fs[i]) /\ Len(ss[i]) = Size(fs[i])
    BY FrameTypes
  <1> HIDE DEF ss
  <1>2. all \in Contents
    <2>1. PICK f \in [0..n -> Contents] : FlattenSeq(ss) = f[n]
      BY <1>1, FlattenIs
    <2> QED
      BY <2>1
  <1> HIDE DEF all
  <1>3. whole \in Contents /\ Len(whole) = h + Len(all) /\ h \in Nat
    BY <1>2, Joined
  <1>4. Reads(whole, 0, header) /\ Reads(whole, h, all)
    <2>1. Reads(whole, 0, header \o all)
      BY DEF Reads
    <2> HIDE DEF whole
    <2>2. 0 + h = h
      BY <1>3
    <2> QED
      BY <1>2, <1>3, <2>1, <2>2, ReadsConcat
  <1>5. Laid(whole, h, n, ss)
    BY <1>1, <1>3, <1>4, ListReads DEF all
  <1> HIDE DEF whole, h
  <1>6. PICK at \in [0..n -> Nat] :
          /\ at[0] = h /\ at[n] = h + Len(all)
          /\ \A i \in 1..n : at[i] = at[i - 1] + Len(ss[i]) /\ Reads(whole, at[i - 1], ss[i])
    BY <1>5 DEF Laid, all
  <1>7. /\ Place(fs, 0) = 0
        /\ \A j \in 0..n : Place(fs, j) \in Nat
        /\ \A j \in 1..n : Place(fs, j) = Place(fs, j - 1) + Size(fs[j]) /\ Size(fs[j]) \in Nat
    BY Places
  <1> DEFINE good == {i \in 0..n : at[i] = h + Place(fs, i)}
  <1>8. 0 \in good
    BY <1>3, <1>6, <1>7
  <1>9. ASSUME NEW i \in 1..n, i - 1 \in good PROVE i \in good
    <2>1. i - 1 \in 0..n /\ i \in 0..n /\ at[i - 1] = h + Place(fs, i - 1)
      BY <1>9
    <2>2. at[i] = at[i - 1] + Size(fs[i]) /\ Place(fs, i) = Place(fs, i - 1) + Size(fs[i])
      BY <1>1, <1>6, <1>7
    <2>3. Place(fs, i - 1) \in Nat /\ Size(fs[i]) \in Nat
      BY <1>7, <2>1
    <2>4. at[i] = h + Place(fs, i)
      BY <1>3, <2>1, <2>2, <2>3
    <2> QED
      BY <2>1, <2>4
  <1> HIDE DEF good
  <1>10. \A i \in 0..n : i \in good
    BY <1>8, <1>9, UpToAll
  <1>11. \A i \in 0..n : at[i] = h + Place(fs, i)
    BY <1>10 DEF good
  <1>12. Len(whole) = h + Place(fs, n)
    <2>1. n \in 0..n
      OBVIOUS
    <2> QED
      BY <1>3, <1>6, <1>11, <2>1
  <1>13. ASSUME NEW i \in 1..n PROVE Reads(whole, h + Place(fs, i - 1), FrameBytes(fs[i]))
    <2>1. i - 1 \in 0..n
      OBVIOUS
    <2> QED
      BY <1>1, <1>6, <1>11, <2>1
  <1> QED
    BY <1>3, <1>4, <1>12, <1>13 DEF IsFile, whole, h, all, ss

LEMMA ReadsLonger ==
  ASSUME NEW b \in Contents, NEW e \in Contents, NEW p \in Nat, NEW x \in Contents,
         Reads(b, p, x), p + Len(x) <= Len(b)
  PROVE  Reads(b \o e, p, x)
  <1>1. Len(b) \in Nat /\ Len(x) \in Nat /\ \A i \in 1..Len(b) : (b \o e)[i] = b[i]
    BY Joined
  <1> SUFFICES ASSUME NEW i \in 1..Len(x) PROVE (b \o e)[p + i] = x[i]
    BY DEF Reads
  <1>2. p + i \in 1..Len(b) /\ p + i <= Len(b)
    BY <1>1
  <1> QED
    BY <1>1, <1>2 DEF Reads

(* A file with one more frame behind it is a file. *)
LEMMA FileGrows ==
  ASSUME NEW whole, NEW header, NEW n \in Nat, NEW fs \in [1..n -> SmallFrames],
         NEW gs \in [1..(n + 1) -> SmallFrames], \A i \in 1..n : gs[i] = fs[i],
         IsFile(whole, header, n, fs)
  PROVE  IsFile(whole \o FrameBytes(gs[n + 1]), header, n + 1, gs)
  <1> DEFINE h == Len(header)
             e == FrameBytes(gs[n + 1])
             longer == whole \o e
  <1>1. /\ whole \in Contents /\ header \in Contents /\ Len(whole) = h + Place(fs, n)
        /\ Reads(whole, 0, header)
        /\ \A i \in 1..n : Reads(whole, h + Place(fs, i - 1), FrameBytes(fs[i]))
    BY DEF IsFile
  <1>2. n + 1 \in 1..(n + 1) /\ n + 1 \in Nat
    OBVIOUS
  <1>3. e \in Contents /\ Len(e) = Size(gs[n + 1])
    BY <1>2, FrameTypes
  <1>4. /\ \A j \in 0..n : Place(fs, j) \in Nat
        /\ \A j \in 1..n : Place(fs, j) = Place(fs, j - 1) + Size(fs[j]) /\ Size(fs[j]) \in Nat
    BY Places
  <1>5. ASSUME NEW i \in 0..n PROVE Place(gs, i) = Place(fs, i)
    <2>1. [k \in 1..i |-> Size(gs[k])] = [k \in 1..i |-> Size(fs[k])]
      OBVIOUS
    <2> QED
      BY <2>1 DEF Place
  <1>6. Place(gs, n + 1) = Place(fs, n) + Size(gs[n + 1]) /\ Size(gs[n + 1]) \in Nat
    <2>1. Place(gs, n + 1) = Place(gs, (n + 1) - 1) + Size(gs[n + 1]) /\ Size(gs[n + 1]) \in Nat
      BY <1>2, Places
    <2>2. (n + 1) - 1 = n /\ n \in 0..n
      OBVIOUS
    <2> QED
      BY <1>5, <2>1, <2>2
  <1>7. h \in Nat /\ Len(whole) \in Nat
    BY <1>1 DEF Contents
  <1> HIDE DEF h, e
  <1>8. longer \in Contents /\ Len(longer) = h + Place(gs, n + 1)
    <2>1. longer \in Contents /\ Len(longer) = Len(whole) + Len(e)
      BY <1>1, <1>3, Joined
    <2>2. n \in 0..n
      OBVIOUS
    <2>3. Place(fs, n) \in Nat
      BY <1>4, <2>2
    <2> HIDE DEF longer
    <2> QED
      BY <1>1, <1>3, <1>6, <1>7, <2>1, <2>3
  <1>9. Reads(longer, 0, header)
    <2>1. 0 + Len(header) <= Len(whole) /\ 0 \in Nat
      <3>1. n \in 0..n
        OBVIOUS
      <3>2. Place(fs, n) \in Nat
        BY <1>4, <3>1
      <3> QED
        BY <1>1, <1>7, <3>2 DEF h
    <2> QED
      BY <1>1, <1>3, <2>1, ReadsLonger
  <1>10. ASSUME NEW i \in 1..(n + 1)
         PROVE  Reads(longer, h + Place(gs, i - 1), FrameBytes(gs[i]))
    <2>1. CASE i = n + 1
      <3>1. Reads(longer, Len(whole), e)
        <4>1. Reads(longer, 0, whole \o e) /\ 0 + Len(whole) = Len(whole)
          BY <1>7 DEF Reads
        <4> HIDE DEF longer
        <4> QED
          BY <1>1, <1>3, <1>8, <4>1, ReadsConcat
      <3>2. i - 1 = n /\ n \in 0..n
        BY <2>1
      <3>3. Len(whole) = h + Place(gs, i - 1)
        BY <1>1, <1>5, <3>2
      <3> QED
        BY <2>1, <3>1, <3>3 DEF e
    <2>2. CASE i # n + 1
      <3>1. i \in 1..n /\ i - 1 \in 0..n /\ i - 1 < n /\ n \in 0..n /\ (i - 1) + 1 = i
        BY <2>2
      <3>2. Place(fs, i - 1) + Size(fs[i]) <= Place(fs, n)
        BY <3>1, PlacesGrow
      <3>3. /\ Reads(whole, h + Place(fs, i - 1), FrameBytes(fs[i]))
            /\ FrameBytes(fs[i]) \in Contents /\ Len(FrameBytes(fs[i])) = Size(fs[i])
        BY <1>1, <3>1, FrameTypes
      <3> DEFINE p == h + Place(fs, i - 1)
      <3>4. p \in Nat /\ p + Len(FrameBytes(fs[i])) <= Len(whole)
        <4>1. Place(fs, i - 1) \in Nat /\ Place(fs, n) \in Nat /\ Size(fs[i]) \in Nat
          BY <1>4, <3>1
        <4> QED
          BY <1>1, <1>7, <3>2, <3>3, <4>1
      <3> HIDE DEF p
      <3>5. Reads(longer, p, FrameBytes(fs[i]))
        BY <1>1, <1>3, <3>3, <3>4, ReadsLonger DEF p
      <3> QED
        BY <1>5, <3>1, <3>5 DEF p
    <2> QED
      BY <2>1, <2>2
  <1> QED
    BY <1>1, <1>8, <1>9, <1>10 DEF IsFile, h, e

-----------------------------------------------------------------------------
(* Headers *)

LEMMA HeaderIs ==
  ASSUME NEW magic \in Nat, NEW w \in Nat, NEW k \in 0..MaxOf(w)
  PROVE  /\ Prologue(magic) \in Contents /\ Len(Prologue(magic)) = 1 + W16
         /\ Prologue(magic) \o LE(k, w) \in Contents
         /\ Len(Prologue(magic) \o LE(k, w)) = 1 + W16 + w
  <1>1. W16 \in Nat \ {0}
    BY CodecAssumption
  <1>2. VERSION \in 0..MaxOf(W16)
    BY <1>1, MaxLarge DEF VERSION
  <1>3. LE(VERSION, W16) \in Contents /\ Len(LE(VERSION, W16)) = W16
    BY <1>1, <1>2, NumberIs
  <1>4. LE(k, w) \in Contents /\ Len(LE(k, w)) = w
    BY NumberIs
  <1>5. Prologue(magic) \in Contents /\ Len(Prologue(magic)) = 1 + W16
    <2>1. <<magic>> \in Contents /\ Len(<<magic>>) = 1
      BY Single
    <2> DEFINE s == <<magic>>
               t == LE(VERSION, W16)
    <2>2. s \in Contents /\ t \in Contents /\ Len(s) = 1 /\ Len(t) = W16
      BY <1>3, <2>1
    <2> HIDE DEF s, t
    <2>3. s \o t \in Contents /\ Len(s \o t) = Len(s) + Len(t)
      BY <2>2, Joined
    <2> QED
      BY <2>2, <2>3 DEF Prologue, s, t
  <1> QED
    BY <1>4, <1>5, Joined

(* A header that nothing changed is accepted, and its number read.         *)
LEMMA HeaderRead ==
  ASSUME NEW magic \in Nat, NEW w \in Nat, NEW k \in 0..MaxOf(w), NEW b \in Contents,
         Reads(b, 0, Prologue(magic) \o LE(k, w)), 1 + W16 + w <= Len(b)
  PROVE  /\ HasPrologue(b, magic)
         /\ SubSeq(b, 2 + W16, 1 + W16 + w) = LE(k, w)
         /\ FromLE(SubSeq(b, 2 + W16, 1 + W16 + w)) = k
  <1> DEFINE s == Prologue(magic)
             t == LE(k, w)
             n == 1 + W16
  <1>1. s \in Contents /\ t \in Contents /\ Len(s) = n /\ Len(t) = w /\ FromLE(t) = k
    BY HeaderIs, NumberIs
  <1>2. W16 \in Nat /\ n \in Nat /\ Len(b) \in Nat /\ n + w <= Len(b)
    BY CodecAssumption DEF Contents
  <1> HIDE DEF s, t
  <1>3. Reads(b, 0, s) /\ Reads(b, n, t)
    <2>1. Reads(b, 0, s \o t) /\ 0 + n = n
      BY <1>2 DEF s, t
    <2> HIDE DEF n
    <2> QED
      BY <1>1, <2>1, ReadsConcat
  <1>4. SubSeq(b, 1, n) = s
    <2>1. 0 + 1 = 1 /\ 0 + n = n /\ 0 + n <= Len(b)
      BY <1>2
    <2> HIDE DEF n
    <2>2. SubSeq(b, 0 + 1, 0 + n) = s
      BY <1>1, <1>3, <2>1, SliceIs
    <2> QED
      BY <2>1, <2>2
  <1>5. SubSeq(b, n + 1, n + w) = t
    <2> HIDE DEF n
    <2> QED
      BY <1>1, <1>2, <1>3, SliceIs
  <1>6. n + 1 = 2 + W16
    BY <1>2
  <1> QED
    BY <1>1, <1>4, <1>5, <1>6 DEF HasPrologue, s, t

(* A changed prologue is not.                                              *)
LEMMA PrologueChanged ==
  ASSUME NEW magic \in Nat, NEW b \in Contents, 1 + W16 <= Len(b),
         NEW i \in 1..(1 + W16), b[i] # Prologue(magic)[i]
  PROVE  ~HasPrologue(b, magic)
  <1>1. W16 \in Nat /\ b \in Seq(Nat) /\ Len(b) \in Nat
    BY CodecAssumption DEF Contents
  <1> DEFINE n == 1 + W16
  <1>2. n \in Nat /\ n <= Len(b) /\ i \in 1..n
    BY <1>1
  <1> HIDE DEF n
  <1>3. SubSeq(b, 1, n)[i] = b[i]
    BY <1>1, <1>2
  <1> QED
    BY <1>3 DEF HasPrologue, n

(* Nothing can be read in zeros. *)
LEMMA ZerosRead ==
  ASSUME NEW b \in Contents, \A i \in 1..Len(b) : b[i] = 0
  PROVE  DecodeFrames(b) = [frames |-> <<>>, at |-> 0]
  <1>1. Len(b) \in Nat /\ b \in Seq(Nat) /\ W32 \in Nat \ {0}
    BY CodecAssumption DEF Contents
  <1>2. LengthAt(b, 0) = 0
    <2>1. CASE Len(b) - 0 >= FRAME_BASE
      <3> DEFINE s == SubSeq(b, 1, W32)
      <3>1. W32 <= Len(b)
        BY <1>1, <2>1 DEF FRAME_BASE
      <3>2. s \in Seq(Nat) /\ Len(s) = W32 /\ \A i \in 1..W32 : s[i] = b[i]
        BY <1>1, <3>1
      <3>3. \A i \in 1..W32 : s[i] = 0
        BY <1>1, <3>1, <3>2
      <3> HIDE DEF s
      <3> DEFINE t == [i \in DOMAIN s |-> s[i] * Pow(i - 1)]
      <3>4. DOMAIN s = 1..W32
        BY <3>2
      <3>5. \A i \in 1..W32 : t[i] = 0
        <4> TAKE i \in 1..W32
        <4>1. Pow(i - 1) \in Nat /\ t[i] = s[i] * Pow(i - 1)
          BY <3>4, PowType
        <4> QED
          BY <3>3, <4>1
      <3>6. t \in [1..W32 -> Nat]
        BY <3>4, <3>5
      <3>7. FromLE(s) = Sum(t)
        BY DEF FromLE
      <3> HIDE DEF t
      <3>8. Sum(t) = 0
        BY <1>1, <3>5, <3>6, SumNone
      <3>9. LengthAt(b, 0) = FromLE(SubSeq(b, 0 + 1, 0 + W32)) /\ 0 + 1 = 1 /\ 0 + W32 = W32
        BY <1>1, <2>1 DEF LengthAt
      <3> QED
        BY <3>7, <3>8, <3>9 DEF s
    <2>2. CASE ~(Len(b) - 0 >= FRAME_BASE)
      BY <2>2 DEF LengthAt
    <2> QED
      BY <2>1, <2>2
  <1>3. FrameAt(b, 0) = {}
    BY <1>2 DEF FrameAt, FrameOfLength
  <1> DEFINE none == <<>>
  <1>4. /\ none \in [1..0 -> SmallFrames]
        /\ \A i \in 1..0 : FrameAt(b, Place(none, i - 1)) = {none[i]}
    OBVIOUS
  <1> HIDE DEF none
  <1>5. 0 \in Nat /\ Place(none, 0) = 0
    BY <1>4, Places
  <1>6. Place(none, 0) <= Len(b) /\ FrameAt(b, Place(none, 0)) = {}
    BY <1>1, <1>3, <1>5
  <1>7. DecodeFrames(b) = [frames |-> none, at |-> Place(none, 0)]
    BY <1>4, <1>5, <1>6, DecodeStops
  <1> QED
    BY <1>5, <1>7 DEF none

-----------------------------------------------------------------------------
(* What the frames carry *)

LEMMA Halves ==
  ASSUME NEW e \in Contents, NEW x \in Contents
  PROVE  /\ SubSeq(e \o x, 1, Len(e)) = e
         /\ After(e \o x, Len(e)) = x
         /\ Len(e \o x) = Len(e) + Len(x)
  <1>1. e \o x \in Contents /\ Len(e) \in Nat /\ Len(x) \in Nat /\ Len(e \o x) = Len(e) + Len(x)
    BY DEF Contents
  <1>2. Reads(e \o x, 0, e \o x)
    BY <1>1 DEF Reads
  <1>3. Reads(e \o x, 0, e) /\ Reads(e \o x, Len(e), x)
    BY <1>1, <1>2, ReadsConcat
  <1> DEFINE b == e \o x
             n == Len(e)
             k == Len(x)
  <1>4. SubSeq(b, 1, n) = e
    <2>1. b \in Contents /\ 0 \in Nat /\ Reads(b, 0, e) /\ 0 + n <= Len(b) /\ n \in Nat
      BY <1>1, <1>3
    <2> HIDE DEF b
    <2>2. SubSeq(b, 0 + 1, 0 + n) = e
      BY <2>1, SliceIs
    <2>3. 0 + 1 = 1 /\ 0 + n = n
      BY <2>1
    <2> HIDE DEF n
    <2> QED
      BY <2>2, <2>3
  <1>5. SubSeq(b, n + 1, n + k) = x
    <2>1. b \in Contents /\ n \in Nat /\ Reads(b, n, x) /\ n + Len(x) <= Len(b)
      BY <1>1, <1>3
    <2> HIDE DEF b, n
    <2> QED
      BY <2>1, SliceIs
  <1> QED
    BY <1>1, <1>4, <1>5 DEF After

(* A frame of a record gives back the seq and the record.                  *)
LEMMA RecordFrameReads ==
  ASSUME NEW s \in 0..MaxOf(W64), NEW r, Fits(r),
         W64 + Len(Encode(r)) + 2 <= MaxOf(W32)
  PROVE  LET e == [seq |-> s, record |-> r]
             f == RecordFrame(e)
         IN  /\ f \in SmallFrames /\ f.kind = "Record" /\ Len(f.payload) >= W64
             /\ FrameSeq(f) = s /\ Decode(BodyOf(f)) = {r} /\ EntryOf(f) = e
  <1> DEFINE e == [seq |-> s, record |-> r]
             f == RecordFrame(e)
             t == LE(s, W64)
             x == Encode(r)
  <1>1. W64 \in Nat \ {0} /\ W32 \in Nat
    BY CodecAssumption
  <1>2. t \in Contents /\ Len(t) = W64 /\ FromLE(t) = s
    BY <1>1, NumberIs
  <1>3. x \in Contents
    BY EncodeType
  <1>4. f.kind = "Record" /\ f.payload = t \o x /\ f = [kind |-> "Record", payload |-> t \o x]
    BY DEF RecordFrame, EntryPayload
  <1>5. Decode(x) = {r}
    BY RoundTrip DEF DecodesOnlyWhole
  <1> HIDE DEF t, x
  <1>6. /\ SubSeq(t \o x, 1, W64) = t /\ After(t \o x, W64) = x
        /\ t \o x \in Contents /\ Len(t \o x) = W64 + Len(x)
    BY <1>2, <1>3, Halves, Joined
  <1>7. Len(x) \in Nat /\ W64 + Len(x) + 2 <= MaxOf(W32)
    BY <1>3 DEF x, Contents
  <1>8. f \in SmallFrames
    BY <1>1, <1>4, <1>6, <1>7 DEF SmallFrames, FrameCodes
  <1>9. FrameSeq(f) = s /\ BodyOf(f) = x
    BY <1>2, <1>4, <1>6 DEF FrameSeq, BodyOf
  <1>10. EntryOf(f) = e
    BY <1>5, <1>9 DEF EntryOf
  <1> QED
    BY <1>1, <1>4, <1>5, <1>6, <1>7, <1>8, <1>9, <1>10

(* A commit gives back its seq, and has no body.                           *)
LEMMA CommitFrameReads ==
  ASSUME NEW s \in 0..MaxOf(W64), W64 + 2 <= MaxOf(W32)
  PROVE  LET f == CommitFrame(s)
         IN  /\ f \in SmallFrames /\ f.kind = "Commit" /\ Len(f.payload) >= W64
             /\ FrameSeq(f) = s /\ BodyOf(f) = <<>>
  <1> DEFINE f == CommitFrame(s)
             t == LE(s, W64)
  <1>1. W64 \in Nat \ {0} /\ W32 \in Nat
    BY CodecAssumption
  <1>2. t \in Contents /\ Len(t) = W64 /\ FromLE(t) = s
    BY <1>1, NumberIs
  <1>3. f.kind = "Commit" /\ f.payload = t /\ f = [kind |-> "Commit", payload |-> t]
    BY DEF CommitFrame
  <1> HIDE DEF t
  <1>4. SubSeq(t, 1, W64) = t /\ After(t, W64) = <<>>
    BY <1>1, <1>2 DEF After, Contents
  <1>5. f \in SmallFrames
    BY <1>1, <1>2, <1>3 DEF SmallFrames, FrameCodes
  <1>6. FrameSeq(f) = s /\ BodyOf(f) = <<>>
    BY <1>2, <1>3, <1>4 DEF FrameSeq, BodyOf
  <1> QED
    BY <1>1, <1>2, <1>3, <1>5, <1>6

-----------------------------------------------------------------------------
(* Segments *)

(* Records of which encode gives back all, in a frame that can say its     *)
(* length.                                                                 *)
Storable(r) == Fits(r) /\ W64 + Len(Encode(r)) + 2 <= MaxOf(W32)

(* Entries as a segment holds them.                                        *)
EntriesFit(n, es) ==
    /\ es = [i \in 1..n |-> es[i]]
    /\ \A i \in 1..n : \E s \in 0..MaxOf(W64) : \E r :
          Storable(r) /\ es[i] = [seq |-> s, record |-> r]
    /\ \A i \in 2..n : es[i - 1].seq < es[i].seq

RecordFrames(n, es) == [i \in 1..n |-> RecordFrame(es[i])]
SegmentHeader(n) == Prologue(SEG_MAGIC) \o LE(n, W32)

LEMMA RecordFramesRead ==
  ASSUME NEW n \in Nat, NEW es, EntriesFit(n, es)
  PROVE  LET fs == RecordFrames(n, es)
         IN  /\ fs \in [1..n -> SmallFrames] /\ DOMAIN fs = 1..n /\ Len(fs) = n
             /\ EntriesOf(fs) = es /\ SeqsIncrease(fs)
             /\ \A i \in 1..n : fs[i].kind = "Record" /\ Decode(BodyOf(fs[i])) # {}
  <1> DEFINE fs == RecordFrames(n, es)
  <1>1. DOMAIN fs = 1..n /\ Len(fs) = n /\ fs = [i \in 1..n |-> fs[i]]
        /\ \A i \in 1..n : fs[i] = RecordFrame(es[i])
    BY DEF RecordFrames
  <1> HIDE DEF fs
  <1>2. ASSUME NEW i \in 1..n
        PROVE  /\ fs[i] \in SmallFrames /\ fs[i].kind = "Record" /\ Len(fs[i].payload) >= W64
               /\ FrameSeq(fs[i]) = es[i].seq /\ EntryOf(fs[i]) = es[i]
               /\ Decode(BodyOf(fs[i])) # {}
    <2>1. PICK s, r :
               s \in 0..MaxOf(W64) /\ Storable(r) /\ es[i] = [seq |-> s, record |-> r]
      BY DEF EntriesFit
    <2> DEFINE e == [seq |-> s, record |-> r]
               f == RecordFrame(e)
    <2>2. /\ f \in SmallFrames /\ f.kind = "Record" /\ Len(f.payload) >= W64
          /\ FrameSeq(f) = s /\ Decode(BodyOf(f)) = {r} /\ EntryOf(f) = e
      BY <2>1, RecordFrameReads DEF Storable
    <2>3. es[i] = e /\ e.seq = s
      BY <2>1
    <2>4. fs[i] = f
      BY <1>1, <2>3
    <2> HIDE DEF e, f
    <2> QED
      BY <2>2, <2>3, <2>4
  <1>3. fs \in [1..n -> SmallFrames]
    BY <1>1, <1>2
  <1>4. EntriesOf(fs) = es
    <2>1. EntriesOf(fs) = [i \in 1..n |-> EntryOf(fs[i])]
      BY <1>1 DEF EntriesOf
    <2>2. es = [i \in 1..n |-> es[i]]
      BY DEF EntriesFit
    <2> QED
      BY <1>2, <2>1, <2>2
  <1>5. SeqsIncrease(fs)
    <2>1. ASSUME NEW i \in 2..n PROVE FrameSeq(fs[i - 1]) < FrameSeq(fs[i])
      <3>1. i \in 1..n /\ i - 1 \in 1..n
        OBVIOUS
      <3> QED
        BY <1>2, <3>1 DEF EntriesFit
    <2> QED
      BY <1>1, <1>2, <2>1 DEF SeqsIncrease
  <1> QED
    BY <1>1, <1>2, <1>3, <1>4, <1>5 DEF fs

LEMMA SegmentHeaderIs ==
  ASSUME NEW n \in 0..MaxOf(W32)
  PROVE  /\ SegmentHeader(n) \in Contents /\ Len(SegmentHeader(n)) = SEG_HEADER_LEN
         /\ SEG_HEADER_LEN \in Nat /\ SEG_HEADER_LEN = 1 + W16 + W32
         /\ W16 \in Nat /\ W32 \in Nat \ {0} /\ SEG_MAGIC \in Nat
         /\ LE(n, W32) \in Contents /\ Len(LE(n, W32)) = W32
         /\ Prologue(SEG_MAGIC) \in Contents /\ Len(Prologue(SEG_MAGIC)) = 1 + W16
  <1>1. W16 \in Nat /\ W32 \in Nat \ {0} /\ SEG_MAGIC \in Nat
    BY CodecAssumption DEF SEG_MAGIC
  <1>2. SEG_HEADER_LEN \in Nat /\ SEG_HEADER_LEN = 1 + W16 + W32
    BY <1>1 DEF SEG_HEADER_LEN
  <1>3. LE(n, W32) \in Contents /\ Len(LE(n, W32)) = W32
    BY <1>1, NumberIs
  <1>4. /\ SegmentHeader(n) \in Contents /\ Len(SegmentHeader(n)) = 1 + W16 + W32
        /\ Prologue(SEG_MAGIC) \in Contents /\ Len(Prologue(SEG_MAGIC)) = 1 + W16
    BY <1>1, HeaderIs DEF SegmentHeader
  <1> QED
    BY <1>1, <1>2, <1>3, <1>4

(* A segment that is damaged behind its header opens to its entries or is  *)
(* refused, and opens if it is not damaged.                                *)
LEMMA SegmentRead ==
  ASSUME NEW n \in 0..MaxOf(W32), NEW es, EntriesFit(n, es), NEW whole,
         IsFile(whole, SegmentHeader(n), n, RecordFrames(n, es)),
         NEW m \in Nat, NEW b, Kept(b, whole, m), SEG_HEADER_LEN <= m,
         Shows(b, m, SEG_HEADER_LEN, n, RecordFrames(n, es))
  PROVE  /\ SegmentOpen(b) \subseteq {es}
         /\ m = Len(whole) => SegmentOpen(b) = {es}
  <1> DEFINE fs == RecordFrames(n, es)
             h == SEG_HEADER_LEN
             c == After(b, h)
  <1>1. /\ SegmentHeader(n) \in Contents /\ Len(SegmentHeader(n)) = h
        /\ h \in Nat /\ h = 1 + W16 + W32 /\ W16 \in Nat /\ W32 \in Nat /\ SEG_MAGIC \in Nat
    BY SegmentHeaderIs
  <1>2. n \in Nat
    BY NoneCodes
  <1>3. /\ fs \in [1..n -> SmallFrames] /\ DOMAIN fs = 1..n
        /\ EntriesOf(fs) = es /\ SeqsIncrease(fs)
        /\ \A i \in 1..n : fs[i].kind = "Record" /\ Decode(BodyOf(fs[i])) # {}
    BY <1>2, RecordFramesRead
  <1> HIDE DEF fs
  <1>4. /\ Reads(b, 0, SegmentHeader(n)) /\ b \in Contents /\ Len(b) \in Nat
        /\ h <= Len(b) /\ m <= Len(b)
    <2>1. IsFile(whole, SegmentHeader(n), n, fs) /\ Len(SegmentHeader(n)) <= m
      BY <1>1 DEF fs
    <2> QED
      BY <1>1, <2>1, HeaderKept
  <1>5. HasPrologue(b, SEG_MAGIC) /\ FromLE(SubSeq(b, 2 + W16, h)) = n
    BY <1>1, <1>4, HeaderRead DEF SegmentHeader
  <1>6. PICK j \in 0..n :
          /\ \A i \in 1..n : h + Place(fs, i) <= m => i <= j
          /\ DecodeFrames(c) = [frames |-> FirstPart(fs, j), at |-> Place(fs, j)]
    <2> DEFINE header == SegmentHeader(n)
    <2>1. /\ IsFile(whole, header, n, fs) /\ Len(header) <= m /\ Len(header) = h
          /\ Shows(b, m, Len(header), n, fs)
      BY <1>1 DEF fs
    <2> HIDE DEF header, h
    <2>2. PICK k \in 0..n : Found(b, m, Len(header), n, fs, k)
      BY <1>2, <1>3, <2>1, IntactRead
    <2> QED
      BY <2>1, <2>2 DEF Found
  <1> HIDE DEF h
  <1>7. SegmentOpen(b) = WholeFrames(b, DecodeFrames(c))
    BY <1>4, <1>5 DEF SegmentOpen, h
  <1> HIDE DEF c
  <1>8. SegmentOpen(b) =
            IF Place(fs, j) = Len(b) - h THEN FramesOpen(b, FirstPart(fs, j)) ELSE {}
    BY <1>6, <1>7 DEF WholeFrames, h
  <1>9. CASE j = n
    <2>1. FirstPart(fs, j) = fs
      BY <1>3, <1>9 DEF FirstPart
    <2>2. FramesOpen(b, fs) = {es}
      <3>1. Len(fs) = n
        BY <1>2, RecordFramesRead DEF fs
      <3>2. CountMatches(b, fs)
        BY <1>5, <3>1 DEF CountMatches, h
      <3> QED
        BY <1>3, <3>2 DEF FramesOpen
    <2>3. ASSUME m = Len(whole) PROVE Place(fs, j) = Len(b) - h
      <3>1. Len(whole) = h + Place(fs, n) /\ Len(b) <= Len(whole)
        BY <1>1 DEF IsFile, Kept, fs
      <3>2. n \in 0..n
        BY <1>2
      <3>3. Place(fs, n) \in Nat
        BY <1>2, <1>3, <3>2, Places
      <3> QED
        BY <1>1, <1>4, <1>9, <2>3, <3>1, <3>3
    <2> QED
      BY <1>8, <2>1, <2>2, <2>3
  <1>10. CASE j # n
    <2>1. Len(FirstPart(fs, j)) = j
      BY <1>6 DEF FirstPart
    <2>2. ~CountMatches(b, FirstPart(fs, j))
      BY <1>5, <1>10, <2>1 DEF CountMatches, h
    <2>3. SegmentOpen(b) = {}
      BY <1>8, <2>2 DEF FramesOpen
    <2>4. m # Len(whole)
      <3>1. Len(whole) = h + Place(fs, n)
        BY <1>1 DEF IsFile, fs
      <3>2. n \in 1..n /\ n \in 0..n
        BY <1>2, <1>6, <1>10
      <3>3. Place(fs, n) \in Nat
        BY <1>2, <1>3, <3>2, Places
      <3>4. ~(h + Place(fs, n) <= m)
        BY <1>6, <1>10, <3>2
      <3> QED
        BY <1>1, <3>1, <3>3, <3>4
    <2> QED
      BY <2>3, <2>4
  <1> QED
    BY <1>9, <1>10

(* One damage: the rest is cut off, or zeroed, or one byte is changed. *)
Harm(b, whole, m) ==
    \/ Len(b) = m
    \/ Len(b) = Len(whole) /\ \A i \in (m + 1)..Len(b) : b[i] = 0
    \/ /\ Len(b) = Len(whole)
       /\ b[m + 1] # whole[m + 1]
       /\ \A i \in (m + 2)..Len(b) : b[i] = whole[i]

(* A segment whose header is damaged is refused, or had no entries. *)
LEMMA SegmentRefused ==
  ASSUME NEW n \in 0..MaxOf(W32), NEW es, EntriesFit(n, es), NEW whole,
         IsFile(whole, SegmentHeader(n), n, RecordFrames(n, es)),
         NEW m \in Nat, NEW b, Kept(b, whole, m), m < SEG_HEADER_LEN, Harm(b, whole, m)
  PROVE  SegmentOpen(b) \subseteq {es}
  <1> DEFINE fs == RecordFrames(n, es)
             h == SEG_HEADER_LEN
             header == SegmentHeader(n)
             number == LE(n, W32)
             p == Prologue(SEG_MAGIC)
  <1>1. /\ header \in Contents /\ Len(header) = h /\ h \in Nat /\ h = 1 + W16 + W32
        /\ W16 \in Nat /\ W32 \in Nat \ {0} /\ SEG_MAGIC \in Nat
        /\ number \in Contents /\ Len(number) = W32 /\ p \in Contents /\ Len(p) = 1 + W16
        /\ header = p \o number
    BY SegmentHeaderIs DEF SegmentHeader
  <1>2. n \in Nat
    BY NoneCodes
  <1>3. fs \in [1..n -> SmallFrames] /\ Len(fs) = n
    BY <1>2, RecordFramesRead
  <1> HIDE DEF fs, header
  <1>4. IsFile(whole, header, n, fs)
    BY DEF fs, header
  <1>5. /\ b \in Contents /\ m <= Len(b) /\ Len(b) <= Len(whole) /\ \A i \in 1..m : b[i] = whole[i]
        /\ whole \in Contents /\ Len(whole) = h + Place(fs, n) /\ Reads(whole, 0, header)
    BY <1>1, <1>4 DEF IsFile, Kept
  <1>6. Len(b) \in Nat /\ Len(whole) \in Nat /\ b \in Seq(Nat)
    BY <1>5 DEF Contents
  <1>7. Place(fs, n) \in Nat
    <2>1. n \in 0..n
      BY <1>2
    <2> QED
      BY <1>2, <1>3, <2>1, Places
  <1>8. \A i \in 1..h : whole[i] = header[i]
    <2> TAKE i \in 1..h
    <2>1. h <= Len(whole)
      BY <1>1, <1>5, <1>7
    <2>2. 0 + i = i /\ 0 + i <= Len(whole)
      BY <1>1, <1>6, <2>1
    <2> HIDE DEF h
    <2> QED
      BY <1>1, <1>5, <2>2 DEF Reads
  <1> HIDE DEF h, number, p
  <1>9. CASE Len(b) = m
    <2>1. ~(Len(b) >= h)
      BY <1>1, <1>9 DEF h
    <2> QED
      BY <2>1 DEF SegmentOpen, h
  <1>10. CASE Len(b) = Len(whole) /\ \A i \in (m + 1)..Len(b) : b[i] = 0
    <2> DEFINE c == After(b, h)
    <2>1. Place(fs, n) \in Nat
      BY <1>7
    <2>2. h \in 0..Len(b) /\ Len(b) - h = Place(fs, n)
      BY <1>1, <1>5, <1>6, <1>10, <2>1
    <2>3. c \in Contents /\ Len(c) = Len(b) - h /\ \A i \in 1..(Len(b) - h) : c[i] = b[h + i]
      BY <1>5, <2>2, AfterIs
    <2>4. \A i \in 1..Len(c) : c[i] = 0
      <3> TAKE i \in 1..Len(c)
      <3>1. h + i \in (m + 1)..Len(b) /\ i \in 1..(Len(b) - h)
        <4>1. h \in Nat /\ m \in Nat /\ m < h
          BY <1>1 DEF h
        <4>2. Len(b) \in Nat /\ i \in 1..(Len(b) - h)
          BY <1>6, <2>3
        <4> QED
          BY <4>1, <4>2
      <3> QED
        BY <1>10, <2>3, <3>1
    <2> HIDE DEF c
    <2>5. DecodeFrames(c) = [frames |-> <<>>, at |-> 0]
      BY <2>3, <2>4, ZerosRead
    <2>6. SegmentOpen(b) \subseteq WholeFrames(b, [frames |-> <<>>, at |-> 0])
      BY <2>5 DEF SegmentOpen, c, h
    <2>7. CASE n = 0
      <3>1. es = <<>>
        <4>1. es = [i \in 1..0 |-> es[i]]
          BY <2>7 DEF EntriesFit
        <4> QED
          BY <4>1
      <3>2. EntriesOf(<<>>) = <<>>
        BY DEF EntriesOf
      <3>3. FramesOpen(b, <<>>) \subseteq {es}
        BY <3>1, <3>2 DEF FramesOpen
      <3> QED
        BY <2>6, <3>3 DEF WholeFrames
    <2>8. CASE n # 0
      <3>1. n \in 1..n /\ n - 1 \in 0..n
        BY <1>2, <2>8
      <3>2. /\ Place(fs, n) = Place(fs, n - 1) + Size(fs[n]) /\ Size(fs[n]) \in Nat
            /\ FRAME_BASE <= Size(fs[n]) /\ FRAME_BASE \in Nat \ {0} /\ Place(fs, n - 1) \in Nat
        BY <1>2, <1>3, <3>1, Places
      <3>3. Len(b) - h # 0
        BY <2>1, <2>2, <3>2
      <3> QED
        BY <2>6, <3>3 DEF WholeFrames, h
    <2> QED
      BY <2>7, <2>8
  <1>11. CASE /\ Len(b) = Len(whole) /\ b[m + 1] # whole[m + 1]
              /\ \A i \in (m + 2)..Len(b) : b[i] = whole[i]
    <2>1. m + 1 \in 1..h /\ h \in 0..Len(b)
      BY <1>1, <1>5, <1>6, <1>11, <1>7 DEF h
    <2>2. b[m + 1] # header[m + 1]
      BY <1>8, <1>11, <2>1
    <2>3. CASE m + 1 <= 1 + W16
      <3>1. m + 1 \in 1..(1 + W16) /\ 1 + W16 <= Len(b)
        BY <1>1, <2>1, <2>3
      <3>2. header[m + 1] = p[m + 1]
        <4>1. \A i \in 1..Len(p) : (p \o number)[i] = p[i]
          BY <1>1, Joined
        <4> QED
          BY <1>1, <3>1, <4>1
      <3>3. ~HasPrologue(b, SEG_MAGIC)
        <4>1. b[m + 1] # Prologue(SEG_MAGIC)[m + 1]
          BY <2>2, <3>2 DEF p
        <4> QED
          BY <1>1, <1>5, <3>1, <4>1, PrologueChanged
      <3> QED
        BY <3>3 DEF SegmentOpen
    <2>4. CASE ~(m + 1 <= 1 + W16)
      <3> DEFINE k == 1 + W16
                 s == SubSeq(b, k + 1, k + W32)
                 x == m + 1 - k
      <3>1. k \in Nat /\ k + W32 = h /\ x \in 1..W32 /\ k + x = m + 1 /\ 2 + W16 = k + 1
        BY <1>1, <2>1, <2>4
      <3>2. k + W32 <= Len(b) /\ k + 1 \in Nat /\ k + 1 >= 1 /\ (k + W32) - (k + 1) + 1 = W32
        BY <1>1, <2>1, <3>1
      <3> HIDE DEF k, x
      <3>3. s \in Seq(Nat) /\ Len(s) = W32 /\ \A i \in 1..W32 : s[i] = b[k + i]
        <4>1. k + W32 \in Nat
          BY <1>1, <3>1
        <4>2. s \in Seq(Nat) /\ Len(s) = W32
          <5>1. \A i, j \in Nat : i >= 1 /\ j <= Len(b) /\ j - i + 1 = W32
                   => SubSeq(b, i, j) \in Seq(Nat) /\ Len(SubSeq(b, i, j)) = W32
            BY <1>1, <1>6
          <5> QED
            BY <3>2, <4>1, <5>1
        <4>3. \A i \in 1..W32 : s[i] = b[(k + 1) + i - 1] /\ (k + 1) + i - 1 = k + i
          BY <1>1, <1>6, <3>1, <3>2, <4>1
        <4> QED
          BY <4>2, <4>3
      <3>4. \A i \in 1..W32 : number[i] = header[k + i]
        <4> TAKE i \in 1..W32
        <4>1. (p \o number)[Len(p) + i] = number[i]
          BY <1>1, Joined
        <4>2. Len(p) = k
          BY <1>1 DEF k
        <4> QED
          BY <1>1, <4>1, <4>2
      <3> HIDE DEF s
      <3>5. s \in [1..W32 -> Nat] /\ number \in [1..W32 -> Nat]
        <4>1. \A u \in Seq(Nat) : u \in [1..Len(u) -> Nat]
          OBVIOUS
        <4>2. number \in Seq(Nat) /\ Len(number) = W32
          BY <1>1 DEF Contents
        <4> QED
          BY <3>3, <4>1, <4>2
      <3>6. s[x] # number[x]
        BY <2>2, <3>1, <3>3, <3>4
      <3>7. ASSUME NEW i \in 1..W32, i # x PROVE s[i] = number[i]
        <4>1. k + i \in 1..h /\ k + i # m + 1 /\ k + i <= Len(b)
          BY <1>1, <1>6, <2>1, <3>1, <3>2, <3>7
        <4>2. b[k + i] = whole[k + i]
          <5>1. CASE k + i <= m
            BY <1>1, <1>5, <4>1, <5>1
          <5>2. CASE ~(k + i <= m)
            <6>1. k + i \in (m + 2)..Len(b)
              BY <1>1, <1>6, <3>1, <4>1, <5>2
            <6> QED
              BY <1>11, <6>1
          <5> QED
            BY <5>1, <5>2
        <4> QED
          BY <1>8, <3>3, <3>4, <4>1, <4>2
      <3>8. FromLE(s) # FromLE(number)
        <4>1. W32 \in Nat
          BY <1>1
        <4> QED
          BY <3>1, <3>5, <3>6, <3>7, <4>1, NumberChanged
      <3>9. FromLE(number) = n
        BY <1>1, NumberIs DEF number
      <3>10. After(b, h) = After(whole, h)
        <4>1. h \in 0..Len(whole) /\ Len(whole) = Len(b)
          BY <1>11, <2>1
        <4> DEFINE c == After(b, h)
                   d == After(whole, h)
        <4>2. /\ c \in Contents /\ Len(c) = Len(b) - h
              /\ \A i \in 1..(Len(b) - h) : c[i] = b[h + i]
          BY <1>5, <2>1, AfterIs
        <4>3. /\ d \in Contents /\ Len(d) = Len(b) - h
              /\ \A i \in 1..(Len(b) - h) : d[i] = whole[h + i]
          BY <1>5, <4>1, AfterIs
        <4> HIDE DEF c, d
        <4>4. \A i \in 1..(Len(b) - h) : c[i] = d[i]
          <5> TAKE i \in 1..(Len(b) - h)
          <5>1. h + i \in (m + 2)..Len(b)
            BY <1>1, <1>6, <2>1
          <5> QED
            BY <1>11, <4>2, <4>3, <5>1
        <4>5. c = d
          BY <4>2, <4>3, <4>4 DEF Contents
        <4> QED
          BY <4>5 DEF c, d
      <3>11. DecodeFrames(After(whole, h)) = [frames |-> fs, at |-> Place(fs, n)]
        <4>1. DecodeFrames(After(whole, Len(header))) = [frames |-> fs, at |-> Place(fs, n)]
          BY <1>2, <1>3, <1>4, WholeRead
        <4> QED
          BY <1>1, <4>1
      <3>12. ~CountMatches(b, fs)
        <4>1. SubSeq(b, 2 + W16, SEG_HEADER_LEN) = s
          BY <3>1 DEF s, h
        <4> QED
          BY <1>3, <3>8, <3>9, <4>1 DEF CountMatches
      <3>13. SegmentOpen(b) \subseteq FramesOpen(b, fs)
        BY <3>10, <3>11 DEF SegmentOpen, WholeFrames, h
      <3> QED
        BY <3>12, <3>13 DEF FramesOpen
    <2> QED
      BY <2>3, <2>4
  <1> QED
    BY <1>9, <1>10, <1>11 DEF Harm

-----------------------------------------------------------------------------
(* The log *)

(* The frames that append and commit write: the i-th has the seq i.        *)
LogFramesFit(n, fs) ==
    /\ fs = [i \in 1..n |-> fs[i]]
    /\ \A i \in 1..n :
          \/ fs[i] = CommitFrame(i)
          \/ \E r : Storable(r) /\ fs[i] = RecordFrame([seq |-> i, record |-> r])

LEMMA LogFramesRead ==
  ASSUME NEW n \in 0..MaxOf(W64), W64 + 2 <= MaxOf(W32), NEW fs, LogFramesFit(n, fs)
  PROVE  /\ fs \in [1..n -> SmallFrames]
         /\ \A i \in 1..n :
               /\ Len(fs[i].payload) >= W64 /\ FrameSeq(fs[i]) = i
               /\ fs[i].kind = "Record" => Decode(BodyOf(fs[i])) # {}
               /\ fs[i].kind = "Commit" => BodyOf(fs[i]) = <<>>
  <1>1. W64 \in Nat /\ MaxOf(W64) \in Nat
    BY CodecAssumption, MaxLarge
  <1>2. ASSUME NEW i \in 1..n
        PROVE  /\ fs[i] \in SmallFrames
               /\ Len(fs[i].payload) >= W64 /\ FrameSeq(fs[i]) = i
               /\ fs[i].kind = "Record" => Decode(BodyOf(fs[i])) # {}
               /\ fs[i].kind = "Commit" => BodyOf(fs[i]) = <<>>
    <2>1. i \in 0..MaxOf(W64)
      BY <1>1
    <2>2. CASE fs[i] = CommitFrame(i)
      <3> DEFINE f == CommitFrame(i)
      <3>1. /\ f \in SmallFrames /\ f.kind = "Commit" /\ Len(f.payload) >= W64
            /\ FrameSeq(f) = i /\ BodyOf(f) = <<>>
        BY <2>1, CommitFrameReads
      <3>2. fs[i] = f
        BY <2>2
      <3> HIDE DEF f
      <3> QED
        BY <3>1, <3>2
    <2>3. ASSUME NEW r, Storable(r), fs[i] = RecordFrame([seq |-> i, record |-> r])
          PROVE  /\ fs[i] \in SmallFrames
                 /\ Len(fs[i].payload) >= W64 /\ FrameSeq(fs[i]) = i
                 /\ fs[i].kind = "Record" => Decode(BodyOf(fs[i])) # {}
                 /\ fs[i].kind = "Commit" => BodyOf(fs[i]) = <<>>
      <3> DEFINE f == RecordFrame([seq |-> i, record |-> r])
      <3>1. /\ f \in SmallFrames /\ f.kind = "Record" /\ Len(f.payload) >= W64
            /\ FrameSeq(f) = i /\ Decode(BodyOf(f)) = {r}
        BY <2>1, <2>3, RecordFrameReads DEF Storable
      <3>2. fs[i] = f
        BY <2>3
      <3> HIDE DEF f
      <3> QED
        BY <3>1, <3>2
    <2> QED
      BY <2>2, <2>3 DEF LogFramesFit
  <1>3. fs = [i \in 1..n |-> fs[i]]
    BY DEF LogFramesFit
  <1> QED
    BY <1>2, <1>3

LEMMA LogHeaderIs ==
  /\ HeaderBytes \in Contents /\ Len(HeaderBytes) = WAL_HEADER_LEN
  /\ WAL_HEADER_LEN \in Nat /\ WAL_HEADER_LEN = 1 + W16 + W64
  /\ WAL_MAGIC \in Nat /\ FIRST_SEQ \in 0..MaxOf(W64) /\ W64 \in Nat /\ W16 \in Nat
  <1>1. W16 \in Nat /\ W64 \in Nat \ {0} /\ WAL_MAGIC \in Nat
    BY CodecAssumption DEF WAL_MAGIC
  <1>2. FIRST_SEQ \in 0..MaxOf(W64)
    BY <1>1, MaxLarge DEF FIRST_SEQ
  <1>3. HeaderBytes \in Contents /\ Len(HeaderBytes) = 1 + W16 + W64
    BY <1>1, <1>2, HeaderIs DEF HeaderBytes
  <1> QED
    BY <1>1, <1>2, <1>3 DEF WAL_HEADER_LEN

(* A log that is damaged behind its header recovers from its first frames, *)
(* which are at least all in front of the damage.                          *)
LEMMA LogRead ==
  ASSUME NEW n \in 0..MaxOf(W64), W64 + 2 <= MaxOf(W32), NEW fs, LogFramesFit(n, fs),
         NEW whole, IsFile(whole, HeaderBytes, n, fs),
         NEW m \in Nat, NEW b, Kept(b, whole, m), WAL_HEADER_LEN <= m,
         Shows(b, m, WAL_HEADER_LEN, n, fs)
  PROVE  \E j \in 0..n :
            /\ \A i \in 1..n : WAL_HEADER_LEN + Place(fs, i) <= m => i <= j
            /\ LogOpen(b) = {RecoveryOf(FirstPart(fs, j))}
  <1> DEFINE h == WAL_HEADER_LEN
             c == After(b, h)
  <1>1. /\ HeaderBytes \in Contents /\ Len(HeaderBytes) = h
        /\ h \in Nat /\ h = 1 + W16 + W64 /\ W16 \in Nat /\ W64 \in Nat
        /\ WAL_MAGIC \in Nat /\ FIRST_SEQ \in 0..MaxOf(W64)
    BY LogHeaderIs
  <1>2. n \in Nat
    <2>1. MaxOf(W64) \in Nat
      BY CodecAssumption, MaxLarge
    <2> QED
      BY <2>1
  <1>3. /\ fs \in [1..n -> SmallFrames]
        /\ \A i \in 1..n :
               /\ Len(fs[i].payload) >= W64 /\ FrameSeq(fs[i]) = i
               /\ fs[i].kind = "Record" => Decode(BodyOf(fs[i])) # {}
               /\ fs[i].kind = "Commit" => BodyOf(fs[i]) = <<>>
    BY LogFramesRead
  <1>4. /\ Reads(b, 0, HeaderBytes) /\ b \in Contents /\ Len(b) \in Nat
        /\ h <= Len(b) /\ m <= Len(b)
    BY <1>1, HeaderKept
  <1>5. HasPrologue(b, WAL_MAGIC) /\ StartSeq(b) = FIRST_SEQ
    BY <1>1, <1>4, HeaderRead DEF HeaderBytes, StartSeq
  <1>6. PICK j \in 0..n :
          /\ \A i \in 1..n : h + Place(fs, i) <= m => i <= j
          /\ DecodeFrames(c) = [frames |-> FirstPart(fs, j), at |-> Place(fs, j)]
    <2> DEFINE header == HeaderBytes
    <2>1. /\ IsFile(whole, header, n, fs) /\ Len(header) <= m /\ Len(header) = h
          /\ Shows(b, m, Len(header), n, fs)
      BY <1>1
    <2>2. fs \in [1..n -> SmallFrames]
      BY <1>3
    <2> HIDE DEF header, h
    <2>3. PICK k \in 0..n : Found(b, m, Len(header), n, fs, k)
      BY <1>2, <2>1, <2>2, IntactRead
    <2> QED
      BY <2>1, <2>3 DEF Found
  <1> DEFINE part == FirstPart(fs, j)
  <1>7. /\ j \in Nat /\ DOMAIN part = 1..j /\ Len(part) = j
        /\ \A i \in 1..j : part[i] = fs[i] /\ i \in 1..n
    BY <1>6 DEF FirstPart
  <1> HIDE DEF part
  <1>8. SeqsIncrease(part)
    <2>1. ASSUME NEW i \in 2..j PROVE FrameSeq(part[i - 1]) < FrameSeq(part[i])
      <3>1. i \in 1..j /\ i - 1 \in 1..j
        BY <1>7
      <3>2. FrameSeq(part[i - 1]) = i - 1 /\ FrameSeq(part[i]) = i
        BY <1>3, <1>7, <3>1
      <3> QED
        BY <3>1, <3>2
    <2> QED
      BY <1>3, <1>7, <2>1 DEF SeqsIncrease
  <1>9. ASSUME NEW i \in DOMAIN part
        PROVE  /\ FrameSeq(part[i]) >= FIRST_SEQ
               /\ part[i].kind = "Record" => Decode(BodyOf(part[i])) # {}
               /\ part[i].kind = "Commit" => BodyOf(part[i]) = <<>>
    <2>1. part[i] = fs[i] /\ i \in 1..n /\ i \in 1..j
      BY <1>7
    <2>2. FrameSeq(part[i]) = i /\ i >= FIRST_SEQ
      BY <1>3, <1>7, <2>1 DEF FIRST_SEQ
    <2> QED
      BY <1>3, <2>1, <2>2
  <1>10. LogFramesOpen(FIRST_SEQ, part) = {RecoveryOf(part)}
    BY <1>8, <1>9 DEF LogFramesOpen
  <1>11. LogOpen(b) = LogFramesOpen(StartSeq(b), DecodeFrames(c).frames)
    <2>1. StartSeq(b) > 0 /\ ~(Len(b) < h)
      BY <1>1, <1>4, <1>5 DEF FIRST_SEQ
    <2> QED
      BY <1>5, <2>1 DEF LogOpen
  <1> QED
    BY <1>5, <1>6, <1>10, <1>11 DEF part

(* A log without frames recovers nothing.                                *)
LEMMA EmptyRecovery == RecoveryOf(<<>>) = Recovery(<<>>, 0, WAL_HEADER_LEN)
  <1>1. LastCommit(<<>>) = 0
    <2>1. {0} \cup {i \in DOMAIN <<>> : <<>>[i].kind = "Commit"} = {0}
      OBVIOUS
    <2>2. Max({0}) = 0
      BY DEF Max
    <2> QED
      BY <2>1, <2>2 DEF LastCommit
  <1>2. SubSeq(<<>>, 1, 0) = <<>>
    OBVIOUS
  <1>3. RecordsOf(<<>>) = <<>>
    <2> DEFINE Eq(u) == u = [i \in 0..0 |-> IF i = 0 THEN <<>> ELSE KeepRecord(u[i - 1], <<>>[i])]
               chosen == CHOOSE u : Eq(u)
    <2>1. RecordsOf(<<>>) = chosen[0]
      <3>1. Len(<<>>) = 0
        OBVIOUS
      <3> QED
        BY Zenon, <3>1 DEF RecordsOf
    <2>2. Eq([i \in 0..0 |-> <<>>])
      OBVIOUS
    <2>3. Eq(chosen)
      <3> HIDE DEF Eq
      <3> QED
        BY <2>2
    <2> HIDE DEF chosen
    <2>4. chosen[0] = <<>>
      BY <2>3
    <2> QED
      BY <2>1, <2>4
  <1>4. EntriesOf(<<>>) = <<>>
    BY DEF EntriesOf
  <1>5. Place(<<>>, 0) = 0
    <2>1. 0 \in Nat /\ <<>> \in [1..0 -> SmallFrames]
      OBVIOUS
    <2> QED
      BY <2>1, Places
  <1>6. WAL_HEADER_LEN + 0 = WAL_HEADER_LEN
    BY CodecAssumption DEF WAL_HEADER_LEN
  <1>7. RecoveryOf(<<>>) = RecoveryOfCommitted(<<>>)
    BY <1>1, <1>2 DEF RecoveryOf
  <1>8. Len(<<>>) = 0
    OBVIOUS
  <1>9. RecoveryOfCommitted(<<>>) = Recovery(EntriesOf(<<>>), 0, WAL_HEADER_LEN + Place(<<>>, 0))
    BY <1>3, <1>8 DEF RecoveryOfCommitted
  <1> QED
    BY <1>4, <1>5, <1>6, <1>7, <1>9

(* The creation of a log that was cut short in the header. *)
LEMMA LogHeaderCut ==
  ASSUME NEW whole, NEW fs, IsFile(whole, HeaderBytes, 0, fs),
         NEW m \in Nat, NEW b, Kept(b, whole, m), m < WAL_HEADER_LEN, Len(b) = m
  PROVE  LogOpen(b) = {RecoveryOf(<<>>)}
  <1> DEFINE h == WAL_HEADER_LEN
             t == HeaderBytes
  <1>1. t \in Contents /\ Len(t) = h /\ h \in Nat
    BY LogHeaderIs
  <1>2. /\ whole \in Contents /\ Reads(whole, 0, t) /\ b \in Contents
        /\ Len(b) <= Len(whole) /\ \A i \in 1..m : b[i] = whole[i]
    BY DEF IsFile, Kept
  <1>3. Len(whole) \in Nat
    BY <1>2 DEF Contents
  <1> HIDE DEF h, t
  <1>4. ASSUME NEW i \in 1..m PROVE b[i] = t[i]
    <2>1. i \in 1..Len(t) /\ 0 + i = i /\ 0 + i <= Len(whole)
      BY <1>1, <1>2, <1>3 DEF h
    <2> QED
      BY <1>2, <2>1 DEF Reads
  <1>5. IsPrefix(b, t)
    <2>1. m <= Len(t)
      BY <1>1 DEF h
    <2>2. /\ SubSeq(b, 1, m) \in Seq(Nat) /\ Len(SubSeq(b, 1, m)) = m
          /\ \A i \in 1..m : SubSeq(b, 1, m)[i] = b[i]
      BY <1>2 DEF Contents
    <2>3. /\ SubSeq(t, 1, m) \in Seq(Nat) /\ Len(SubSeq(t, 1, m)) = m
          /\ \A i \in 1..m : SubSeq(t, 1, m)[i] = t[i]
      BY <1>1, <2>1 DEF Contents
    <2> DEFINE x == SubSeq(b, 1, m)
               y == SubSeq(t, 1, m)
    <2>4. x = y
      <3> HIDE DEF x, y
      <3>1. /\ x \in Seq(Nat) /\ Len(x) = m /\ y \in Seq(Nat) /\ Len(y) = m
            /\ \A i \in 1..m : x[i] = y[i]
        BY <1>4, <2>2, <2>3 DEF x, y
      <3> QED
        BY <3>1
    <2> QED
      BY <2>1, <2>4 DEF IsPrefix
  <1> QED
    BY <1>5, EmptyRecovery DEF LogOpen, h, t

-----------------------------------------------------------------------------
(* The file of a state *)

(* What append, write_segment and encode_frame do not check: that the      *)
(* lengths of a record, and of the frame around it, can be said in their   *)
(* fields, as the number of entries and the seqs can.                      *)
StockFits ==
    /\ \A r \in Stock : Encodable(r) => Storable(r)
    /\ W64 + 2 <= MaxOf(W32)
    /\ MaxBatch <= MaxOf(W32)
    /\ MaxFrames <= MaxOf(W64) /\ MaxSeq <= MaxOf(W64)

(* What is left of a file after at most one damage.                        *)
FileIs(b, header, n, fs, m, hurt) ==
    \E whole :
        /\ IsFile(whole, header, n, fs)
        /\ m \in Nat /\ Kept(b, whole, m) /\ Harm(b, whole, m)
        /\ ~hurt => b = whole /\ m = Len(whole)

SegmentInv ==
    /\ Len(wrote) \in 0..MaxOf(W32)
    /\ EntriesFit(Len(wrote), wrote)
    /\ FileIs(bytes, SegmentHeader(Len(wrote)), Len(wrote), RecordFrames(Len(wrote), wrote),
              intact, damaged)

LogInv ==
    /\ Len(wrote) \in 0..MaxFrames
    /\ LogFramesFit(Len(wrote), wrote)
    /\ FileIs(bytes, HeaderBytes, Len(wrote), wrote, intact, damaged)

FileInv ==
    \/ kind = "none" /\ ~damaged
    \/ kind = "segment" /\ SegmentInv
    \/ kind = "log" /\ LogInv

(* A file as it was written, and one that is damaged once.                 *)
LEMMA FreshFile ==
  ASSUME NEW whole, NEW header, NEW n \in Nat, NEW fs \in [1..n -> SmallFrames],
         IsFile(whole, header, n, fs), NEW hurt
  PROVE  FileIs(whole, header, n, fs, Len(whole), hurt)
  <1>1. Len(whole) \in Nat /\ Kept(whole, whole, Len(whole))
    BY WholeRead
  <1>2. Harm(whole, whole, Len(whole))
    BY DEF Harm
  <1> QED
    BY <1>1, <1>2 DEF FileIs

Damages(c, b, k) ==
    \/ c = SubSeq(b, 1, k - 1)
    \/ c = [i \in DOMAIN b |-> IF i < k THEN b[i] ELSE 0]
    \/ \E x \in Nat \ {b[k]} : c = [b EXCEPT ![k] = x]

LEMMA HurtFile ==
  ASSUME NEW b, NEW header, NEW n \in Nat, NEW fs \in [1..n -> SmallFrames], NEW m,
         FileIs(b, header, n, fs, m, FALSE),
         NEW k \in DOMAIN b, NEW c, Damages(c, b, k), NEW hurt, hurt
  PROVE  FileIs(c, header, n, fs, k - 1, hurt)
  <1>1. PICK whole : IsFile(whole, header, n, fs) /\ b = whole
    BY DEF FileIs
  <1>2. b \in Seq(Nat)
    BY <1>1 DEF IsFile, Contents
  <1> DEFINE l == Len(b)
  <1>3. l \in Nat /\ DOMAIN b = 1..l /\ k \in 1..l /\ k - 1 \in Nat /\ k - 1 <= l
    BY <1>2
  <1>4. b \in [1..l -> Nat]
    BY <1>2
  <1>5. CASE c = SubSeq(b, 1, k - 1)
    <2>1. c \in Seq(Nat) /\ Len(c) = k - 1 /\ \A i \in 1..(k - 1) : c[i] = b[i]
      BY <1>2, <1>3, <1>5
    <2>2. Kept(c, b, k - 1)
      BY <1>3, <2>1 DEF Kept, Contents
    <2>3. Harm(c, b, k - 1)
      BY <2>1 DEF Harm
    <2> QED
      BY <1>1, <1>3, <2>2, <2>3 DEF FileIs
  <1>6. CASE c = [i \in DOMAIN b |-> IF i < k THEN b[i] ELSE 0]
    <2>1. c \in [1..l -> Nat]
      BY <1>3, <1>4, <1>6
    <2>2. c \in Seq(Nat) /\ Len(c) = l
      BY <1>3, <2>1
    <2>3. \A i \in 1..(k - 1) : c[i] = b[i]
      BY <1>3, <1>6
    <2>4. \A i \in k..l : c[i] = 0
      BY <1>3, <1>6
    <2>5. Kept(c, b, k - 1)
      BY <1>3, <2>2, <2>3 DEF Kept, Contents
    <2>6. Harm(c, b, k - 1)
      <3>1. (k - 1) + 1 = k
        BY <1>3
      <3> QED
        BY <2>2, <2>4, <3>1 DEF Harm
    <2> QED
      BY <1>1, <1>3, <2>5, <2>6 DEF FileIs
  <1>7. ASSUME NEW x \in Nat \ {b[k]}, c = [b EXCEPT ![k] = x]
        PROVE  FileIs(c, header, n, fs, k - 1, hurt)
    <2>1. c \in [1..l -> Nat]
      BY <1>3, <1>4, <1>7
    <2>2. c \in Seq(Nat) /\ Len(c) = l
      BY <1>3, <2>1
    <2>3. c[k] # b[k] /\ \A i \in 1..l : i # k => c[i] = b[i]
      BY <1>3, <1>4, <1>7
    <2>4. Kept(c, b, k - 1)
      <3>1. \A i \in 1..(k - 1) : i \in 1..l /\ i # k
        BY <1>3
      <3> QED
        BY <1>3, <2>2, <2>3, <3>1 DEF Kept, Contents
    <2>5. Harm(c, b, k - 1)
      <3>1. (k - 1) + 1 = k /\ (k - 1) + 2 = k + 1 /\ \A i \in (k + 1)..l : i \in 1..l /\ i # k
        BY <1>3
      <3> QED
        BY <2>2, <2>3, <3>1 DEF Harm
    <2> QED
      BY <1>1, <1>3, <2>4, <2>5 DEF FileIs
  <1> QED
    BY <1>5, <1>6, <1>7 DEF Damages

LEMMA FileInit == Init => FileInv
  BY DEF Init, FileInv

LEMMA SegmentStep ==
  ASSUME StockFits, NEW es \in Batches, WriteSegment(es)
  PROVE  FileInv'
  <1>1. PICK n \in 0..MaxBatch : es \in [1..n -> [seq : 1..MaxSeq, record : Stock]]
    BY DEF Batches
  <1>2. n \in Nat /\ n \in 0..MaxOf(W32) /\ Len(es) = n /\ DOMAIN es = 1..n
        /\ es = [i \in 1..n |-> es[i]]
    BY <1>1, FilesAssumption, NoneCodes DEF StockFits
  <1>3. EntriesFit(n, es)
    <2>1. ASSUME NEW i \in 1..n
          PROVE  \E s \in 0..MaxOf(W64) : \E r :
                     Storable(r) /\ es[i] = [seq |-> s, record |-> r]
      <3>1. es[i].seq \in 1..MaxSeq /\ es[i].record \in Stock
            /\ es[i] = [seq |-> es[i].seq, record |-> es[i].record]
        BY <1>1
      <3>2. Encodable(es[i].record)
        BY <1>2 DEF WriteSegment
      <3>3. es[i].seq \in 0..MaxOf(W64)
        <4>1. MaxOf(W64) \in Nat /\ MaxSeq \in Nat /\ MaxSeq <= MaxOf(W64)
          BY FilesAssumption, CodecAssumption, MaxLarge DEF StockFits
        <4> QED
          BY <3>1, <4>1
      <3> QED
        BY <3>1, <3>2, <3>3 DEF StockFits
    <2>2. \A i \in 2..n : es[i - 1].seq < es[i].seq
      BY <1>2 DEF WriteSegment, Increasing
    <2> QED
      BY <1>2, <2>1, <2>2 DEF EntriesFit
  <1> DEFINE fs == RecordFrames(n, es)
             b == SegmentHeader(n) \o FlattenSeq([i \in 1..n |-> FrameBytes(fs[i])])
  <1>4. fs \in [1..n -> SmallFrames]
    BY <1>2, <1>3, RecordFramesRead
  <1>5. IsFile(b, SegmentHeader(n), n, fs)
    <2>1. SegmentHeader(n) \in Contents
      BY <1>2, SegmentHeaderIs
    <2> HIDE DEF fs
    <2> QED
      BY <1>2, <1>4, <2>1, FileOfList
  <1>6. [i \in DOMAIN es |-> EncodeFrame("Record", EntryPayload(es[i]))]
            = [i \in 1..n |-> FrameBytes(fs[i])]
    BY <1>2 DEF RecordFrames, RecordFrame, FrameBytes
  <1>7. kind' = "segment" /\ wrote' = es /\ bytes' = b /\ intact' = Len(b)
    BY <1>2, <1>6 DEF WriteSegment, Written, SegmentHeader
  <1>8. FileIs(b, SegmentHeader(n), n, fs, Len(b), damaged')
    <2> HIDE DEF b, fs
    <2> QED
      BY <1>2, <1>4, <1>5, FreshFile
  <1> HIDE DEF b, fs
  <1>9. SegmentInv'
    BY <1>2, <1>3, <1>7, <1>8 DEF SegmentInv, fs
  <1> QED
    BY <1>7, <1>9 DEF FileInv

LEMMA CreateStep ==
  ASSUME CreateLog
  PROVE  FileInv'
  <1> DEFINE none == <<>>
  <1>1. none \in [1..0 -> SmallFrames]
    OBVIOUS
  <1>2. Len(none) = 0 /\ none = [i \in 1..0 |-> none[i]]
    OBVIOUS
  <1>3. 0 \in Nat
    OBVIOUS
  <1>4. kind' = "log" /\ wrote' = none /\ bytes' = HeaderBytes /\ intact' = Len(HeaderBytes)
    BY DEF CreateLog, Written
  <1> HIDE DEF none
  <1>5. Place(none, 0) = 0
    BY <1>1, <1>3, Places
  <1>6. IsFile(HeaderBytes, HeaderBytes, 0, none)
    <2>1. HeaderBytes \in Contents /\ Len(HeaderBytes) \in Nat
      BY LogHeaderIs
    <2>2. Reads(HeaderBytes, 0, HeaderBytes)
      BY <2>1 DEF Reads
    <2> QED
      BY <1>5, <2>1, <2>2 DEF IsFile
  <1>7. FileIs(HeaderBytes, HeaderBytes, 0, none, Len(HeaderBytes), damaged')
    BY <1>1, <1>6, <1>3, FreshFile
  <1>8. LogFramesFit(0, none)
    BY <1>2 DEF LogFramesFit
  <1>9. LogInv'
    BY <1>4, <1>7, <1>8, <1>2, FilesAssumption DEF LogInv
  <1> QED
    BY <1>4, <1>9 DEF FileInv

LEMMA ExtendStep ==
  ASSUME StockFits, FileInv, NEW f, Extend(f),
         \/ f = CommitFrame(NextSeq)
         \/ \E r : Storable(r) /\ f = RecordFrame([seq |-> NextSeq, record |-> r])
  PROVE  FileInv'
  <1> DEFINE n == Len(wrote)
             longer == bytes \o FrameBytes(f)
  <1>1. kind = "log" /\ ~damaged /\ n < MaxFrames /\ LogInv
    BY DEF Extend, FileInv
  <1>2. /\ kind' = "log" /\ wrote' = Append(wrote, f) /\ bytes' = longer
        /\ intact' = Len(longer)
    BY <1>1 DEF Extend, Written, FrameBytes
  <1>3. /\ n \in 0..MaxFrames /\ LogFramesFit(n, wrote)
        /\ FileIs(bytes, HeaderBytes, n, wrote, intact, damaged)
    BY <1>1 DEF LogInv
  <1>4. /\ n \in Nat /\ MaxFrames \in Nat /\ MaxOf(W64) \in Nat /\ MaxFrames <= MaxOf(W64)
        /\ W64 + 2 <= MaxOf(W32) /\ NextSeq = n + 1
    <2>1. MaxFrames \in Nat /\ MaxFrames <= MaxOf(W64) /\ W64 + 2 <= MaxOf(W32)
      BY FilesAssumption DEF StockFits
    <2>2. MaxOf(W64) \in Nat
      BY CodecAssumption, MaxLarge
    <2>3. n \in Nat /\ NextSeq = n + 1
      BY <1>3, <2>1 DEF NextSeq, FIRST_SEQ
    <2> QED
      BY <2>1, <2>2, <2>3
  <1>5. wrote \in [1..n -> SmallFrames]
    BY <1>1, <1>3, <1>4, LogFramesRead
  <1> DEFINE gs == Append(wrote, f)
  <1>6. /\ gs = [i \in 1..(n + 1) |-> gs[i]] /\ Len(gs) = n + 1
        /\ gs[n + 1] = f /\ \A i \in 1..n : gs[i] = wrote[i]
    <2>1. wrote \in Seq(SmallFrames)
      BY <1>4, <1>5
    <2>2. gs \in Seq(SmallFrames \cup {f}) /\ Len(gs) = n + 1
      BY <2>1
    <2>3. gs = [i \in 1..Len(gs) |-> gs[i]]
      <3>1. \A V : \A s \in Seq(V) : s = [i \in 1..Len(s) |-> s[i]]
        OBVIOUS
      <3> HIDE DEF gs
      <3> QED
        BY <2>2, <3>1
    <2>4. gs[n + 1] = f /\ \A i \in 1..n : gs[i] = wrote[i]
      BY <2>1
    <2> QED
      BY <2>2, <2>3, <2>4
  <1> HIDE DEF gs, n
  <1>7. LogFramesFit(n + 1, gs)
    <2>1. ASSUME NEW i \in 1..(n + 1)
          PROVE  \/ gs[i] = CommitFrame(i)
                 \/ \E r : Storable(r) /\ gs[i] = RecordFrame([seq |-> i, record |-> r])
      <3>1. CASE i = n + 1
        BY <1>4, <1>6, <3>1
      <3>2. CASE i # n + 1
        <4>1. i \in 1..n
          BY <1>4, <3>2
        <4> QED
          BY <1>3, <1>6, <4>1 DEF LogFramesFit
      <3> QED
        BY <3>1, <3>2
    <2> QED
      BY <1>6, <2>1 DEF LogFramesFit
  <1>8. gs \in [1..(n + 1) -> SmallFrames]
    <2>1. n + 1 \in 0..MaxOf(W64)
      BY <1>1, <1>4 DEF n
    <2> QED
      BY <1>4, <1>7, <2>1, LogFramesRead
  <1>9. IsFile(longer, HeaderBytes, n + 1, gs)
    <2>1. IsFile(bytes, HeaderBytes, n, wrote)
      BY <1>1, <1>3 DEF FileIs
    <2>2. IsFile(bytes \o FrameBytes(gs[n + 1]), HeaderBytes, n + 1, gs)
      BY <1>4, <1>5, <1>6, <1>8, <2>1, FileGrows
    <2> QED
      BY <1>6, <2>2
  <1> HIDE DEF longer
  <1>10. FileIs(longer, HeaderBytes, n + 1, gs, Len(longer), damaged')
    <2>1. n + 1 \in Nat
      BY <1>4
    <2> QED
      BY <1>8, <1>9, <2>1, FreshFile
  <1>11. LogInv'
    <2>1. n + 1 \in 0..MaxFrames
      BY <1>1, <1>4 DEF n
    <2> QED
      BY <1>2, <1>6, <1>7, <1>10, <2>1 DEF LogInv, gs
  <1> QED
    BY <1>2, <1>11 DEF FileInv

LEMMA DamageStep ==
  ASSUME StockFits, FileInv, NEW k \in DOMAIN bytes, NEW c, Damage(k, c), Damages(c, bytes, k)
  PROVE  FileInv'
  <1> DEFINE n == Len(wrote)
  <1>1. /\ kind # "none" /\ ~damaged /\ bytes' = c /\ damaged' /\ intact' = k - 1
        /\ kind' = kind /\ wrote' = wrote
    BY DEF Damage
  <1>2. CASE kind = "segment"
    <2>1. SegmentInv
      BY <1>2 DEF FileInv
    <2>2. /\ n \in 0..MaxOf(W32) /\ EntriesFit(n, wrote)
          /\ FileIs(bytes, SegmentHeader(n), n, RecordFrames(n, wrote), intact, FALSE)
      BY <1>1, <2>1 DEF SegmentInv, FileIs
    <2>3. n \in Nat
      BY <2>2, NoneCodes
    <2>4. RecordFrames(n, wrote) \in [1..n -> SmallFrames]
      BY <2>2, <2>3, RecordFramesRead
    <2> HIDE DEF n
    <2>5. FileIs(c, SegmentHeader(n), n, RecordFrames(n, wrote), k - 1, damaged')
      BY <1>1, <2>2, <2>3, <2>4, HurtFile
    <2>6. SegmentInv'
      BY <1>1, <2>2, <2>5 DEF SegmentInv, n
    <2> QED
      BY <1>1, <1>2, <2>6 DEF FileInv
  <1>3. CASE kind = "log"
    <2>1. LogInv
      BY <1>3 DEF FileInv
    <2>2. /\ n \in 0..MaxFrames /\ LogFramesFit(n, wrote)
          /\ FileIs(bytes, HeaderBytes, n, wrote, intact, FALSE)
      BY <1>1, <2>1 DEF LogInv, FileIs
    <2>3. n \in Nat /\ n \in 0..MaxOf(W64) /\ W64 + 2 <= MaxOf(W32)
      <3>1. MaxFrames \in Nat /\ MaxOf(W64) \in Nat /\ MaxFrames <= MaxOf(W64)
            /\ W64 + 2 <= MaxOf(W32)
        BY FilesAssumption, CodecAssumption, MaxLarge DEF StockFits
      <3> QED
        BY <2>2, <3>1
    <2>4. wrote \in [1..n -> SmallFrames]
      BY <2>2, <2>3, LogFramesRead
    <2> HIDE DEF n
    <2>5. FileIs(c, HeaderBytes, n, wrote, k - 1, damaged')
      BY <1>1, <2>2, <2>3, <2>4, HurtFile
    <2>6. LogInv'
      BY <1>1, <2>2, <2>5 DEF LogInv, n
    <2> QED
      BY <1>1, <1>3, <2>6 DEF FileInv
  <1> QED
    BY <1>1, <1>2, <1>3 DEF FileInv

LEMMA FileStep ==
  ASSUME StockFits
  PROVE  FileInv /\ [Next]_vars => FileInv'
  <1> SUFFICES ASSUME FileInv, [Next]_vars PROVE FileInv'
    OBVIOUS
  <1>1. CASE UNCHANGED content
    BY <1>1 DEF content, FileInv, SegmentInv, LogInv
  <1>2. \A id, vector : New(id, vector) => UNCHANGED content
    BY DEF New
  <1>3. /\ WithNorm => UNCHANGED content
        /\ \A text : WithText(text) => UNCHANGED content
        /\ \A entry : WithMeta(entry) => UNCHANGED content
        /\ AsTombstone => UNCHANGED content
    BY DEF WithNorm, WithText, WithMeta, AsTombstone, Build
  <1>4. ASSUME NEW es \in Batches, WriteSegment(es) PROVE FileInv'
    BY <1>4, SegmentStep
  <1>5. CASE CreateLog
    BY <1>5, CreateStep
  <1>6. ASSUME NEW r \in Stock, AppendRecord(r) PROVE FileInv'
    <2> DEFINE f == RecordFrame([seq |-> NextSeq, record |-> r])
    <2>1. Extend(f) /\ Storable(r)
      BY <1>6 DEF AppendRecord, StockFits
    <2>2. \E s : Storable(s) /\ f = RecordFrame([seq |-> NextSeq, record |-> s])
      BY <2>1
    <2> HIDE DEF f
    <2> QED
      BY <2>1, <2>2, ExtendStep
  <1>7. CASE Commit
    <2> DEFINE f == CommitFrame(NextSeq)
    <2>1. Extend(f) /\ f = CommitFrame(NextSeq)
      BY <1>7 DEF Commit
    <2> HIDE DEF f
    <2> QED
      BY <2>1, ExtendStep
  <1>8. ASSUME NEW k \in DOMAIN bytes, Cut(k) PROVE FileInv'
    <2> DEFINE c == SubSeq(bytes, 1, k - 1)
    <2>1. Damage(k, c) /\ Damages(c, bytes, k)
      BY <1>8 DEF Cut, Damages
    <2> HIDE DEF c
    <2> QED
      BY <2>1, DamageStep
  <1>9. ASSUME NEW k \in DOMAIN bytes, Zero(k) PROVE FileInv'
    <2> DEFINE c == [i \in DOMAIN bytes |-> IF i < k THEN bytes[i] ELSE 0]
    <2>1. Damage(k, c) /\ Damages(c, bytes, k)
      BY <1>9 DEF Zero, Damages
    <2> HIDE DEF c
    <2> QED
      BY <2>1, DamageStep
  <1>10. ASSUME NEW k \in DOMAIN bytes, Change(k) PROVE FileInv'
    <2>1. PICK x \in {0, 1, Base - 1} \ {bytes[k]} : Damage(k, [bytes EXCEPT ![k] = x])
      BY <1>10 DEF Change
    <2> DEFINE c == [bytes EXCEPT ![k] = x]
    <2>2. x \in Nat \ {bytes[k]}
      BY <2>1, CodecAssumption
    <2>3. Damage(k, c) /\ Damages(c, bytes, k)
      BY <2>1, <2>2 DEF Damages
    <2> HIDE DEF c
    <2> QED
      BY <2>3, DamageStep
  <1>11. CASE UNCHANGED vars
    BY <1>1, <1>11 DEF vars
  <1> QED
    BY <1>1, <1>2, <1>3, <1>4, <1>5, <1>6, <1>7, <1>8, <1>9, <1>10, <1>11 DEF Next

(* Whatever the widths of the integers and however many entries: a segment *)
(* that nothing damaged opens to the entries that were sealed, and after a *)
(* cut, a zeroed tail or a changed byte it opens to them or is refused, as *)
(* long as the checksum shows every damage of a frame. Damage of the       *)
(* header, and frames that are missing, are found without one.             *)
(* (write_segment, SegmentReader::open)                                    *)
THEOREM SealedFilesOpenWhole ==
  ASSUME StockFits
  PROVE  Spec /\ []DamageShows => []SealedWholeOrRefused
  <1>1. FileInv /\ DamageShows => SealedWholeOrRefused
    <2> SUFFICES ASSUME FileInv, DamageShows, kind = "segment"
                 PROVE  /\ SegmentOpen(bytes) \subseteq {wrote}
                        /\ ~damaged => SegmentOpen(bytes) = {wrote}
      BY DEF SealedWholeOrRefused
    <2> DEFINE n == Len(wrote)
               fs == RecordFrames(n, wrote)
               header == SegmentHeader(n)
    <2>1. SegmentInv
      BY DEF FileInv
    <2>2. /\ n \in 0..MaxOf(W32) /\ EntriesFit(n, wrote)
          /\ FileIs(bytes, header, n, fs, intact, damaged)
      BY <2>1 DEF SegmentInv
    <2>3. n \in Nat /\ fs \in [1..n -> SmallFrames] /\ Len(header) = SEG_HEADER_LEN
      BY <2>2, NoneCodes, RecordFramesRead, SegmentHeaderIs
    <2>4. DOMAIN wrote = 1..n /\ Frames = fs /\ HeaderLen = SEG_HEADER_LEN
      <3>1. wrote = [i \in 1..n |-> wrote[i]]
        BY <2>2 DEF EntriesFit
      <3>2. DOMAIN wrote = 1..n
        BY <3>1
      <3> QED
        BY <3>2 DEF Frames, HeaderLen, RecordFrames
    <2> HIDE DEF n, fs, header
    <2>5. PICK whole :
            /\ IsFile(whole, header, n, fs) /\ intact \in Nat
            /\ Kept(bytes, whole, intact) /\ Harm(bytes, whole, intact)
            /\ ~damaged => bytes = whole /\ intact = Len(whole)
      BY <2>2 DEF FileIs
    <2>6. Shows(bytes, intact, SEG_HEADER_LEN, n, fs)
      BY <2>4 DEF DamageShows, EndOf, Shows
    <2>7. CASE SEG_HEADER_LEN <= intact
      <3>1. /\ SegmentOpen(bytes) \subseteq {wrote}
            /\ intact = Len(whole) => SegmentOpen(bytes) = {wrote}
        BY <2>2, <2>5, <2>6, <2>7, SegmentRead DEF fs, header
      <3> QED
        BY <2>5, <3>1
    <2>8. CASE ~(SEG_HEADER_LEN <= intact)
      <3>1. SEG_HEADER_LEN \in Nat /\ intact < SEG_HEADER_LEN
        BY <2>2, <2>5, <2>8, SegmentHeaderIs
      <3>2. SegmentOpen(bytes) \subseteq {wrote}
        BY <2>2, <2>5, <3>1, SegmentRefused DEF fs, header
      <3>3. damaged
        <4>1. Len(header) <= Len(whole)
          BY <2>3, <2>5, WholeRead
        <4> QED
          BY <2>3, <2>5, <2>8, <4>1
      <3> QED
        BY <3>2, <3>3
    <2> QED
      BY <2>7, <2>8
  <1> QED
    BY <1>1, FileInit, FileStep, PTL DEF Spec

(* Whatever the widths of the integers and however many frames: a log that *)
(* is damaged behind its header, or whose creation was cut short in it,    *)
(* recovers from a first part of the frames that were written, and no      *)
(* frame in front of the damage is lost, as long as the checksum shows     *)
(* every damage of a frame. (append, commit, decode_frames,                *)
(* open_or_recover)                                                        *)
THEOREM DamagedLogsRecover ==
  ASSUME StockFits
  PROVE  Spec /\ []DamageShows => []DamagedLogIsPrefix
  <1>1. FileInv /\ DamageShows => DamagedLogIsPrefix
    <2> SUFFICES ASSUME FileInv, DamageShows, kind = "log",
                        intact >= WAL_HEADER_LEN \/ CreationCutShort
                 PROVE  \E j \in 0..Len(wrote) :
                           /\ \A i \in 1..Len(wrote) : EndOf(i) <= intact => i <= j
                           /\ LogOpen(bytes) = {RecoveryOf(SubSeq(wrote, 1, j))}
      BY DEF DamagedLogIsPrefix
    <2> DEFINE n == Len(wrote)
    <2>1. LogInv
      BY DEF FileInv
    <2>2. n \in 0..MaxFrames /\ LogFramesFit(n, wrote)
          /\ FileIs(bytes, HeaderBytes, n, wrote, intact, damaged)
      BY <2>1 DEF LogInv
    <2>3. n \in 0..MaxOf(W64) /\ W64 + 2 <= MaxOf(W32)
      <3>1. MaxFrames \in Nat /\ MaxOf(W64) \in Nat /\ MaxFrames <= MaxOf(W64)
            /\ W64 + 2 <= MaxOf(W32)
        BY FilesAssumption, CodecAssumption, MaxLarge DEF StockFits
      <3> QED
        BY <2>2, <3>1
    <2>4. wrote \in [1..n -> SmallFrames] /\ n \in Nat
      <3>1. MaxFrames \in Nat /\ n \in 0..MaxFrames
        BY <2>2, FilesAssumption
      <3> QED
        BY <2>2, <2>3, <3>1, LogFramesRead
    <2>5. DOMAIN wrote = 1..n /\ Frames = wrote /\ HeaderLen = WAL_HEADER_LEN
      BY <2>4 DEF Frames, HeaderLen
    <2> HIDE DEF n
    <2>6. PICK whole :
            /\ IsFile(whole, HeaderBytes, n, wrote) /\ intact \in Nat
            /\ Kept(bytes, whole, intact)
      BY <2>2 DEF FileIs
    <2>7. Shows(bytes, intact, WAL_HEADER_LEN, n, wrote)
      BY <2>5 DEF DamageShows, EndOf, Shows
    <2>8. CASE intact >= WAL_HEADER_LEN
      <3>1. WAL_HEADER_LEN <= intact
        BY <2>6, <2>8, LogHeaderIs
      <3>2. PICK j \in 0..n :
              /\ \A i \in 1..n : WAL_HEADER_LEN + Place(wrote, i) <= intact => i <= j
              /\ LogOpen(bytes) = {RecoveryOf(FirstPart(wrote, j))}
        BY <2>2, <2>3, <2>6, <2>7, <3>1, LogRead
      <3>3. FirstPart(wrote, j) = SubSeq(wrote, 1, j)
        BY <2>4, <3>2 DEF FirstPart, n
      <3>4. \A i \in 1..n : EndOf(i) <= intact => i <= j
        BY <2>5, <3>2 DEF EndOf
      <3> QED
        BY <3>2, <3>3, <3>4 DEF n
    <2>9. CASE ~(intact >= WAL_HEADER_LEN)
      <3>1. wrote = <<>> /\ Len(bytes) = intact /\ n = 0
        BY <2>9 DEF CreationCutShort, n
      <3>2. intact < WAL_HEADER_LEN
        BY <2>6, <2>9, LogHeaderIs
      <3>3. LogOpen(bytes) = {RecoveryOf(<<>>)}
        BY <2>6, <3>1, <3>2, LogHeaderCut
      <3>4. SubSeq(wrote, 1, 0) = <<>>
        BY <3>1
      <3> WITNESS 0 \in 0..Len(wrote)
      <3>5. \A i \in 1..Len(wrote) : EndOf(i) <= intact => i <= 0
        BY <3>1 DEF n
      <3> QED
        BY <3>3, <3>4, <3>5
    <2> QED
      BY <2>8, <2>9
  <1> QED
    BY <1>1, FileInit, FileStep, PTL DEF Spec
=============================================================================
