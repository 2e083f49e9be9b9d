------------------------------ MODULE Fracdex ------------------------------
(***************************************************************************)
(* Fractional index keys (pkg/fracdex/fracdex.go): a key can always be     *)
(* made strictly between two keys.                                         *)
(*                                                                         *)
(* A key is a sequence of numbers, compared like the bytes of the code's   *)
(* strings: a head, then digits in base Base (62 in the code). The heads   *)
(* 'a'..'z' are 0..MaxHead and 'Z'..'A' are -1..-(MaxHead+1) (MaxHead is   *)
(* 25 in the code). The empty key is the unbounded side of an interval     *)
(* and, as a result, the error that Go returns beside an empty string.     *)
(***************************************************************************)
EXTENDS Integers, Sequences, FiniteSets, FiniteSetsExt

CONSTANTS Base, MaxHead

ASSUME FracdexAssumption == Base \in Nat \ {0, 1} /\ MaxHead \in Nat

Empty == <<>>
Error == <<>>

Digit == 0..(Base - 1)
Fractions == Seq(Digit)
Heads == (-(MaxHead + 1))..MaxHead

Zeros(n) == [i \in 1..n |-> 0]

(***************************************************************************)
(* String comparison by byte, also that of COLLATE "C".                    *)
(***************************************************************************)
Less(a, b) ==
    \E i \in 1..Len(b) :
        /\ \A j \in 1..(i - 1) : j <= Len(a) /\ a[j] = b[j]
        /\ i <= Len(a) => a[i] < b[i]

(***************************************************************************)
(* The head says how many symbols the integer part has, itself included.   *)
(***************************************************************************)
IntegerLength(head) == IF head >= 0 THEN head + 2 ELSE 1 - head

IntegerPart(key) == SubSeq(key, 1, IntegerLength(key[1]))

Fraction(key) == SubSeq(key, IntegerLength(key[1]) + 1, Len(key))

SmallestInteger == <<-(MaxHead + 1)>> \o Zeros(MaxHead + 1)

First == <<0, 0>>

ValidateInteger(key) ==
    /\ key # Empty
    /\ key[1] \in Heads
    /\ IntegerLength(key[1]) <= Len(key)
    /\ \A i \in 2..Len(key) : key[i] \in Digit

TrailingZero(f) == f # Empty /\ f[Len(f)] = 0

ValidateOrderKey(key) ==
    /\ key # SmallestInteger
    /\ ValidateInteger(key)
    /\ ~TrailingZero(Fraction(key))

(***************************************************************************)
(* One up and one down in the integers, with carry and borrow; past the    *)
(* digits of one head, the next head has one digit more or one less.       *)
(***************************************************************************)
IncrementInteger(x) ==
    LET room == {i \in 2..Len(x) : x[i] # Base - 1}
        p    == Max(room)
        head == x[1] + 1
    IN CASE room # {} -> [i \in 1..Len(x) |-> CASE i < p -> x[i] [] i = p -> x[i] + 1 [] i > p -> 0]
         [] room = {} /\ head > MaxHead -> Error
         [] room = {} /\ head <= MaxHead -> <<head>> \o Zeros(IntegerLength(head) - 1)

DecrementInteger(x) ==
    LET room == {i \in 2..Len(x) : x[i] # 0}
        p    == Max(room)
        head == x[1] - 1
    IN CASE room # {} -> [i \in 1..Len(x) |-> CASE i < p -> x[i] [] i = p -> x[i] - 1 [] i > p -> Base - 1]
         [] room = {} /\ head \notin Heads -> Error
         [] room = {} /\ head \in Heads -> <<head>> \o [i \in 1..(IntegerLength(head) - 1) |-> Base - 1]

(***************************************************************************)
(* A prefix before a result, unless the result is an error.                *)
(***************************************************************************)
Under(prefix, rest) == IF rest = Error THEN Error ELSE prefix \o rest

(***************************************************************************)
(* How many leading digits of b the fraction a has, padded with zeros.     *)
(***************************************************************************)
CommonPrefix(a, b) ==
    Max({n \in 0..Len(b) : \A i \in 1..n : (IF i <= Len(a) THEN a[i] ELSE 0) = b[i]})

Rest(f, n) == SubSeq(f, n + 1, Len(f))

(***************************************************************************)
(* A fraction strictly between a and b, digits after an implicit "0."; an  *)
(* empty b is 1. Midpoint[<<a, b>>] is the code's midpoint(a, b).          *)
(***************************************************************************)
Midpoint[p \in Fractions \X Fractions] ==
    LET a      == p[1]
        b      == p[2]
        n      == CommonPrefix(a, b)
        digitA == IF a = Empty THEN 0 ELSE a[1]
        digitB == IF b = Empty THEN Base ELSE b[1]
    IN IF (b # Empty /\ ~Less(a, b)) \/ TrailingZero(a) \/ TrailingZero(b) THEN Error
       ELSE IF n > 0 THEN Under(SubSeq(b, 1, n), Midpoint[<<Rest(a, n), Rest(b, n)>>])
       ELSE IF digitB - digitA > 1 THEN <<(digitA + digitB + 1) \div 2>>
       ELSE IF Len(b) > 1 THEN SubSeq(b, 1, 1)
       ELSE Under(<<digitA>>, Midpoint[<<Rest(a, 1), Empty>>])

(***************************************************************************)
(* The four cases of KeyBetween, by which side is unbounded.               *)
(***************************************************************************)
KeyBefore(b) ==
    LET ib == IntegerPart(b)
    IN CASE ib = SmallestInteger -> Under(ib, Midpoint[<<Empty, Fraction(b)>>])
         [] ib # SmallestInteger /\ Less(ib, b) -> ib
         [] OTHER -> DecrementInteger(ib)

KeyAfter(a) ==
    LET ia == IntegerPart(a)
        i  == IncrementInteger(ia)
    IN IF i = Error THEN Under(ia, Midpoint[<<Fraction(a), Empty>>]) ELSE i

KeyInside(a, b) ==
    LET ia == IntegerPart(a)
        ib == IntegerPart(b)
        i  == IncrementInteger(ia)
    IN CASE ia = ib -> Under(ia, Midpoint[<<Fraction(a), Fraction(b)>>])
         [] ia # ib /\ i = Error -> Error
         [] ia # ib /\ i # Error /\ Less(i, b) -> i
         [] OTHER -> Under(ia, Midpoint[<<Fraction(a), Empty>>])

KeyBetween(a, b) ==
    IF (a # Empty /\ ~ValidateOrderKey(a)) \/ (b # Empty /\ ~ValidateOrderKey(b)) THEN Error
    ELSE CASE a = Empty /\ b = Empty -> First
           [] a = Empty /\ b # Empty -> KeyBefore(b)
           [] a # Empty /\ b = Empty -> KeyAfter(a)
           [] a # Empty /\ b # Empty -> IF Less(a, b) THEN KeyInside(a, b) ELSE Error

(***************************************************************************)
(* n keys in ascending order: one after the other towards an open side,    *)
(* by halves inside an interval. One key that fails fails them all.        *)
(***************************************************************************)
AllOrError(n, keys) == IF Len(keys) = n THEN keys ELSE Error

(* Mutant: the keys before an upper bound stay in the order they are made. *)
LowerLast(lower, c) == <<c>> \o lower

(* Towards an open lower side the keys are made downwards, then reversed.  *)
LowerFirst(lower, c) == lower \o <<c>>

NKeys[q \in Seq(Int) \X Seq(Int) \X Nat] ==
    LET a   == q[1]
        b   == q[2]
        n   == q[3]
        c   == KeyBetween(a, b)
        mid == n \div 2
    IN IF n = 0 \/ c = Error THEN <<>>
       ELSE IF n = 1 THEN <<c>>
       ELSE AllOrError(n,
              IF b = Empty THEN <<c>> \o NKeys[<<c, b, n - 1>>]
              ELSE IF a = Empty THEN LowerFirst(NKeys[<<a, c, n - 1>>], c)
              ELSE NKeys[<<a, c, mid>>] \o <<c>> \o NKeys[<<c, b, n - mid - 1>>])

NKeysBetween(a, b, n) == NKeys[<<a, b, n>>]

(***************************************************************************)
(* The keys of at most n symbols.                                          *)
(***************************************************************************)
OrderKeys(n) ==
    {k \in UNION {[1..m -> Heads \cup Digit] : m \in 2..n} : ValidateOrderKey(k)}

(***************************************************************************)
(* What KeyBetween promises for an interval that is not empty: a key       *)
(* strictly inside. It is valid, but that the key below the smallest       *)
(* integer but one is the reserved bound.                                  *)
(***************************************************************************)
BetweenStrict(a, b) ==
    LET key == KeyBetween(a, b)
    IN /\ key # Error
       /\ a # Empty => Less(a, key)
       /\ b # Empty => Less(key, b)
       /\ ValidateOrderKey(key) \/ (key = SmallestInteger /\ a = Empty)
=============================================================================
