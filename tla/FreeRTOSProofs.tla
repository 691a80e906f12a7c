-------------------------- MODULE FreeRTOSProofs --------------------------
(***************************************************************************)
(* Of the FreeRTOS model: the queues are bounded sequences, the stream     *)
(* buffer keeps the order of its bytes, and in a static application the    *)
(* lists of the kernel are consistent and the highest ready task runs. The *)
(* arguments share CallInv, what is known of the calls the tasks are in. A *)
(* queue is read through Contents, the items from pcReadFrom on; the       *)
(* stream through InBuffer, which lists the cells from the tail on and     *)
(* counts the bytes before each, so that the lengths of messages do not    *)
(* count; the kernel through StaticInv and the lemmas of KernelProofs.     *)
(***************************************************************************)
EXTENDS KernelProofs

(* The positions in a ring of L cells, from the one at r on, with one more *)
(* and one less.                                                           *)
LEMMA Positions ==
    ASSUME NEW L \in Nat \ {0}, NEW r \in 0 .. L - 1
    PROVE  /\ \A i \in 0 .. L : (r + i) % L \in 0 .. L - 1
           /\ \A i, j \in 1 .. L : i # j => (r + i) % L # (r + j) % L
           /\ \A i \in 0 .. L : (((r + i) % L) + 1) % L = (r + i + 1) % L
           /\ \A i \in 0 .. L : (((r + 1) % L) + i) % L = (r + i + 1) % L
           /\ (r - 1) % L \in 0 .. L - 1
           /\ \A i \in 0 .. L : (((r - 1) % L) + i + 1) % L = (r + i) % L
<1>1. ASSUME NEW x \in Int, 0 <= x, x < L PROVE x % L = x
  BY <1>1
<1>2. ASSUME NEW x \in Int, L <= x, x < 2 * L PROVE x % L = x - L
  BY <1>2
<1>3. ASSUME NEW x \in Int, x = 2 * L PROVE x % L = 0
  BY <1>3
<1>4. ASSUME NEW i \in 0 .. L
      PROVE  (r + i) % L = IF r + i < L THEN r + i ELSE r + i - L
  <2>1. CASE r + i < L
    BY <1>1, <2>1
  <2>2. CASE ~(r + i < L)
    BY <1>2, <2>2
  <2> QED BY <2>1, <2>2
<1>5. ASSUME NEW i \in 0 .. L
      PROVE  (r + i + 1) % L = IF r + i + 1 < L THEN r + i + 1
                               ELSE IF r + i + 1 = 2 * L THEN 0 ELSE r + i + 1 - L
  <2>1. CASE r + i + 1 < L
    BY <1>1, <2>1
  <2>2. CASE r + i + 1 >= L /\ r + i + 1 < 2 * L
    BY <1>2, <2>2
  <2>3. CASE r + i + 1 = 2 * L
    BY <1>3, <2>3
  <2> QED BY <2>1, <2>2, <2>3
<1>6. \A i \in 0 .. L : (r + i) % L \in 0 .. L - 1
  BY <1>4
<1>7. ASSUME NEW i \in 1 .. L, NEW j \in 1 .. L, i # j PROVE (r + i) % L # (r + j) % L
  <2>1. i \in 0 .. L /\ j \in 0 .. L
    OBVIOUS
  <2> QED BY <1>4, <1>7, <2>1
<1>8. ASSUME NEW i \in 0 .. L PROVE (((r + i) % L) + 1) % L = (r + i + 1) % L
  <2> DEFINE p == (r + i) % L
  <2>1. p = IF r + i < L THEN r + i ELSE r + i - L
    BY <1>4
  <2> HIDE DEF p
  <2>2. (p + 1) % L = IF p + 1 < L THEN p + 1 ELSE 0
    <3>1. CASE p + 1 < L
      BY <2>1, <3>1
    <3>2. CASE p + 1 = L
      BY <3>2
    <3> QED BY <2>1, <3>1, <3>2
  <2>3. (p + 1) % L = (r + i + 1) % L
    BY <1>5, <2>1, <2>2
  <2> QED BY <2>3 DEF p
<1>9. (r + 1) % L = IF r + 1 < L THEN r + 1 ELSE 0
  <2>1. CASE r + 1 < L
    BY <2>1
  <2>2. CASE r + 1 = L
    BY <2>2
  <2> QED BY <2>1, <2>2
<1>10. ASSUME NEW i \in 0 .. L PROVE (((r + 1) % L) + i) % L = (r + i + 1) % L
  <2>1. CASE r + 1 < L
    <3>1. ((r + 1) % L) + i = r + i + 1
      BY <1>9, <2>1
    <3> QED BY <3>1
  <2>2. CASE r + 1 = L
    <3>1. ((r + 1) % L) + i = i
      BY <1>9, <2>2
    <3>2. i % L = IF i < L THEN i ELSE 0
      <4>1. CASE i < L
        BY <4>1
      <4>2. CASE i = L
        BY <4>2
      <4> QED BY <4>1, <4>2
    <3> QED BY <1>5, <2>2, <3>1, <3>2
  <2> QED BY <2>1, <2>2
<1>11. (r - 1) % L = IF r = 0 THEN L - 1 ELSE r - 1
  <2>1. CASE r = 0
    BY <2>1
  <2>2. CASE r > 0
    BY <2>2
  <2> QED BY <2>1, <2>2
<1>12. (r - 1) % L \in 0 .. L - 1
  BY <1>11
<1>13. ASSUME NEW i \in 0 .. L PROVE (((r - 1) % L) + i + 1) % L = (r + i) % L
  <2>1. CASE r > 0
    <3>1. ((r - 1) % L) + i + 1 = r + i
      BY <1>11, <2>1
    <3> QED BY <3>1
  <2>2. CASE r = 0
    <3>1. ((r - 1) % L) + i + 1 = L + i
      BY <1>11, <2>2
    <3>2. (L + i) % L = IF i < L THEN i ELSE 0
      <4>1. CASE i < L
        BY <1>2, <4>1
      <4>2. CASE i = L
        BY <1>3, <4>2
      <4> QED BY <4>1, <4>2
    <3> QED BY <1>4, <2>2, <3>1, <3>2
  <2> QED BY <2>1, <2>2
<1> QED BY <1>6, <1>7, <1>8, <1>10, <1>12, <1>13
----------------------------------------------------------------------------
(***************************************************************************)
(* Queues                                                                  *)
(***************************************************************************)

(* A queue that items are handed over in, of a given length: what is       *)
(* written next follows the items that wait to be read.                    *)
Things == Items \cup {"nothing"}
IsRing(R, length) ==
    /\ R \in [kind : {"queue"}, uxLength : {length}, uxMessagesWaiting : 0 .. length,
              store : [0 .. length - 1 -> Things],
              write : 0 .. length - 1, read : 0 .. length - 1,
              cTxLock : Int, cRxLock : Int, holder : {NoTask}, uxRecursiveCallCount : {0}]
    /\ R.write = (R.read + 1 + R.uxMessagesWaiting) % length

(* The items that wait, from the one after pcReadFrom on; none if the      *)
(* queue is empty.                                                         *)
LEMMA ContentsOfRing ==
    ASSUME NEW n \in Nat \ {0}, NEW R, IsRing(R, n)
    PROVE  /\ Contents(R) \in Seq(Things)
           /\ Len(Contents(R)) = R.uxMessagesWaiting
           /\ \A i \in 1 .. R.uxMessagesWaiting : Contents(R)[i] = R.store[(R.read + i) % n]
<1> DEFINE m == R.uxMessagesWaiting
           r == R.read
<1>1. m \in 0 .. n /\ r \in 0 .. n - 1 /\ R.uxLength = n
  BY DEF IsRing
<1>2. R.store \in [0 .. n - 1 -> Things]
  BY DEF IsRing
<1> HIDE DEF m, r
<1>3. ASSUME NEW i \in 1 .. m PROVE R.store[(r + i) % n] \in Things
  <2>1. i \in 0 .. n
    BY <1>1
  <2>2. (r + i) % n \in 0 .. n - 1
    BY <1>1, <2>1, Positions
  <2> QED BY <1>2, <2>2
<1>4. Contents(R) = [i \in 1 .. m |-> R.store[(r + i) % n]]
  BY <1>1 DEF Contents, m, r
<1>5. /\ Contents(R) \in Seq(Things) /\ Len(Contents(R)) = m
      /\ \A i \in 1 .. m : Contents(R)[i] = R.store[(r + i) % n]
  <2> DEFINE e(i) == R.store[(r + i) % n]
  <2>1. m \in Nat /\ (\A i \in 1 .. m : e(i) \in Things) /\ Contents(R) = [i \in 1 .. m |-> e(i)]
    BY <1>1, <1>3, <1>4
  <2> HIDE DEF e
  <2>2. PICK c : c = [i \in 1 .. m |-> e(i)]
    OBVIOUS
  <2>3. c \in Seq(Things) /\ Len(c) = m /\ \A i \in 1 .. m : c[i] = e(i)
    BY ONLY <2>1, <2>2
  <2> QED BY <2>1, <2>2, <2>3 DEF e
<1> QED BY <1>5 DEF m, r

(* prvCopyDataToQueue at the back appends the item. *)
LEMMA SentToBack ==
    ASSUME NEW n \in Nat \ {0}, NEW R, IsRing(R, n), NEW item \in Items, ~Full(R)
    PROVE  LET S == Stored(R, item, "back")
           IN IsRing(S, n) /\ Contents(S) = Append(Contents(R), item)
<1> DEFINE w == R.write
           r == R.read
           m == R.uxMessagesWaiting
           S == Stored(R, item, "back")
<1>1. /\ w \in 0 .. n - 1 /\ r \in 0 .. n - 1 /\ m \in 0 .. n - 1 /\ R.uxLength = n
      /\ w = (r + 1 + m) % n
  BY DEF IsRing, Full
<1>2. S = [R EXCEPT !.store = [R.store EXCEPT ![w] = item], !.write = (w + 1) % n,
                    !.uxMessagesWaiting = m + 1]
  BY <1>1 DEF Stored, Next1
<1>3. /\ S.store = [R.store EXCEPT ![w] = item] /\ S.write = (w + 1) % n /\ S.read = r
      /\ S.uxMessagesWaiting = m + 1 /\ S.uxLength = n
  BY <1>1, <1>2 DEF IsRing
<1>4. /\ r + 1 + m = r + (m + 1) /\ m + 1 \in 0 .. n /\ r + 1 + (m + 1) = r + (m + 1) + 1
      /\ \A i \in 1 .. m : i \in 1 .. n /\ i # m + 1
      /\ m + 1 \in 1 .. n
  BY <1>1
<1> HIDE DEF w, r, m, S
<1>5. w = (r + (m + 1)) % n
  BY <1>1, <1>4
<1>. r \in 0 .. n - 1 /\ n \in Nat \ {0}
  BY <1>1
<1>6. ASSUME NEW i \in 1 .. m PROVE (r + i) % n # w /\ (r + i) % n \in 0 .. n - 1
  <2>1. i \in 1 .. n /\ i \in 0 .. n /\ i # m + 1 /\ m + 1 \in 1 .. n
    BY <1>4, <1>1
  <2>2. (r + i) % n # (r + (m + 1)) % n
    BY <2>1, Positions
  <2>3. (r + i) % n \in 0 .. n - 1
    BY <2>1, Positions
  <2> QED BY <1>5, <2>2, <2>3
<1>7. (w + 1) % n \in 0 .. n - 1 /\ (w + 1) % n = (r + 1 + (m + 1)) % n
  <2>1. (((r + (m + 1)) % n) + 1) % n = (r + (m + 1) + 1) % n
    BY <1>4, Positions
  <2>2. (w + 1) % n \in 0 .. n - 1
    BY <1>1
  <2> QED BY <1>4, <1>5, <2>1, <2>2
<1>8. IsRing(S, n)
  BY <1>1, <1>2, <1>3, <1>4, <1>7 DEF IsRing, Things, w, r, m
<1>9. \A i \in 1 .. m : S.store[(r + i) % n] = R.store[(r + i) % n]
  BY <1>3, <1>6 DEF IsRing
<1>10. S.store[(r + (m + 1)) % n] = item
  BY <1>1, <1>3, <1>5 DEF IsRing
<1>11. Contents(S) = Append(Contents(R), item)
  <2> DEFINE A == Append(Contents(R), item)
             C == Contents(S)
  <2>1. /\ Contents(R) \in Seq(Things) /\ Len(Contents(R)) = m
        /\ \A i \in 1 .. m : Contents(R)[i] = R.store[(r + i) % n]
    BY ContentsOfRing DEF m, r
  <2>2. /\ C \in Seq(Things) /\ Len(C) = m + 1
        /\ \A i \in 1 .. m + 1 : C[i] = S.store[(r + i) % n]
    <3>1. /\ C \in Seq(Things) /\ Len(C) = S.uxMessagesWaiting
          /\ \A i \in 1 .. S.uxMessagesWaiting : C[i] = S.store[(S.read + i) % n]
      BY <1>8, ContentsOfRing
    <3> QED BY <1>3, <3>1
  <2>3. /\ A \in Seq(Things) /\ Len(A) = m + 1 /\ A[m + 1] = item
        /\ \A i \in 1 .. m : A[i] = Contents(R)[i]
    BY <1>1, <2>1, AppendProperties DEF Things
  <2> HIDE DEF A, C
  <2>4. ASSUME NEW i \in 1 .. m + 1 PROVE C[i] = A[i]
    <3>1. CASE i = m + 1
      BY <1>10, <2>2, <2>3, <3>1
    <3>2. CASE i # m + 1
      <4>1. i \in 1 .. m
        BY <1>1, <3>2
      <4> QED BY <1>9, <2>1, <2>2, <2>3, <4>1
    <3> QED BY <3>1, <3>2
  <2>5. C = A
    BY <2>2, <2>3, <2>4, SeqEqual
  <2> QED BY <2>5 DEF A, C
<1> QED BY <1>8, <1>11 DEF S

(* prvCopyDataToQueue at the front puts the item before the others. *)
LEMMA SentToFront ==
    ASSUME NEW n \in Nat \ {0}, NEW R, IsRing(R, n), NEW item \in Items, ~Full(R)
    PROVE  LET S == Stored(R, item, "front")
           IN IsRing(S, n) /\ Contents(S) = <<item>> \o Contents(R)
<1> DEFINE w == R.write
           r == R.read
           m == R.uxMessagesWaiting
           p == (r - 1) % n
           S == Stored(R, item, "front")
<1>1. /\ w \in 0 .. n - 1 /\ r \in 0 .. n - 1 /\ m \in 0 .. n - 1 /\ R.uxLength = n
      /\ w = (r + 1 + m) % n
  BY DEF IsRing, Full
<1>2. S = [R EXCEPT !.store = [R.store EXCEPT ![r] = item], !.read = p,
                    !.uxMessagesWaiting = m + 1]
  BY <1>1 DEF Stored, Previous1
<1>3. /\ S.store = [R.store EXCEPT ![r] = item] /\ S.write = w /\ S.read = p
      /\ S.uxMessagesWaiting = m + 1 /\ S.uxLength = n
  BY <1>1, <1>2 DEF IsRing
<1>. r \in 0 .. n - 1 /\ n \in Nat \ {0}
  BY <1>1
<1> HIDE DEF w, r, m, S
<1>4. p \in 0 .. n - 1 /\ \A i \in 0 .. n : (p + i + 1) % n = (r + i) % n
  BY Positions
<1> HIDE DEF p
<1>5. (p + 1 + (m + 1)) % n = w
  <2>1. m + 1 \in 0 .. n /\ p + (m + 1) + 1 = p + 1 + (m + 1) /\ r + (m + 1) = r + 1 + m
    BY <1>1, <1>4
  <2>2. (p + (m + 1) + 1) % n = (r + (m + 1)) % n
    BY <1>4, <2>1
  <2> QED BY <1>1, <2>1, <2>2
<1>6. r % n = r
  OBVIOUS
<1>7. ASSUME NEW i \in 1 .. m
      PROVE  (r + i) % n # r /\ (r + i) % n \in 0 .. n - 1 /\ (p + (i + 1)) % n = (r + i) % n
  <2>1. /\ i \in 1 .. n /\ i \in 0 .. n /\ n \in 1 .. n /\ i # n
        /\ p + (i + 1) = p + i + 1
    BY <1>1, <1>4
  <2>2. (r + i) % n # (r + n) % n
    BY <2>1, Positions
  <2>3. (r + n) % n = r
    OBVIOUS
  <2>4. (r + i) % n \in 0 .. n - 1
    BY <2>1, Positions
  <2>5. (p + i + 1) % n = (r + i) % n
    BY <1>4, <2>1
  <2> QED BY <2>1, <2>2, <2>3, <2>4, <2>5
<1>8. (p + 1) % n = r
  <2>1. p + 0 + 1 = p + 1 /\ r + 0 = r /\ 0 \in 0 .. n
    BY <1>4
  <2>2. (p + 0 + 1) % n = (r + 0) % n
    BY <1>4, <2>1
  <2> QED BY <1>6, <2>1, <2>2
<1>9. m + 1 \in 0 .. n
  BY <1>1
<1>10. IsRing(S, n)
  BY <1>1, <1>2, <1>3, <1>4, <1>5, <1>9 DEF IsRing, Things, w, r, m
<1>11. \A i \in 1 .. m : S.store[(r + i) % n] = R.store[(r + i) % n]
  BY <1>3, <1>7 DEF IsRing
<1>12. S.store[r] = item
  BY <1>1, <1>3 DEF IsRing
<1>13. Contents(S) = <<item>> \o Contents(R)
  <2> DEFINE A == <<item>> \o Contents(R)
             C == Contents(S)
  <2>1. /\ Contents(R) \in Seq(Things) /\ Len(Contents(R)) = m
        /\ \A i \in 1 .. m : Contents(R)[i] = R.store[(r + i) % n]
    BY ContentsOfRing DEF m, r
  <2>2. /\ C \in Seq(Things) /\ Len(C) = m + 1
        /\ \A i \in 1 .. m + 1 : C[i] = S.store[(p + i) % n]
    <3>1. PICK T : T = S
      OBVIOUS
    <3>2. IsRing(T, n) /\ C = Contents(T)
      BY <1>10, <3>1
    <3>3. T.uxMessagesWaiting = m + 1 /\ T.read = p
      BY <1>3, <3>1
    <3>4. /\ C \in Seq(Things) /\ Len(C) = T.uxMessagesWaiting
          /\ \A i \in 1 .. T.uxMessagesWaiting : C[i] = T.store[(T.read + i) % n]
      BY ONLY <3>2, ContentsOfRing, n \in Nat \ {0}
    <3> QED BY ONLY <3>1, <3>3, <3>4
  <2>3. <<item>> \in Seq(Things) /\ Len(<<item>>) = 1 /\ <<item>>[1] = item
    BY DEF Things
  <2>4. /\ A \in Seq(Things) /\ Len(A) = 1 + m
        /\ \A i \in 1 .. 1 + m : A[i] = IF i <= 1 THEN <<item>>[i] ELSE Contents(R)[i - 1]
    BY <2>1, <2>3, ConcatProperties
  <2> HIDE DEF A, C
  <2>5. ASSUME NEW i \in 1 .. m + 1 PROVE C[i] = A[i]
    <3>1. CASE i = 1
      BY <1>1, <1>8, <1>12, <2>2, <2>3, <2>4, <3>1
    <3>2. CASE i # 1
      <4>1. i - 1 \in 1 .. m /\ i = (i - 1) + 1
        BY <1>1, <3>2
      <4>2. C[i] = S.store[(r + (i - 1)) % n]
        BY <1>7, <2>2, <4>1
      <4>3. A[i] = R.store[(r + (i - 1)) % n]
        BY <1>1, <2>1, <2>4, <3>2, <4>1
      <4> QED BY <1>11, <4>1, <4>2, <4>3
    <3> QED BY <3>1, <3>2
  <2>6. C = A
    BY <1>1, <2>2, <2>4, <2>5, SeqEqual
  <2> QED BY <2>6 DEF A, C
<1> QED BY <1>10, <1>13 DEF S

(* xQueueOverwrite leaves a queue of one item holding the new one. *)
LEMMA Overwritten ==
    ASSUME NEW R, IsRing(R, 1), NEW item \in Items
    PROVE  LET S == Stored(R, item, "overwrite")
           IN IsRing(S, 1) /\ Contents(S) = <<item>>
<1> DEFINE S == Stored(R, item, "overwrite")
<1>1. /\ R.write = 0 /\ R.read = 0 /\ R.uxMessagesWaiting \in {0, 1} /\ R.uxLength = 1
      /\ R.store \in [0 .. 0 -> Things]
  BY DEF IsRing
<1>2. (0 - 1) % 1 = 0 /\ (0 + 1) % 1 = 0 /\ (0 + 1 + 1) % 1 = 0
  OBVIOUS
<1>3. S = [R EXCEPT !.store = [R.store EXCEPT ![0] = item], !.read = 0, !.uxMessagesWaiting = 1]
  <2>1. S = [R EXCEPT !.store = [R.store EXCEPT ![R.read] = item], !.read = (R.read - 1) % R.uxLength,
                      !.uxMessagesWaiting = IF R.uxMessagesWaiting > 0 THEN R.uxMessagesWaiting
                                            ELSE R.uxMessagesWaiting + 1]
    BY DEF Stored, Previous1
  <2>2. /\ (R.read - 1) % R.uxLength = 0
        /\ (IF R.uxMessagesWaiting > 0 THEN R.uxMessagesWaiting ELSE R.uxMessagesWaiting + 1) = 1
    BY <1>1, <1>2
  <2> QED BY <1>1, <2>1, <2>2
<1>4. /\ S.store = [R.store EXCEPT ![0] = item] /\ S.write = 0 /\ S.read = 0
      /\ S.uxMessagesWaiting = 1 /\ S.uxLength = 1
  BY <1>1, <1>3 DEF IsRing
<1>5. S.store \in [0 .. 0 -> Things] /\ S.store[0] = item
  BY <1>1, <1>4 DEF Things
<1> HIDE DEF S
<1>6. IsRing(S, 1)
  <2>1. S \in [kind : {"queue"}, uxLength : {1}, uxMessagesWaiting : 0 .. 1,
                store : [0 .. 1 - 1 -> Things], write : 0 .. 1 - 1, read : 0 .. 1 - 1,
                cTxLock : Int, cRxLock : Int, holder : {NoTask}, uxRecursiveCallCount : {0}]
    <3>1. 1 - 1 = 0 /\ 0 \in 0 .. 0 /\ 1 \in 0 .. 1
      OBVIOUS
    <3> QED BY <1>3, <1>5, <3>1 DEF IsRing
  <2> QED BY <1>2, <1>4, <2>1 DEF IsRing
<1>7. /\ Contents(S) \in Seq(Things) /\ Len(Contents(S)) = 1
      /\ \A i \in 1 .. 1 : Contents(S)[i] = S.store[(0 + i) % 1]
  <2>1. /\ Contents(S) \in Seq(Things) /\ Len(Contents(S)) = S.uxMessagesWaiting
        /\ \A i \in 1 .. S.uxMessagesWaiting : Contents(S)[i] = S.store[(S.read + i) % 1]
    BY <1>6, ContentsOfRing
  <2> QED BY <1>4, <2>1
<1>8. Contents(S)[1] = item
  BY <1>2, <1>5, <1>7
<1>9. Contents(S) = <<item>>
  <2>1. <<item>> \in Seq(Things) /\ Len(<<item>>) = 1 /\ <<item>>[1] = item
    BY DEF Things
  <2> QED BY <1>7, <1>8, <2>1, SeqEqual
<1> QED BY <1>6, <1>9 DEF S

(* prvCopyDataFromQueue reads the item at the head and, once it is counted *)
(* off, removes it.                                                        *)
LEMMA ReadNext ==
    ASSUME NEW n \in Nat \ {0}, NEW R, IsRing(R, n), ~Empty(R)
    PROVE  /\ IsRing(Taken(R), n)
           /\ Contents(R) # <<>>
           /\ NextItem(R) = Head(Contents(R))
           /\ Contents(Taken(R)) = Tail(Contents(R))
<1> DEFINE w == R.write
           r == R.read
           m == R.uxMessagesWaiting
           p == (r + 1) % n
           S == Taken(R)
<1>1. /\ w \in 0 .. n - 1 /\ r \in 0 .. n - 1 /\ m \in 1 .. n /\ R.uxLength = n
      /\ w = (r + 1 + m) % n /\ R.kind = "queue"
  BY DEF IsRing, Empty
<1>2. S = [R EXCEPT !.uxMessagesWaiting = m - 1, !.read = p]
  BY <1>1 DEF Taken, Next1
<1>3. /\ S.store = R.store /\ S.write = w /\ S.read = p
      /\ S.uxMessagesWaiting = m - 1 /\ S.uxLength = n
  BY <1>1, <1>2 DEF IsRing
<1>. r \in 0 .. n - 1 /\ n \in Nat \ {0}
  BY <1>1
<1>4. NextItem(R) = R.store[p]
  BY <1>1 DEF NextItem, Next1
<1> HIDE DEF w, r, m, S
<1>5. p \in 0 .. n - 1 /\ \A i \in 0 .. n : (p + i) % n = (r + i + 1) % n
  <2>1. 1 \in 0 .. n
    OBVIOUS
  <2> QED BY <2>1, Positions
<1> HIDE DEF p
<1>6. (p + 1 + (m - 1)) % n = w
  <2>1. m \in 0 .. n /\ p + 1 + (m - 1) = p + m /\ r + m + 1 = r + 1 + m
    BY <1>1, <1>5
  <2>2. (p + m) % n = (r + m + 1) % n
    BY <1>5, <2>1
  <2> QED BY <1>1, <2>1, <2>2
<1>7. m - 1 \in 0 .. n
  BY <1>1
<1>8. IsRing(S, n)
  BY <1>1, <1>2, <1>3, <1>5, <1>6, <1>7 DEF IsRing, w, r, m
<1>9. /\ Contents(R) \in Seq(Things) /\ Len(Contents(R)) = m
      /\ \A i \in 1 .. m : Contents(R)[i] = R.store[(r + i) % n]
  BY ContentsOfRing DEF m, r
<1>10. /\ Contents(S) \in Seq(Things) /\ Len(Contents(S)) = m - 1
       /\ \A i \in 1 .. m - 1 : Contents(S)[i] = R.store[(p + i) % n]
  <2>1. /\ Contents(S) \in Seq(Things) /\ Len(Contents(S)) = S.uxMessagesWaiting
        /\ \A i \in 1 .. S.uxMessagesWaiting : Contents(S)[i] = S.store[(S.read + i) % n]
    BY <1>8, ContentsOfRing
  <2> QED BY <1>3, <2>1
<1>11. Contents(R) # <<>> /\ NextItem(R) = Head(Contents(R))
  <2>1. Contents(R) # <<>> /\ 1 \in 1 .. m
    BY <1>1, <1>9
  <2>2. Contents(R)[1] = R.store[p]
    BY <1>9, <2>1 DEF p
  <2>3. Head(Contents(R)) = Contents(R)[1]
    BY <1>9, <2>1
  <2> QED BY <1>4, <2>1, <2>2, <2>3
<1>12. Contents(S) = Tail(Contents(R))
  <2> DEFINE C == Contents(S)
             T == Tail(Contents(R))
  <2>1. /\ T \in Seq(Things) /\ Len(T) = m - 1
        /\ \A i \in 1 .. m - 1 : T[i] = Contents(R)[i + 1]
    BY <1>9, <1>11, HeadTailProperties
  <2> HIDE DEF C, T
  <2>2. ASSUME NEW i \in 1 .. m - 1 PROVE C[i] = T[i]
    <3>1. i \in 0 .. n /\ i + 1 \in 1 .. m /\ r + (i + 1) = r + i + 1
      BY <1>1
    <3>2. (p + i) % n = (r + (i + 1)) % n
      BY <1>5, <3>1
    <3>3. C[i] = R.store[(r + (i + 1)) % n]
      BY <1>10, <3>2 DEF C
    <3>4. T[i] = R.store[(r + (i + 1)) % n]
      BY <1>9, <2>1, <3>1
    <3> QED BY <3>3, <3>4
  <2>3. C = T
    BY <1>10, <2>1, <2>2, SeqEqual DEF C
  <2> QED BY <2>3 DEF C, T
<1> QED BY <1>8, <1>11, <1>12 DEF S

(* xQueueGenericReset leaves an empty queue. *)
LEMMA Emptied ==
    ASSUME NEW n \in Nat \ {0}, NEW R, IsRing(R, n)
    PROVE  LET S == [R EXCEPT !.uxMessagesWaiting = 0, !.write = 0, !.read = R.uxLength - 1,
                              !.cRxLock = queueUNLOCKED, !.cTxLock = queueUNLOCKED]
           IN IsRing(S, n) /\ Contents(S) = <<>>
<1> DEFINE S == [R EXCEPT !.uxMessagesWaiting = 0, !.write = 0, !.read = R.uxLength - 1,
                          !.cRxLock = queueUNLOCKED, !.cTxLock = queueUNLOCKED]
<1>1. n % n = 0 /\ (n - 1) + 1 + 0 = n
  OBVIOUS
<1>2. /\ S.write = 0 /\ S.read = n - 1 /\ S.uxMessagesWaiting = 0 /\ S.uxLength = n
      /\ S.store = R.store
  BY DEF IsRing
<1>3. IsRing(S, n)
  <2>1. S \in [kind : {"queue"}, uxLength : {n}, uxMessagesWaiting : 0 .. n,
                store : [0 .. n - 1 -> Things], write : 0 .. n - 1, read : 0 .. n - 1,
                cTxLock : Int, cRxLock : Int, holder : {NoTask}, uxRecursiveCallCount : {0}]
    <3>1. /\ 0 \in 0 .. n /\ 0 \in 0 .. n - 1 /\ n - 1 \in 0 .. n - 1 /\ queueUNLOCKED \in Int
          /\ R.uxLength = n
      BY DEF IsRing, queueUNLOCKED
    <3> QED BY <3>1 DEF IsRing
  <2>2. (S.read + 1 + S.uxMessagesWaiting) % n = S.write
    BY <1>1, <1>2
  <2> QED BY <2>1, <2>2 DEF IsRing
<1>4. Contents(S) \in Seq(Things) /\ Len(Contents(S)) = 0
  BY <1>2, <1>3, ContentsOfRing
<1> QED BY <1>3, <1>4, EmptySeq

----------------------------------------------------------------------------
(***************************************************************************)
(* Calls                                                                   *)
(***************************************************************************)

Locals == {"pc", "stage", "ticks", "set", "since", "inherited", "outcome", "space"}

CallInv ==
    /\ \E name \in DOMAIN Scenarios : scenario = Scenarios[name]
    /\ served \in Nat
    /\ DOMAIN call = Tasks
    /\ \A t \in Tasks : DOMAIN call[t] = Locals /\ call[t].pc \in DOMAIN Program(t)

(* What a step makes of the call of a task: it goes on with it, or enters  *)
(* another.  A step that is no step of a stream buffer leaves aside the    *)
(* calls for one that have looked at it and are still to act on that.      *)
StreamCalls == StreamSend \cup StreamReceive
Looking == {"start", "test", "wait", "waited", "forget", "check", "write", "read"}

Aside(t) == \/ call'[t] = call[t]
            \/ call'[t].stage \notin Looking
            \/ Request(t).api \notin StreamCalls

GoesOn(t, aside) ==
    \/ /\ DOMAIN call'[t] = Locals /\ call'[t].pc = call[t].pc
       /\ aside => Aside(t)
    \/ \E n \in Nat \ {0} : call'[t] = Enter(Program(t), n)

CallsGoOn(aside) == /\ scenario' = scenario /\ served' \in Nat
                    /\ DOMAIN call' = Tasks
                    /\ \A t \in Tasks : GoesOn(t, aside)

(* The lesser of two numbers. *)
LEMMA Least ==
    ASSUME NEW a \in Int, NEW b \in Int
    PROVE  Min({a, b}) \in {a, b} /\ Min({a, b}) <= a /\ Min({a, b}) <= b
<1>1. \E x \in {a, b} : \A y \in {a, b} : x <= y
  BY SMT
<1> QED BY <1>1 DEF Min

(* The call after the last one of a program is its first. *)
LEMMA NextCall ==
    ASSUME CallInv, NEW t \in Tasks
    PROVE  call[t].pc + 1 \in Nat \ {0} /\ call[t].pc + 2 \in Nat \ {0}
<1>1. Program(t) \in Seq(ToSet(Program(t)))
  BY ScenariosAssumption DEF CallInv, Program
<1>2. call[t].pc \in 1 .. Len(Program(t)) /\ Len(Program(t)) \in Nat
  BY <1>1 DEF CallInv
<1> QED BY <1>2

(* A call just entered has looked at nothing. *)
LEMMA Entered ==
    ASSUME NEW program, program \in Seq(ToSet(program)), program # <<>>, NEW n \in Nat \ {0}
    PROVE  /\ DOMAIN Enter(program, n) = Locals
           /\ Enter(program, n).pc \in DOMAIN program
<1>1. DOMAIN Enter(program, n) = Locals
  BY DEF Enter, Locals
<1>2. Len(program) \in Nat \ {0} /\ DOMAIN program = 1 .. Len(program)
  OBVIOUS
<1>3. Min({n, Len(program)}) \in 1 .. Len(program)
  <2>1. Min({n, Len(program)}) \in {n, Len(program)} /\ Min({n, Len(program)}) <= Len(program)
    <3>1. n \in Int /\ Len(program) \in Int
      BY <1>2
    <3> QED BY <3>1, Least
  <2> QED BY <1>2, <2>1
<1>4. Enter(program, n).pc = Min({n, Len(program)})
  BY DEF Enter
<1> QED BY <1>1, <1>2, <1>3, <1>4

(* A call that goes on keeps what is known of the calls. *)
LEMMA CallsKept ==
    ASSUME CallInv, NEW aside, CallsGoOn(aside) PROVE CallInv'
<1>1. ASSUME NEW t \in Tasks
      PROVE  DOMAIN call'[t] = Locals /\ call'[t].pc \in DOMAIN Program(t)
  <2>1. Program(t) \in Seq(ToSet(Program(t))) /\ Program(t) # <<>>
    BY ScenariosAssumption DEF CallInv, Program
  <2>2. CASE \E n \in Nat \ {0} : call'[t] = Enter(Program(t), n)
    BY <2>1, <2>2, Entered
  <2>3. CASE call'[t].pc = call[t].pc /\ DOMAIN call'[t] = Locals
    BY <2>3 DEF CallInv
  <2> QED BY <2>2, <2>3 DEF CallsGoOn, GoesOn
<1> QED BY <1>1 DEF CallsGoOn, CallInv, Program

(* The ways in which a step moves the call of the task that runs. *)
SameCall(c) == DOMAIN c = Locals /\ c.pc = call[me].pc

Moves(aside) == \/ \E stage : /\ Goto(stage)
                              /\ aside => stage \notin Looking \/ Now.api \notin StreamCalls
                \/ \E c : /\ Set(c) /\ SameCall(c)
                          /\ aside => Now.api \notin StreamCalls
                \/ Return
                \/ Set(Enter(Program(me), call[me].pc + 2))

(* Each way to move the call of the running task goes on with it or enters *)
(* the next.                                                               *)
LEMMA MovesGoOn ==
    ASSUME NEW aside, CallInv, me \in Tasks, Moves(aside), Unserved PROVE CallsGoOn(aside)
<1>1. call[me].pc + 1 \in Nat \ {0} /\ call[me].pc + 2 \in Nat \ {0}
  BY NextCall
<1>2. ASSUME NEW c, Set(c), SameCall(c), aside => c.stage \notin Looking \/ Now.api \notin StreamCalls
      PROVE  CallsGoOn(aside)
  <2>1. ASSUME NEW t \in Tasks PROVE GoesOn(t, aside)
    <3>1. CASE t = me
      <4>1. call'[t] = c /\ Now = Request(t)
        BY <1>2, <3>1 DEF Set, CallInv, Now
      <4> QED BY <1>2, <3>1, <4>1 DEF SameCall, GoesOn, Aside
    <3>2. CASE t # me
      <4>1. call'[t] = call[t]
        BY <1>2, <3>2 DEF Set, CallInv
      <4> QED BY <4>1 DEF GoesOn, Aside, CallInv
    <3> QED BY <3>1, <3>2
  <2> QED BY <1>2, <2>1 DEF CallsGoOn, CallInv, Unserved, Set
<1>3. ASSUME NEW n \in Nat \ {0}, Set(Enter(Program(me), n)) PROVE CallsGoOn(aside)
  <2>1. ASSUME NEW t \in Tasks PROVE GoesOn(t, aside)
    BY <1>3 DEF Set, GoesOn, Aside, CallInv
  <2> QED BY <1>3, <2>1 DEF CallsGoOn, CallInv, Unserved, Set
<1>4. ASSUME NEW stage, Goto(stage), aside => stage \notin Looking \/ Now.api \notin StreamCalls
      PROVE  CallsGoOn(aside)
  <2>1. PICK c : c = [call[me] EXCEPT !.stage = stage]
    OBVIOUS
  <2>2. SameCall(c) /\ c.stage = stage
    BY <2>1 DEF SameCall, CallInv, Locals
  <2>3. Set(c)
    BY <1>4, <2>1 DEF Goto, Set
  <2> QED BY <1>2, <1>4, <2>2, <2>3
<1>5. CASE Return
  <2>1. Set(Enter(Program(me), call[me].pc + 1))
    BY <1>5 DEF Return, Set, CallInv
  <2> QED BY <1>1, <1>3, <2>1
<1>6. CASE Set(Enter(Program(me), call[me].pc + 2))
  BY <1>1, <1>3, <1>6
<1>7. ASSUME NEW c, Set(c), SameCall(c), aside => Now.api \notin StreamCalls PROVE CallsGoOn(aside)
  BY <1>2, <1>7
<1>8. CASE \E stage : /\ Goto(stage)
                      /\ aside => stage \notin Looking \/ Now.api \notin StreamCalls
  BY <1>4, <1>8
<1>9. CASE \E c : /\ Set(c) /\ SameCall(c)
                  /\ aside => Now.api \notin StreamCalls
  BY <1>7, <1>9
<1> QED BY <1>5, <1>6, <1>8, <1>9 DEF Moves

(* The calls of queues, groups, timers and tasks are no calls of a stream  *)
(* buffer.                                                                 *)
LEMMA Elsewhere ==
    \A api \in QueueCalls \cup UnlockCalls \cup {"prvTimerTask"} \cup NotifyCalls \cup WaitCalls : api \notin StreamCalls
BY DEF UnlockCalls, QueueCalls, SendCalls, ReceiveCalls, TakeCalls, NotifyCalls, WaitCalls,
       StreamCalls, StreamSend, StreamReceive

(* The calls of tasks.c. *)
LEMMA TaskCallGoesOn == CallInv /\ TaskCall => CallsGoOn(TRUE)
<1> SUFFICES ASSUME CallInv, TaskCall PROVE CallsGoOn(TRUE)
  OBVIOUS
<1>1. CASE CallSuspendAll
  <2>1. /\ me \in Tasks /\ Unserved
        /\ Goto("body")
    BY <1>1 DEF CallSuspendAll, InCall
  <2>2. Moves(TRUE)
    BY <2>1 DEF Moves, Looking
  <2> QED BY <2>1, <2>2, MovesGoOn
<1>2. CASE CallResumeAll
  <2>1. /\ me \in Tasks /\ Unserved
        /\ Goto(IF call[me].outcome = "blocked" /\ ~xTaskResumeAll(kernel).yielded THEN "yield" ELSE "after")
    BY <1>2 DEF CallResumeAll, InCall
  <2>2. Moves(TRUE)
    BY <2>1 DEF Moves, Looking
  <2> QED BY <2>1, <2>2, MovesGoOn
<1>3. CASE CallYield
  <2>1. /\ me \in Tasks /\ Unserved
        /\ Goto("after")
    BY <1>3 DEF CallYield, InCall
  <2>2. Moves(TRUE)
    BY <2>1 DEF Moves, Looking
  <2> QED BY <2>1, <2>2, MovesGoOn
<1>4. CASE DelayBody
  <2>1. /\ me \in Tasks /\ Unserved
        /\ Set([call[me] EXCEPT !.stage = "resume", !.outcome = "blocked"])
    BY <1>4 DEF DelayBody, InCall
  <2>2. Now.api \notin StreamCalls
    BY <1>4 DEF DelayBody, InCall, StreamCalls, StreamSend, StreamReceive
  <2>3. SameCall([call[me] EXCEPT !.stage = "resume", !.outcome = "blocked"])
    BY <2>1 DEF SameCall, CallInv, Locals
  <2>4. Moves(TRUE)
    BY <2>1, <2>2, <2>3 DEF Moves
  <2> QED BY <2>1, <2>4, MovesGoOn
<1>5. CASE CallReturns
  <2>1. /\ me \in Tasks /\ Unserved
        /\ Return
    BY <1>5 DEF CallReturns, InCall
  <2>2. Moves(TRUE)
    BY <2>1 DEF Moves
  <2> QED BY <2>1, <2>2, MovesGoOn
<1>6. CASE AbortLook
  <2>1. /\ me \in Tasks /\ Unserved
        /\ \/ Goto("abort")
           \/ Goto("resume")
    BY <1>6 DEF AbortLook, InCall
  <2>2. Now.api \notin StreamCalls
    BY <1>6 DEF AbortLook, InCall, StreamCalls, StreamSend, StreamReceive
  <2>3. Moves(TRUE)
    BY <2>1, <2>2 DEF Moves
  <2> QED BY <2>1, <2>3, MovesGoOn
<1>7. CASE AbortDelay
  <2>1. /\ me \in Tasks /\ Unserved
        /\ Goto("resume")
    BY <1>7 DEF AbortDelay, InCall
  <2>2. Now.api \notin StreamCalls
    BY <1>7 DEF AbortDelay, InCall, StreamCalls, StreamSend, StreamReceive
  <2>3. Moves(TRUE)
    BY <2>1, <2>2 DEF Moves
  <2> QED BY <2>1, <2>3, MovesGoOn
<1>8. CASE CatchUp
  <2>1. /\ me \in Tasks /\ Unserved
        /\ Goto("resume")
    BY <1>8 DEF CatchUp, InCall
  <2>2. Now.api \notin StreamCalls
    BY <1>8 DEF CatchUp, InCall, StreamCalls, StreamSend, StreamReceive
  <2>3. Moves(TRUE)
    BY <2>1, <2>2 DEF Moves
  <2> QED BY <2>1, <2>3, MovesGoOn
<1>9. CASE OneSection
  <2>1. /\ me \in Tasks /\ Unserved
        /\ Return
    BY <1>9 DEF OneSection, InCall
  <2>2. Moves(TRUE)
    BY <2>1 DEF Moves
  <2> QED BY <2>1, <2>2, MovesGoOn
<1>10. CASE SuspendStart
  <2>1. /\ me \in Tasks /\ Unserved
        /\ Goto("reset")
    BY <1>10 DEF SuspendStart, InCall
  <2>2. Now.api \notin StreamCalls
    BY <1>10 DEF SuspendStart, InCall, StreamCalls, StreamSend, StreamReceive
  <2>3. Moves(TRUE)
    BY <2>1, <2>2 DEF Moves
  <2> QED BY <2>1, <2>3, MovesGoOn
<1>11. CASE SuspendReset
  <2>1. /\ me \in Tasks /\ Unserved
        /\ \/ Goto("yield")
           \/ Return
    BY <1>11 DEF SuspendReset, InCall
  <2>2. Now.api \notin StreamCalls
    BY <1>11 DEF SuspendReset, InCall, StreamCalls, StreamSend, StreamReceive
  <2>3. Moves(TRUE)
    BY <2>1, <2>2 DEF Moves
  <2> QED BY <2>1, <2>3, MovesGoOn
<1>12. CASE DeleteStart
  <2>1. /\ me \in Tasks /\ Unserved
        /\ Goto(IF Now.on = me THEN "yield" ELSE "free")
    BY <1>12 DEF DeleteStart, InCall
  <2>2. Now.api \notin StreamCalls
    BY <1>12 DEF DeleteStart, InCall, StreamCalls, StreamSend, StreamReceive
  <2>3. Moves(TRUE)
    BY <2>1, <2>2 DEF Moves
  <2> QED BY <2>1, <2>3, MovesGoOn
<1>13. CASE DeleteFree
  BY <1>13 DEF DeleteFree, InCall, Unserved, CallsGoOn, GoesOn, CallInv, Aside
<1>14. CASE CreateStart
  <2>1. /\ me \in Tasks /\ Unserved
        /\ Goto("created")
    BY <1>14 DEF CreateStart, InCall
  <2>2. Now.api \notin StreamCalls
    BY <1>14 DEF CreateStart, InCall, StreamCalls, StreamSend, StreamReceive
  <2>3. Moves(TRUE)
    BY <2>1, <2>2 DEF Moves
  <2> QED BY <2>1, <2>3, MovesGoOn
<1>15. CASE CreateYield
  <2>1. /\ me \in Tasks /\ Unserved
        /\ Return
    BY <1>15 DEF CreateYield, InCall
  <2>2. Moves(TRUE)
    BY <2>1 DEF Moves
  <2> QED BY <2>1, <2>2, MovesGoOn
<1>16. CASE NotifyStart
  <2>1. /\ me \in Tasks /\ Unserved
        /\ Goto("woken")
    BY <1>16 DEF NotifyStart, InCall
  <2>2. Now.api \notin StreamCalls
    BY <1>16, Elsewhere DEF NotifyStart, InCall
  <2>3. Moves(TRUE)
    BY <2>1, <2>2 DEF Moves
  <2> QED BY <2>1, <2>3, MovesGoOn
<1>17. CASE NotifyEnd
  <2>1. /\ me \in Tasks /\ Unserved
        /\ Return
    BY <1>17 DEF NotifyEnd, InCall
  <2>2. Moves(TRUE)
    BY <2>1 DEF Moves
  <2> QED BY <2>1, <2>2, MovesGoOn
<1> QED BY <1>1, <1>2, <1>3, <1>4, <1>5, <1>6, <1>7, <1>8, <1>9, <1>10, <1>11, <1>12, <1>13,
           <1>14, <1>15, <1>16, <1>17 DEF TaskCall

(* The calls of queue.c. *)
LEMMA QueueCallGoesOn == CallInv /\ QueueCall => CallsGoOn(TRUE)
<1> SUFFICES ASSUME CallInv, QueueCall PROVE CallsGoOn(TRUE)
  OBVIOUS
<1>1. CASE xQueueGenericSend
  <2>1. /\ me \in Tasks /\ Unserved
        /\ Return
    BY <1>1 DEF xQueueGenericSend, InCall
  <2>2. Moves(TRUE)
    BY <2>1 DEF Moves
  <2> QED BY <2>1, <2>2, MovesGoOn
<1>2. CASE xQueueGiveMutexRecursive
  <2>1. /\ me \in Tasks /\ Unserved
        /\ Return
    BY <1>2 DEF xQueueGiveMutexRecursive, InCall
  <2>2. Moves(TRUE)
    BY <2>1 DEF Moves
  <2> QED BY <2>1, <2>2, MovesGoOn
<1>3. CASE xQueueTakeMutexRecursive
  <2>1. /\ me \in Tasks /\ Unserved
        /\ Return
    BY <1>3 DEF xQueueTakeMutexRecursive, InCall
  <2>2. Moves(TRUE)
    BY <2>1 DEF Moves
  <2> QED BY <2>1, <2>2, MovesGoOn
<1>4. CASE xQueueReceive
  <2>1. /\ me \in Tasks /\ Unserved
        /\ Return
    BY <1>4 DEF xQueueReceive, InCall
  <2>2. Moves(TRUE)
    BY <2>1 DEF Moves
  <2> QED BY <2>1, <2>2, MovesGoOn
<1>5. CASE xQueuePeek
  <2>1. /\ me \in Tasks /\ Unserved
        /\ Return
    BY <1>5 DEF xQueuePeek, InCall
  <2>2. Moves(TRUE)
    BY <2>1 DEF Moves
  <2> QED BY <2>1, <2>2, MovesGoOn
<1>6. CASE QueueFails
  <2>1. /\ me \in Tasks /\ Unserved
        /\ \/ Return
           \/ Set(Enter(Program(me), call[me].pc + 2))
    BY <1>6 DEF QueueFails, InCall, Fails
  <2>2. Now.api \notin StreamCalls
    BY <1>6, Elsewhere DEF QueueFails, InCall
  <2>3. Moves(TRUE)
    BY <2>1, <2>2 DEF Moves
  <2> QED BY <2>1, <2>3, MovesGoOn
<1>7. CASE QueueMustWait
  <2>1. /\ me \in Tasks /\ Unserved
        /\ \/ Goto("suspend")
           \/ Set([call[me] EXCEPT !.stage = "suspend", !.set = TRUE,
                  !.since = TimeOutState(kernel)])
    BY <1>7 DEF QueueMustWait, InCall
  <2>2. Now.api \notin StreamCalls
    BY <1>7, Elsewhere DEF QueueMustWait, InCall
  <2>3. SameCall([call[me] EXCEPT !.stage = "suspend", !.set = TRUE,
         !.since = TimeOutState(kernel)])
    BY <2>1 DEF SameCall, CallInv, Locals
  <2>4. Moves(TRUE)
    BY <2>1, <2>2, <2>3 DEF Moves
  <2> QED BY <2>1, <2>4, MovesGoOn
<1>8. CASE prvLockQueue
  <2>1. /\ me \in Tasks /\ Unserved
        /\ \/ Goto("check")
           \/ Goto("test")
    BY <1>8 DEF prvLockQueue, InCall
  <2>2. Now.api \notin StreamCalls
    BY <1>8, Elsewhere DEF prvLockQueue, InCall
  <2>3. Moves(TRUE)
    BY <2>1, <2>2 DEF Moves
  <2> QED BY <2>1, <2>3, MovesGoOn
<1>9. CASE QueueCheckForTimeOut
  <2>1. /\ me \in Tasks /\ Unserved
        /\ \/ Set([call[me] EXCEPT !.stage = "unlockTx", !.outcome = "aborted"])
           \/ Set([call[me] EXCEPT !.stage = "unlockTx", !.outcome = "expired", !.ticks = 0])
           \/ Set([call[me] EXCEPT !.stage = "test", !.ticks = TicksLeft(kernel,
                  call[me].since, @),
                         !.since = IF call[me].ticks = portMAX_DELAY THEN @ ELSE TimeOutState(kernel)])
    BY <1>9 DEF QueueCheckForTimeOut, InCall
  <2>2. Now.api \notin StreamCalls
    BY <1>9, Elsewhere DEF QueueCheckForTimeOut, InCall
  <2>3. SameCall([call[me] EXCEPT !.stage = "unlockTx", !.outcome = "aborted"])
    BY <2>1 DEF SameCall, CallInv, Locals
  <2>4. SameCall([call[me] EXCEPT !.stage = "unlockTx", !.outcome = "expired", !.ticks = 0])
    BY <2>1 DEF SameCall, CallInv, Locals
  <2>5. SameCall([call[me] EXCEPT !.stage = "test", !.ticks = TicksLeft(kernel, call[me].since,
         @), !.since = IF call[me].ticks = portMAX_DELAY THEN @ ELSE TimeOutState(kernel)])
    BY <2>1 DEF SameCall, CallInv, Locals
  <2>6. Moves(TRUE)
    BY <2>1, <2>2, <2>3, <2>4, <2>5 DEF Moves
  <2> QED BY <2>1, <2>6, MovesGoOn
<1>10. CASE QueueTest
  <2>1. /\ me \in Tasks /\ Unserved
        /\ \/ Set([call[me] EXCEPT !.stage = "unlockTx", !.outcome = "retry"])
           \/ Goto("inherit")
           \/ Goto("place")
    BY <1>10 DEF QueueTest, InCall
  <2>2. Now.api \notin StreamCalls
    BY <1>10, Elsewhere DEF QueueTest, InCall
  <2>3. SameCall([call[me] EXCEPT !.stage = "unlockTx", !.outcome = "retry"])
    BY <2>1 DEF SameCall, CallInv, Locals
  <2>4. Moves(TRUE)
    BY <2>1, <2>2, <2>3 DEF Moves
  <2> QED BY <2>1, <2>4, MovesGoOn
<1>11. CASE QueueInherit
  <2>1. /\ me \in Tasks /\ Unserved
        /\ Set([call[me] EXCEPT !.stage = "place", !.inherited = xTaskPriorityInherit(kernel,
               Q.holder).inherited])
    BY <1>11 DEF QueueInherit, InCall
  <2>2. Now.api \notin StreamCalls
    BY <1>11, Elsewhere DEF QueueInherit, InCall
  <2>3. SameCall([call[me] EXCEPT !.stage = "place", !.inherited = xTaskPriorityInherit(kernel,
         Q.holder).inherited])
    BY <2>1 DEF SameCall, CallInv, Locals
  <2>4. Moves(TRUE)
    BY <2>1, <2>2, <2>3 DEF Moves
  <2> QED BY <2>1, <2>4, MovesGoOn
<1>12. CASE QueuePlace
  <2>1. /\ me \in Tasks /\ Unserved
        /\ Set([call[me] EXCEPT !.stage = "unlockTx", !.outcome = "blocked"])
    BY <1>12 DEF QueuePlace, InCall
  <2>2. Now.api \notin StreamCalls
    BY <1>12, Elsewhere DEF QueuePlace, InCall
  <2>3. SameCall([call[me] EXCEPT !.stage = "unlockTx", !.outcome = "blocked"])
    BY <2>1 DEF SameCall, CallInv, Locals
  <2>4. Moves(TRUE)
    BY <2>1, <2>2, <2>3 DEF Moves
  <2> QED BY <2>1, <2>4, MovesGoOn
<1>13. CASE QueueUnlockTx
  <2>1. /\ me \in Tasks /\ Unserved
        /\ Goto("unlockRx")
    BY <1>13 DEF QueueUnlockTx, InCall
  <2>2. Now.api \notin StreamCalls
    BY <1>13, Elsewhere DEF QueueUnlockTx, InCall
  <2>3. Moves(TRUE)
    BY <2>1, <2>2 DEF Moves
  <2> QED BY <2>1, <2>3, MovesGoOn
<1>14. CASE QueueUnlockRx
  <2>1. /\ me \in Tasks /\ Unserved
        /\ Goto("resume")
    BY <1>14 DEF QueueUnlockRx, InCall
  <2>2. Now.api \notin StreamCalls
    BY <1>14, Elsewhere DEF QueueUnlockRx, InCall
  <2>3. Moves(TRUE)
    BY <2>1, <2>2 DEF Moves
  <2> QED BY <2>1, <2>3, MovesGoOn
<1>15. CASE QueueAfter
  <2>1. /\ me \in Tasks /\ Unserved
        /\ \/ Set([call[me] EXCEPT !.stage = "start", !.outcome = "none"])
           \/ Goto("disinherit")
           \/ Return
           \/ Set(Enter(Program(me), call[me].pc + 2))
    BY <1>15 DEF QueueAfter, InCall, Fails
  <2>2. Now.api \notin StreamCalls
    BY <1>15, Elsewhere DEF QueueAfter, InCall
  <2>3. SameCall([call[me] EXCEPT !.stage = "start", !.outcome = "none"])
    BY <2>1 DEF SameCall, CallInv, Locals
  <2>4. Moves(TRUE)
    BY <2>1, <2>2, <2>3 DEF Moves
  <2> QED BY <2>1, <2>4, MovesGoOn
<1>16. CASE QueueDisinherit
  <2>1. /\ me \in Tasks /\ Unserved
        /\ \/ Return
           \/ Set(Enter(Program(me), call[me].pc + 2))
    BY <1>16 DEF QueueDisinherit, InCall, Fails
  <2>2. Now.api \notin StreamCalls
    BY <1>16, Elsewhere DEF QueueDisinherit, InCall
  <2>3. Moves(TRUE)
    BY <2>1, <2>2 DEF Moves
  <2> QED BY <2>1, <2>3, MovesGoOn
<1>17. CASE xQueueGenericReset
  <2>1. /\ me \in Tasks /\ Unserved
        /\ Return
    BY <1>17 DEF xQueueGenericReset, InCall
  <2>2. Moves(TRUE)
    BY <2>1 DEF Moves
  <2> QED BY <2>1, <2>2, MovesGoOn
<1> QED BY <1>1, <1>2, <1>3, <1>4, <1>5, <1>6, <1>7, <1>8, <1>9, <1>10, <1>11, <1>12, <1>13,
           <1>14, <1>15, <1>16, <1>17 DEF QueueCall

(* The calls of event_groups.c. *)
LEMMA GroupCallGoesOn == CallInv /\ GroupCall => CallsGoOn(TRUE)
<1> SUFFICES ASSUME CallInv, GroupCall PROVE CallsGoOn(TRUE)
  OBVIOUS
<1>1. CASE GroupSetBits
  <2>1. /\ me \in Tasks /\ Unserved
        /\ Goto("resume")
    BY <1>1 DEF GroupSetBits, InCall
  <2>2. Now.api \notin StreamCalls
    BY <1>1 DEF GroupSetBits, InCall, StreamCalls, StreamSend, StreamReceive
  <2>3. Moves(TRUE)
    BY <2>1, <2>2 DEF Moves
  <2> QED BY <2>1, <2>3, MovesGoOn
<1>2. CASE xEventGroupClearBits
  <2>1. /\ me \in Tasks /\ Unserved
        /\ Return
    BY <1>2 DEF xEventGroupClearBits, InCall
  <2>2. Moves(TRUE)
    BY <2>1 DEF Moves
  <2> QED BY <2>1, <2>2, MovesGoOn
<1>3. CASE GroupWaitBody
  <2>1. /\ me \in Tasks /\ Unserved
        /\ \/ Set([call[me] EXCEPT !.stage = "resume", !.outcome = "met"])
           \/ Goto("resume")
           \/ Set([call[me] EXCEPT !.stage = "resume", !.outcome = "blocked"])
    BY <1>3 DEF GroupWaitBody, InCall, Blocks
  <2>2. Now.api \notin StreamCalls
    BY <1>3 DEF GroupWaitBody, InCall, StreamCalls, StreamSend, StreamReceive
  <2>3. SameCall([call[me] EXCEPT !.stage = "resume", !.outcome = "met"])
    BY <2>1 DEF SameCall, CallInv, Locals
  <2>4. SameCall([call[me] EXCEPT !.stage = "resume", !.outcome = "blocked"])
    BY <2>1 DEF SameCall, CallInv, Locals
  <2>5. Moves(TRUE)
    BY <2>1, <2>2, <2>3, <2>4 DEF Moves
  <2> QED BY <2>1, <2>5, MovesGoOn
<1>4. CASE GroupSyncBody
  <2>1. /\ me \in Tasks /\ Unserved
        /\ \/ Set([call[me] EXCEPT !.stage = "resume", !.outcome = "met"])
           \/ Goto("resume")
           \/ Set([call[me] EXCEPT !.stage = "resume", !.outcome = "blocked"])
    BY <1>4 DEF GroupSyncBody, InCall, Blocks
  <2>2. Now.api \notin StreamCalls
    BY <1>4 DEF GroupSyncBody, InCall, StreamCalls, StreamSend, StreamReceive
  <2>3. SameCall([call[me] EXCEPT !.stage = "resume", !.outcome = "met"])
    BY <2>1 DEF SameCall, CallInv, Locals
  <2>4. SameCall([call[me] EXCEPT !.stage = "resume", !.outcome = "blocked"])
    BY <2>1 DEF SameCall, CallInv, Locals
  <2>5. Moves(TRUE)
    BY <2>1, <2>2, <2>3, <2>4 DEF Moves
  <2> QED BY <2>1, <2>5, MovesGoOn
<1>5. CASE GroupAfter
  <2>1. /\ me \in Tasks /\ Unserved
        /\ \/ Goto("late")
           \/ Return
    BY <1>5 DEF GroupAfter, InCall
  <2>2. Now.api \notin StreamCalls
    BY <1>5, Elsewhere DEF GroupAfter, InCall
  <2>3. Moves(TRUE)
    BY <2>1, <2>2 DEF Moves
  <2> QED BY <2>1, <2>3, MovesGoOn
<1>6. CASE GroupLate
  <2>1. /\ me \in Tasks /\ Unserved
        /\ Return
    BY <1>6 DEF GroupLate, InCall
  <2>2. Moves(TRUE)
    BY <2>1 DEF Moves
  <2> QED BY <2>1, <2>2, MovesGoOn
<1> QED BY <1>1, <1>2, <1>3, <1>4, <1>5, <1>6 DEF GroupCall

(* The calls of stream_buffer.c, which alone act on what they have counted *)
(* there.                                                                  *)
LEMMA StreamCallGoesOn == CallInv /\ StreamCall => CallsGoOn(FALSE)
<1> SUFFICES ASSUME CallInv, StreamCall PROVE CallsGoOn(FALSE)
  OBVIOUS
<1>1. CASE SendStart
  <2>1. /\ me \in Tasks /\ Unserved
        /\ \/ Goto("write")
           \/ Set([call[me] EXCEPT !.stage = "test", !.since = TimeOutState(kernel)])
    BY <1>1 DEF SendStart, InCall
  <2>2. SameCall([call[me] EXCEPT !.stage = "test", !.since = TimeOutState(kernel)])
    BY <2>1 DEF SameCall, CallInv, Locals
  <2>3. Moves(FALSE)
    BY <2>1, <2>2 DEF Moves
  <2> QED BY <2>1, <2>3, MovesGoOn
<1>2. CASE SendTest
  <2>1. /\ me \in Tasks /\ Unserved
        /\ \/ Set([call[me] EXCEPT !.stage = "wait", !.space = SpacesAvailable])
           \/ Set([call[me] EXCEPT !.stage = "write", !.space = SpacesAvailable])
    BY <1>2 DEF SendTest, InCall
  <2>2. SameCall([call[me] EXCEPT !.stage = "wait", !.space = SpacesAvailable])
    BY <2>1 DEF SameCall, CallInv, Locals
  <2>3. SameCall([call[me] EXCEPT !.stage = "write", !.space = SpacesAvailable])
    BY <2>1 DEF SameCall, CallInv, Locals
  <2>4. Moves(FALSE)
    BY <2>1, <2>2, <2>3 DEF Moves
  <2> QED BY <2>1, <2>4, MovesGoOn
<1>3. CASE StreamWait
  <2>1. /\ me \in Tasks /\ Unserved
        /\ Goto("waited")
    BY <1>3 DEF StreamWait, InCall
  <2>2. Moves(FALSE)
    BY <2>1 DEF Moves
  <2> QED BY <2>1, <2>2, MovesGoOn
<1>4. CASE StreamWaited
  <2>1. /\ me \in Tasks /\ Unserved
        /\ Goto("forget")
    BY <1>4 DEF StreamWaited, InCall
  <2>2. Moves(FALSE)
    BY <2>1 DEF Moves
  <2> QED BY <2>1, <2>2, MovesGoOn
<1>5. CASE SendForget
  <2>1. /\ me \in Tasks /\ Unserved
        /\ Goto("check")
    BY <1>5 DEF SendForget, InCall
  <2>2. Moves(FALSE)
    BY <2>1 DEF Moves
  <2> QED BY <2>1, <2>2, MovesGoOn
<1>6. CASE SendCheckForTimeOut
  <2>1. /\ me \in Tasks /\ Unserved
        /\ \/ Set([call[me] EXCEPT !.stage = "write", !.outcome = "aborted"])
           \/ Set([call[me] EXCEPT !.stage = "write", !.outcome = "expired", !.ticks = 0])
           \/ Set([call[me] EXCEPT !.stage = "test", !.ticks = TicksLeft(kernel,
                  call[me].since, @),
                         !.since = IF call[me].ticks = portMAX_DELAY THEN @ ELSE TimeOutState(kernel)])
    BY <1>6 DEF SendCheckForTimeOut, InCall
  <2>2. SameCall([call[me] EXCEPT !.stage = "write", !.outcome = "aborted"])
    BY <2>1 DEF SameCall, CallInv, Locals
  <2>3. SameCall([call[me] EXCEPT !.stage = "write", !.outcome = "expired", !.ticks = 0])
    BY <2>1 DEF SameCall, CallInv, Locals
  <2>4. SameCall([call[me] EXCEPT !.stage = "test", !.ticks = TicksLeft(kernel, call[me].since,
         @), !.since = IF call[me].ticks = portMAX_DELAY THEN @ ELSE TimeOutState(kernel)])
    BY <2>1 DEF SameCall, CallInv, Locals
  <2>5. Moves(FALSE)
    BY <2>1, <2>2, <2>3, <2>4 DEF Moves
  <2> QED BY <2>1, <2>5, MovesGoOn
<1>7. CASE SendWrite
  <2>1. /\ me \in Tasks /\ Unserved
        /\ \/ Goto("written")
           \/ Return
    BY <1>7 DEF SendWrite, InCall
  <2>2. Moves(FALSE)
    BY <2>1 DEF Moves
  <2> QED BY <2>1, <2>2, MovesGoOn
<1>8. CASE SendWritten
  <2>1. /\ me \in Tasks /\ Unserved
        /\ \/ Goto("complete")
           \/ Return
    BY <1>8 DEF SendWritten, InCall
  <2>2. Moves(FALSE)
    BY <2>1 DEF Moves
  <2> QED BY <2>1, <2>2, MovesGoOn
<1>9. CASE CompleteSuspend
  <2>1. /\ me \in Tasks /\ Unserved
        /\ Goto("notify")
    BY <1>9 DEF CompleteSuspend, InCall
  <2>2. Moves(FALSE)
    BY <2>1 DEF Moves
  <2> QED BY <2>1, <2>2, MovesGoOn
<1>10. CASE CompleteNotify
  <2>1. /\ me \in Tasks /\ Unserved
        /\ Goto("resume")
    BY <1>10 DEF CompleteNotify, InCall
  <2>2. Moves(FALSE)
    BY <2>1 DEF Moves
  <2> QED BY <2>1, <2>2, MovesGoOn
<1>11. CASE StreamReturns
  <2>1. /\ me \in Tasks /\ Unserved
        /\ Return
    BY <1>11 DEF StreamReturns, InCall
  <2>2. Moves(FALSE)
    BY <2>1 DEF Moves
  <2> QED BY <2>1, <2>2, MovesGoOn
<1>12. CASE ReceiveStart
  <2>1. /\ me \in Tasks /\ Unserved
        /\ \/ Goto("wait")
           \/ Set([call[me] EXCEPT !.stage = "read", !.space = BytesInBuffer])
    BY <1>12 DEF ReceiveStart, InCall
  <2>2. SameCall([call[me] EXCEPT !.stage = "read", !.space = BytesInBuffer])
    BY <2>1 DEF SameCall, CallInv, Locals
  <2>3. Moves(FALSE)
    BY <2>1, <2>2 DEF Moves
  <2> QED BY <2>1, <2>3, MovesGoOn
<1>13. CASE ReceiveForget
  <2>1. /\ me \in Tasks /\ Unserved
        /\ Goto("count")
    BY <1>13 DEF ReceiveForget, InCall
  <2>2. Moves(FALSE)
    BY <2>1 DEF Moves
  <2> QED BY <2>1, <2>2, MovesGoOn
<1>14. CASE ReceiveCount
  <2>1. /\ me \in Tasks /\ Unserved
        /\ Set([call[me] EXCEPT !.stage = "read", !.space = BytesInBuffer])
    BY <1>14 DEF ReceiveCount, InCall
  <2>2. SameCall([call[me] EXCEPT !.stage = "read", !.space = BytesInBuffer])
    BY <2>1 DEF SameCall, CallInv, Locals
  <2>3. Moves(FALSE)
    BY <2>1, <2>2 DEF Moves
  <2> QED BY <2>1, <2>3, MovesGoOn
<1>15. CASE ReceiveRead
  <2>1. /\ me \in Tasks /\ Unserved
        /\ \/ Goto("complete")
           \/ Return
    BY <1>15 DEF ReceiveRead, InCall
  <2>2. Moves(FALSE)
    BY <2>1 DEF Moves
  <2> QED BY <2>1, <2>2, MovesGoOn
<1>16. CASE xStreamBufferReset
  <2>1. /\ me \in Tasks /\ Unserved
        /\ Return
    BY <1>16 DEF xStreamBufferReset, InCall
  <2>2. Moves(FALSE)
    BY <2>1 DEF Moves
  <2> QED BY <2>1, <2>2, MovesGoOn
<1>17. CASE xStreamBufferSetTriggerLevel
  <2>1. /\ me \in Tasks /\ Unserved
        /\ Return
    BY <1>17 DEF xStreamBufferSetTriggerLevel, InCall
  <2>2. Moves(FALSE)
    BY <2>1 DEF Moves
  <2> QED BY <2>1, <2>2, MovesGoOn
<1> QED BY <1>1, <1>2, <1>3, <1>4, <1>5, <1>6, <1>7, <1>8, <1>9, <1>10, <1>11, <1>12, <1>13,
           <1>14, <1>15, <1>16, <1>17 DEF StreamCall

(* The calls of timers.c, and the steps of the timer task. *)
LEMMA TimerCallGoesOn == CallInv /\ TimerCall => CallsGoOn(TRUE)
<1> SUFFICES ASSUME CallInv, TimerCall PROVE CallsGoOn(TRUE)
  OBVIOUS
<1>1. CASE xTimerGenericCommand
  <2>1. /\ me \in Tasks /\ Unserved
        /\ Set([call[me] EXCEPT !.stage = "start", !.space = kernel.xTickCount])
    BY <1>1 DEF xTimerGenericCommand, InCall
  <2>2. Now.api \notin StreamCalls
    BY <1>1 DEF xTimerGenericCommand, InCall, StreamCalls, StreamSend, StreamReceive
  <2>3. SameCall([call[me] EXCEPT !.stage = "start", !.space = kernel.xTickCount])
    BY <2>1 DEF SameCall, CallInv, Locals
  <2>4. Moves(TRUE)
    BY <2>1, <2>2, <2>3 DEF Moves
  <2> QED BY <2>1, <2>4, MovesGoOn
<1>2. CASE vTimerSetReloadMode
  <2>1. /\ me \in Tasks /\ Unserved
        /\ Return
    BY <1>2 DEF vTimerSetReloadMode, InCall
  <2>2. Moves(TRUE)
    BY <2>1 DEF Moves
  <2> QED BY <2>1, <2>2, MovesGoOn
<1>3. CASE prvGetNextExpireTime
  <2>1. /\ me \in Tasks /\ Unserved
        /\ Goto("suspend")
    BY <1>3 DEF prvGetNextExpireTime, InCall
  <2>2. Now.api \notin StreamCalls
    BY <1>3 DEF prvGetNextExpireTime, InCall, StreamCalls, StreamSend, StreamReceive
  <2>3. Moves(TRUE)
    BY <2>1, <2>2 DEF Moves
  <2> QED BY <2>1, <2>3, MovesGoOn
<1>4. CASE SampleTime
  <2>1. /\ me \in Tasks /\ Unserved
        /\ \/ Goto("resume")
           \/ Set([call[me] EXCEPT !.stage = "resume", !.outcome = "due"])
           \/ Goto("lock")
    BY <1>4 DEF SampleTime, InCall
  <2>2. Now.api \notin StreamCalls
    BY <1>4 DEF SampleTime, InCall, StreamCalls, StreamSend, StreamReceive
  <2>3. SameCall([call[me] EXCEPT !.stage = "resume", !.outcome = "due"])
    BY <2>1 DEF SameCall, CallInv, Locals
  <2>4. Moves(TRUE)
    BY <2>1, <2>2, <2>3 DEF Moves
  <2> QED BY <2>1, <2>4, MovesGoOn
<1>5. CASE QueueIsEmpty
  <2>1. /\ me \in Tasks /\ Unserved
        /\ Set([call[me] EXCEPT !.stage = IF Empty(Q) THEN "wait" ELSE "unlockTx",
               !.outcome = "blocked"])
    BY <1>5 DEF QueueIsEmpty, InCall
  <2>2. Now.api \notin StreamCalls
    BY <1>5 DEF QueueIsEmpty, InCall, StreamCalls, StreamSend, StreamReceive
  <2>3. SameCall([call[me] EXCEPT !.stage = IF Empty(Q) THEN "wait" ELSE "unlockTx",
         !.outcome = "blocked"])
    BY <2>1 DEF SameCall, CallInv, Locals
  <2>4. Moves(TRUE)
    BY <2>1, <2>2, <2>3 DEF Moves
  <2> QED BY <2>1, <2>4, MovesGoOn
<1>6. CASE vTaskPlaceOnEventListRestricted
  <2>1. /\ me \in Tasks /\ Unserved
        /\ Goto("unlockTx")
    BY <1>6 DEF vTaskPlaceOnEventListRestricted, InCall
  <2>2. Now.api \notin StreamCalls
    BY <1>6 DEF vTaskPlaceOnEventListRestricted, InCall, StreamCalls, StreamSend, StreamReceive
  <2>3. Moves(TRUE)
    BY <2>1, <2>2 DEF Moves
  <2> QED BY <2>1, <2>3, MovesGoOn
<1>7. CASE ProcessExpired
  <2>1. /\ me \in Tasks /\ Unserved
        /\ Goto("commands")
    BY <1>7 DEF ProcessExpired, InCall
  <2>2. Now.api \notin StreamCalls
    BY <1>7 DEF ProcessExpired, InCall, StreamCalls, StreamSend, StreamReceive
  <2>3. Moves(TRUE)
    BY <2>1, <2>2 DEF Moves
  <2> QED BY <2>1, <2>3, MovesGoOn
<1>8. CASE ReceiveCommand
  <2>1. /\ me \in Tasks /\ Unserved
        /\ \/ Goto("process")
           \/ Return
    BY <1>8 DEF ReceiveCommand, InCall
  <2>2. Now.api \notin StreamCalls
    BY <1>8 DEF ReceiveCommand, InCall, StreamCalls, StreamSend, StreamReceive
  <2>3. Moves(TRUE)
    BY <2>1, <2>2 DEF Moves
  <2> QED BY <2>1, <2>3, MovesGoOn
<1>9. CASE ProcessCommand
  <2>1. /\ me \in Tasks /\ Unserved
        /\ Goto("commands")
    BY <1>9 DEF ProcessCommand, InCall
  <2>2. Now.api \notin StreamCalls
    BY <1>9 DEF ProcessCommand, InCall, StreamCalls, StreamSend, StreamReceive
  <2>3. Moves(TRUE)
    BY <2>1, <2>2 DEF Moves
  <2> QED BY <2>1, <2>3, MovesGoOn
<1>10. CASE CallPended
  <2>1. /\ me \in Tasks /\ Unserved
        /\ Goto("commands")
    BY <1>10 DEF CallPended, InCall
  <2>2. Now.api \notin StreamCalls
    BY <1>10 DEF CallPended, InCall, StreamCalls, StreamSend, StreamReceive
  <2>3. Moves(TRUE)
    BY <2>1, <2>2 DEF Moves
  <2> QED BY <2>1, <2>3, MovesGoOn
<1>11. CASE xTimerGenericCommandFromISR
  BY <1>11 DEF xTimerGenericCommandFromISR, InCall, Unserved, CallsGoOn, GoesOn, CallInv,
     Aside, xQueueGenericSendFromISR, Serve
<1>12. CASE xEventGroupSetBitsFromISR
  BY <1>12 DEF xEventGroupSetBitsFromISR, InCall, Unserved, CallsGoOn, GoesOn, CallInv, Aside,
     xQueueGenericSendFromISR, Serve
<1> QED BY <1>1, <1>2, <1>3, <1>4, <1>5, <1>6, <1>7, <1>8, <1>9, <1>10, <1>11,
           <1>12 DEF TimerCall, prvTimerTask

(* The ticks and the context switches make no call. *)
LEMMA KernelStepGoesOn == CallInv /\ KernelStep => CallsGoOn(TRUE)
<1> SUFFICES ASSUME CallInv, KernelStep PROVE CallsGoOn(TRUE)
  OBVIOUS
<1>1. CASE TaskCall
  BY <1>1, TaskCallGoesOn
<1> USE DEF CallsGoOn, GoesOn, CallInv, Aside
<1>2. CASE CheckTasksWaitingTermination
  BY <1>2 DEF CheckTasksWaitingTermination, Unserved
<1>3. CASE IdleYield
  BY <1>3 DEF IdleYield, Unserved
<1>4. CASE PendSV
  BY <1>4 DEF PendSV, Unserved
<1>5. CASE SysTick
  BY <1>5 DEF SysTick
<1>6. CASE TaskInterrupt
  BY <1>6 DEF TaskInterrupt, Serve
<1> QED BY <1>1, <1>2, <1>3, <1>4, <1>5, <1>6 DEF KernelStep

(* An interrupt served moves no call. *)
LEMMA ServedGoesOn ==
    ASSUME CallInv, NEW result, Serve(result) PROVE CallsGoOn(TRUE)
<1>1. served' = served + 1 /\ call' = call /\ scenario' = scenario
  BY DEF Serve
<1> QED BY <1>1 DEF CallsGoOn, GoesOn, CallInv, Aside

(* The handlers move no call. *)
LEMMA InterruptGoesOn == CallInv /\ (QueueInterrupt \/ StreamInterrupt) => CallsGoOn(TRUE)
<1> SUFFICES ASSUME CallInv, QueueInterrupt \/ StreamInterrupt PROVE CallsGoOn(TRUE)
  OBVIOUS
<1>1. CASE xQueueSendFromISR
  <2>1. \E result : Serve(result)
    <3>1. CASE Full(IsrQ) /\ ISR.with[2] # "overwrite"
      BY <1>1, <3>1 DEF xQueueSendFromISR, xQueueGenericSendFromISR
    <3>2. CASE ~(Full(IsrQ) /\ ISR.with[2] # "overwrite")
      BY <1>1, <3>2 DEF xQueueSendFromISR, xQueueGenericSendFromISR
    <3> QED BY <3>1, <3>2
  <2> QED BY <2>1, ServedGoesOn
<1>2. CASE xQueueGiveFromISR
  <2>1. \E result : Serve(result)
    <3>1. CASE Full(IsrQ)
      BY <1>2, <3>1 DEF xQueueGiveFromISR
    <3>2. CASE ~Full(IsrQ)
      BY <1>2, <3>2 DEF xQueueGiveFromISR
    <3> QED BY <3>1, <3>2
  <2> QED BY <2>1, ServedGoesOn
<1>3. CASE xQueueReceiveFromISR
  <2>1. \E result : Serve(result)
    <3>1. CASE Empty(IsrQ)
      BY <1>3, <3>1 DEF xQueueReceiveFromISR
    <3>2. CASE ~Empty(IsrQ)
      BY <1>3, <3>2 DEF xQueueReceiveFromISR
    <3> QED BY <3>1, <3>2
  <2> QED BY <2>1, ServedGoesOn
<1>4. CASE xQueuePeekFromISR
  BY <1>4, ServedGoesOn DEF xQueuePeekFromISR
<1>5. CASE StreamInterrupt
  <2>1. CASE xStreamBufferSendFromISR
    <3>1. \E result : Serve(result)
      BY ONLY <2>1, Zenon DEF xStreamBufferSendFromISR
    <3> QED BY <3>1, ServedGoesOn
  <2>2. CASE xStreamBufferReceiveFromISR
    <3>1. \E result : Serve(result)
      BY ONLY <2>2, Zenon DEF xStreamBufferReceiveFromISR
    <3> QED BY <3>1, ServedGoesOn
  <2>3. CASE StreamCompletedFromISR
    <3>1. \E result : Serve(result)
      BY ONLY <2>3, Zenon DEF StreamCompletedFromISR
    <3> QED BY <3>1, ServedGoesOn
  <2> QED BY <1>5, <2>1, <2>2, <2>3 DEF StreamInterrupt
<1> QED BY <1>1, <1>2, <1>3, <1>4, <1>5 DEF QueueInterrupt

(* At the start every task enters its first call. *)
LEMMA InitCalls == Init => CallInv
<1> SUFFICES ASSUME Init PROVE CallInv
  OBVIOUS
<1>1. /\ \E name \in DOMAIN Scenarios : scenario = Scenarios[name]
      /\ served = 0 /\ call = [t \in Tasks |-> Enter(scenario.program[t], 1)]
  BY DEF Init, TaskInit
<1>2. ASSUME NEW t \in Tasks PROVE DOMAIN call[t] = Locals /\ call[t].pc \in DOMAIN Program(t)
  <2>1. Program(t) \in Seq(ToSet(Program(t))) /\ Program(t) # <<>>
    BY <1>1, ScenariosAssumption DEF Program
  <2>2. DOMAIN Enter(Program(t), 1) = Locals /\ Enter(Program(t), 1).pc \in DOMAIN Program(t)
    BY <2>1, Entered
  <2> QED BY <1>1, <2>2 DEF Program
<1> QED BY <1>1, <1>2 DEF CallInv

(* Every step keeps what is known of the calls. *)
LEMMA NextCalls == CallInv /\ [Next]_vars => CallInv'
<1> SUFFICES ASSUME CallInv, [Next]_vars PROVE CallInv'
  OBVIOUS
<1>1. CASE KernelStep
  BY <1>1, KernelStepGoesOn, CallsKept
<1>2. CASE QueueCall
  BY <1>2, QueueCallGoesOn, CallsKept
<1>3. CASE QueueInterrupt \/ StreamInterrupt
  BY <1>3, InterruptGoesOn, CallsKept
<1>4. CASE GroupCall
  BY <1>4, GroupCallGoesOn, CallsKept
<1>5. CASE StreamCall
  BY <1>5, StreamCallGoesOn, CallsKept
<1>6. CASE TimerCall
  BY <1>6, TimerCallGoesOn, CallsKept
<1>7. CASE UNCHANGED vars
  BY <1>7 DEF vars, taskVars, CallInv, Program
<1> QED BY <1>1, <1>2, <1>3, <1>4, <1>5, <1>6, <1>7 DEF Next

----------------------------------------------------------------------------
(***************************************************************************)
(* The queues implement bounded sequences                                  *)
(***************************************************************************)

(* The count of items sent while a queue was locked changes no item. *)
LEMMA TxRelocked ==
    ASSUME NEW n \in Nat \ {0}, NEW R, IsRing(R, n), NEW tx \in Int
    PROVE  LET S == [R EXCEPT !.cTxLock = tx]
           IN IsRing(S, n) /\ Contents(S) = Contents(R)
<1> DEFINE S == [R EXCEPT !.cTxLock = tx]
<1>1. /\ S.store = R.store /\ S.write = R.write /\ S.read = R.read
      /\ S.uxMessagesWaiting = R.uxMessagesWaiting /\ S.uxLength = R.uxLength
  BY DEF IsRing
<1>2. IsRing(S, n)
  BY DEF IsRing
<1>3. Contents(S) = Contents(R)
  BY <1>1 DEF Contents
<1> QED BY <1>2, <1>3

(* The count of items taken while a queue was locked changes no item. *)
LEMMA RxRelocked ==
    ASSUME NEW n \in Nat \ {0}, NEW R, IsRing(R, n), NEW rx \in Int
    PROVE  LET S == [R EXCEPT !.cRxLock = rx]
           IN IsRing(S, n) /\ Contents(S) = Contents(R)
<1> DEFINE S == [R EXCEPT !.cRxLock = rx]
<1>1. /\ S.store = R.store /\ S.write = R.write /\ S.read = R.read
      /\ S.uxMessagesWaiting = R.uxMessagesWaiting /\ S.uxLength = R.uxLength
  BY DEF IsRing
<1>2. IsRing(S, n)
  BY DEF IsRing
<1>3. Contents(S) = Contents(R)
  BY <1>1 DEF Contents
<1> QED BY <1>2, <1>3

QueueInv == /\ DOMAIN queue = QueueNames
            /\ DOMAIN buffer = Tasks \cup {Handler}
            /\ \A q \in DataQueues : IsRing(queue[q], NewQueue[q].uxLength)

FifoStep == QueueInv' /\ [F!Next]_(F!vars)

(* The calls of tasks and of handlers are proper. *)
LEMMA ProperCall == ASSUME CallInv, me \in Tasks PROVE Proper(Now, QueueRequests)
<1>1. PICK name \in DOMAIN Scenarios : scenario = Scenarios[name]
  BY DEF CallInv
<1>2. call[me].pc \in DOMAIN scenario.program[me]
  BY DEF CallInv, Program
<1>3. \A i \in DOMAIN scenario.program[me] : Proper(scenario.program[me][i], QueueRequests)
  BY <1>1, QueuesAssumption
<1> QED BY <1>2, <1>3 DEF Now, Request, Program

(* The handler at work makes one of the calls the scenario gives it. *)
LEMMA ProperInterrupt ==
    ASSUME CallInv, served < Len(Interrupts) PROVE Proper(ISR, QueueInterrupts)
<1>1. PICK name \in DOMAIN Scenarios : scenario = Scenarios[name]
  BY DEF CallInv
<1>2. Interrupts \in Seq(ToSet(Interrupts))
  BY <1>1, ScenariosAssumption DEF Interrupts
<1>3. served + 1 \in DOMAIN Interrupts
  BY <1>2 DEF CallInv
<1>4. \A i \in DOMAIN Interrupts : Proper(Interrupts[i], QueueInterrupts)
  BY <1>1, QueuesAssumption DEF Interrupts
<1> QED BY <1>3, <1>4 DEF ISR

(* What a change of one queue comes to. *)
LEMMA Becomes ==
    ASSUME QueueInv, NEW q \in DataQueues, NEW R, queue' = [queue EXCEPT ![q] = R],
           IsRing(R, NewQueue[q].uxLength), DOMAIN buffer' = DOMAIN buffer
    PROVE  QueueInv' /\ F!Become(q, Contents(R))
<1>1. q \in DOMAIN queue
  BY QueuesAssumption DEF QueueInv
<1>2. QueueInv'
  BY <1>1 DEF QueueInv
<1>3. ASSUME NEW d \in DataQueues
      PROVE  Contents(queue'[d]) = IF d = q THEN Contents(R) ELSE Contents(queue[d])
  BY <1>1, QueuesAssumption DEF QueueInv
<1>4. F!Become(q, Contents(R))
  BY <1>3 DEF F!Become
<1> QED BY <1>2, <1>4

(* A step that touches neither queue nor buffer stutters. *)
LEMMA Untouched == ASSUME QueueInv, UNCHANGED queueVars PROVE FifoStep
BY DEF FifoStep, QueueInv, queueVars, F!vars

(* A step that leaves the items of every queue as they are stutters. *)
LEMMA SameContents ==
    ASSUME QueueInv, NEW q, NEW R, queue' = [queue EXCEPT ![q] = R], UNCHANGED buffer,
           q \in DataQueues => IsRing(R, NewQueue[q].uxLength) /\ Contents(R) = Contents(queue[q])
    PROVE  FifoStep
<1>1. QueueInv'
  BY DEF QueueInv
<1>2. ASSUME NEW d \in DataQueues PROVE Contents(queue'[d]) = Contents(queue[d])
  BY QueuesAssumption DEF QueueInv
<1>3. UNCHANGED F!vars
  BY <1>2 DEF F!vars
<1> QED BY <1>1, <1>3 DEF FifoStep

(* An item that is sent waits in its queue after, or before, the others. *)
LEMMA Sent ==
    ASSUME QueueInv, NEW q \in DataQueues, NEW with, Sendable(q, with),
           ~Full(queue[q]) \/ with[2] = "overwrite"
    PROVE  LET S == Stored(queue[q], with[1], with[2])
           IN /\ IsRing(S, NewQueue[q].uxLength)
              /\ \A R : (/\ IsRing(R, NewQueue[q].uxLength) /\ Contents(R) = Contents(S)
                         /\ queue' = [queue EXCEPT ![q] = R] /\ UNCHANGED buffer) => FifoStep
<1> DEFINE n == NewQueue[q].uxLength
           S == Stored(queue[q], with[1], with[2])
           Arrives == \/ Contents(S) = Append(Contents(queue[q]), with[1]) /\ ~Full(queue[q])
                      \/ Contents(S) = <<with[1]>> \o Contents(queue[q]) /\ ~Full(queue[q])
                      \/ Contents(S) = <<with[1]>> /\ n = 1
<1>1. n \in Nat \ {0} /\ IsRing(queue[q], n) /\ with[1] \in Items
  BY QueuesAssumption DEF QueueInv, Sendable
<1>2. IsRing(S, n) /\ Arrives
  <2>1. CASE with[2] = "back"
    BY <1>1, <2>1, SentToBack
  <2>2. CASE with[2] = "front"
    BY <1>1, <2>2, SentToFront
  <2>3. CASE with[2] = "overwrite" /\ n = 1
    BY <1>1, <2>3, Overwritten
  <2> QED BY <2>1, <2>2, <2>3 DEF Sendable
<1>3. ASSUME NEW R, IsRing(R, n), Contents(R) = Contents(S),
             queue' = [queue EXCEPT ![q] = R], UNCHANGED buffer
      PROVE  FifoStep
  <2>1. QueueInv' /\ F!Become(q, Contents(S))
    BY <1>3, Becomes
  <2>2. ~Full(queue[q]) => F!HasRoom(q)
    <3>1. Len(Contents(queue[q])) = queue[q].uxMessagesWaiting
      BY <1>1, ContentsOfRing
    <3>2. ~Full(queue[q]) => queue[q].uxMessagesWaiting < n
      BY <1>1 DEF Full, IsRing
    <3> QED BY <3>1, <3>2 DEF F!HasRoom
  <2>3. F!Send(q, with[1]) \/ F!Overwrite(q, with[1])
    BY <1>2, <1>3, <2>1, <2>2 DEF F!Send, F!Overwrite
  <2> QED BY <1>1, <2>1, <2>3 DEF FifoStep, F!Next
<1> QED BY <1>2, <1>3

(* An item that is taken is the one that was at the head. *)
LEMMA Got ==
    ASSUME QueueInv, NEW q \in DataQueues, ~Empty(queue[q]), NEW u \in Tasks \cup {Handler},
           buffer' = [buffer EXCEPT ![u] = NextItem(queue[q])]
    PROVE  /\ IsRing(Taken(queue[q]), NewQueue[q].uxLength)
           /\ queue' = queue => FifoStep
           /\ \A R : (/\ IsRing(R, NewQueue[q].uxLength) /\ Contents(R) = Contents(Taken(queue[q]))
                      /\ queue' = [queue EXCEPT ![q] = R]) => FifoStep
<1> DEFINE n == NewQueue[q].uxLength
<1>1. n \in Nat \ {0} /\ IsRing(queue[q], n)
  BY QueuesAssumption DEF QueueInv
<1>2. /\ IsRing(Taken(queue[q]), n)
      /\ Contents(queue[q]) # <<>>
      /\ NextItem(queue[q]) = Head(Contents(queue[q]))
      /\ Contents(Taken(queue[q])) = Tail(Contents(queue[q]))
  BY <1>1, ReadNext
<1>3. ASSUME queue' = queue PROVE FifoStep
  <2>1. F!Peek(q, u)
    BY <1>2, <1>3 DEF F!Peek
  <2> QED BY <1>3, <2>1 DEF FifoStep, F!Next, QueueInv
<1>4. ASSUME NEW R, IsRing(R, n), Contents(R) = Contents(Taken(queue[q])), queue' = [queue EXCEPT ![q] = R]
      PROVE  FifoStep
  <2>1. QueueInv' /\ F!Become(q, Contents(R))
    BY <1>4, Becomes
  <2>2. F!Receive(q, u)
    BY <1>2, <1>4, <2>1 DEF F!Receive
  <2> QED BY <2>1, <2>2 DEF FifoStep, F!Next
<1> QED BY <1>2, <1>3, <1>4

(* The calls of tasks. *)
LEMMA SendStep == ASSUME QueueInv, CallInv, xQueueGenericSend PROVE FifoStep
<1> DEFINE q == Now.on
           c == prvCopyDataToQueue(kernel, Q, Item, Now.with[2])
           R == [c.queue EXCEPT !.uxRecursiveCallCount = 0]
<1>1. me \in Tasks /\ queue' = [queue EXCEPT ![q] = R] /\ UNCHANGED buffer
  BY DEF xQueueGenericSend, InCall, SetQueue
<1>2. CASE q \notin DataQueues
  BY <1>1, <1>2, SameContents
<1>3. CASE q \in DataQueues
  <2>1. /\ Now.api = "xQueueSend" /\ Sendable(q, Now.with)
        /\ ~Full(Q) \/ Now.with[2] = "overwrite"
    <3>1. Proper(Now, QueueRequests) /\ q \in DataQueues
      BY <1>1, <1>3, ProperCall
    <3>2. Now.api \in QueueRequests
      BY <3>1 DEF Proper
    <3>3. Now.api = "xQueueSend" /\ CanSend
      BY <3>2 DEF xQueueGenericSend, InCall, QueueRequests, SendCalls
    <3> QED BY <3>1, <3>3 DEF Proper, SendsItem, CanSend
  <2>2. R = Stored(queue[q], Now.with[1], Now.with[2])
    <3>1. Item = Now.with[1] /\ Q.kind = "queue"
      BY <1>3, <2>1 DEF Item, QueueInv, IsRing, Q
    <3>2. c.queue = Stored(queue[q], Now.with[1], Now.with[2])
      BY <3>1 DEF prvCopyDataToQueue, Q
    <3>3. IsRing(c.queue, NewQueue[q].uxLength)
      BY <1>3, <2>1, <3>2, Sent DEF Q
    <3> QED BY <3>2, <3>3 DEF IsRing
  <2> QED BY <1>1, <1>3, <2>1, <2>2, Sent DEF Q
<1> QED BY <1>2, <1>3

(* xQueueReceive takes the item at the head, or takes nothing. *)
LEMMA ReceiveStep == ASSUME QueueInv, CallInv, xQueueReceive PROVE FifoStep
<1> DEFINE q == Now.on
           R == [Taken(Q) EXCEPT !.holder = IF Q.kind = "mutex" THEN me ELSE NoTask,
                                 !.uxRecursiveCallCount =
                                     IF Now.api = "xQueueTakeMutexRecursive" THEN @ + 1 ELSE @]
<1>1. /\ me \in Tasks /\ queue' = [queue EXCEPT ![q] = R] /\ ~Empty(Q)
      /\ Now.api \in {"xQueueReceive"} \cup TakeCalls
      /\ IF Now.api = "xQueueReceive" THEN Gets(NextItem(Q)) ELSE UNCHANGED buffer
  BY DEF xQueueReceive, InCall, SetQueue
<1>2. Proper(Now, QueueRequests)
  BY <1>1, ProperCall
<1>3. CASE q \notin DataQueues
  <2>1. Now.api # "xQueueReceive"
    BY <1>2, <1>3 DEF Proper, GetsItem
  <2> QED BY <1>1, <1>3, <2>1, SameContents
<1>4. CASE q \in DataQueues
  <2>1. Now.api = "xQueueReceive" /\ Now.api # "xQueueTakeMutexRecursive"
    BY <1>1, <1>2, <1>4 DEF Proper, QueueRequests, TakeCalls
  <2>2. buffer' = [buffer EXCEPT ![me] = NextItem(queue[q])] /\ ~Empty(queue[q])
    BY <1>1, <2>1 DEF Gets, Q
  <2>3. IsRing(Taken(Q), NewQueue[q].uxLength)
    BY <1>1, <1>4, <2>2, Got DEF Q
  <2>4. R = Taken(queue[q])
    BY <1>4, <2>1, <2>3 DEF QueueInv, IsRing, Q
  <2> QED BY <1>1, <1>4, <2>2, <2>3, <2>4, Got DEF Q
<1> QED BY <1>3, <1>4

(* xQueuePeek reads the item at the head and leaves it there. *)
LEMMA PeekStep == ASSUME QueueInv, CallInv, xQueuePeek PROVE FifoStep
<1>1. me \in Tasks /\ Now.api = "xQueuePeek" /\ ~Empty(Q) /\ Gets(NextItem(Q)) /\ UNCHANGED queue
  BY DEF xQueuePeek, InCall
<1>2. Now.on \in DataQueues
  BY <1>1, ProperCall DEF Proper, GetsItem
<1> QED BY <1>1, <1>2, Got DEF Gets, Q

(* A step that only locks or unlocks a queue. *)
LEMMA LockStep ==
    ASSUME QueueInv, NEW tx \in Int, NEW rx \in Int, UNCHANGED buffer,
           NEW R \in {[Q EXCEPT !.cTxLock = tx, !.cRxLock = rx], [Q EXCEPT !.cTxLock = tx], [Q EXCEPT !.cRxLock = rx]},
           queue' = [queue EXCEPT ![Now.on] = R]
    PROVE  FifoStep
<1>1. ASSUME Now.on \in DataQueues
      PROVE  IsRing(R, NewQueue[Now.on].uxLength) /\ Contents(R) = Contents(queue[Now.on])
  <2>1. NewQueue[Now.on].uxLength \in Nat \ {0} /\ IsRing(Q, NewQueue[Now.on].uxLength)
    BY <1>1, QueuesAssumption DEF QueueInv, Q
  <2>2. CASE R = [Q EXCEPT !.cTxLock = tx, !.cRxLock = rx]
    <3>1. PICK Z : Z = Q
      OBVIOUS
    <3> DEFINE S == [Z EXCEPT !.cTxLock = tx, !.cRxLock = rx]
               n == NewQueue[Now.on].uxLength
    <3>2. IsRing(S, n) /\ Contents(S) = Contents(Z)
      <4>1. IsRing(Z, n)
        BY <2>1, <3>1
      <4> HIDE DEF n
      <4>2. /\ S.store = Z.store /\ S.write = Z.write /\ S.read = Z.read
            /\ S.uxMessagesWaiting = Z.uxMessagesWaiting /\ S.uxLength = Z.uxLength
        BY <4>1 DEF IsRing
      <4>3. IsRing(S, n)
        BY <4>1 DEF IsRing
      <4>4. Contents(S) = Contents(Z)
        BY <4>2 DEF Contents
      <4> QED BY <4>3, <4>4
    <3> QED BY <2>2, <3>1, <3>2 DEF Q
  <2>3. CASE R = [Q EXCEPT !.cTxLock = tx]
    BY <2>1, <2>3, TxRelocked DEF Q
  <2>4. CASE R = [Q EXCEPT !.cRxLock = rx]
    BY <2>1, <2>4, RxRelocked DEF Q
  <2> QED BY <2>2, <2>3, <2>4
<1> QED BY <1>1, SameContents

(* xQueueGenericReset drops the items of its queue. *)
LEMMA ResetStep == ASSUME QueueInv, xQueueGenericReset PROVE FifoStep
<1> DEFINE q == Now.on
           R == [Q EXCEPT !.uxMessagesWaiting = 0, !.write = 0, !.read = Q.uxLength - 1,
                          !.cRxLock = queueUNLOCKED, !.cTxLock = queueUNLOCKED]
<1>1. queue' = [queue EXCEPT ![q] = R] /\ UNCHANGED buffer
  BY DEF xQueueGenericReset, SetQueue
<1>2. CASE q \notin DataQueues
  BY <1>1, <1>2, SameContents
<1>3. CASE q \in DataQueues
  <2>1. IsRing(R, NewQueue[q].uxLength) /\ Contents(R) = <<>>
    BY <1>3, Emptied, QueuesAssumption DEF QueueInv, Q
  <2>2. QueueInv' /\ F!Become(q, <<>>)
    BY <1>1, <1>3, <2>1, Becomes
  <2> QED BY <1>1, <1>3, <2>2 DEF FifoStep, F!Next, F!Reset
<1> QED BY <1>2, <1>3

(* No call for a mutex concerns a queue that items are handed over in. *)
LEMMA OtherQueue ==
    ASSUME QueueInv, NEW R, UNCHANGED buffer, Now.on \notin DataQueues,
           queue' = [queue EXCEPT ![Now.on] = R]
    PROVE  FifoStep
BY SameContents

(* Each call of queue.c is a step of the bounded sequences. *)
LEMMA QueueCallStep == ASSUME QueueInv, CallInv, QueueCall PROVE FifoStep
<1>1. CASE xQueueGenericSend
  BY <1>1, SendStep
<1>2. CASE xQueueGiveMutexRecursive
  <2>1. Now.on \notin DataQueues
    BY <1>2, ProperCall DEF xQueueGiveMutexRecursive, InCall, Proper, QueueRequests
  <2>2. CASE UNCHANGED queue
    BY <1>2, <2>2, Untouched DEF xQueueGiveMutexRecursive, queueVars
  <2>3. CASE SetQueue([Q EXCEPT !.uxRecursiveCallCount = @ - 1])
    BY <1>2, <2>1, <2>3, OtherQueue DEF xQueueGiveMutexRecursive, SetQueue
  <2> QED BY <1>2, <2>2, <2>3 DEF xQueueGiveMutexRecursive
<1>3. CASE xQueueTakeMutexRecursive
  <2>1. Now.on \notin DataQueues
    BY <1>3, ProperCall DEF xQueueTakeMutexRecursive, InCall, Proper, QueueRequests
  <2> QED BY <1>3, <2>1, OtherQueue DEF xQueueTakeMutexRecursive, SetQueue
<1>4. CASE xQueueReceive
  BY <1>4, ReceiveStep
<1>5. CASE xQueuePeek
  BY <1>5, PeekStep
<1>6. CASE prvLockQueue
  <2>1. /\ UNCHANGED buffer
        /\ queue' = [queue EXCEPT ![Now.on] = [Q EXCEPT !.cTxLock = Lock(Q.cTxLock), !.cRxLock = Lock(Q.cRxLock)]]
    BY <1>6 DEF prvLockQueue, SetQueue
  <2>2. CASE Now.on \notin DataQueues
    BY <2>1, <2>2, OtherQueue
  <2>3. CASE Now.on \in DataQueues
    <3>1. Lock(Q.cTxLock) \in Int /\ Lock(Q.cRxLock) \in Int
      BY <2>3 DEF QueueInv, IsRing, Lock, Q
    <3> QED BY <2>1, <3>1, LockStep
  <2> QED BY <2>2, <2>3
<1>7. CASE QueueUnlockTx
  <2>1. UNCHANGED buffer /\ queue' = [queue EXCEPT ![Now.on] = [Q EXCEPT !.cTxLock = queueUNLOCKED]]
    BY <1>7 DEF QueueUnlockTx, SetQueue
  <2>2. queueUNLOCKED \in Int
    BY DEF queueUNLOCKED
  <2> QED BY <2>1, <2>2, LockStep
<1>8. CASE QueueUnlockRx
  <2>1. UNCHANGED buffer /\ queue' = [queue EXCEPT ![Now.on] = [Q EXCEPT !.cRxLock = queueUNLOCKED]]
    BY <1>8 DEF QueueUnlockRx, SetQueue
  <2>2. queueUNLOCKED \in Int
    BY DEF queueUNLOCKED
  <2> QED BY <2>1, <2>2, LockStep
<1>9. CASE xQueueGenericReset
  BY <1>9, ResetStep
<1>10. CASE QueueFails \/ QueueMustWait \/ QueueCheckForTimeOut \/ QueueTest \/ QueueInherit
            \/ QueuePlace \/ QueueAfter \/ QueueDisinherit
  BY <1>10, Untouched DEF QueueFails, QueueMustWait, QueueCheckForTimeOut, QueueTest, QueueInherit,
                          QueuePlace, QueueAfter, QueueDisinherit, queueVars
<1> QED BY <1>1, <1>2, <1>3, <1>4, <1>5, <1>6, <1>7, <1>8, <1>9, <1>10 DEF QueueCall

(* The calls of handlers. *)
LEMMA SendFromISRStep ==
    ASSUME QueueInv, NEW item, NEW position, xQueueGenericSendFromISR(item, position),
           ISR.on \in DataQueues => Sendable(ISR.on, <<item, position>>)
    PROVE  FifoStep
<1> DEFINE q == ISR.on
           c == prvCopyDataToQueue(kernel, IsrQ, item, position)
           R == IF IsrQ.cTxLock # queueUNLOCKED THEN [c.queue EXCEPT !.cTxLock = Counted(@)] ELSE c.queue
<1>1. CASE Full(IsrQ) /\ position # "overwrite"
  BY <1>1, Untouched DEF xQueueGenericSendFromISR, queueVars
<1>2. CASE ~(Full(IsrQ) /\ position # "overwrite")
  <2>1. queue' = [queue EXCEPT ![q] = R] /\ UNCHANGED buffer
    BY <1>2 DEF xQueueGenericSendFromISR
  <2>2. CASE q \notin DataQueues
    BY <2>1, <2>2, SameContents
  <2>3. CASE q \in DataQueues
    <3> DEFINE S == Stored(queue[q], item, position)
               n == NewQueue[q].uxLength
    <3>1. c.queue = S
      BY <2>3 DEF prvCopyDataToQueue, QueueInv, IsRing, IsrQ
    <3>2. /\ Sendable(q, <<item, position>>) /\ <<item, position>>[1] = item
          /\ <<item, position>>[2] = position
          /\ ~Full(queue[q]) \/ position = "overwrite"
      BY <1>2, <2>3 DEF IsrQ
    <3>3. IsRing(S, n)
      BY <2>3, <3>2, Sent
    <3> HIDE DEF S
    <3>4. IsRing(R, n) /\ Contents(R) = Contents(S)
      <4>1. n \in Nat \ {0}
        BY <2>3, QueuesAssumption
      <4>2. PICK Z : Z = S
        OBVIOUS
      <4>3. IsRing(Z, n) /\ Counted(Z.cTxLock) \in Int
        BY <3>3, <4>2 DEF IsRing, Counted
      <4>4. /\ IsRing([Z EXCEPT !.cTxLock = Counted(Z.cTxLock)], n)
            /\ Contents([Z EXCEPT !.cTxLock = Counted(Z.cTxLock)]) = Contents(Z)
        BY <4>1, <4>3, TxRelocked
      <4> QED BY <3>1, <3>3, <4>2, <4>4
    <3>5. PICK with : with = <<item, position>>
      OBVIOUS
    <3>6. with[1] = item /\ with[2] = position /\ Sendable(q, with)
      BY <3>2, <3>5
    <3>7. Contents(R) = Contents(Stored(queue[q], with[1], with[2]))
      BY <3>4, <3>6 DEF S
    <3> HIDE DEF R, q, n
    <3> QED BY <2>1, <2>3, <3>2, <3>4, <3>6, <3>7, Sent DEF n
  <2> QED BY <2>2, <2>3
<1> QED BY <1>1, <1>2

(* xQueueReceiveFromISR takes the item at the head, or takes nothing. *)
LEMMA ReceiveFromISRStep == ASSUME QueueInv, CallInv, xQueueReceiveFromISR PROVE FifoStep
<1> DEFINE q == ISR.on
           R == IF IsrQ.cRxLock # queueUNLOCKED THEN [Taken(IsrQ) EXCEPT !.cRxLock = Counted(@)] ELSE Taken(IsrQ)
<1>1. q \in DataQueues
  BY ProperInterrupt DEF xQueueReceiveFromISR, Interrupt, ISR, Proper, GetsItem
<1>2. CASE Empty(IsrQ)
  BY <1>2, Untouched DEF xQueueReceiveFromISR, queueVars
<1>3. CASE ~Empty(IsrQ)
  <2> DEFINE S == Taken(queue[q])
             n == NewQueue[q].uxLength
  <2>1. queue' = [queue EXCEPT ![q] = R] /\ buffer' = [buffer EXCEPT ![Handler] = NextItem(queue[q])]
    BY <1>3 DEF xQueueReceiveFromISR, IsrQ
  <2>2. ~Empty(queue[q])
    BY <1>3 DEF IsrQ
  <2>3. IsRing(S, n)
    BY <1>1, <2>1, <2>2, Got
  <2>4. IsRing(R, n) /\ Contents(R) = Contents(S)
    <3>1. n \in Nat \ {0} /\ S.cRxLock \in Int /\ Counted(S.cRxLock) \in Int
      BY <1>1, <2>3, QueuesAssumption DEF IsRing, Counted
    <3>2. /\ IsRing([S EXCEPT !.cRxLock = Counted(S.cRxLock)], n)
          /\ Contents([S EXCEPT !.cRxLock = Counted(S.cRxLock)]) = Contents(S)
      BY <2>3, <3>1, RxRelocked
    <3> QED BY <2>3, <3>2 DEF IsrQ
  <2> QED BY <1>1, <2>1, <2>2, <2>4, Got
<1> QED BY <1>2, <1>3

(* Each call a handler makes of queue.c is a step of the bounded           *)
(* sequences.                                                              *)
LEMMA InterruptStep == ASSUME QueueInv, CallInv, QueueInterrupt PROVE FifoStep
<1>1. CASE xQueueSendFromISR
  <2>1. Proper(ISR, QueueInterrupts) /\ ISR.api = "xQueueSendFromISR"
    BY <1>1, ProperInterrupt DEF xQueueSendFromISR, Interrupt, ISR
  <2>2. ASSUME ISR.on \in DataQueues PROVE Sendable(ISR.on, <<ISR.with[1], ISR.with[2]>>)
    BY <2>1, <2>2 DEF Proper, SendsItem, Sendable
  <2> QED BY <1>1, <2>2, SendFromISRStep DEF xQueueSendFromISR
<1>2. CASE xQueueGiveFromISR
  <2>1. ISR.on \notin DataQueues
    BY <1>2, ProperInterrupt DEF xQueueGiveFromISR, Interrupt, ISR, Proper, QueueInterrupts
  <2>2. CASE Full(IsrQ)
    BY <1>2, <2>2, Untouched DEF xQueueGiveFromISR, queueVars
  <2>3. CASE ~Full(IsrQ)
    <3>1. /\ UNCHANGED buffer
          /\ queue' = [queue EXCEPT ![ISR.on].uxMessagesWaiting = @ + 1,
                                    ![ISR.on].cTxLock = IF IsrQ.cTxLock # queueUNLOCKED THEN Counted(@) ELSE @]
      BY <1>2, <2>3 DEF xQueueGiveFromISR
    <3>2. DOMAIN queue' = DOMAIN queue /\ \A d \in DataQueues : queue'[d] = queue[d]
      BY <2>1, <3>1, QueuesAssumption DEF QueueInv
    <3>3. QueueInv'
      BY <3>1, <3>2 DEF QueueInv
    <3>4. ASSUME NEW d \in DataQueues PROVE Contents(queue'[d]) = Contents(queue[d])
      BY <3>2
    <3>5. UNCHANGED F!vars
      BY <3>1, <3>4 DEF F!vars
    <3> QED BY <3>3, <3>5 DEF FifoStep
  <2> QED BY <2>2, <2>3
<1>3. CASE xQueueReceiveFromISR
  BY <1>3, ReceiveFromISRStep
<1>4. CASE xQueuePeekFromISR
  <2>1. ISR.on \in DataQueues
    BY <1>4, ProperInterrupt DEF xQueuePeekFromISR, Interrupt, ISR, Proper, GetsItem
  <2>2. CASE Empty(IsrQ)
    BY <1>4, <2>2, Untouched DEF xQueuePeekFromISR, queueVars
  <2>3. CASE ~Empty(IsrQ)
    BY <1>4, <2>1, <2>3, Got DEF xQueuePeekFromISR, IsrQ
  <2> QED BY <2>2, <2>3
<1> QED BY <1>1, <1>2, <1>3, <1>4 DEF QueueInterrupt

(* The timer task takes its commands from a queue as any other task would. *)
LEMMA TimerStep == ASSUME QueueInv, CallInv, TimerCall PROVE FifoStep
<1>1. CASE xTimerGenericCommandFromISR
  <2>1. ISR.on \notin DataQueues
    BY <1>1, ProperInterrupt DEF xTimerGenericCommandFromISR, Interrupt, ISR, Proper, QueueInterrupts
  <2> QED BY <1>1, <2>1, SendFromISRStep DEF xTimerGenericCommandFromISR
<1>2. CASE xEventGroupSetBitsFromISR
  <2>1. ISR.on \notin DataQueues
    BY <1>2, ProperInterrupt DEF xEventGroupSetBitsFromISR, Interrupt, ISR, Proper, QueueInterrupts
  <2> QED BY <1>2, <2>1, SendFromISRStep DEF xEventGroupSetBitsFromISR
<1>3. CASE ReceiveCommand
  <2>1. Now.on \notin DataQueues
    BY <1>3, ProperCall DEF ReceiveCommand, InCall, Proper, QueueRequests
  <2>2. CASE Empty(Q)
    BY <1>3, <2>2, Untouched DEF ReceiveCommand, queueVars
  <2>3. CASE ~Empty(Q)
    BY <1>3, <2>1, <2>3, OtherQueue DEF ReceiveCommand, SetQueue
  <2> QED BY <2>2, <2>3
<1>4. CASE UNCHANGED queueVars
  BY <1>4, Untouched
<1>5. TimerCall => \/ xTimerGenericCommandFromISR \/ xEventGroupSetBitsFromISR \/ ReceiveCommand
                   \/ UNCHANGED queueVars
  BY DEF TimerCall, prvTimerTask, xTimerGenericCommand, vTimerSetReloadMode, prvGetNextExpireTime,
         SampleTime, QueueIsEmpty, vTaskPlaceOnEventListRestricted, ProcessExpired, ProcessCommand,
         CallPended
<1> QED BY <1>1, <1>2, <1>3, <1>4, <1>5

(* The queues are created empty. *)
LEMMA InitQueues == Init => QueueInv /\ F!Init
<1> SUFFICES ASSUME Init PROVE QueueInv /\ F!Init
  OBVIOUS
<1>1. queue = NewQueue /\ buffer = [t \in Tasks \cup {Handler} |-> "nothing"]
  BY DEF Init, QueueInit
<1>2. ASSUME NEW q \in DataQueues
      PROVE  IsRing(queue[q], NewQueue[q].uxLength) /\ Contents(queue[q]) = <<>>
  <2> DEFINE n == NewQueue[q].uxLength
  <2>1. n \in Nat \ {0} /\ queue[q] = Created("queue", n, 0, "nothing")
    BY <1>1, QueuesAssumption
  <2> HIDE DEF n
  <2>2. ((n - 1) + 1 + 0) % n = 0
    BY <2>1
  <2>3. /\ 0 \in 0 .. n /\ 0 \in 0 .. n - 1 /\ n - 1 \in 0 .. n - 1 /\ queueUNLOCKED \in Int
        /\ [i \in 0 .. n - 1 |-> "nothing"] \in [0 .. n - 1 -> Things]
    BY <2>1 DEF queueUNLOCKED, Things
  <2>4. IsRing(queue[q], n)
    BY <2>1, <2>2, <2>3 DEF IsRing, Created
  <2>5. Contents(queue[q]) \in Seq(Things) /\ Len(Contents(queue[q])) = 0
    BY <2>1, <2>4, ContentsOfRing DEF Created
  <2> QED BY <2>4, <2>5, EmptySeq DEF n
<1>3. QueueInv
  BY <1>1, <1>2, QueuesAssumption DEF QueueInv
<1>4. F!Init
  BY <1>1, <1>2 DEF F!Init
<1> QED BY <1>3, <1>4

(* Every step is a step of the bounded sequences, or changes none of them. *)
LEMMA NextQueues == QueueInv /\ CallInv /\ [Next]_vars => FifoStep
<1> SUFFICES ASSUME QueueInv, CallInv, [Next]_vars PROVE FifoStep
  OBVIOUS
<1>1. CASE QueueCall
  BY <1>1, QueueCallStep
<1>2. CASE QueueInterrupt
  BY <1>2, InterruptStep
<1>3. CASE TimerCall
  BY <1>3, TimerStep
<1>4. CASE UNCHANGED queueVars
  BY <1>4, Untouched
<1>5. [Next]_vars => QueueCall \/ QueueInterrupt \/ TimerCall \/ UNCHANGED queueVars
  BY DEF Next, vars, queueVars
<1> QED BY <1>1, <1>2, <1>3, <1>4, <1>5

(* The queues implement the bounded sequences of Fifo for every number of  *)
(* tasks, every length of queue and every program of calls: what is sent   *)
(* is received once and in the order of the queue, whatever locks, retries *)
(* and handlers do between. (xQueueGenericSend, xQueueReceive, xQueuePeek, *)
(* xQueueGenericReset and their FromISR forms)                             *)
THEOREM QueuesAreFifo == Spec => QueueIsFifo
<1>1. Init => QueueInv /\ CallInv /\ F!Init
  BY InitQueues, InitCalls
<1>2. QueueInv /\ CallInv /\ [Next]_vars => (QueueInv /\ CallInv)' /\ [F!Next]_(F!vars)
  BY NextQueues, NextCalls DEF FifoStep
<1> QED BY <1>1, <1>2, PTL DEF Spec, QueueIsFifo, F!Spec

(* A number just outside 0 .. L - 1, brought back. *)
Wrap(x, L) == IF x < 0 THEN x + L ELSE IF x < L THEN x ELSE x - L

(* What the wrapping of an index by one length comes to. *)
LEMMA Wraps == ASSUME NEW L \in Nat \ {0}, NEW x \in -L .. 2 * L - 1 PROVE x % L = Wrap(x, L)
<1>1. CASE x < 0
  <2>1. x \in Int /\ -L <= x /\ x < 0
    BY <1>1
  <2>2. x % L = x + L
    BY <2>1
  <2> QED BY <1>1, <2>2 DEF Wrap
<1>2. CASE 0 <= x /\ x < L
  <2>1. x % L = x
    BY <1>2
  <2> QED BY <1>2, <2>1 DEF Wrap
<1>3. CASE L <= x
  <2>1. x \in Int /\ L <= x /\ x < 2 * L
    BY <1>3
  <2>2. x % L = x - L
    BY <2>1
  <2> QED BY <1>3, <2>2 DEF Wrap
<1> QED BY <1>1, <1>2, <1>3

(* A ring of L cells with n of them filled, from the one at t up to the    *)
(* one before h.                                                           *)
Ring(L, h, t, n) ==
    /\ n \in 0 .. L - 1
    /\ (t - h - 1) % L = L - 1 - n
    /\ \A k \in 0 .. L - 1 - n : (h + k) % L \in 0 .. L - 1 /\ (((h + k) % L) - t) % L = n + k
    /\ \A k \in 0 .. n : \A p : p = (t + k) % L => p \in 0 .. L - 1 /\ (h - p) % L = n - k
    /\ \A i, k \in 0 .. L - 1 : i + k <= L - 1 => (((t + k) % L) + i) % L = (t + k + i) % L
    /\ \A i \in 0 .. L - 1 : /\ (t + i) % L \in 0 .. L - 1
                             /\ (((t + i) % L) - h) % L = IF i >= n THEN i - n ELSE L + i - n

(* The cells of a ring, counted from its tail: those that are filled and   *)
(* those that are free.                                                    *)
LEMMA Cells ==
    ASSUME NEW L \in Nat \ {0}, NEW h \in 0 .. L - 1, NEW t \in 0 .. L - 1, NEW n, n = (h - t) % L
    PROVE  Ring(L, h, t, n)
<1>1. ASSUME NEW x \in Int, -L <= x, x < 2 * L PROVE x % L = Wrap(x, L)
  <2>1. x \in -L .. 2 * L - 1
    BY <1>1
  <2> QED BY <2>1, Wraps
<1>2. n = Wrap(h - t, L)
  <2>1. h - t \in Int /\ -L <= h - t /\ h - t < 2 * L
    OBVIOUS
  <2> QED BY <1>1, <2>1
<1>3. n \in 0 .. L - 1
  BY <1>2 DEF Wrap
<1>4. (t - h - 1) % L = L - 1 - n
  <2>1. t - h - 1 \in Int /\ -L <= t - h - 1 /\ t - h - 1 < 2 * L
    OBVIOUS
  <2>2. (t - h - 1) % L = Wrap(t - h - 1, L)
    BY <1>1, <2>1
  <2> QED BY <1>2, <2>2 DEF Wrap
<1>5. ASSUME NEW k \in 0 .. L - 1 - n
      PROVE  (h + k) % L \in 0 .. L - 1 /\ (((h + k) % L) - t) % L = n + k
  <2> DEFINE p == (h + k) % L
  <2>1. h + k \in Int /\ -L <= h + k /\ h + k < 2 * L
    BY <1>3
  <2>2. p = Wrap(h + k, L)
    BY <1>1, <2>1
  <2> HIDE DEF p
  <2>3. p \in 0 .. L - 1
    BY <1>3, <2>2 DEF Wrap
  <2>4. p - t \in Int /\ -L <= p - t /\ p - t < 2 * L
    BY <2>3
  <2>5. (p - t) % L = Wrap(p - t, L)
    BY <1>1, <2>4
  <2>6. Wrap(p - t, L) = n + k
    BY <1>2, <1>3, <2>2 DEF Wrap
  <2> QED BY <2>3, <2>5, <2>6 DEF p
<1>6. ASSUME NEW k \in 0 .. n, NEW p, p = (t + k) % L
      PROVE  p \in 0 .. L - 1 /\ (h - p) % L = n - k
  <2>1. t + k \in Int /\ -L <= t + k /\ t + k < 2 * L
    BY <1>3
  <2>2. p = Wrap(t + k, L)
    BY <1>1, <1>6, <2>1
  <2>3. p \in 0 .. L - 1
    BY <1>3, <2>2 DEF Wrap
  <2>4. h - p \in Int /\ -L <= h - p /\ h - p < 2 * L
    BY <2>3
  <2>5. (h - p) % L = Wrap(h - p, L)
    BY <1>1, <2>4
  <2>6. Wrap(h - p, L) = n - k
    BY <1>2, <1>3, <2>2 DEF Wrap
  <2> QED BY <2>3, <2>5, <2>6
<1>7. ASSUME NEW i \in 0 .. L - 1, NEW k \in 0 .. L - 1, i + k <= L - 1
      PROVE  (((t + k) % L) + i) % L = (t + k + i) % L
  <2> DEFINE p == (t + k) % L
  <2>1. t + k \in Int /\ -L <= t + k /\ t + k < 2 * L
    OBVIOUS
  <2>2. p = Wrap(t + k, L)
    BY <1>1, <2>1
  <2> HIDE DEF p
  <2>3. p \in 0 .. L - 1
    BY <2>2 DEF Wrap
  <2>4. /\ p + i \in Int /\ -L <= p + i /\ p + i < 2 * L
        /\ t + k + i \in Int /\ -L <= t + k + i /\ t + k + i < 2 * L
    BY <1>7, <2>3
  <2>5. (p + i) % L = Wrap(p + i, L) /\ (t + k + i) % L = Wrap(t + k + i, L)
    BY <1>1, <2>4
  <2>6. Wrap(p + i, L) = Wrap(t + k + i, L)
    BY <1>7, <2>2 DEF Wrap
  <2> QED BY <2>5, <2>6 DEF p
<1>8. ASSUME NEW i \in 0 .. L - 1
      PROVE  /\ (t + i) % L \in 0 .. L - 1
             /\ (((t + i) % L) - h) % L = IF i >= n THEN i - n ELSE L + i - n
  <2> DEFINE p == (t + i) % L
  <2>1. t + i \in Int /\ -L <= t + i /\ t + i < 2 * L
    OBVIOUS
  <2>2. p = Wrap(t + i, L)
    BY <1>1, <2>1
  <2> HIDE DEF p
  <2>3. p \in 0 .. L - 1
    BY <2>2 DEF Wrap
  <2>4. p - h \in Int /\ -L <= p - h /\ p - h < 2 * L
    BY <2>3
  <2>5. (p - h) % L = Wrap(p - h, L)
    BY <1>1, <2>4
  <2>6. Wrap(p - h, L) = IF i >= n THEN i - n ELSE L + i - n
    BY <1>2, <1>3, <2>2 DEF Wrap
  <2> QED BY <2>3, <2>5, <2>6 DEF p
<1> QED BY <1>3, <1>4, <1>5, <1>6, <1>7, <1>8 DEF Ring

(* What the cells d[0], ..., d[n - 1] of a buffer hold: bytes, and in a    *)
(* message buffer, before those of each message, their number.  "index" is *)
(* the number of bytes before a cell.                                      *)
Framed(d, n, messages, heads, index) ==
    /\ heads \subseteq 0 .. n - 1
    /\ index \in [0 .. n -> Nat] /\ index[0] = 0
    /\ \A i, j \in 0 .. n : i <= j => index[i] <= index[j]
    /\ \A i \in (0 .. n - 1) \ heads : index[i] < index[n]
    /\ ~messages => heads = {} /\ \A i \in 0 .. n : index[i] = i
    /\ (messages /\ n > 0) => 0 \in heads
    /\ \A h \in heads : /\ d[h] \in Nat \ {0} /\ h + 1 + d[h] <= n
                        /\ h + 1 + d[h] = n \/ h + 1 + d[h] \in heads
                        /\ \A j \in 0 .. d[h] : index[h + 1 + j] = index[h] + j
                        /\ \A j \in 1 .. d[h] : h + j \notin heads

(* The bytes sent are those received and then those in the buffer. *)
InBuffer(d, n, messages, s, r) ==
    \E heads, index :
        /\ Framed(d, n, messages, heads, index)
        /\ Len(s) = Len(r) + index[n]
        /\ \A k \in 1 .. Len(r) : s[k] = r[k]
        /\ \A i \in (0 .. n - 1) \ heads : s[Len(r) + index[i] + 1] = d[i]

HeadCells(messages) == IF messages THEN 1 ELSE 0

(* A buffer without a cell filled: what was sent was received. *)
LEMMA NothingInBuffer ==
    ASSUME NEW d, NEW messages \in BOOLEAN, NEW r \in Seq(Nat) PROVE InBuffer(d, 0, messages, r, r)
<1> DEFINE index == [i \in 0 .. 0 |-> 0]
<1>1. index \in [0 .. 0 -> Nat] /\ index[0] = 0 /\ 0 .. 0 = {0} /\ 0 .. 0 - 1 = {}
  OBVIOUS
<1> HIDE DEF index
<1>2. Framed(d, 0, messages, {}, index)
  BY <1>1 DEF Framed
<1> QED BY <1>1, <1>2 DEF InBuffer

(* The cell at the tail of a message buffer holds the length of a message  *)
(* that is there as a whole.                                               *)
LEMMA FirstMessage ==
    ASSUME NEW d, NEW n \in Nat \ {0}, NEW s, NEW r, InBuffer(d, n, TRUE, s, r)
    PROVE  d[0] \in Nat \ {0} /\ 1 + d[0] <= n
<1>1. PICK heads, index : Framed(d, n, TRUE, heads, index)
  BY DEF InBuffer
<1>2. 0 \in heads
  BY <1>1 DEF Framed
<1>3. d[0] \in Nat \ {0} /\ 0 + 1 + d[0] <= n
  BY <1>1, <1>2 DEF Framed
<1> QED BY <1>3

(* A byte before the last is in the sequence. *)
LEMMA Within ==
    ASSUME NEW a \in Nat, NEW p \in Nat, NEW q \in Nat, p < q
    PROVE  a + p + 1 \in 1 .. a + q
OBVIOUS

(* Bytes put behind those in the buffer were sent last. *)
LEMMA Appended ==
    ASSUME NEW d, NEW n \in Nat, NEW messages \in BOOLEAN, NEW s \in Seq(Nat), NEW r \in Seq(Nat),
           InBuffer(d, n, messages, s, r), NEW w \in Seq(Nat), w # <<>>, NEW e,
           \A i \in 0 .. n - 1 : e[i] = d[i],
           messages => e[n] = Len(w),
           \A j \in 1 .. Len(w) : e[n + HeadCells(messages) + j - 1] = w[j]
    PROVE  InBuffer(e, n + HeadCells(messages) + Len(w), messages, s \o w, r)
<1>1. PICK heads, index :
          /\ Framed(d, n, messages, heads, index)
          /\ Len(s) = Len(r) + index[n]
          /\ \A i \in 1 .. Len(r) : s[i] = r[i]
          /\ \A i \in (0 .. n - 1) \ heads : s[Len(r) + index[i] + 1] = d[i]
  BY DEF InBuffer
<1>2. PICK k : k = HeadCells(messages)
  OBVIOUS
<1>3. PICK l : l = Len(w)
  OBVIOUS
<1>4. l \in Nat \ {0} /\ k \in {0, 1} /\ (messages => k = 1) /\ (~messages => k = 0)
      /\ Len(r) \in Nat /\ Len(s) \in Nat
  BY <1>2, <1>3 DEF HeadCells
<1>5. PICK q : q = n + k + l
  OBVIOUS
<1>6. /\ q \in Nat /\ n + k < q /\ n < q /\ n \in 0 .. n
      /\ n \in 0 .. q /\ q \in 0 .. q /\ 0 \in 0 .. n /\ 0 \in 0 .. q /\ q - n - k = l
  BY <1>4, <1>5
<1>7. PICK x : x = s \o w
  OBVIOUS
<1>8. /\ Len(x) = Len(s) + l
      /\ \A i \in 1 .. Len(s) : x[i] = s[i]
      /\ \A j \in 1 .. l : x[Len(s) + j] = w[j]
  <2>1. /\ Len(x) = Len(s) + l
        /\ \A i \in 1 .. Len(s) + l : x[i] = IF i <= Len(s) THEN s[i] ELSE w[i - Len(s)]
    BY <1>3, <1>7, ConcatProperties
  <2>2. ASSUME NEW i \in 1 .. Len(s) PROVE x[i] = s[i]
    <3>1. i \in 1 .. Len(s) + l /\ i <= Len(s)
      BY <1>4
    <3> QED BY <2>1, <3>1
  <2>3. ASSUME NEW j \in 1 .. l PROVE x[Len(s) + j] = w[j]
    <3>1. Len(s) + j \in 1 .. Len(s) + l /\ ~(Len(s) + j <= Len(s)) /\ Len(s) + j - Len(s) = j
      BY <1>4
    <3> QED BY <2>1, <3>1
  <2> QED BY <2>1, <2>2, <2>3
<1>9. /\ heads \subseteq 0 .. n - 1
      /\ index \in [0 .. n -> Nat] /\ index[0] = 0
      /\ \A i, j \in 0 .. n : i <= j => index[i] <= index[j]
      /\ \A i \in (0 .. n - 1) \ heads : index[i] < index[n]
      /\ ~messages => heads = {} /\ \A i \in 0 .. n : index[i] = i
      /\ (messages /\ n > 0) => 0 \in heads
      /\ \A h \in heads : /\ d[h] \in Nat \ {0} /\ h + 1 + d[h] <= n
                          /\ h + 1 + d[h] = n \/ h + 1 + d[h] \in heads
                          /\ \A j \in 0 .. d[h] : index[h + 1 + j] = index[h] + j
                          /\ \A j \in 1 .. d[h] : h + j \notin heads
  BY <1>1 DEF Framed
<1>10. index[n] \in Nat /\ Len(s) = Len(r) + index[n]
  BY <1>1, <1>6, <1>9
<1>11. ASSUME NEW i \in 0 .. n PROVE index[i] \in Nat /\ index[i] <= index[n]
  <2>1. i <= n
    OBVIOUS
  <2> QED BY <1>6, <1>9, <2>1
<1>12. PICK I : I = [i \in 0 .. q |-> IF i <= n THEN index[i] ELSE index[n] + (i - n - k)]
  OBVIOUS
<1>13. ASSUME NEW i \in 0 .. n PROVE I[i] = index[i] /\ I[i] \in Nat /\ i \in 0 .. q /\ I[i] <= index[n]
  <2>1. i \in 0 .. q /\ i <= n
    BY <1>6
  <2> QED BY <1>11, <1>12, <2>1
<1>14. ASSUME NEW i \in 0 .. q, n < i
       PROVE  I[i] = index[n] + (i - n - k) /\ i - n - k \in Nat /\ i - n - k <= l
  <2>1. ~(i <= n)
    BY <1>14
  <2>2. i - n - k \in Nat /\ i - n - k <= l
    BY <1>4, <1>5, <1>14
  <2> QED BY <1>12, <2>1, <2>2
<1>15. I \in [0 .. q -> Nat]
  <2>1. ASSUME NEW i \in 0 .. q PROVE I[i] \in Nat
    <3>1. CASE i <= n
      BY <1>13, <3>1
    <3>2. CASE n < i
      BY <1>10, <1>14, <3>2
    <3> QED BY <1>6, <3>1, <3>2
  <2>2. I = [i \in 0 .. q |-> I[i]]
    BY <1>12
  <2> QED BY <2>1, <2>2
<1>16. I[q] = index[n] + l /\ I[n] = index[n] /\ I[0] = 0
  BY <1>6, <1>9, <1>13, <1>14
<1>17. PICK H : H = IF messages THEN heads \cup {n} ELSE {}
  OBVIOUS
<1>18. /\ H \subseteq 0 .. q - 1
       /\ heads \subseteq H
       /\ \A i \in 0 .. n - 1 : i \in H <=> i \in heads
       /\ \A i \in 0 .. q - 1 : i \in H => messages /\ i <= n
       /\ messages => n \in H
  <2>1. CASE messages
    BY <1>6, <1>9, <1>17, <2>1
  <2>2. CASE ~messages
    BY <1>6, <1>9, <1>17, <2>2
  <2> QED BY <2>1, <2>2
<1>19. ASSUME NEW i \in 0 .. q, NEW j \in 0 .. q, i <= j PROVE I[i] <= I[j]
  <2>1. CASE j <= n
    <3>1. i \in 0 .. n /\ j \in 0 .. n
      BY <1>19, <2>1
    <3> QED BY <1>9, <1>13, <1>19, <3>1
  <2>2. CASE i <= n /\ n < j
    <3>1. i \in 0 .. n
      BY <2>2
    <3>2. I[i] \in Nat /\ I[i] <= index[n]
      BY <1>13, <3>1
    <3>3. I[j] = index[n] + (j - n - k) /\ j - n - k \in Nat
      BY <1>14, <2>2
    <3> QED BY <1>10, <3>2, <3>3
  <2>3. CASE n < i
    <3>1. n < j
      BY <1>19, <2>3
    <3>2. I[i] = index[n] + (i - n - k) /\ I[j] = index[n] + (j - n - k)
      BY <1>14, <2>3, <3>1
    <3> QED BY <1>4, <1>10, <1>19, <3>2
  <2> QED BY <1>6, <2>1, <2>2, <2>3
<1>20. ASSUME NEW i \in (0 .. q - 1) \ H, i >= n
       PROVE  /\ i \in 0 .. q /\ i - n - k + 1 \in 1 .. l
              /\ I[i] = index[n] + (i - n - k)
  <2>1. i >= n + k
    <3>1. CASE messages
      BY <1>4, <1>18, <1>20, <3>1
    <3>2. CASE ~messages
      BY <1>4, <1>20, <3>2
    <3> QED BY <3>1, <3>2
  <2>2. i \in 0 .. q /\ i - n - k + 1 \in 1 .. l
    <3>1. i \in 0 .. q - 1 /\ n \in Nat
      OBVIOUS
    <3> QED BY ONLY <1>4, <1>5, <1>6, <2>1, <3>1
  <2>3. CASE n < i
    BY <1>14, <2>2, <2>3
  <2>4. CASE i = n
    <3>1. k = 0
      BY <1>4, <2>1, <2>4
    <3> QED BY <1>10, <1>16, <2>2, <2>4, <3>1
  <2> QED BY <1>20, <2>2, <2>3, <2>4
<1>21. ASSUME NEW i \in (0 .. q - 1) \ H, i < n
       PROVE  i \in (0 .. n - 1) \ heads /\ i \in 0 .. n /\ I[i] = index[i] /\ index[i] \in Nat /\ index[i] < index[n]
  <2>1. i \in 0 .. n - 1 /\ i \in 0 .. n
    BY <1>21
  <2>2. i \notin heads
    BY <1>18
  <2> QED BY <1>9, <1>11, <1>13, <2>1, <2>2
<1>22. ASSUME NEW i \in (0 .. q - 1) \ H PROVE I[i] < I[q]
  <2>1. CASE i < n
    <3>1. I[i] = index[i] /\ index[i] \in Nat /\ index[i] < index[n]
      BY <1>21, <2>1
    <3> QED BY <1>4, <1>10, <1>16, <3>1
  <2>2. CASE i >= n
    <3>1. i - n - k + 1 \in 1 .. l /\ I[i] = index[n] + (i - n - k)
      BY <1>20, <2>2
    <3> QED BY <1>4, <1>10, <1>16, <3>1
  <2> QED BY <2>1, <2>2
<1>23. ASSUME ~messages PROVE H = {} /\ \A i \in 0 .. q : I[i] = i
  <2>1. ASSUME NEW i \in 0 .. q PROVE I[i] = i
    <3>1. CASE i <= n
      BY <1>9, <1>13, <1>23, <3>1
    <3>2. CASE n < i
      <4>1. index[n] = n /\ k = 0
        BY <1>4, <1>6, <1>9, <1>23
      <4> QED BY <1>14, <3>2, <4>1
    <3> QED BY <1>6, <3>1, <3>2
  <2> QED BY <1>17, <1>23, <2>1
<1>24. ASSUME messages PROVE 0 \in H
  <2>1. CASE n > 0
    BY <1>9, <1>18, <1>24, <2>1
  <2>2. CASE n = 0
    BY <1>18, <1>24, <2>2
  <2> QED BY <2>1, <2>2
<1>25. ASSUME NEW h \in H
       PROVE  /\ e[h] \in Nat \ {0} /\ h + 1 + e[h] <= q
              /\ h + 1 + e[h] = q \/ h + 1 + e[h] \in H
              /\ \A j \in 0 .. e[h] : I[h + 1 + j] = I[h] + j
              /\ \A j \in 1 .. e[h] : h + j \notin H
  <2>1. messages /\ k = 1 /\ h \in 0 .. q - 1 /\ h <= n
    BY <1>4, <1>18
  <2>2. CASE h = n
    <3>1. e[n] = l
      BY <1>3, <2>1
    <3>2. n + 1 + l = q
      BY <1>5, <2>1
    <3>3. ASSUME NEW j \in 0 .. l PROVE I[n + 1 + j] = I[n] + j
      <4>1. PICK p : p = n + 1 + j
        OBVIOUS
      <4>2. p \in 0 .. q /\ n < p /\ p - n - k = j
        BY <1>4, <2>1, <3>2, <4>1
      <4>3. I[p] = index[n] + (p - n - k)
        BY <1>14, <4>2
      <4> QED BY <1>16, <4>1, <4>2, <4>3
    <3>4. ASSUME NEW j \in 1 .. l PROVE n + j \notin H
      <4>1. n + j \in 0 .. q - 1 /\ ~(n + j <= n)
        BY <1>4, <3>2
      <4> QED BY <1>18, <4>1
    <3>5. l \in Nat \ {0} /\ n + 1 + l <= q
      BY <1>4, <3>2
    <3>6. e[h] = l /\ h = n
      BY <2>2, <3>1
    <3>7. e[n] \in Nat \ {0} /\ n + 1 + e[n] <= q /\ n + 1 + e[n] = q
      BY <3>1, <3>2, <3>5
    <3>8. /\ \A j \in 0 .. e[n] : I[n + 1 + j] = I[n] + j
          /\ \A j \in 1 .. e[n] : n + j \notin H
      BY <3>1, <3>3, <3>4
    <3> QED BY <2>2, <3>7, <3>8
  <2>3. CASE h # n
    <3>1. h \in 0 .. n - 1
      BY <2>1, <2>3
    <3>2. h \in heads /\ e[h] = d[h]
      BY <1>18, <3>1
    <3>3. /\ d[h] \in Nat \ {0} /\ h + 1 + d[h] <= n
          /\ h + 1 + d[h] = n \/ h + 1 + d[h] \in heads
          /\ \A j \in 0 .. d[h] : index[h + 1 + j] = index[h] + j
          /\ \A j \in 1 .. d[h] : h + j \notin heads
      BY <1>9, <3>2
    <3>4. ASSUME NEW j \in 0 .. d[h] PROVE I[h + 1 + j] = I[h] + j
      <4>1. h + 1 + j \in 0 .. n /\ h \in 0 .. n
        BY <3>1, <3>3
      <4>2. I[h + 1 + j] = index[h + 1 + j] /\ I[h] = index[h]
        BY <1>13, <4>1
      <4> QED BY <3>3, <4>2
    <3>5. ASSUME NEW j \in 1 .. d[h] PROVE h + j \notin H
      <4>1. h + j \notin heads /\ h + j \in 0 .. n - 1
        BY <3>1, <3>3
      <4> QED BY <1>18, <4>1
    <3>6. h + 1 + d[h] \in H
      BY <1>18, <2>1, <3>3
    <3>7. h + 1 + d[h] <= q
      BY <1>6, <3>1, <3>3
    <3> QED BY <3>2, <3>3, <3>4, <3>5, <3>6, <3>7
  <2> QED BY <2>2, <2>3
<1>26. Framed(e, q, messages, H, I)
  BY <1>15, <1>16, <1>18, <1>19, <1>22, <1>23, <1>24, <1>25 DEF Framed
<1>27. Len(x) = Len(r) + I[q]
  BY <1>4, <1>8, <1>10, <1>16
<1>28. ASSUME NEW i \in 1 .. Len(r) PROVE x[i] = r[i]
  <2>1. i \in 1 .. Len(s)
    BY <1>4, <1>10
  <2> QED BY <1>1, <1>8, <2>1
<1>29. ASSUME NEW i \in (0 .. q - 1) \ H PROVE x[Len(r) + I[i] + 1] = e[i]
  <2>1. CASE i < n
    <3>1. i \in (0 .. n - 1) \ heads /\ I[i] = index[i] /\ index[i] \in Nat /\ index[i] < index[n]
      BY <1>21, <2>1
    <3>2. e[i] = d[i] /\ s[Len(r) + index[i] + 1] = d[i]
      BY <1>1, <3>1
    <3>3. Len(r) + index[i] + 1 \in 1 .. Len(s)
      <4>1. /\ Len(r) \in Nat /\ index[i] \in Nat /\ index[n] \in Nat
            /\ index[i] < index[n] /\ Len(s) = Len(r) + index[n]
        BY <1>4, <1>10, <3>1
      <4> QED BY ONLY <4>1, Within
    <3> QED BY <1>8, <3>1, <3>2, <3>3
  <2>2. CASE i >= n
    <3>1. PICK j : j = i - n - k + 1
      OBVIOUS
    <3>2. j \in 1 .. l /\ I[i] = index[n] + (i - n - k) /\ i \in Nat
      BY <1>20, <2>2, <3>1
    <3>3. Len(r) + I[i] + 1 = Len(s) + j /\ i = n + k + j - 1
      BY <1>4, <1>10, <3>1, <3>2
    <3>4. e[i] = w[j]
      BY <1>2, <1>3, <3>2, <3>3
    <3> QED BY <1>8, <3>2, <3>3, <3>4
  <2> QED BY <2>1, <2>2
<1>30. InBuffer(e, q, messages, x, r)
  BY <1>26, <1>27, <1>28, <1>29 DEF InBuffer
<1> QED BY <1>2, <1>3, <1>5, <1>7, <1>30

(* Bytes taken off the front of the buffer are those sent next after the   *)
(* ones received.                                                          *)
LEMMA Consumed ==
    ASSUME NEW d, NEW n \in Nat, NEW messages \in BOOLEAN, NEW s \in Seq(Nat), NEW r \in Seq(Nat),
           InBuffer(d, n, messages, s, r), NEW b \in Seq(Nat), b # <<>>,
           HeadCells(messages) + Len(b) <= n,
           messages => d[0] = Len(b),
           \A j \in 1 .. Len(b) : b[j] = d[HeadCells(messages) + j - 1],
           NEW m, m = n - HeadCells(messages) - Len(b), NEW e,
           \A i \in 0 .. m - 1 : e[i] = d[i + HeadCells(messages) + Len(b)]
    PROVE  InBuffer(e, m, messages, s, r \o b)
<1>1. PICK heads, index :
          /\ Framed(d, n, messages, heads, index)
          /\ Len(s) = Len(r) + index[n]
          /\ \A i \in 1 .. Len(r) : s[i] = r[i]
          /\ \A i \in (0 .. n - 1) \ heads : s[Len(r) + index[i] + 1] = d[i]
  BY DEF InBuffer
<1>2. PICK k : k = HeadCells(messages)
  OBVIOUS
<1>3. PICK c : c = Len(b)
  OBVIOUS
<1>4. c \in Nat \ {0} /\ k \in {0, 1} /\ (messages => k = 1) /\ (~messages => k = 0)
      /\ Len(r) \in Nat /\ Len(s) \in Nat
  BY <1>2, <1>3 DEF HeadCells
<1>5. PICK o : o = k + c
  OBVIOUS
<1>6. /\ o \in Nat \ {0} /\ o <= n /\ m = n - o /\ m \in Nat /\ n > 0
      /\ o \in 0 .. n /\ n \in 0 .. n /\ 0 \in 0 .. n /\ m \in 0 .. m /\ 0 \in 0 .. m /\ m + o = n
  <2>1. HeadCells(messages) + Len(b) = o
    BY <1>2, <1>3, <1>5
  <2>2. n - HeadCells(messages) - Len(b) = n - o
    BY <1>2, <1>3, <1>4, <1>5
  <2>3. n \in Nat /\ k \in Nat
    BY <1>4
  <2>4. o \in Nat \ {0} /\ o <= n /\ m = n - o
    BY <1>4, <1>5, <2>1, <2>2
  <2>5. n > 0 /\ n - o \in Nat /\ n - o + o = n
    BY ONLY <2>3, <2>4
  <2> QED BY ONLY <2>3, <2>4, <2>5
<1>7. /\ heads \subseteq 0 .. n - 1
      /\ index \in [0 .. n -> Nat] /\ index[0] = 0
      /\ \A i, j \in 0 .. n : i <= j => index[i] <= index[j]
      /\ \A i \in (0 .. n - 1) \ heads : index[i] < index[n]
      /\ ~messages => heads = {} /\ \A i \in 0 .. n : index[i] = i
      /\ (messages /\ n > 0) => 0 \in heads
      /\ \A h \in heads : /\ d[h] \in Nat \ {0} /\ h + 1 + d[h] <= n
                          /\ h + 1 + d[h] = n \/ h + 1 + d[h] \in heads
                          /\ \A j \in 0 .. d[h] : index[h + 1 + j] = index[h] + j
                          /\ \A j \in 1 .. d[h] : h + j \notin heads
  BY <1>1 DEF Framed
<1>8. ASSUME NEW j \in 0 .. c
      PROVE  k + j \in 0 .. n /\ index[k + j] = j /\ (j < c => k + j \notin heads /\ k + j \in 0 .. n - 1)
  <2>1. k + j \in 0 .. n /\ (j < c => k + j \in 0 .. n - 1)
    BY <1>4, <1>5, <1>6
  <2>2. CASE messages
    <3>1. 0 \in heads /\ d[0] = c /\ k = 1
      BY <1>3, <1>4, <1>6, <1>7, <2>2
    <3>2. index[0 + 1 + j] = index[0] + j
      BY <1>7, <3>1
    <3>3. index[k + j] = j
      <4>1. 0 + 1 + j = k + j /\ 0 + j = j
        BY <3>1
      <4>2. index[0] = 0
        BY <1>7
      <4> QED BY ONLY <3>2, <4>1, <4>2
    <3>4. ASSUME j < c PROVE k + j \notin heads
      <4>1. \A i \in 1 .. c : 0 + i \notin heads
        BY <1>7, <3>1
      <4>2. k + j \in 1 .. c /\ 0 + (k + j) = k + j
        BY <1>4, <3>1, <3>4
      <4> QED BY <4>1, <4>2
    <3> QED BY <2>1, <3>3, <3>4
  <2>3. CASE ~messages
    BY <1>4, <1>7, <2>1, <2>3
  <2> QED BY <2>1, <2>2, <2>3
<1>9. index[o] = c /\ index[n] \in Nat /\ index[n] >= c
  <2>1. index[o] = c
    BY <1>4, <1>5, <1>8
  <2>2. index[n] \in Nat /\ index[o] <= index[n]
    BY <1>6, <1>7
  <2> QED BY <2>1, <2>2
<1>10. PICK I : I = [i \in 0 .. m |-> index[i + o] - c]
  OBVIOUS
<1>11. ASSUME NEW i \in 0 .. m
       PROVE  /\ i + o \in 0 .. n /\ index[i + o] \in Nat /\ index[i + o] >= c
              /\ I[i] = index[i + o] - c /\ I[i] \in Nat
  <2>1. i + o \in 0 .. n /\ o <= i + o
    BY <1>6
  <2>2. index[i + o] \in Nat /\ index[o] <= index[i + o]
    BY <1>6, <1>7, <2>1
  <2>3. I[i] = index[i + o] - c
    BY <1>10
  <2> QED BY <1>4, <1>9, <2>1, <2>2, <2>3
<1>12. I \in [0 .. m -> Nat]
  <2>1. I = [i \in 0 .. m |-> I[i]] /\ \A i \in 0 .. m : I[i] \in Nat
    BY <1>10, <1>11
  <2> QED BY <2>1
<1>13. I[0] = 0 /\ I[m] = index[n] - c
  <2>1. I[0] = index[0 + o] - c /\ I[m] = index[m + o] - c
    BY <1>6, <1>11
  <2>2. 0 + o = o /\ m + o = n /\ c - c = 0
    BY <1>4, <1>6
  <2> QED BY ONLY <1>9, <2>1, <2>2
<1>14. PICK H : H = {i \in 0 .. m - 1 : i + o \in heads}
  OBVIOUS
<1>15. ASSUME NEW i \in 0 .. m, NEW j \in 0 .. m, i <= j PROVE I[i] <= I[j]
  <2>1. i + o \in 0 .. n /\ j + o \in 0 .. n /\ i + o <= j + o
    BY <1>6, <1>15
  <2>2. index[i + o] <= index[j + o]
    BY <1>7, <2>1
  <2>3. /\ I[i] = index[i + o] - c /\ I[j] = index[j + o] - c
        /\ index[i + o] \in Nat /\ index[j + o] \in Nat
    BY <1>11
  <2> QED BY <1>4, <2>2, <2>3
<1>16. ASSUME NEW i \in (0 .. m - 1) \ H
       PROVE  i + o \in (0 .. n - 1) \ heads /\ i \in 0 .. m /\ I[i] < I[m]
  <2>1. i + o \in (0 .. n - 1) \ heads /\ i \in 0 .. m
    <3>1. i \in 0 .. m - 1 /\ n \in Nat
      OBVIOUS
    <3>2. i + o \in 0 .. n - 1 /\ i \in 0 .. m
      BY ONLY <1>6, <3>1
    <3>3. i + o \notin heads
      BY <1>14
    <3> QED BY <3>2, <3>3
  <2>2. index[i + o] < index[n]
    BY <1>7, <2>1
  <2>3. I[i] = index[i + o] - c /\ index[i + o] \in Nat
    BY <1>11, <2>1
  <2>4. I[i] < I[m]
    BY ONLY <1>4, <1>9, <1>13, <2>2, <2>3
  <2> QED BY <2>1, <2>4
<1>17. ASSUME ~messages PROVE H = {} /\ \A i \in 0 .. m : I[i] = i
  <2>1. ASSUME NEW i \in 0 .. m PROVE I[i] = i
    <3>1. o = c
      BY <1>4, <1>5, <1>17
    <3>2. index[i + o] = i + o
      BY <1>7, <1>11, <1>17
    <3>3. I[i] = index[i + o] - c
      BY <1>11
    <3> QED BY <1>4, <3>1, <3>2, <3>3
  <2> QED BY <1>7, <1>14, <1>17, <2>1
<1>18. ASSUME messages, m > 0 PROVE 0 \in H
  <2>1. 0 \in heads /\ d[0] = c /\ k = 1
    BY <1>3, <1>4, <1>6, <1>7, <1>18
  <2>2. 0 + 1 + d[0] = n \/ 0 + 1 + d[0] \in heads
    BY <1>7, <2>1
  <2>3. o = 0 + 1 + c /\ o # n /\ 0 + o = o /\ 0 \in 0 .. m - 1
    <3>1. n \in Nat
      OBVIOUS
    <3> QED BY ONLY <1>4, <1>5, <1>6, <1>18, <2>1, <3>1
  <2>4. 0 + o \in heads
    BY <2>1, <2>2, <2>3
  <2> QED BY <1>14, <2>3, <2>4
<1>19. ASSUME NEW h \in H
       PROVE  /\ e[h] \in Nat \ {0} /\ h + 1 + e[h] <= m
              /\ h + 1 + e[h] = m \/ h + 1 + e[h] \in H
              /\ \A j \in 0 .. e[h] : I[h + 1 + j] = I[h] + j
              /\ \A j \in 1 .. e[h] : h + j \notin H
  <2>1. PICK g : g = h + o
    OBVIOUS
  <2>2. g \in heads /\ h \in 0 .. m - 1 /\ g \in 0 .. n - 1
    BY <1>7, <1>14, <2>1
  <2>3. e[h] = d[g]
    <3>1. h + HeadCells(messages) + Len(b) = g
      <4>1. h \in Int /\ k \in Int /\ c \in Int
        BY <1>4, <2>2
      <4> QED BY ONLY <1>2, <1>3, <1>5, <2>1, <4>1
    <3> QED BY <2>2, <3>1
  <2>4. PICK x : x = d[g]
    OBVIOUS
  <2>5. /\ x \in Nat \ {0} /\ g + 1 + x <= n
        /\ g + 1 + x = n \/ g + 1 + x \in heads
        /\ \A j \in 0 .. x : index[g + 1 + j] = index[g] + j
        /\ \A j \in 1 .. x : g + j \notin heads
    BY <1>7, <2>2, <2>4
  <2>6. /\ h + 1 + x <= m /\ (h + 1 + x) + o = g + 1 + x /\ h \in Nat /\ h \in 0 .. m
        /\ g + 1 + x = n => h + 1 + x = m
    <3>1. n \in Nat /\ o \in Nat /\ m = n - o /\ m + o = n /\ m \in Nat
      BY <1>6
    <3>2. h \in 0 .. m - 1 /\ h \in Nat
      BY ONLY <2>2, <3>1
    <3> QED BY ONLY <2>1, <2>5, <3>1, <3>2
  <2>7. h + 1 + x = m \/ h + 1 + x \in H
    <3>1. CASE g + 1 + x = n
      BY <2>6, <3>1
    <3>2. CASE g + 1 + x \in heads
      <4>1. (h + 1 + x) + o = g + 1 + x /\ h + 1 + x \in 0 .. m - 1
        <5>1. g + 1 + x \in 0 .. n - 1
          BY <1>7, <3>2
        <5> QED BY <1>6, <2>5, <2>6, <5>1
      <4> QED BY <1>14, <3>2, <4>1
    <3> QED BY <2>5, <3>1, <3>2
  <2>8. ASSUME NEW j \in 0 .. x PROVE I[h + 1 + j] = I[h] + j
    <3>1. PICK p : p = h + 1 + j
      OBVIOUS
    <3>2. p \in 0 .. m /\ p + o = g + 1 + j /\ h \in 0 .. m
      <4>1. j \in Nat /\ j <= x /\ x \in Nat /\ o \in Nat /\ m \in Nat
        BY <1>6, <2>5
      <4> QED BY <2>1, <2>6, <3>1, <4>1
    <3>3. /\ I[p] = index[p + o] - c /\ I[h] = index[g] - c
          /\ index[g] \in Nat
      BY <1>11, <2>1, <3>2
    <3>4. index[p + o] = index[g] + j
      BY <2>5, <3>2
    <3>5. I[p] = I[h] + j
      BY <1>4, <3>3, <3>4
    <3> QED BY <3>1, <3>5
  <2>9. ASSUME NEW j \in 1 .. x PROVE h + j \notin H
    <3>1. (h + j) + o = g + j
      BY <1>6, <2>1, <2>2
    <3>2. g + j \notin heads
      BY <2>5
    <3> QED BY <1>14, <3>1, <3>2
  <2> QED BY <2>3, <2>4, <2>5, <2>6, <2>7, <2>8, <2>9
<1>20. Framed(e, m, messages, H, I)
  <2>1. H \subseteq 0 .. m - 1
    BY <1>14
  <2> QED BY <1>12, <1>13, <1>15, <1>16, <1>17, <1>18, <1>19, <2>1 DEF Framed
<1>21. PICK z : z = r \o b
  OBVIOUS
<1>22. /\ Len(z) = Len(r) + c
       /\ \A i \in 1 .. Len(r) : z[i] = r[i]
       /\ \A j \in 1 .. c : z[Len(r) + j] = b[j]
  <2>1. /\ Len(z) = Len(r) + c
        /\ \A i \in 1 .. Len(r) + c : z[i] = IF i <= Len(r) THEN r[i] ELSE b[i - Len(r)]
    BY <1>3, <1>21, ConcatProperties
  <2>2. ASSUME NEW i \in 1 .. Len(r) PROVE z[i] = r[i]
    <3>1. i \in 1 .. Len(r) + c /\ i <= Len(r)
      BY <1>4
    <3> QED BY <2>1, <3>1
  <2>3. ASSUME NEW j \in 1 .. c PROVE z[Len(r) + j] = b[j]
    <3>1. Len(r) + j \in 1 .. Len(r) + c /\ ~(Len(r) + j <= Len(r)) /\ Len(r) + j - Len(r) = j
      BY <1>4
    <3> QED BY <2>1, <3>1
  <2> QED BY <2>1, <2>2, <2>3
<1>23. Len(s) = Len(z) + I[m]
  BY <1>1, <1>4, <1>9, <1>13, <1>22
<1>24. ASSUME NEW i \in 1 .. Len(z) PROVE s[i] = z[i]
  <2>1. CASE i <= Len(r)
    <3>1. i \in 1 .. Len(r)
      BY <1>4, <2>1
    <3> QED BY <1>1, <1>22, <3>1
  <2>2. CASE Len(r) < i
    <3>1. PICK j : j = i - Len(r)
      OBVIOUS
    <3>2. j \in 1 .. c /\ i = Len(r) + j
      BY <1>4, <1>22, <2>2, <3>1
    <3>3. PICK p : p = k + (j - 1)
      OBVIOUS
    <3>4. j - 1 \in 0 .. c /\ j - 1 < c
      BY <1>4, <3>2
    <3>5. p \in (0 .. n - 1) \ heads /\ index[p] = j - 1
      BY <1>8, <3>3, <3>4
    <3>6. s[Len(r) + index[p] + 1] = d[p]
      BY <1>1, <3>5
    <3>7. Len(r) + index[p] + 1 = i
      BY <1>4, <3>2, <3>5
    <3>8. HeadCells(messages) + j - 1 = p
      BY <1>2, <1>4, <3>2, <3>3
    <3>9. b[j] = d[p]
      BY <1>3, <3>2, <3>8
    <3> QED BY <1>22, <3>2, <3>6, <3>7, <3>9
  <2> QED BY <1>4, <1>22, <2>1, <2>2
<1>25. ASSUME NEW i \in (0 .. m - 1) \ H PROVE s[Len(z) + I[i] + 1] = e[i]
  <2>1. i + o \in (0 .. n - 1) \ heads /\ i \in 0 .. m
    BY <1>16
  <2>2. s[Len(r) + index[i + o] + 1] = d[i + o]
    BY <1>1, <2>1
  <2>3. Len(z) + I[i] + 1 = Len(r) + index[i + o] + 1
    BY <1>4, <1>11, <1>22, <2>1
  <2>4. i + HeadCells(messages) + Len(b) = i + o
    BY <1>2, <1>3, <1>4, <1>5, <2>1
  <2>5. e[i] = d[i + o]
    BY <2>4
  <2> QED BY <2>2, <2>3, <2>5
<1>26. InBuffer(e, m, messages, s, z)
  <2> SUFFICES \E hs, ix :
                  /\ Framed(e, m, messages, hs, ix)
                  /\ Len(s) = Len(z) + ix[m]
                  /\ \A i \in 1 .. Len(z) : s[i] = z[i]
                  /\ \A i \in (0 .. m - 1) \ hs : s[Len(z) + ix[i] + 1] = e[i]
    BY DEF InBuffer
  <2> WITNESS H, I
  <2> QED BY ONLY <1>20, <1>23, <1>24, <1>25
<1> QED BY <1>21, <1>26

(* What was taken is what went first, and the rest is what the buffer      *)
(* holds.                                                                  *)
Ordered(d, n, messages, s, r) ==
  /\ IsPrefix(r, s)
  /\ ~messages => s = r \o [j \in 1 .. n |-> d[j - 1]]

(* So the bytes received are a prefix of those sent. *)
LEMMA BufferInOrder ==
    ASSUME NEW d, NEW n \in Nat, NEW messages \in BOOLEAN, NEW s \in Seq(Nat), NEW r \in Seq(Nat),
           InBuffer(d, n, messages, s, r)
    PROVE  Ordered(d, n, messages, s, r)
<1>1. PICK heads, index :
          /\ Framed(d, n, messages, heads, index)
          /\ Len(s) = Len(r) + index[n]
          /\ \A i \in 1 .. Len(r) : s[i] = r[i]
          /\ \A i \in (0 .. n - 1) \ heads : s[Len(r) + index[i] + 1] = d[i]
  BY DEF InBuffer
<1>2. /\ n \in 0 .. n /\ index \in [0 .. n -> Nat] /\ Len(r) \in Nat /\ Len(s) \in Nat
      /\ ~messages => heads = {} /\ \A i \in 0 .. n : index[i] = i
  BY <1>1 DEF Framed
<1>3. IsPrefix(r, s)
  <2>1. index[n] \in Nat
    BY <1>2
  <2>2. Len(r) <= Len(s)
    BY ONLY <1>1, <1>2, <2>1
  <2>3. SubSeq(r, 1, Len(r)) = SubSeq(s, 1, Len(r))
    BY <1>1, <1>2, <2>2
  <2> QED BY <2>2, <2>3 DEF IsPrefix
<1>4. ASSUME ~messages PROVE s = r \o [j \in 1 .. n |-> d[j - 1]]
  <2>1. PICK b : b = [j \in 1 .. n |-> d[j - 1]]
    OBVIOUS
  <2>2. heads = {} /\ index[n] = n /\ Len(s) = Len(r) + n
    BY <1>1, <1>2, <1>4
  <2>3. ASSUME NEW j \in 1 .. n PROVE s[Len(r) + j] = d[j - 1] /\ Len(r) + j \in 1 .. Len(s)
    <3>1. j - 1 \in 0 .. n - 1 /\ j - 1 \in 0 .. n
      OBVIOUS
    <3>2. index[j - 1] = j - 1 /\ j - 1 \in (0 .. n - 1) \ heads
      BY <1>2, <1>4, <2>2, <3>1
    <3>3. s[Len(r) + index[j - 1] + 1] = d[j - 1]
      BY <1>1, <3>2
    <3>4. Len(r) + index[j - 1] + 1 = Len(r) + j /\ Len(r) + j \in 1 .. Len(s)
      BY <1>2, <2>2, <3>2
    <3> QED BY <3>3, <3>4
  <2>4. b \in Seq(Nat) /\ Len(b) = n
    <3>1. ASSUME NEW j \in 1 .. n PROVE d[j - 1] \in Nat
      BY <2>3, ElementOfSeq
    <3> QED BY <2>1, <3>1
  <2>5. PICK z : z = r \o b
    OBVIOUS
  <2>6. /\ z \in Seq(Nat) /\ Len(z) = Len(r) + n
        /\ \A i \in 1 .. Len(r) + n : z[i] = IF i <= Len(r) THEN r[i] ELSE b[i - Len(r)]
    BY <2>4, <2>5, ConcatProperties
  <2>7. ASSUME NEW i \in 1 .. Len(s) PROVE s[i] = z[i]
    <3>1. CASE i <= Len(r)
      <4>1. i \in 1 .. Len(r) /\ i \in 1 .. Len(r) + n
        BY <1>2, <2>2, <3>1
      <4> QED BY <1>1, <2>6, <3>1, <4>1
    <3>2. CASE Len(r) < i
      <4>1. PICK j : j = i - Len(r)
        OBVIOUS
      <4>2. j \in 1 .. n /\ i = Len(r) + j /\ i \in 1 .. Len(r) + n /\ ~(i <= Len(r))
        BY <1>2, <2>2, <3>2, <4>1
      <4>3. s[i] = d[j - 1] /\ b[j] = d[j - 1]
        BY <2>1, <2>3, <4>2
      <4> QED BY <2>6, <4>1, <4>2, <4>3
    <3> QED BY <1>2, <3>1, <3>2
  <2>8. s = z
    BY <2>2, <2>6, <2>7, SeqEqual
  <2> QED BY <2>1, <2>5, <2>8
<1> QED BY <1>3, <1>4 DEF Ordered

----------------------------------------------------------------------------
(***************************************************************************)
(* The stream as a ring of cells                                           *)
(***************************************************************************)

StreamFields == {"cells", "xHead", "xTail", "xTriggerLevelBytes", "messages",
                 "xTaskWaitingToReceive", "xTaskWaitingToSend"}
IsStream(S) == /\ DOMAIN S = StreamFields
               /\ S.cells \in [0 .. StreamLength - 1 -> Nat]
               /\ S.xHead \in 0 .. StreamLength - 1 /\ S.xTail \in 0 .. StreamLength - 1
               /\ S.messages \in BOOLEAN
Filled(S) == (S.xHead - S.xTail) % StreamLength
CellsOf(S) == [i \in 0 .. StreamLength - 1 |-> S.cells[At(S.xTail + i)]]

(* A stream in which s was written and r read. *)
Holds(S, s, r) == /\ IsStream(S)
                  /\ s \in Seq(Nat) /\ r \in Seq(Nat)
                  /\ InBuffer(CellsOf(S), Filled(S), S.messages, s, r)

(* xStreamBufferBytesAvailable and xStreamBufferSpacesAvailable: together  *)
(* one less than the length.                                               *)
LEMMA FilledCells ==
    ASSUME NEW S, IsStream(S)
    PROVE  /\ StreamLength \in Nat \ {0}
           /\ Filled(S) \in 0 .. StreamLength - 1
           /\ (S.xTail - S.xHead - 1) % StreamLength = StreamLength - 1 - Filled(S)
           /\ At(S.xTail) = S.xTail
           /\ CellsOf(S) \in [0 .. StreamLength - 1 -> Nat]
           /\ CellsOf(S)[0] = S.cells[S.xTail] /\ S.cells[S.xTail] \in Nat
<1> DEFINE L == StreamLength
           h == S.xHead
           t == S.xTail
           n == Filled(S)
<1>1. L \in Nat \ {0} /\ h \in 0 .. L - 1 /\ t \in 0 .. L - 1 /\ n = (h - t) % L
  BY StreamAssumption DEF IsStream, Filled
<1> HIDE DEF L, h, t, n
<1>2. /\ n \in 0 .. L - 1
      /\ (t - h - 1) % L = L - 1 - n
      /\ \A i \in 0 .. L - 1 : (t + i) % L \in 0 .. L - 1
  <2>1. Ring(L, h, t, n)
    BY <1>1, Cells
  <2> QED BY <2>1 DEF Ring
<1>3. t % L = t
  <2>1. t \in -L .. 2 * L - 1
    BY <1>1
  <2>2. t % L = Wrap(t, L)
    BY <1>1, <2>1, Wraps
  <2> QED BY <1>1, <2>2 DEF Wrap
<1>4. CellsOf(S) = [i \in 0 .. L - 1 |-> S.cells[(t + i) % L]]
  BY DEF CellsOf, At, L, t
<1>5. \A i \in 0 .. L - 1 : S.cells[i] \in Nat
  BY DEF IsStream, L
<1>6. CellsOf(S) \in [0 .. L - 1 -> Nat]
  BY <1>2, <1>4, <1>5
<1>7. CellsOf(S)[0] = S.cells[t] /\ S.cells[t] \in Nat
  <2>1. 0 \in 0 .. L - 1 /\ t + 0 = t
    BY <1>1
  <2>2. CellsOf(S)[0] = S.cells[(t + 0) % L]
    BY <1>4, <2>1
  <2> QED BY <1>1, <1>3, <1>5, <2>1, <2>2
<1> QED BY <1>1, <1>2, <1>3, <1>6, <1>7 DEF At, L, h, t, n

(* The bytes a message is written as. *)
Framing(messages, w) == IF messages THEN <<Len(w)>> \o w ELSE w

IsFraming(messages, w, k, bytes) ==
    /\ k \in {0, 1} /\ (messages => k = 1) /\ (~messages => k = 0)
    /\ bytes \in Seq(Nat) /\ Len(bytes) = k + Len(w)
    /\ messages => bytes[1] = Len(w)
    /\ \A j \in 1 .. Len(w) : bytes[k + j] = w[j]

(* A message is written as its length and then its bytes. *)
LEMMA FramedBytes ==
    ASSUME NEW messages \in BOOLEAN, NEW w \in Seq(Nat), NEW k, k = HeadCells(messages),
           NEW bytes, bytes = Framing(messages, w)
    PROVE  IsFraming(messages, w, k, bytes)
<1>1. CASE messages
  <2>1. k = 1 /\ bytes = <<Len(w)>> \o w
    BY <1>1 DEF HeadCells, Framing
  <2>2. <<Len(w)>> \in Seq(Nat) /\ Len(<<Len(w)>>) = 1 /\ Len(w) \in Nat /\ <<Len(w)>>[1] = Len(w)
    OBVIOUS
  <2>3. /\ bytes \in Seq(Nat) /\ Len(bytes) = 1 + Len(w)
        /\ \A i \in 1 .. 1 + Len(w) : bytes[i] = IF i <= 1 THEN <<Len(w)>>[i] ELSE w[i - 1]
    BY <2>1, <2>2, ConcatProperties
  <2>4. bytes[1] = Len(w)
    <3>1. 1 \in 1 .. 1 + Len(w) /\ 1 <= 1
      BY <2>2
    <3> QED BY <2>2, <2>3, <3>1
  <2>5. ASSUME NEW j \in 1 .. Len(w) PROVE bytes[1 + j] = w[j]
    <3>1. 1 + j \in 1 .. 1 + Len(w) /\ ~(1 + j <= 1) /\ 1 + j - 1 = j
      BY <2>2
    <3> QED BY <2>3, <3>1
  <2> QED BY <1>1, <2>1, <2>3, <2>4, <2>5 DEF IsFraming
<1>2. CASE ~messages
  <2>1. k = 0 /\ bytes = w
    BY <1>2 DEF HeadCells, Framing
  <2> QED BY <1>2, <2>1 DEF IsFraming
<1> QED BY <1>1, <1>2

(* prvWriteBytesToBuffer, of a message that fits. *)
CellsWith(S, bytes) == [i \in DOMAIN S.cells |->
                           LET n == (i - S.xHead) % StreamLength
                           IN IF n < Len(bytes) THEN bytes[n + 1] ELSE S.cells[i]]

(* A stream that the bytes of w were written to holds them behind the      *)
(* others.                                                                 *)
LEMMA Wrote ==
    ASSUME NEW S, NEW s, NEW r, Holds(S, s, r), NEW w \in Seq(Nat), w # <<>>,
           HeadCells(S.messages) + Len(w) <= StreamLength - 1 - Filled(S),
           NEW bytes, bytes = Framing(S.messages, w),
           NEW T, DOMAIN T = StreamFields, T.xTail = S.xTail, T.messages = S.messages,
           T.xHead = At(S.xHead + Len(bytes)),
           T.cells = CellsWith(S, bytes)
    PROVE  /\ Holds(T, s \o w, r)
           /\ Filled(T) = Filled(S) + HeadCells(S.messages) + Len(w)
           /\ Filled(S) > 0 => T.cells[T.xTail] = S.cells[S.xTail]
<1>1. PICK L, h, t, n, k, l, d, e :
          /\ L = StreamLength /\ h = S.xHead /\ t = S.xTail /\ n = Filled(S)
          /\ k = HeadCells(S.messages) /\ l = Len(bytes) /\ d = CellsOf(S) /\ e = CellsOf(T)
  OBVIOUS
<1>2. IsStream(S) /\ s \in Seq(Nat) /\ r \in Seq(Nat) /\ InBuffer(d, n, S.messages, s, r)
  BY <1>1 DEF Holds
<1>3. /\ L \in Nat \ {0} /\ h \in 0 .. L - 1 /\ t \in 0 .. L - 1 /\ n = (h - t) % L
      /\ S.messages \in BOOLEAN /\ S.cells \in [0 .. L - 1 -> Nat] /\ Len(w) \in Nat \ {0}
  <2>1. Len(w) \in Nat \ {0}
    OBVIOUS
  <2> QED BY <1>1, <1>2, <2>1, StreamAssumption DEF IsStream, Filled
<1>4. L \in Nat \ {0} /\ k + Len(w) <= L - 1 - n /\ Len(w) \in Nat \ {0}
  BY <1>1, <1>3
<1>5. /\ k \in {0, 1} /\ (S.messages => k = 1) /\ (~S.messages => k = 0)
      /\ bytes \in Seq(Nat) /\ l = k + Len(w)
      /\ S.messages => bytes[1] = Len(w)
      /\ \A j \in 1 .. Len(w) : bytes[k + j] = w[j]
  <2>1. IsFraming(S.messages, w, k, bytes)
    BY <1>1, <1>3, FramedBytes
  <2> QED BY <1>1, <2>1 DEF IsFraming
<1>6. Ring(L, h, t, n)
  BY <1>3, Cells
<1>7. n \in 0 .. L - 1 /\ n \in Nat
  BY <1>6 DEF Ring
<1>8. /\ \A i \in 0 .. L - 1 - n : (h + i) % L \in 0 .. L - 1 /\ (((h + i) % L) - t) % L = n + i
      /\ \A i \in 0 .. L - 1 : /\ (t + i) % L \in 0 .. L - 1
                               /\ (((t + i) % L) - h) % L = IF i >= n THEN i - n ELSE L + i - n
  BY <1>6 DEF Ring
<1>9. k \in {0, 1} /\ l = k + Len(w)
  BY <1>5
<1>10. l \in 0 .. L - 1 - n /\ l > 0
  BY ONLY <1>4, <1>9, <1>7
<1>11. T.xHead \in 0 .. L - 1 /\ T.xHead = (h + l) % L /\ Filled(T) = n + l
  BY <1>1, <1>8, <1>10 DEF At, Filled
<1>12. \A i \in 0 .. L - 1 : T.cells[i] = IF (i - h) % L < l THEN bytes[((i - h) % L) + 1] ELSE S.cells[i]
  BY <1>1, <1>3 DEF CellsWith
<1>13. ASSUME NEW i \in 0 .. L - 1
      PROVE  /\ d[i] = S.cells[(t + i) % L] /\ e[i] = T.cells[(t + i) % L]
             /\ i < n => e[i] = d[i]
             /\ (i >= n /\ i < n + l) => e[i] = bytes[i - n + 1]
  <2>1. PICK p : p = (t + i) % L
    OBVIOUS
  <2>2. p \in 0 .. L - 1 /\ (p - h) % L = IF i >= n THEN i - n ELSE L + i - n
    BY <1>8, <2>1
  <2>3. d[i] = S.cells[p] /\ e[i] = T.cells[p]
    BY <1>1, <2>1 DEF CellsOf, At
  <2>4. T.cells[p] = IF (p - h) % L < l THEN bytes[((p - h) % L) + 1] ELSE S.cells[p]
    BY <1>12, <2>2
  <2>5. ASSUME i < n PROVE e[i] = d[i]
    <3>1. (p - h) % L = L + i - n /\ ~(L + i - n < l)
      BY ONLY <1>4, <1>7, <1>10, <2>2, <2>5, i \in 0 .. L - 1
    <3> QED BY <2>3, <2>4, <3>1
  <2>6. ASSUME i >= n, i < n + l PROVE e[i] = bytes[i - n + 1]
    <3>1. (p - h) % L = i - n /\ i - n < l
      BY ONLY <1>4, <1>7, <1>10, <2>2, <2>6, i \in 0 .. L - 1
    <3> QED BY <2>3, <2>4, <3>1
  <2> QED BY <2>1, <2>3, <2>5, <2>6
<1>14. \A i \in 0 .. n - 1 : e[i] = d[i]
  <2>1. ASSUME NEW i \in 0 .. n - 1 PROVE e[i] = d[i]
    <3>1. i \in 0 .. L - 1 /\ i < n
      BY ONLY <1>4, <1>7, i \in 0 .. n - 1
    <3> QED BY <1>13, <3>1
  <2> QED BY <2>1
<1>15. ASSUME NEW j \in 1 .. l PROVE e[n + j - 1] = bytes[j]
  <2>1. PICK i : i = n + j - 1
    OBVIOUS
  <2>2. i \in 0 .. L - 1 /\ i >= n /\ i < n + l /\ i - n + 1 = j
    BY ONLY <1>4, <1>7, <1>10, <2>1, j \in 1 .. l
  <2>3. e[i] = bytes[i - n + 1]
    BY <1>13, <2>2
  <2> QED BY <2>1, <2>2, <2>3
<1>16. S.messages => e[n] = Len(w)
  <2>1. 1 \in 1 .. l /\ n + 1 - 1 = n
    BY ONLY <1>7, <1>10
  <2>2. e[n + 1 - 1] = bytes[1]
    BY <1>15, <2>1
  <2> QED BY <1>5, <2>1, <2>2
<1>17. ASSUME NEW j \in 1 .. Len(w) PROVE e[n + k + j - 1] = w[j]
  <2>1. k + j \in 1 .. l /\ n + (k + j) - 1 = n + k + j - 1
    BY ONLY <1>4, <1>9, <1>7, j \in 1 .. Len(w)
  <2>2. e[n + (k + j) - 1] = bytes[k + j]
    BY <1>15, <2>1
  <2> QED BY <1>5, <2>1, <2>2
<1>18. InBuffer(e, n + k + Len(w), S.messages, s \o w, r)
  <2>1. n \in Nat /\ S.messages \in BOOLEAN /\ w # <<>>
    BY <1>3, <1>7
  <2>2. \A j \in 1 .. Len(w) : e[n + HeadCells(S.messages) + j - 1] = w[j]
    BY <1>1, <1>17
  <2>3. InBuffer(e, n + HeadCells(S.messages) + Len(w), S.messages, s \o w, r)
    BY ONLY <1>2, <1>14, <1>16, <2>1, <2>2, w \in Seq(Nat), Appended
  <2> QED BY <1>1, <2>3
<1>19. Filled(T) = n + k + Len(w)
  BY ONLY <1>4, <1>9, <1>7, <1>11
<1>20. IsStream(T)
  <2>1. ASSUME NEW i \in 0 .. L - 1 PROVE T.cells[i] \in Nat
    <3>1. PICK p : p = (i - h) % L
      OBVIOUS
    <3>2. p \in Nat
      <4>1. L \in Nat \ {0} /\ i - h \in Int
        BY ONLY <1>3, <1>4, i \in 0 .. L - 1
      <4> QED BY ONLY <3>1, <4>1
    <3>3. CASE p < l
      <4>1. p + 1 \in 1 .. Len(bytes)
        BY <1>1, <1>10, <3>2, <3>3
      <4>2. bytes[p + 1] \in Nat
        BY <1>5, <4>1, ElementOfSeq
      <4> QED BY <1>12, <3>1, <3>3, <4>2
    <3>4. CASE ~(p < l)
      BY <1>3, <1>12, <3>1, <3>4
    <3> QED BY <3>3, <3>4
  <2>2. T.cells = [i \in 0 .. L - 1 |-> T.cells[i]]
    BY <1>3 DEF CellsWith
  <2>3. T.cells \in [0 .. L - 1 -> Nat]
    BY <2>1, <2>2
  <2> QED BY <1>1, <1>3, <1>11, <2>3 DEF IsStream
<1>21. s \o w \in Seq(Nat)
  BY <1>2
<1>22. Holds(T, s \o w, r)
  BY <1>1, <1>2, <1>18, <1>19, <1>20, <1>21 DEF Holds
<1>23. ASSUME n > 0 PROVE T.cells[T.xTail] = S.cells[S.xTail]
  <2>1. 0 \in 0 .. n - 1
    BY <1>7, <1>23
  <2>2. e[0] = d[0]
    BY <1>14, <2>1
  <2>3. e[0] = T.cells[T.xTail] /\ d[0] = S.cells[S.xTail]
    BY <1>1, <1>2, <1>20, FilledCells
  <2> QED BY <2>2, <2>3
<1> QED BY <1>1, <1>19, <1>22, <1>23

(* prvReadBytesFromBuffer, of a message that is there. *)
Removes(S, T, k, c, b) ==
    /\ c \in Nat \ {0} /\ k = HeadCells(S.messages) /\ k + c <= Filled(S)
    /\ S.messages => S.cells[S.xTail] = c
    /\ DOMAIN T = StreamFields /\ T.xHead = S.xHead /\ T.messages = S.messages
    /\ T.cells = S.cells /\ T.xTail = At(S.xTail + k + c)
    /\ b = [j \in 1 .. c |-> S.cells[At(S.xTail + k + j - 1)]]

LEMMA Took ==
    ASSUME NEW S, NEW s, NEW r, Holds(S, s, r), NEW T, NEW k, NEW c, NEW b, Removes(S, T, k, c, b)
    PROVE  Holds(T, s, r \o b) /\ Filled(T) = Filled(S) - k - c
<1>. /\ c \in Nat \ {0} /\ k = HeadCells(S.messages) /\ k + c <= Filled(S)
     /\ S.messages => S.cells[S.xTail] = c
     /\ DOMAIN T = StreamFields /\ T.xHead = S.xHead /\ T.messages = S.messages
     /\ T.cells = S.cells /\ T.xTail = At(S.xTail + k + c)
     /\ b = [j \in 1 .. c |-> S.cells[At(S.xTail + k + j - 1)]]
  BY DEF Removes
<1>1. PICK L, h, t, n, d, e, m :
          /\ L = StreamLength /\ h = S.xHead /\ t = S.xTail /\ n = Filled(S)
          /\ d = CellsOf(S) /\ e = CellsOf(T) /\ m = n - k - c
  OBVIOUS
<1>2. IsStream(S) /\ s \in Seq(Nat) /\ r \in Seq(Nat) /\ InBuffer(d, n, S.messages, s, r)
  BY <1>1 DEF Holds
<1>3. /\ L \in Nat \ {0} /\ h \in 0 .. L - 1 /\ t \in 0 .. L - 1 /\ n = (h - t) % L
      /\ S.messages \in BOOLEAN /\ S.cells \in [0 .. L - 1 -> Nat]
      /\ k \in {0, 1}
  BY <1>1, <1>2, StreamAssumption DEF IsStream, Filled, HeadCells
<1>4. Ring(L, h, t, n)
  BY <1>3, Cells
<1>5. n \in 0 .. L - 1 /\ n \in Nat /\ L \in Nat \ {0} /\ t \in 0 .. L - 1 /\ k \in {0, 1}
  BY <1>3, <1>4 DEF Ring
<1>6. /\ \A i \in 0 .. n : \A p : p = (t + i) % L => p \in 0 .. L - 1 /\ (h - p) % L = n - i
      /\ \A i, j \in 0 .. L - 1 : i + j <= L - 1 => (((t + j) % L) + i) % L = (t + j + i) % L
      /\ \A i \in 0 .. L - 1 : (t + i) % L \in 0 .. L - 1
  BY <1>4 DEF Ring
<1>7. PICK o : o = k + c
  OBVIOUS
<1>8. /\ o \in 0 .. n /\ o \in 0 .. L - 1 /\ m \in 0 .. L - 1 /\ m = n - o /\ c \in Nat /\ k + c <= n
      /\ n \in Nat /\ m \in Nat
  <2>1. k + c <= n /\ m = n - k - c
    BY <1>1
  <2> QED BY ONLY <1>5, <1>7, <2>1, c \in Nat \ {0}
<1>9. T.xTail = (t + o) % L
  <2>1. t + k + c = t + o
    BY ONLY <1>5, <1>7, <1>8
  <2> QED BY <1>1, <2>1 DEF At
<1>10. Filled(T) = m /\ T.xTail \in 0 .. L - 1
  <2>1. PICK p : p = (t + o) % L
    OBVIOUS
  <2>2. p \in 0 .. L - 1 /\ (h - p) % L = n - o
    BY <1>6, <1>8, <2>1
  <2>3. T.xTail = p
    BY <1>9, <2>1
  <2>4. Filled(T) = (h - p) % L
    BY <1>1, <2>3 DEF Filled
  <2> QED BY <1>8, <2>2, <2>3, <2>4
<1>11. \A i \in 0 .. L - 1 : d[i] = S.cells[(t + i) % L] /\ e[i] = S.cells[(((t + o) % L) + i) % L]
  BY <1>1, <1>9 DEF CellsOf, At
<1>12. ASSUME NEW i \in 0 .. m - 1 PROVE e[i] = d[i + k + c]
  <2>1. i \in 0 .. L - 1 /\ o + i \in 0 .. L - 1 /\ i + o <= L - 1 /\ i + k + c = o + i /\ t + (o + i) = t + o + i
    BY ONLY <1>5, <1>7, <1>8, i \in 0 .. m - 1
  <2>2. (((t + o) % L) + i) % L = (t + o + i) % L
    BY <1>6, <1>8, <2>1
  <2>3. d[o + i] = S.cells[(t + (o + i)) % L] /\ e[i] = S.cells[(((t + o) % L) + i) % L]
    BY <1>11, <2>1
  <2> QED BY <2>1, <2>2, <2>3
<1>13. ASSUME NEW j \in 1 .. c PROVE b[j] = d[k + j - 1] /\ b[j] \in Nat
  <2>1. k + j - 1 \in 0 .. L - 1 /\ t + k + j - 1 = t + (k + j - 1)
    BY ONLY <1>5, <1>8, j \in 1 .. c
  <2>2. d[k + j - 1] = S.cells[(t + (k + j - 1)) % L] /\ (t + (k + j - 1)) % L \in 0 .. L - 1
    BY <1>6, <1>11, <2>1
  <2>3. b[j] = S.cells[(t + k + j - 1) % L]
    BY <1>1 DEF At
  <2>4. b[j] = d[k + j - 1]
    BY <2>1, <2>2, <2>3
  <2>5. d[k + j - 1] \in Nat
    BY <1>3, <2>2
  <2> QED BY <2>4, <2>5
<1>14. b \in Seq(Nat) /\ Len(b) = c /\ b # <<>>
  <2>1. b = [j \in 1 .. c |-> b[j]]
    OBVIOUS
  <2>2. b \in [1 .. c -> Nat]
    BY <1>13, <2>1
  <2>3. b \in Seq(Nat) /\ Len(b) = c
    BY <1>8, <2>2
  <2> QED BY <2>3
<1>15. S.messages => d[0] = c
  BY <1>1, <1>2, FilledCells
<1>16. InBuffer(e, m, S.messages, s, r \o b)
  <2>1. /\ HeadCells(S.messages) + Len(b) <= n
        /\ m = n - HeadCells(S.messages) - Len(b)
        /\ S.messages => d[0] = Len(b)
    BY <1>1, <1>8, <1>14, <1>15
  <2>2. \A j \in 1 .. Len(b) : b[j] = d[HeadCells(S.messages) + j - 1]
    BY <1>13, <1>14
  <2>3. \A i \in 0 .. m - 1 : e[i] = d[i + HeadCells(S.messages) + Len(b)]
    BY <1>12, <1>14
  <2>4. S.messages \in BOOLEAN /\ n \in Nat
    BY <1>3, <1>5
  <2> QED BY ONLY <1>2, <1>14, <2>1, <2>2, <2>3, <2>4, Consumed
<1>17. IsStream(T)
  BY <1>1, <1>2, <1>10 DEF IsStream
<1> QED BY <1>1, <1>2, <1>10, <1>14, <1>16, <1>17 DEF Holds

----------------------------------------------------------------------------
(***************************************************************************)
(* The stream keeps its order                                              *)
(***************************************************************************)

(* What a call has learnt of the stream still holds when it acts on it:    *)
(* the space a writer counted is there, and the bytes a reader counted,    *)
(* the whole of a message if it is one.                                    *)
Before == {"start", "test", "wait", "waited", "forget", "check", "write"}
Fits(c, r, S) ==
    /\ (r.api \in StreamSend /\ c.stage \in Before) => c.space \in 0 .. StreamLength - 1 - Filled(S)
    /\ (r.api \in StreamReceive /\ c.stage = "read") =>
           /\ c.space \in 0 .. Filled(S)
           /\ (S.messages /\ c.space > 0) => S.cells[S.xTail] + 1 <= c.space

StreamInv == /\ Holds(stream, sent, received)
             /\ \A t \in Tasks : Fits(call[t], Request(t), stream)

(* What StreamInv says of the stream. *)
LEMMA StreamFacts ==
    ASSUME StreamInv
    PROVE  /\ IsStream(stream) /\ sent \in Seq(Nat) /\ received \in Seq(Nat)
           /\ stream.messages \in BOOLEAN
           /\ StreamLength \in Nat \ {0} /\ Filled(stream) \in 0 .. StreamLength - 1
           /\ BytesInBuffer = Filled(stream)
           /\ SpacesAvailable = StreamLength - 1 - Filled(stream)
           /\ Header = HeadCells(stream.messages) /\ Header \in {0, 1}
           /\ IsMessageBuffer = stream.messages
           /\ stream.cells[stream.xTail] \in Nat
<1>1. Holds(stream, sent, received)
  BY DEF StreamInv
<1>2. IsStream(stream) /\ sent \in Seq(Nat) /\ received \in Seq(Nat) /\ stream.messages \in BOOLEAN
  BY <1>1 DEF Holds, IsStream
<1>3. /\ StreamLength \in Nat \ {0} /\ Filled(stream) \in 0 .. StreamLength - 1
      /\ SpacesAvailable = StreamLength - 1 - Filled(stream)
      /\ stream.cells[stream.xTail] \in Nat
  BY <1>2, FilledCells DEF SpacesAvailable
<1>4. BytesInBuffer = Filled(stream)
  BY DEF BytesInBuffer, Filled
<1>5. Header = HeadCells(stream.messages) /\ Header \in {0, 1} /\ IsMessageBuffer = stream.messages
  BY DEF Header, HeadCells, HeaderBytes, IsMessageBuffer
<1> QED BY <1>2, <1>3, <1>4, <1>5

(* Of the tasks at most one is sending, and at most one receiving. *)
LEMMA OneWriter ==
    ASSUME CallInv
    PROVE  /\ \A t, u \in Tasks : Request(t).api \in Writes /\ Request(u).api \in Writes => t = u
           /\ \A t, u \in Tasks : Request(t).api \in Reads /\ Request(u).api \in Reads => t = u
           /\ \A t, u \in Tasks : Request(t).api \in Reads /\ Request(u).api = "xStreamBufferReset" => t = u
           /\ served < Len(Interrupts) =>
                  /\ ISR.api \in Writes => \A t \in Tasks : Request(t).api \notin Writes
                  /\ ISR.api \in Reads => \A t \in Tasks : Request(t).api \notin Reads
<1>1. PICK name \in DOMAIN Scenarios : scenario = Scenarios[name]
  BY DEF CallInv
<1>2. /\ \A x, y \in Callers(scenario, Writes) : x = y
      /\ \A x, y \in Callers(scenario, Reads) : x = y
      /\ \A x \in Callers(scenario, Reads) \ {Handler}, y \in Callers(scenario, {"xStreamBufferReset"}) : x = y
  BY <1>1, StreamAssumption
<1>3. ASSUME NEW t \in Tasks, NEW apis, Request(t).api \in apis PROVE t \in Callers(scenario, apis)
  <2>1. call[t].pc \in DOMAIN scenario.program[t]
    BY DEF CallInv, Program
  <2> QED BY <1>3, <2>1 DEF Callers, Request, Program
<1>4. ASSUME NEW apis, served < Len(Interrupts), ISR.api \in apis PROVE Handler \in Callers(scenario, apis)
  <2>1. Interrupts \in Seq(ToSet(Interrupts))
    BY <1>1, ScenariosAssumption DEF Interrupts
  <2>2. served + 1 \in DOMAIN scenario.interrupts
    BY <1>4, <2>1 DEF CallInv, Interrupts
  <2> QED BY <1>4, <2>2 DEF Callers, ISR, Interrupts
<1>5. Handler \notin Tasks
  BY QueuesAssumption
<1>6. \A t, u \in Tasks : Request(t).api \in Reads /\ Request(u).api = "xStreamBufferReset" => t = u
  <2> SUFFICES ASSUME NEW t \in Tasks, NEW u \in Tasks, Request(t).api \in Reads,
                      Request(u).api = "xStreamBufferReset"
               PROVE  t = u
    OBVIOUS
  <2>1. Request(u).api \in {"xStreamBufferReset"}
    OBVIOUS
  <2> QED BY <1>2, <1>3, <1>5, <2>1
<1>7. /\ \A t, u \in Tasks : Request(t).api \in Writes /\ Request(u).api \in Writes => t = u
      /\ \A t, u \in Tasks : Request(t).api \in Reads /\ Request(u).api \in Reads => t = u
  BY <1>2, <1>3
<1>8. ASSUME served < Len(Interrupts)
      PROVE  /\ ISR.api \in Writes => \A t \in Tasks : Request(t).api \notin Writes
             /\ ISR.api \in Reads => \A t \in Tasks : Request(t).api \notin Reads
  BY <1>2, <1>3, <1>4, <1>5, <1>8
<1> QED BY <1>6, <1>7, <1>8

(* A call just entered knows nothing. *)
LEMMA FitsOnEntry ==
    ASSUME NEW program, NEW n, NEW S, IsStream(S)
    PROVE  LET c == Enter(program, n) IN Fits(c, program[c.pc], S)
<1>1. PICK c : c = Enter(program, n)
  OBVIOUS
<1>2. c.space = 0 /\ c.stage # "read"
  BY <1>1 DEF Enter
<1>3. 0 \in 0 .. StreamLength - 1 - Filled(S)
  BY FilledCells
<1> QED BY <1>1, <1>2, <1>3 DEF Fits

(* Of the stream, a call that waits changes only who is told. *)
SameCells(S, T) == /\ DOMAIN T = DOMAIN S /\ T.cells = S.cells /\ T.xHead = S.xHead /\ T.xTail = S.xTail
                   /\ T.messages = S.messages

(* A stream with the same cells holds the same bytes. *)
LEMMA SameStream ==
    ASSUME NEW S, NEW T, SameCells(S, T)
    PROVE  /\ IsStream(S) => IsStream(T)
           /\ Filled(T) = Filled(S)
           /\ \A s, r : Holds(S, s, r) => Holds(T, s, r)
           /\ \A c, r : Fits(c, r, S) => Fits(c, r, T)
<1>1. (IsStream(S) => IsStream(T)) /\ Filled(T) = Filled(S) /\ CellsOf(T) = CellsOf(S)
  BY DEF SameCells, IsStream, Filled, CellsOf
<1>2. \A s, r : Holds(S, s, r) => Holds(T, s, r)
  BY <1>1 DEF Holds, SameCells
<1>3. \A c, r : Fits(c, r, S) => Fits(c, r, T)
  BY <1>1 DEF Fits, SameCells
<1> QED BY <1>1, <1>2, <1>3

(* What is to show of a step of the task that runs. *)
LEMMA Stepped ==
    ASSUME StreamInv, CallInv, me \in Tasks, Unserved, NEW T, stream' = T,
           Holds(T, sent', received'),
           \A t \in Tasks \ {me} : Fits(call[t], Request(t), T),
           \/ Return
           \/ \E c : Set(c) /\ c.pc = call[me].pc /\ Fits(c, Now, T)
    PROVE  StreamInv'
<1>1. IsStream(T)
  BY DEF Holds
<1>2. ASSUME NEW t \in Tasks, t # me, call'[t] = call[t] PROVE Fits(call'[t], Request(t)', T)
  <2>1. Request(t)' = Request(t)
    BY <1>2 DEF Request, Program, Unserved
  <2> QED BY <1>2, <2>1
<1>3. CASE Return
  <2>1. ASSUME NEW t \in Tasks PROVE Fits(call'[t], Request(t)', T)
    <3>1. CASE t = me
      <4>1. PICK c : c = Enter(Program(me), call[me].pc + 1)
        OBVIOUS
      <4>2. call'[t] = c
        BY <1>3, <3>1, <4>1 DEF Return, CallInv
      <4>3. Request(t)' = Program(me)[c.pc]
        BY <3>1, <4>2 DEF Request, Program, Unserved
      <4>4. Fits(c, Program(me)[c.pc], T)
        BY <1>1, <4>1, FitsOnEntry
      <4> QED BY <4>2, <4>3, <4>4
    <3>2. CASE t # me
      <4>1. call'[t] = call[t]
        BY <1>3, <3>2 DEF Return, CallInv
      <4> QED BY <1>2, <3>2, <4>1
    <3> QED BY <3>1, <3>2
  <2> QED BY <2>1 DEF StreamInv
<1>4. ASSUME NEW c, Set(c), c.pc = call[me].pc, Fits(c, Now, T) PROVE StreamInv'
  <2>1. ASSUME NEW t \in Tasks PROVE Fits(call'[t], Request(t)', T)
    <3>1. CASE t = me
      <4>1. call'[t] = c
        BY <1>4, <3>1 DEF Set, CallInv
      <4>2. Request(t)' = Now
        BY <1>4, <3>1, <4>1 DEF Request, Program, Unserved, Now
      <4> QED BY <1>4, <4>1, <4>2
    <3>2. CASE t # me
      <4>1. call'[t] = call[t]
        BY <1>4, <3>2 DEF Set, CallInv
      <4> QED BY <1>2, <3>2, <4>1
    <3> QED BY <3>1, <3>2
  <2> QED BY <2>1 DEF StreamInv
<1> QED BY <1>3, <1>4

(* A step that leaves the cells alone. *)
LEMMA Quiet ==
    ASSUME StreamInv, CallInv, me \in Tasks, Unserved, SameCells(stream, stream'), UNCHANGED <<sent, received>>,
           \/ Return
           \/ \E c : Set(c) /\ c.pc = call[me].pc /\ Fits(c, Now, stream)
    PROVE  StreamInv'
<1>1. PICK S, T : S = stream /\ T = stream'
  OBVIOUS
<1>2. SameCells(S, T)
  BY <1>1
<1>3. /\ Holds(S, sent, received) => Holds(T, sent, received)
      /\ \A c, r : Fits(c, r, S) => Fits(c, r, T)
  BY <1>2, SameStream
<1>4. Holds(T, sent', received')
  BY <1>1, <1>3 DEF StreamInv
<1>5. \A t \in Tasks : Fits(call[t], Request(t), T)
  BY <1>1, <1>3 DEF StreamInv
<1>6. Return \/ \E c : Set(c) /\ c.pc = call[me].pc /\ Fits(c, Now, T)
  BY <1>1, <1>3
<1> QED BY <1>1, <1>4, <1>5, <1>6, Stepped

(* Another stage of the same call. *)
LEMMA Turned ==
    ASSUME CallInv, me \in Tasks, NEW stage, Goto(stage)
    PROVE  \E c : /\ Set(c) /\ c.pc = call[me].pc /\ c.space = call[me].space /\ c.stage = stage
<1>1. PICK c : c = [call[me] EXCEPT !.stage = stage]
  OBVIOUS
<1>2. c.pc = call[me].pc /\ c.space = call[me].space /\ c.stage = stage
  BY <1>1 DEF CallInv, Locals
<1>3. Set(c)
  BY <1>1 DEF Goto, Set
<1> QED BY <1>2, <1>3

(* What a task that sends or receives asks for. *)
LEMMA Asks ==
    ASSUME CallInv, me \in Tasks
    PROVE  /\ Now = Request(me)
           /\ Now.api \in Writes => Now.with \in Seq(Nat)
           /\ Now.api \in Reads => Now.with \in Nat
<1>1. PICK name \in DOMAIN Scenarios : scenario = Scenarios[name]
  BY DEF CallInv
<1>2. call[me].pc \in DOMAIN scenario.program[me]
  BY DEF CallInv, Program
<1>3. \A i \in DOMAIN scenario.program[me] : Fitting(scenario.program[me][i])
  BY <1>1, StreamAssumption
<1> QED BY <1>2, <1>3 DEF Now, Request, Program, Fitting

(* The steps of xStreamBufferSend around its write leave the bytes alone. *)
LEMMA SendWaits ==
    ASSUME StreamInv, CallInv, SendStart \/ SendTest \/ SendForget \/ SendCheckForTimeOut \/ SendWritten
    PROVE  StreamInv'
<1>1. DOMAIN stream = StreamFields /\ SameCells(stream, stream)
  BY StreamFacts DEF IsStream, SameCells
<1>2. ASSUME me \in Tasks, Now.api \in StreamSend, call[me].stage \in Before
      PROVE  call[me].space \in 0 .. StreamLength - 1 - Filled(stream)
  BY <1>2 DEF StreamInv, Fits, Now
<1>3. ASSUME NEW c, Now.api \in StreamSend, c.space \in 0 .. StreamLength - 1 - Filled(stream)
      PROVE  Fits(c, Now, stream)
  BY <1>3 DEF Fits, StreamSend, StreamReceive
<1>4. CASE SendStart
  <2>1. /\ me \in Tasks /\ Unserved /\ Now.api \in StreamSend /\ call[me].stage = "start"
        /\ SameCells(stream, stream') /\ UNCHANGED <<sent, received>>
        /\ \/ Goto("write")
           \/ Set([call[me] EXCEPT !.stage = "test", !.since = TimeOutState(kernel)])
    BY <1>1, <1>4 DEF SendStart, InCall, SameCells
  <2>2. call[me].space \in 0 .. StreamLength - 1 - Filled(stream)
    BY <1>2, <2>1 DEF Before
  <2>3. \E c : Set(c) /\ c.pc = call[me].pc /\ c.space = call[me].space
    <3>1. CASE Goto("write")
      BY <2>1, <3>1, Turned
    <3>2. CASE Set([call[me] EXCEPT !.stage = "test", !.since = TimeOutState(kernel)])
      <4>1. PICK c : c = [call[me] EXCEPT !.stage = "test", !.since = TimeOutState(kernel)]
        OBVIOUS
      <4>2. c.pc = call[me].pc /\ c.space = call[me].space
        BY <2>1, <4>1 DEF CallInv, Locals
      <4> QED BY <3>2, <4>1, <4>2
    <3> QED BY <2>1, <3>1, <3>2
  <2>4. \E c : Set(c) /\ c.pc = call[me].pc /\ Fits(c, Now, stream)
    BY <1>3, <2>1, <2>2, <2>3
  <2> QED BY <2>1, <2>4, Quiet
<1>5. CASE SendTest
  <2>1. /\ me \in Tasks /\ Unserved /\ Now.api \in StreamSend
        /\ SameCells(stream, stream') /\ UNCHANGED <<sent, received>>
        /\ \/ Set([call[me] EXCEPT !.stage = "wait", !.space = SpacesAvailable])
           \/ Set([call[me] EXCEPT !.stage = "write", !.space = SpacesAvailable])
    <3>1. /\ me \in Tasks /\ Unserved /\ Now.api \in StreamSend /\ UNCHANGED <<sent, received>>
          /\ \/ /\ stream' = [stream EXCEPT !.xTaskWaitingToSend = me]
                /\ Set([call[me] EXCEPT !.stage = "wait", !.space = SpacesAvailable])
             \/ /\ Set([call[me] EXCEPT !.stage = "write", !.space = SpacesAvailable])
                /\ stream' = stream
      BY <1>5 DEF SendTest, InCall
    <3>2. SameCells(stream, [stream EXCEPT !.xTaskWaitingToSend = me])
      BY <1>1 DEF SameCells, StreamFields
    <3> QED BY <1>1, <3>1, <3>2
  <2>2. PICK n : n = SpacesAvailable
    OBVIOUS
  <2>3. n \in 0 .. StreamLength - 1 - Filled(stream)
    BY <2>2, StreamFacts
  <2>4. \E c : Set(c) /\ c.pc = call[me].pc /\ c.space = n
    <3>1. PICK c, d : /\ c = [call[me] EXCEPT !.stage = "wait", !.space = SpacesAvailable]
                      /\ d = [call[me] EXCEPT !.stage = "write", !.space = SpacesAvailable]
      OBVIOUS
    <3>2. c.pc = call[me].pc /\ c.space = n /\ d.pc = call[me].pc /\ d.space = n
      BY <2>1, <2>2, <3>1 DEF CallInv, Locals
    <3> QED BY <2>1, <3>1, <3>2
  <2>5. \E c : Set(c) /\ c.pc = call[me].pc /\ Fits(c, Now, stream)
    BY <1>3, <2>1, <2>3, <2>4
  <2> QED BY <2>1, <2>5, Quiet
<1>6. CASE SendForget
  <2>1. /\ me \in Tasks /\ Unserved /\ Now.api \in StreamSend /\ call[me].stage = "forget"
        /\ UNCHANGED <<sent, received>> /\ Goto("check")
        /\ stream' = [stream EXCEPT !.xTaskWaitingToSend = NoReader]
    BY <1>6 DEF SendForget, InCall
  <2>2. SameCells(stream, stream')
    BY <1>1, <2>1 DEF SameCells, StreamFields
  <2>3. call[me].space \in 0 .. StreamLength - 1 - Filled(stream)
    BY <1>2, <2>1 DEF Before
  <2>4. \E c : Set(c) /\ c.pc = call[me].pc /\ Fits(c, Now, stream)
    BY <1>3, <2>1, <2>3, Turned
  <2> QED BY <2>1, <2>2, <2>4, Quiet
<1>7. CASE SendCheckForTimeOut
  <2>1. /\ me \in Tasks /\ Unserved /\ Now.api \in StreamSend /\ call[me].stage = "check"
        /\ SameCells(stream, stream') /\ UNCHANGED <<sent, received>>
        /\ \/ Set([call[me] EXCEPT !.stage = "write", !.outcome = "aborted"])
           \/ Set([call[me] EXCEPT !.stage = "write", !.outcome = "expired", !.ticks = 0])
           \/ Set([call[me] EXCEPT !.stage = "test", !.ticks = TicksLeft(kernel, call[me].since, @),
                         !.since = IF call[me].ticks = portMAX_DELAY THEN @ ELSE TimeOutState(kernel)])
    BY <1>1, <1>7 DEF SendCheckForTimeOut, InCall, SameCells
  <2>2. call[me].space \in 0 .. StreamLength - 1 - Filled(stream)
    BY <1>2, <2>1 DEF Before
  <2>3. \E c : Set(c) /\ c.pc = call[me].pc /\ c.space = call[me].space
    <3>1. PICK c, d, e :
              /\ c = [call[me] EXCEPT !.stage = "write", !.outcome = "aborted"]
              /\ d = [call[me] EXCEPT !.stage = "write", !.outcome = "expired", !.ticks = 0]
              /\ e = [call[me] EXCEPT !.stage = "test", !.ticks = TicksLeft(kernel, call[me].since, @),
                         !.since = IF call[me].ticks = portMAX_DELAY THEN @ ELSE TimeOutState(kernel)]
      OBVIOUS
    <3>2. /\ c.pc = call[me].pc /\ c.space = call[me].space
          /\ d.pc = call[me].pc /\ d.space = call[me].space
          /\ e.pc = call[me].pc /\ e.space = call[me].space
      BY <2>1, <3>1 DEF CallInv, Locals
    <3> QED BY <2>1, <3>1, <3>2
  <2>4. \E c : Set(c) /\ c.pc = call[me].pc /\ Fits(c, Now, stream)
    BY <1>3, <2>1, <2>2, <2>3
  <2> QED BY <2>1, <2>4, Quiet
<1>8. CASE SendWritten
  <2>1. /\ me \in Tasks /\ Unserved /\ Now.api \in StreamSend
        /\ SameCells(stream, stream') /\ UNCHANGED <<sent, received>>
        /\ Goto("complete") \/ Return
    BY <1>1, <1>8 DEF SendWritten, InCall, SameCells
  <2>2. CASE Goto("complete")
    <3>1. \E c : Set(c) /\ c.pc = call[me].pc /\ Fits(c, Now, stream)
      <4>1. PICK c : Set(c) /\ c.pc = call[me].pc /\ c.stage = "complete"
        BY <2>1, <2>2, Turned
      <4>2. Fits(c, Now, stream)
        BY <4>1 DEF Fits, Before
      <4> QED BY <4>1, <4>2
    <3> QED BY <2>1, <3>1, Quiet
  <2>3. CASE Return
    BY <2>1, <2>3, Quiet
  <2> QED BY <2>1, <2>2, <2>3
<1> QED BY <1>4, <1>5, <1>6, <1>7, <1>8

(* So do those in which a sender or a receiver waits and is told. *)
LEMMA EitherWaits ==
    ASSUME StreamInv, CallInv, StreamWait \/ StreamWaited \/ CompleteSuspend \/ CompleteNotify \/ StreamReturns
    PROVE  StreamInv'
<1>1. DOMAIN stream = StreamFields /\ SameCells(stream, stream)
  BY StreamFacts DEF IsStream, SameCells
<1>2. CASE StreamReturns
  <2>1. /\ me \in Tasks /\ Unserved /\ Return
        /\ SameCells(stream, stream') /\ UNCHANGED <<sent, received>>
    BY <1>1, <1>2 DEF StreamReturns, InCall, SameCells
  <2> QED BY <2>1, Quiet
<1>3. ASSUME NEW stage, Goto(stage), me \in Tasks, stage # "read",
             stage \in Before => call[me].stage \in Before
      PROVE  \E c : Set(c) /\ c.pc = call[me].pc /\ Fits(c, Now, stream)
  <2>1. PICK c : Set(c) /\ c.pc = call[me].pc /\ c.space = call[me].space /\ c.stage = stage
    BY <1>3, Turned
  <2>2. Fits(call[me], Now, stream)
    BY <1>3 DEF StreamInv, Now
  <2>3. Fits(c, Now, stream)
    BY <1>3, <2>1, <2>2 DEF Fits
  <2> QED BY <2>1, <2>3
<1>4. CASE StreamWait \/ StreamWaited \/ CompleteSuspend
  <2>1. /\ me \in Tasks /\ Unserved /\ SameCells(stream, stream') /\ UNCHANGED <<sent, received>>
        /\ \E stage : /\ Goto(stage) /\ stage # "read"
                      /\ stage \in Before => call[me].stage \in Before
    BY <1>1, <1>4 DEF StreamWait, StreamWaited, CompleteSuspend, InCall, SameCells, Before
  <2>2. \E c : Set(c) /\ c.pc = call[me].pc /\ Fits(c, Now, stream)
    BY <1>3, <2>1
  <2> QED BY <2>1, <2>2, Quiet
<1>5. CASE CompleteNotify
  <2>1. /\ me \in Tasks /\ Unserved /\ UNCHANGED <<sent, received>> /\ Goto("resume")
        /\ stream' = stream \/ stream' = Forgotten(Now.api \in StreamSend)
    BY <1>5 DEF CompleteNotify, InCall
  <2>2. /\ SameCells(stream, [stream EXCEPT !.xTaskWaitingToReceive = NoReader])
        /\ SameCells(stream, [stream EXCEPT !.xTaskWaitingToSend = NoReader])
    BY <1>1 DEF SameCells, StreamFields
  <2>3. SameCells(stream, stream')
    <3>1. CASE Now.api \in StreamSend
      BY <1>1, <2>1, <2>2, <3>1 DEF Forgotten
    <3>2. CASE Now.api \notin StreamSend
      BY <1>1, <2>1, <2>2, <3>2 DEF Forgotten
    <3> QED BY <3>1, <3>2
  <2>4. "resume" # "read" /\ "resume" \notin Before
    BY DEF Before
  <2>5. \E c : Set(c) /\ c.pc = call[me].pc /\ Fits(c, Now, stream)
    BY <1>3, <2>1, <2>4
  <2> QED BY <2>1, <2>3, <2>5, Quiet
<1> QED BY <1>2, <1>4, <1>5

(* The message at the tail is there as a whole. *)
LEMMA FirstFits ==
    ASSUME StreamInv, stream.messages, Filled(stream) > 0
    PROVE  stream.cells[stream.xTail] + 1 <= Filled(stream)
<1>1. PICK S, d, n : S = stream /\ d = CellsOf(stream) /\ n = Filled(stream)
  OBVIOUS
<1>2. /\ Holds(S, sent, received) /\ S.messages = TRUE /\ n \in Nat \ {0}
      /\ S.cells[S.xTail] \in Nat
  <2>1. /\ stream.messages \in BOOLEAN /\ StreamLength \in Nat \ {0}
        /\ Filled(stream) \in 0 .. StreamLength - 1 /\ stream.cells[stream.xTail] \in Nat
    BY StreamFacts
  <2>2. Filled(stream) \in Nat \ {0}
    BY <2>1
  <2> QED BY <1>1, <2>1, <2>2 DEF StreamInv
<1>3. InBuffer(d, n, TRUE, sent, received)
  BY <1>1, <1>2 DEF Holds
<1>4. d[0] \in Nat \ {0} /\ 1 + d[0] <= n
  BY ONLY <1>2, <1>3, FirstMessage
<1>5. d[0] = S.cells[S.xTail]
  BY <1>1, <1>2, FilledCells DEF Holds
<1> QED BY <1>1, <1>2, <1>4, <1>5

(* So do the steps of xStreamBufferReceive before its read; it counts the  *)
(* bytes last.                                                             *)
LEMMA ReceiveWaits ==
    ASSUME StreamInv, CallInv, ReceiveStart \/ ReceiveForget \/ ReceiveCount \/ xStreamBufferSetTriggerLevel
    PROVE  StreamInv'
<1>1. DOMAIN stream = StreamFields /\ SameCells(stream, stream)
  BY StreamFacts DEF IsStream, SameCells
<1>2. ASSUME me \in Tasks, Now.api \in StreamReceive, Set([call[me] EXCEPT !.stage = "read", !.space = BytesInBuffer])
      PROVE  \E c : Set(c) /\ c.pc = call[me].pc /\ Fits(c, Now, stream)
  <2>1. PICK c, n : c = [call[me] EXCEPT !.stage = "read", !.space = BytesInBuffer] /\ n = Filled(stream)
    OBVIOUS
  <2>2. /\ c.pc = call[me].pc /\ c.space = n /\ Set(c)
        /\ n \in 0 .. StreamLength - 1 /\ n \in Nat /\ stream.messages \in BOOLEAN /\ StreamLength \in Nat
    BY <1>2, <2>1, StreamFacts DEF CallInv, Locals
  <2>3. stream.messages /\ n > 0 => stream.cells[stream.xTail] + 1 <= n
    BY <2>1, FirstFits
  <2>4. Now.api \notin StreamSend
    BY <1>2 DEF StreamSend, StreamReceive
  <2>5. n \in 0 .. n
    BY <2>2
  <2>6. Fits(c, Now, stream)
    BY <2>1, <2>2, <2>3, <2>4, <2>5 DEF Fits
  <2> QED BY <2>2, <2>6
<1>3. ASSUME NEW stage, Goto(stage), me \in Tasks, Now.api \in StreamReceive, stage # "read"
      PROVE  \E c : Set(c) /\ c.pc = call[me].pc /\ Fits(c, Now, stream)
  <2>1. PICK c : Set(c) /\ c.pc = call[me].pc /\ c.stage = stage
    BY <1>3, Turned
  <2>2. Fits(c, Now, stream)
    BY <1>3, <2>1 DEF Fits, StreamSend, StreamReceive
  <2> QED BY <2>1, <2>2
<1>4. CASE ReceiveStart
  <2>1. /\ me \in Tasks /\ Unserved /\ Now.api \in StreamReceive /\ UNCHANGED <<sent, received>>
        /\ \/ Goto("wait") /\ stream' = [stream EXCEPT !.xTaskWaitingToReceive = me]
           \/ Set([call[me] EXCEPT !.stage = "read", !.space = BytesInBuffer]) /\ stream' = stream
    BY <1>4 DEF ReceiveStart, InCall
  <2>2. SameCells(stream, [stream EXCEPT !.xTaskWaitingToReceive = me])
    BY <1>1 DEF SameCells, StreamFields
  <2>3. SameCells(stream, stream')
    BY <1>1, <2>1, <2>2
  <2>4. \E c : Set(c) /\ c.pc = call[me].pc /\ Fits(c, Now, stream)
    BY <1>2, <1>3, <2>1
  <2> QED BY <2>1, <2>3, <2>4, Quiet
<1>5. CASE ReceiveForget
  <2>1. /\ me \in Tasks /\ Unserved /\ Now.api \in StreamReceive /\ UNCHANGED <<sent, received>>
        /\ Goto("count") /\ stream' = [stream EXCEPT !.xTaskWaitingToReceive = NoReader]
    BY <1>5 DEF ReceiveForget, InCall
  <2>2. SameCells(stream, stream')
    BY <1>1, <2>1 DEF SameCells, StreamFields
  <2>3. \E c : Set(c) /\ c.pc = call[me].pc /\ Fits(c, Now, stream)
    BY <1>3, <2>1
  <2> QED BY <2>1, <2>2, <2>3, Quiet
<1>6. CASE ReceiveCount
  <2>1. /\ me \in Tasks /\ Unserved /\ Now.api \in StreamReceive /\ UNCHANGED <<sent, received>>
        /\ Set([call[me] EXCEPT !.stage = "read", !.space = BytesInBuffer]) /\ SameCells(stream, stream')
    BY <1>1, <1>6 DEF ReceiveCount, InCall, SameCells
  <2>2. \E c : Set(c) /\ c.pc = call[me].pc /\ Fits(c, Now, stream)
    BY <1>2, <2>1
  <2> QED BY <2>1, <2>2, Quiet
<1>7. CASE xStreamBufferSetTriggerLevel
  <2>1. PICK level : level = IF Now.with = 0 THEN 1 ELSE Now.with
    OBVIOUS
  <2>2. /\ me \in Tasks /\ Unserved /\ UNCHANGED <<sent, received>> /\ Return
        /\ stream' = IF level < StreamLength THEN [stream EXCEPT !.xTriggerLevelBytes = level] ELSE stream
    BY <1>7, <2>1 DEF xStreamBufferSetTriggerLevel, InCall
  <2>3. SameCells(stream, [stream EXCEPT !.xTriggerLevelBytes = level])
    BY <1>1 DEF SameCells, StreamFields
  <2>4. SameCells(stream, stream')
    BY <1>1, <2>2, <2>3
  <2> QED BY <2>2, <2>4, Quiet
<1> QED BY <1>4, <1>5, <1>6, <1>7

(* What of some bytes is written fits into the space. *)
LEMMA WritesFit ==
    ASSUME StreamInv, NEW bytes \in Seq(Nat), NEW space \in 0 .. StreamLength - 1 - Filled(stream),
           NEW w, w = ToWrite(bytes, space)
    PROVE  /\ w \in Seq(Nat)
           /\ w # <<>> => HeadCells(stream.messages) + Len(w) <= StreamLength - 1 - Filled(stream)
<1>1. PICK L, n, k : L = StreamLength /\ n = Filled(stream) /\ k = HeadCells(stream.messages)
  OBVIOUS
<1>2. L \in Nat \ {0} /\ n \in 0 .. L - 1 /\ space \in 0 .. L - 1 - n /\ Len(bytes) \in Nat
  BY <1>1, StreamFacts
<1>3. CASE IsMessageBuffer
  <2>1. Header = k
    BY <1>1, StreamFacts
  <2>2. w = IF space >= Len(bytes) + k THEN bytes ELSE <<>>
    BY <1>3, <2>1 DEF ToWrite
  <2>3. k = 1
    BY <1>1, <1>3 DEF HeadCells, IsMessageBuffer
  <2>4. CASE space >= Len(bytes) + k
    <3>1. w = bytes
      BY <2>2, <2>4
    <3>2. k + Len(bytes) <= L - 1 - n
      BY ONLY <1>2, <2>3, <2>4
    <3> QED BY <1>1, <3>1, <3>2
  <2>5. CASE ~(space >= Len(bytes) + k)
    BY <2>2, <2>5
  <2> QED BY <2>4, <2>5
<1>4. CASE ~IsMessageBuffer
  <2>1. PICK m : m = Min({Len(bytes), space})
    OBVIOUS
  <2>2. m \in {Len(bytes), space} /\ m <= Len(bytes) /\ m <= space
    <3>1. Len(bytes) \in Int /\ space \in Int
      BY <1>2
    <3> QED BY <2>1, <3>1, Least
  <2>3. m \in 0 .. Len(bytes) /\ m <= L - 1 - n
    BY ONLY <1>2, <2>2
  <2>4. w = SubSeq(bytes, 1, m)
    BY <1>4, <2>1 DEF ToWrite
  <2>5. w \in Seq(Nat) /\ Len(w) = m
    BY <2>3, <2>4
  <2>6. k = 0
    BY <1>1, <1>4 DEF HeadCells, IsMessageBuffer
  <2>7. k + Len(w) <= L - 1 - n
    BY ONLY <1>2, <2>3, <2>5, <2>6
  <2> QED BY <1>1, <2>5, <2>7
<1> QED BY <1>3, <1>4

(* prvWriteMessageToBuffer: the bytes of w, or the first of them that fit, *)
(* are written and sent.                                                   *)
LEMMA Writing ==
    ASSUME StreamInv, NEW bytes \in Seq(Nat), NEW space \in 0 .. StreamLength - 1 - Filled(stream),
           NEW w, w = ToWrite(bytes, space),
           NEW T, T = IF w = <<>> THEN stream
                      ELSE IF IsMessageBuffer THEN Written(<<Len(w)>> \o w) ELSE Written(w)
    PROVE  /\ Holds(T, sent \o w, received)
           /\ \A c, r : r.api \notin StreamSend /\ Fits(c, r, stream) => Fits(c, r, T)
<1>1. /\ w \in Seq(Nat)
      /\ w # <<>> => HeadCells(stream.messages) + Len(w) <= StreamLength - 1 - Filled(stream)
  BY WritesFit
<1>2. CASE w = <<>>
  <2>1. T = stream /\ sent \o w = sent
    BY <1>1, <1>2, StreamFacts
  <2> QED BY <2>1 DEF StreamInv
<1>3. CASE w # <<>>
  <2>1. PICK S, b : S = stream /\ b = Framing(stream.messages, w)
    OBVIOUS
  <2>2. T = Written(b)
    BY <1>3, <2>1 DEF Framing, IsMessageBuffer
  <2>3. DOMAIN stream = StreamFields
    BY StreamFacts DEF IsStream
  <2>4. T = [stream EXCEPT !.cells = CellsWith(S, b), !.xHead = At(stream.xHead + Len(b))]
    BY <2>1, <2>2 DEF Written, CellsWith
  <2>5. /\ DOMAIN T = StreamFields /\ T.xTail = S.xTail /\ T.messages = S.messages
        /\ T.xHead = At(S.xHead + Len(b))
        /\ T.cells = CellsWith(S, b)
    BY <2>1, <2>4, <2>3 DEF StreamFields
  <2>6. Holds(S, sent, received) /\ HeadCells(S.messages) + Len(w) <= StreamLength - 1 - Filled(S)
    BY <1>1, <1>3, <2>1 DEF StreamInv
  <2>7. /\ Holds(T, sent \o w, received)
        /\ Filled(T) = Filled(S) + HeadCells(S.messages) + Len(w)
        /\ Filled(S) > 0 => T.cells[T.xTail] = S.cells[S.xTail]
    BY ONLY <1>1, <1>3, <2>1, <2>5, <2>6, Wrote
  <2>8. Filled(S) \in Nat /\ Filled(T) \in Nat /\ Filled(S) <= Filled(T)
    <3>1. Filled(S) \in Nat /\ HeadCells(S.messages) \in Nat /\ Len(w) \in Nat
      BY <1>1, <2>1, StreamFacts DEF HeadCells
    <3> QED BY ONLY <2>7, <3>1
  <2>9. ASSUME NEW c, NEW r, r.api \notin StreamSend, Fits(c, r, S) PROVE Fits(c, r, T)
    <3>1. ASSUME r.api \in StreamReceive, c.stage = "read"
          PROVE  /\ c.space \in 0 .. Filled(T)
                 /\ (T.messages /\ c.space > 0) => T.cells[T.xTail] + 1 <= c.space
      <4>1. /\ c.space \in 0 .. Filled(S)
            /\ (S.messages /\ c.space > 0) => S.cells[S.xTail] + 1 <= c.space
        BY <2>9, <3>1 DEF Fits
      <4>2. c.space \in 0 .. Filled(T) /\ (c.space > 0 => Filled(S) > 0)
        BY ONLY <2>8, <4>1
      <4> QED BY <2>5, <2>7, <4>1, <4>2
    <3> QED BY <2>9, <3>1 DEF Fits
  <2> QED BY <2>1, <2>7, <2>9
<1> QED BY <1>2, <1>3

(* How many bytes are read: those of a whole message, or those there are. *)
LEMMA ReadsFit ==
    ASSUME StreamInv, NEW n \in Nat, NEW available \in 0 .. Filled(stream), Header < available,
           stream.messages => stream.cells[stream.xTail] + 1 <= available,
           NEW c, c = ToRead(n, available)
    PROVE  /\ c \in Nat /\ HeadCells(stream.messages) + c <= Filled(stream)
           /\ c # 0 => (stream.messages => stream.cells[stream.xTail] = c)
<1>1. PICK f, k, length : f = Filled(stream) /\ k = Header /\ length = stream.cells[stream.xTail]
  OBVIOUS
<1>2. /\ f \in Nat /\ k = HeadCells(stream.messages) /\ length \in Nat /\ available \in 0 .. f
      /\ k \in {0, 1} /\ k < available
  BY <1>1, StreamFacts
<1>3. CASE IsMessageBuffer
  <2>1. k = 1 /\ length + 1 <= available
    BY <1>1, <1>2, <1>3 DEF HeadCells, IsMessageBuffer
  <2>2. PICK m : m = Min({length, available - k})
    OBVIOUS
  <2>3. c = IF length > n THEN 0 ELSE m
    BY <1>1, <1>3, <2>2 DEF ToRead
  <2>4. m = length
    <3>1. length \in Int /\ available - k \in Int /\ length <= available - k
      BY ONLY <1>2, <2>1
    <3>2. m \in {length, available - k} /\ m <= length /\ m <= available - k
      BY <2>2, <3>1, Least
    <3> QED BY ONLY <3>1, <3>2
  <2>5. c = 0 \/ c = length
    BY <2>3, <2>4
  <2>6. c \in Nat /\ k + c <= f
    BY ONLY <1>2, <2>1, <2>5
  <2> QED BY <1>1, <1>2, <2>5, <2>6
<1>4. CASE ~IsMessageBuffer
  <2>1. k = 0 /\ ~stream.messages
    BY <1>2, <1>4 DEF HeadCells, IsMessageBuffer
  <2>2. c = Min({n, available})
    BY <1>4 DEF ToRead
  <2>3. c \in {n, available} /\ c <= n /\ c <= available
    <3>1. n \in Int /\ available \in Int
      BY <1>2
    <3> QED BY <2>2, <3>1, Least
  <2>4. c \in Nat /\ k + c <= f
    BY ONLY <1>2, <2>1, <2>3, n \in Nat
  <2> QED BY <1>1, <1>2, <2>1, <2>4
<1> QED BY <1>3, <1>4

(* prvReadMessageFromBuffer: the bytes at the tail are read and received. *)
LEMMA Reading ==
    ASSUME StreamInv, NEW c \in Nat, c # 0 => HeadCells(stream.messages) + c <= Filled(stream),
           c # 0 => (stream.messages => stream.cells[stream.xTail] = c),
           NEW T, c = 0 => T = stream,
           c # 0 => /\ DOMAIN T = DOMAIN stream /\ T.cells = stream.cells
                    /\ T.xHead = stream.xHead /\ T.messages = stream.messages
                    /\ T.xTail = At(stream.xTail + Header + c)
    PROVE  /\ Holds(T, sent, received \o BytesAt(stream.xTail + Header, c))
           /\ \A l, r : r.api \notin StreamReceive /\ Fits(l, r, stream) => Fits(l, r, T)
<1>1. PICK S, k, b : S = stream /\ k = Header /\ b = BytesAt(stream.xTail + Header, c)
  OBVIOUS
<1>2. /\ k = HeadCells(S.messages) /\ k \in Nat /\ DOMAIN S = StreamFields
      /\ Holds(S, sent, received) /\ StreamLength \in Nat \ {0} /\ Filled(S) \in 0 .. StreamLength - 1
  BY <1>1, StreamFacts DEF IsStream, StreamInv
<1>3. b = [j \in 1 .. c |-> S.cells[At(S.xTail + k + j - 1)]]
  BY <1>1 DEF BytesAt
<1>4. CASE c = 0
  <2>1. b = <<>>
    BY <1>3, <1>4
  <2>2. T = S /\ received \o b = received
    BY <1>1, <1>4, <2>1, StreamFacts
  <2> QED BY <1>1, <1>2, <2>2
<1>5. CASE c # 0
  <2>1. /\ DOMAIN T = StreamFields /\ T.cells = S.cells /\ T.xHead = S.xHead /\ T.messages = S.messages
        /\ T.xTail = At(S.xTail + k + c)
        /\ S.messages => S.cells[S.xTail] = c
        /\ k + c <= Filled(S) /\ c \in Nat \ {0}
    BY <1>1, <1>2, <1>5
  <2>2. Holds(T, sent, received \o b) /\ Filled(T) = Filled(S) - k - c
    <3>1. Removes(S, T, k, c, b)
      BY ONLY <1>2, <1>3, <2>1 DEF Removes
    <3>2. Holds(S, sent, received)
      BY <1>2
    <3> QED BY ONLY <3>1, <3>2, Took
  <2>3. ASSUME NEW l, NEW r, r.api \notin StreamReceive, Fits(l, r, S) PROVE Fits(l, r, T)
    <3>1. ASSUME r.api \in StreamSend, l.stage \in Before
          PROVE  l.space \in 0 .. StreamLength - 1 - Filled(T)
      <4>1. l.space \in 0 .. StreamLength - 1 - Filled(S)
        BY <2>3, <3>1 DEF Fits
      <4>2. Filled(T) = Filled(S) - k - c /\ k \in Nat /\ c \in Nat
        BY <1>2, <2>2
      <4>3. StreamLength \in Nat /\ Filled(S) \in Nat
        BY <1>2
      <4> QED BY ONLY <4>1, <4>2, <4>3
    <3> QED BY <2>3, <3>1 DEF Fits
  <2> QED BY <1>1, <2>2, <2>3
<1> QED BY <1>4, <1>5

(* The write of xStreamBufferSend. *)
LEMMA WriteStep == ASSUME StreamInv, CallInv, SendWrite PROVE StreamInv'
<1>1. /\ me \in Tasks /\ Unserved /\ Now.api \in StreamSend /\ call[me].stage = "write"
      /\ UNCHANGED received
  BY DEF SendWrite, InCall
<1>2. PICK space : space = IF call[me].space = 0 THEN SpacesAvailable ELSE call[me].space
  OBVIOUS
<1>3. PICK w : w = ToWrite(Now.with, space)
  OBVIOUS
<1>4. /\ stream' = IF w = <<>> THEN stream
                   ELSE IF IsMessageBuffer THEN Written(<<Len(w)>> \o w) ELSE Written(w)
      /\ sent' = sent \o w
      /\ Goto("written") \/ Return
  BY <1>2, <1>3 DEF SendWrite, WriteMessage
<1>5. space \in 0 .. StreamLength - 1 - Filled(stream)
  <2>1. call[me].space \in 0 .. StreamLength - 1 - Filled(stream)
    BY <1>1 DEF StreamInv, Fits, Now, Before
  <2>2. SpacesAvailable \in 0 .. StreamLength - 1 - Filled(stream)
    BY StreamFacts
  <2> QED BY <1>2, <2>1, <2>2
<1>6. Now.with \in Seq(Nat)
  BY <1>1, Asks DEF Writes, StreamSend
<1>7. PICK T : T = stream'
  OBVIOUS
<1>8. /\ Holds(T, sent \o w, received)
      /\ \A c, r : r.api \notin StreamSend /\ Fits(c, r, stream) => Fits(c, r, T)
  <2>1. T = IF w = <<>> THEN stream
            ELSE IF IsMessageBuffer THEN Written(<<Len(w)>> \o w) ELSE Written(w)
    BY <1>4, <1>7
  <2>2. PICK bytes : bytes = Now.with
    OBVIOUS
  <2> QED BY <1>3, <1>5, <1>6, <2>1, <2>2, Writing
<1>9. ASSUME NEW t \in Tasks \ {me} PROVE Fits(call[t], Request(t), T)
  <2>1. Request(t).api \notin StreamSend
    BY <1>1, OneWriter DEF Now, Writes, StreamSend
  <2> QED BY <1>8, <2>1 DEF StreamInv
<1>10. Holds(T, sent', received')
  BY <1>1, <1>4, <1>8
<1>11. CASE Goto("written")
  <2>1. PICK c : Set(c) /\ c.pc = call[me].pc /\ c.stage = "written"
    BY <1>1, <1>11, Turned
  <2>2. Fits(c, Now, T)
    BY <2>1 DEF Fits, Before
  <2> QED BY <1>1, <1>7, <1>9, <1>10, <2>1, <2>2, Stepped
<1>12. CASE Return
  BY <1>1, <1>7, <1>9, <1>10, <1>12, Stepped
<1> QED BY <1>4, <1>11, <1>12

(* The read of xStreamBufferReceive. *)
LEMMA ReadStep == ASSUME StreamInv, CallInv, ReceiveRead PROVE StreamInv'
<1>1. /\ me \in Tasks /\ Unserved /\ Now.api \in StreamReceive /\ call[me].stage = "read"
      /\ UNCHANGED sent
  BY DEF ReceiveRead, InCall
<1>2. PICK available : available = call[me].space
  OBVIOUS
<1>3. /\ available \in 0 .. Filled(stream)
      /\ (stream.messages /\ available > 0) => stream.cells[stream.xTail] + 1 <= available
  BY <1>1, <1>2 DEF StreamInv, Fits, Now
<1>4. CASE available <= Header
  <2>1. Return /\ UNCHANGED <<stream, sent, received>>
    BY <1>1, <1>2, <1>4 DEF ReceiveRead
  <2>2. SameCells(stream, stream')
    BY <2>1 DEF SameCells
  <2> QED BY <1>1, <2>1, <2>2, Quiet
<1>5. CASE ~(available <= Header)
  <2>1. PICK c : c = ToRead(Now.with, available)
    OBVIOUS
  <2>2. /\ stream' = IF c = 0 THEN stream ELSE [stream EXCEPT !.xTail = At(@ + Header + c)]
        /\ received' = received \o BytesAt(stream.xTail + Header, c)
        /\ Goto("complete") \/ Return
    BY <1>2, <1>5, <2>1 DEF ReceiveRead, ReadMessage
  <2>3. Now.with \in Nat
    BY <1>1, Asks DEF Reads, StreamReceive
  <2>4. Header < available /\ (stream.messages => stream.cells[stream.xTail] + 1 <= available)
    <3>1. Header \in {0, 1} /\ Filled(stream) \in Nat
      BY StreamFacts
    <3>2. Header < available /\ available > 0
      BY ONLY <1>3, <1>5, <3>1
    <3> QED BY <1>3, <3>2
  <2>5. /\ c \in Nat /\ HeadCells(stream.messages) + c <= Filled(stream)
        /\ c # 0 => (stream.messages => stream.cells[stream.xTail] = c)
    <3>1. PICK n : n = Now.with
      OBVIOUS
    <3> QED BY <1>3, <2>1, <2>3, <2>4, <3>1, ReadsFit
  <2>6. PICK T : T = stream'
    OBVIOUS
  <2>7. c = 0 => T = stream
    BY <2>2, <2>6
  <2>8. c # 0 => /\ DOMAIN T = DOMAIN stream /\ T.cells = stream.cells
                 /\ T.xHead = stream.xHead /\ T.messages = stream.messages
                 /\ T.xTail = At(stream.xTail + Header + c)
    <3>1. DOMAIN stream = StreamFields
      BY StreamFacts DEF IsStream
    <3> QED BY <2>2, <2>6, <3>1 DEF StreamFields
  <2>9. /\ Holds(T, sent, received \o BytesAt(stream.xTail + Header, c))
        /\ \A l, r : r.api \notin StreamReceive /\ Fits(l, r, stream) => Fits(l, r, T)
    BY <2>5, <2>7, <2>8, Reading
  <2>10. ASSUME NEW t \in Tasks \ {me} PROVE Fits(call[t], Request(t), T)
    <3>1. Request(t).api \notin StreamReceive
      BY <1>1, OneWriter DEF Now, Reads, StreamReceive
    <3> QED BY <2>9, <3>1 DEF StreamInv
  <2>11. Holds(T, sent', received')
    BY <1>1, <2>2, <2>9
  <2>12. CASE Goto("complete")
    <3>1. PICK l : Set(l) /\ l.pc = call[me].pc /\ l.stage = "complete"
      BY <1>1, <2>12, Turned
    <3>2. Fits(l, Now, T)
      BY <3>1 DEF Fits, Before
    <3> QED BY <1>1, <2>6, <2>10, <2>11, <3>1, <3>2, Stepped
  <2>13. CASE Return
    BY <1>1, <2>6, <2>10, <2>11, <2>13, Stepped
  <2> QED BY <2>2, <2>12, <2>13
<1> QED BY <1>4, <1>5

(* A stream just created or reset holds nothing. *)
LEMMA NewStreamHolds ==
    ASSUME NEW trigger, NEW messages \in BOOLEAN, NEW r \in Seq(Nat), NEW T, T = NewStream(trigger, messages)
    PROVE  Holds(T, r, r) /\ Filled(T) = 0
<1>1. StreamLength \in Nat \ {0}
  BY StreamAssumption
<1>2. /\ DOMAIN T = StreamFields /\ T.messages = messages /\ T.xHead = 0 /\ T.xTail = 0
      /\ T.cells = [i \in 0 .. StreamLength - 1 |-> 0]
  BY DEF NewStream, StreamFields
<1>3. 0 \in 0 .. StreamLength - 1 /\ T.cells \in [0 .. StreamLength - 1 -> Nat]
  BY <1>1, <1>2
<1>4. IsStream(T)
  BY <1>2, <1>3 DEF IsStream
<1>5. Filled(T) = 0
  <2>1. 0 - 0 = 0 /\ 0 % StreamLength = 0
    BY <1>1
  <2> QED BY <1>2, <2>1 DEF Filled
<1>6. InBuffer(CellsOf(T), 0, messages, r, r)
  BY NothingInBuffer
<1> QED BY <1>2, <1>4, <1>5, <1>6 DEF Holds

(* xStreamBufferReset, of a stream that no task waits for. *)
LEMMA StreamReset == ASSUME StreamInv, CallInv, xStreamBufferReset PROVE StreamInv'
<1>1. /\ me \in Tasks /\ Unserved /\ Now.api = "xStreamBufferReset" /\ Return /\ UNCHANGED received
      /\ \/ stream' = NewStream(stream.xTriggerLevelBytes, stream.messages) /\ sent' = received
         \/ UNCHANGED <<stream, sent>>
  BY DEF xStreamBufferReset, InCall
<1>2. CASE stream' = NewStream(stream.xTriggerLevelBytes, stream.messages) /\ sent' = received
  <2>1. PICK T : T = stream'
    OBVIOUS
  <2>2. Holds(T, received, received) /\ Filled(T) = 0
    <3>1. PICK trigger, messages : trigger = stream.xTriggerLevelBytes /\ messages = stream.messages
      OBVIOUS
    <3>2. T = NewStream(trigger, messages)
      BY <1>2, <2>1, <3>1
    <3> QED BY <3>1, <3>2, StreamFacts, NewStreamHolds
  <2>3. Holds(T, sent', received')
    BY <1>1, <1>2, <2>2
  <2>4. ASSUME NEW t \in Tasks \ {me} PROVE Fits(call[t], Request(t), T)
    <3>1. Request(t).api \notin StreamReceive
      BY <1>1, OneWriter DEF Now, Reads, StreamReceive
    <3>2. ASSUME Request(t).api \in StreamSend, call[t].stage \in Before
          PROVE  call[t].space \in 0 .. StreamLength - 1 - Filled(T)
      <4>1. call[t].space \in 0 .. StreamLength - 1 - Filled(stream)
        BY <3>2 DEF StreamInv, Fits
      <4>2. StreamLength \in Nat \ {0} /\ Filled(stream) \in Nat
        BY StreamFacts
      <4> QED BY ONLY <2>2, <4>1, <4>2
    <3> QED BY <3>1, <3>2 DEF Fits
  <2> QED BY <1>1, <2>1, <2>3, <2>4, Stepped
<1>3. CASE UNCHANGED <<stream, sent>>
  <2>1. SameCells(stream, stream') /\ UNCHANGED <<sent, received>>
    BY <1>1, <1>3 DEF SameCells
  <2> QED BY <1>1, <2>1, Quiet
<1> QED BY <1>1, <1>2, <1>3

(* Each call of stream_buffer.c keeps StreamInv. *)
LEMMA StreamCallStep == ASSUME StreamInv, CallInv, StreamCall PROVE StreamInv'
BY SendWaits, EitherWaits, ReceiveWaits, WriteStep, ReadStep, StreamReset DEF StreamCall

(* What is to show of a handler. *)
LEMMA HandlerStepped ==
    ASSUME StreamInv, NEW T, stream' = T, Holds(T, sent', received'), UNCHANGED <<call, scenario>>,
           \A t \in Tasks : Fits(call[t], Request(t), T)
    PROVE  StreamInv'
<1>1. \A t \in Tasks : Request(t)' = Request(t)
  BY DEF Request, Program
<1> QED BY <1>1 DEF StreamInv

(* So do xStreamBufferSendFromISR and xStreamBufferReceiveFromISR. *)
LEMMA StreamInterruptStep == ASSUME StreamInv, CallInv, StreamInterrupt PROVE StreamInv'
<1>1. PICK name \in DOMAIN Scenarios : scenario = Scenarios[name]
  BY DEF CallInv
<1>2. ASSUME served < Len(Interrupts) PROVE Fitting(ISR)
  <2>1. Interrupts \in Seq(ToSet(Interrupts))
    BY <1>1, ScenariosAssumption DEF Interrupts
  <2>2. served + 1 \in DOMAIN scenario.interrupts
    BY <1>2, <2>1 DEF CallInv, Interrupts
  <2>3. \A i \in DOMAIN scenario.interrupts : Fitting(scenario.interrupts[i])
    BY <1>1, StreamAssumption
  <2> QED BY <2>2, <2>3 DEF ISR, Interrupts
<1>3. DOMAIN stream = StreamFields
  BY StreamFacts DEF IsStream
<1>4. CASE xStreamBufferSendFromISR
  <2>1. served < Len(Interrupts) /\ ISR.api = "xStreamBufferSendFromISR"
    BY <1>4 DEF xStreamBufferSendFromISR, Interrupt, ISR
  <2>2. PICK bytes, space : bytes = ISR.with /\ space = SpacesAvailable
    OBVIOUS
  <2>3. bytes \in Seq(Nat) /\ space \in 0 .. StreamLength - 1 - Filled(stream)
    BY <1>2, <2>1, <2>2, StreamFacts DEF Fitting, Writes
  <2>4. PICK w : w = ToWrite(bytes, space)
    OBVIOUS
  <2>5. PICK new : new = IF w = <<>> THEN stream
                         ELSE IF IsMessageBuffer THEN Written(<<Len(w)>> \o w) ELSE Written(w)
    OBVIOUS
  <2>6. PICK T : T = stream'
    OBVIOUS
  <2>7. /\ sent' = sent \o w /\ received' = received /\ UNCHANGED <<call, scenario>>
        /\ T = new \/ T = [new EXCEPT !.xTaskWaitingToReceive = NoReader]
    BY <1>4, <2>2, <2>4, <2>5, <2>6 DEF xStreamBufferSendFromISR, Serve
  <2>8. /\ Holds(new, sent \o w, received)
        /\ \A c, r : r.api \notin StreamSend /\ Fits(c, r, stream) => Fits(c, r, new)
    BY <2>3, <2>4, <2>5, Writing
  <2>9. SameCells(new, T)
    <3>1. DOMAIN new = StreamFields
      BY <2>8 DEF Holds, IsStream
    <3> QED BY <2>7, <3>1 DEF SameCells, StreamFields
  <2>10. /\ Holds(T, sent \o w, received)
         /\ \A c, r : r.api \notin StreamSend /\ Fits(c, r, stream) => Fits(c, r, T)
    BY <2>8, <2>9, SameStream
  <2>11. ASSUME NEW t \in Tasks PROVE Fits(call[t], Request(t), T)
    <3>1. Request(t).api \notin StreamSend
      BY <2>1, OneWriter DEF Writes, StreamSend
    <3> QED BY <2>10, <3>1 DEF StreamInv
  <2>12. Holds(T, sent', received')
    BY <2>7, <2>10
  <2> QED BY <2>6, <2>7, <2>11, <2>12, HandlerStepped
<1>5. CASE xStreamBufferReceiveFromISR
  <2>1. served < Len(Interrupts) /\ ISR.api = "xStreamBufferReceiveFromISR"
    BY <1>5 DEF xStreamBufferReceiveFromISR, Interrupt, ISR
  <2>2. PICK n, available : n = ISR.with /\ available = BytesInBuffer
    OBVIOUS
  <2>3. n \in Nat /\ available = Filled(stream) /\ available \in Nat /\ Header \in {0, 1}
        /\ stream.messages \in BOOLEAN /\ stream.cells[stream.xTail] \in Nat
    BY <1>2, <2>1, <2>2, StreamFacts DEF Fitting, Reads
  <2>4. PICK c : c = IF available > Header THEN ToRead(n, available) ELSE 0
    OBVIOUS
  <2>5. PICK T : T = stream'
    OBVIOUS
  <2>6. /\ received' = received \o BytesAt(stream.xTail + Header, c)
        /\ T = IF c = 0 THEN stream
               ELSE [stream EXCEPT !.xTail = At(@ + Header + c), !.xTaskWaitingToSend = NoReader]
        /\ sent' = sent /\ UNCHANGED <<call, scenario>>
    BY <1>5, <2>2, <2>4, <2>5 DEF xStreamBufferReceiveFromISR, Serve
  <2>7. /\ c \in Nat
        /\ c # 0 => HeadCells(stream.messages) + c <= Filled(stream)
        /\ c # 0 => (stream.messages => stream.cells[stream.xTail] = c)
    <3>1. CASE available > Header
      <4>1. c = ToRead(n, available) /\ Header < available /\ available \in 0 .. Filled(stream)
        BY <2>3, <2>4, <3>1
      <4>2. stream.messages => stream.cells[stream.xTail] + 1 <= available
        <5>1. Filled(stream) > 0
          BY <2>3, <3>1
        <5> QED BY <2>3, <5>1, FirstFits
      <4> QED BY <2>3, <4>1, <4>2, ReadsFit
    <3>2. CASE ~(available > Header)
      BY <2>4, <3>2
    <3> QED BY <3>1, <3>2
  <2>8. c = 0 => T = stream
    BY <2>6
  <2>9. c # 0 => /\ DOMAIN T = DOMAIN stream /\ T.cells = stream.cells
                 /\ T.xHead = stream.xHead /\ T.messages = stream.messages
                 /\ T.xTail = At(stream.xTail + Header + c)
    BY <1>3, <2>6 DEF StreamFields
  <2>10. /\ Holds(T, sent, received \o BytesAt(stream.xTail + Header, c))
         /\ \A l, r : r.api \notin StreamReceive /\ Fits(l, r, stream) => Fits(l, r, T)
    BY <2>7, <2>8, <2>9, Reading
  <2>11. ASSUME NEW t \in Tasks PROVE Fits(call[t], Request(t), T)
    <3>1. Request(t).api \notin StreamReceive
      BY <2>1, OneWriter DEF Reads, StreamReceive
    <3> QED BY <2>10, <3>1 DEF StreamInv
  <2>12. Holds(T, sent', received')
    BY <2>6, <2>10
  <2> QED BY <2>5, <2>6, <2>11, <2>12, HandlerStepped
<1>6. CASE StreamCompletedFromISR
  <2>1. /\ UNCHANGED <<sent, received, call, scenario>>
        /\ stream' = Forgotten(TRUE) \/ stream' = Forgotten(FALSE)
    BY <1>6 DEF StreamCompletedFromISR, Serve
  <2>2. PICK S, T : S = stream /\ T = stream'
    OBVIOUS
  <2>3. SameCells(S, T)
    BY <1>3, <2>1, <2>2 DEF Forgotten, SameCells, StreamFields
  <2>4. Holds(T, sent', received') /\ \A t \in Tasks : Fits(call[t], Request(t), T)
    BY <2>1, <2>2, <2>3, SameStream DEF StreamInv
  <2> QED BY <2>1, <2>2, <2>4, HandlerStepped
<1> QED BY <1>4, <1>5, <1>6 DEF StreamInterrupt

(* A step elsewhere. *)
LEMMA NotHere == ASSUME StreamInv, CallInv, UNCHANGED streamVars, CallsGoOn(TRUE) PROVE StreamInv'
<1>1. stream' = stream /\ sent' = sent /\ received' = received /\ scenario' = scenario
  BY DEF streamVars, CallsGoOn
<1>2. IsStream(stream)
  BY StreamFacts
<1>3. ASSUME NEW t \in Tasks PROVE Fits(call'[t], Request(t)', stream)
  <2>1. Fits(call[t], Request(t), stream) /\ GoesOn(t, TRUE)
    BY DEF StreamInv, CallsGoOn
  <2>2. Request(t)' = Program(t)[call'[t].pc]
    BY <1>1 DEF Request, Program
  <2>3. CASE call'[t].pc = call[t].pc /\ Aside(t)
    <3>1. Request(t)' = Request(t)
      BY <2>2, <2>3 DEF Request
    <3> QED BY <2>1, <2>3, <3>1 DEF Aside, Fits, Looking, Before, StreamCalls
  <2>4. CASE \E n \in Nat \ {0} : call'[t] = Enter(Program(t), n)
    BY <1>2, <2>2, <2>4, FitsOnEntry
  <2> QED BY <2>1, <2>3, <2>4 DEF GoesOn
<1> QED BY <1>1, <1>3 DEF StreamInv

(* The stream is created empty. *)
LEMMA InitStream == Init => StreamInv
<1> SUFFICES ASSUME Init PROVE StreamInv
  OBVIOUS
<1>1. /\ stream = NewStream(scenario.trigger, scenario.messages) /\ sent = <<>> /\ received = <<>>
      /\ call = [t \in Tasks |-> Enter(scenario.program[t], 1)]
      /\ \E name \in DOMAIN Scenarios : scenario = Scenarios[name]
  BY DEF Init, StreamInit, TaskInit
<1>2. scenario.messages \in BOOLEAN
  BY <1>1, StreamAssumption
<1>3. Holds(stream, sent, received)
  <2>1. PICK T, trigger, messages : T = stream /\ trigger = scenario.trigger /\ messages = scenario.messages
    OBVIOUS
  <2>2. <<>> \in Seq(Nat)
    OBVIOUS
  <2>3. Holds(T, <<>>, <<>>)
    BY <1>1, <1>2, <2>1, <2>2, NewStreamHolds
  <2> QED BY <1>1, <2>1, <2>3
<1>4. ASSUME NEW t \in Tasks PROVE Fits(call[t], Request(t), stream)
  <2>1. PICK c : c = Enter(scenario.program[t], 1)
    OBVIOUS
  <2>2. call[t] = c /\ Request(t) = scenario.program[t][c.pc]
    BY <1>1, <2>1 DEF Request, Program
  <2>3. Fits(c, scenario.program[t][c.pc], stream)
    BY <1>3, <2>1, FitsOnEntry DEF Holds
  <2> QED BY <2>2, <2>3
<1> QED BY <1>3, <1>4 DEF StreamInv

(* Every step keeps StreamInv. *)
LEMMA NextStream == StreamInv /\ CallInv /\ [Next]_vars => StreamInv'
<1> SUFFICES ASSUME StreamInv, CallInv, [Next]_vars PROVE StreamInv'
  OBVIOUS
<1>1. CASE StreamCall
  BY <1>1, StreamCallStep
<1>2. CASE StreamInterrupt
  BY <1>2, StreamInterruptStep
<1>3. CASE KernelStep /\ UNCHANGED streamVars
  BY <1>3, KernelStepGoesOn, NotHere
<1>4. CASE (QueueCall \/ QueueInterrupt) /\ UNCHANGED streamVars
  BY <1>4, QueueCallGoesOn, InterruptGoesOn, NotHere
<1>5. CASE GroupCall /\ UNCHANGED streamVars
  BY <1>5, GroupCallGoesOn, NotHere
<1>6. CASE TimerCall /\ UNCHANGED streamVars
  BY <1>6, TimerCallGoesOn, NotHere
<1>7. CASE UNCHANGED vars
  BY <1>7 DEF vars, taskVars, streamVars, StreamInv, Request, Program
<1> QED BY <1>1, <1>2, <1>3, <1>4, <1>5, <1>6, <1>7 DEF Next

(* What StreamInv says of the bytes is their order. *)
LEMMA InOrder == StreamInv => StreamInOrder
<1> SUFFICES ASSUME StreamInv PROVE StreamInOrder
  OBVIOUS
<1>1. PICK S, d, n : S = stream /\ d = CellsOf(stream) /\ n = Filled(stream)
  OBVIOUS
<1>2. /\ Holds(S, sent, received) /\ StreamLength \in Nat \ {0} /\ n \in 0 .. StreamLength - 1
      /\ n \in Nat /\ S.messages \in BOOLEAN /\ sent \in Seq(Nat) /\ received \in Seq(Nat)
      /\ n = BytesInBuffer /\ IsMessageBuffer = S.messages
  BY <1>1, StreamFacts DEF StreamInv
<1>3. InBuffer(d, n, S.messages, sent, received)
  BY <1>1, <1>2 DEF Holds
<1>4. /\ IsPrefix(received, sent)
      /\ ~S.messages => sent = received \o [j \in 1 .. n |-> d[j - 1]]
  <2>1. PICK messages : messages = S.messages
    OBVIOUS
  <2>2. messages \in BOOLEAN /\ n \in Nat /\ sent \in Seq(Nat) /\ received \in Seq(Nat)
    BY <1>2, <2>1
  <2>3. InBuffer(d, n, messages, sent, received)
    BY <1>3, <2>1
  <2>4. Ordered(d, n, messages, sent, received)
    BY ONLY <2>2, <2>3, BufferInOrder
  <2> QED BY <2>1, <2>4 DEF Ordered
<1>5. [j \in 1 .. n |-> d[j - 1]] = BytesAt(stream.xTail, BytesInBuffer)
  <2>1. ASSUME NEW j \in 1 .. n PROVE d[j - 1] = stream.cells[At(stream.xTail + j - 1)]
    <3>1. j - 1 \in 0 .. StreamLength - 1
      BY <1>2
    <3>2. stream.xTail + (j - 1) = stream.xTail + j - 1
      <4>1. stream.xTail \in Int
        BY StreamFacts DEF IsStream
      <4> QED BY ONLY <4>1, j \in 1 .. n, <1>2
    <3> QED BY <1>1, <3>1, <3>2 DEF CellsOf
  <2> QED BY <1>2, <2>1 DEF BytesAt
<1> QED BY <1>2, <1>4, <1>5 DEF StreamInOrder

(* What is received from the stream or message buffer is what was sent, in *)
(* that order, and the rest is in the buffer, for every length of buffer,  *)
(* every program with one writer and one reader and every interleaving     *)
(* with handlers: no byte is overwritten before it is read, no message is  *)
(* split, and a full buffer is not taken for an empty one.                 *)
(* (prvWriteBytesToBuffer, prvReadBytesFromBuffer and what the tasks have  *)
(* counted before)                                                         *)
THEOREM StreamKeepsOrder == Spec => []StreamInOrder
<1>1. Init => StreamInv /\ CallInv
  BY InitStream, InitCalls
<1>2. StreamInv /\ CallInv /\ [Next]_vars => (StreamInv /\ CallInv)'
  BY NextStream, NextCalls
<1>3. StreamInv => StreamInOrder
  BY InOrder
<1> QED BY <1>1, <1>2, <1>3, PTL DEF Spec

----------------------------------------------------------------------------
(* Static applications: what a step has to keep.                           *)

(* A step of the running task, whose call becomes c.                       *)
OfMe(c, r) ==
    /\ me \in Tasks /\ scenario' = scenario
    /\ call' = [call EXCEPT ![me] = c] /\ r = Program(me)[c.pc]

(* A step of a call changes the call of the running task only.             *)
LEMMA MyCall ==
    ASSUME CallInv, NEW c, NEW r, OfMe(c, r)
    PROVE  /\ \A t \in Tasks : t # me => call'[t] = call[t] /\ Request(t)' = Request(t)
           /\ \A t \in Tasks : t = me => call'[t] = c /\ Request(t)' = r
<1>1. \A t \in Tasks : Program(t)' = Program(t)
  BY DEF OfMe, Program
<1>2. \A t \in Tasks : t # me => call'[t] = call[t]
  BY DEF OfMe, CallInv
<1>3. \A t \in Tasks : t = me => call'[t] = c
  BY DEF OfMe, CallInv
<1> QED BY <1>1, <1>2, <1>3 DEF Request, OfMe, Program

(* Of the tasks that wait, none else begins to or is pended.               *)
Others(n) ==
    /\ Evt(n) \subseteq Evt(kernel) \cup {me}
    /\ \A u : IsIn(u, n.pendingReady) => IsIn(u, kernel.pendingReady) \/ u \in Evt(kernel)
    /\ \A u \in Tasks : u # me /\ n.ucNotifyState[u] = "waiting" => kernel.ucNotifyState[u] = "waiting"

(* The running task after its step.                                        *)
Mine(n, c, r) ==
    /\ n.pxCurrentTCB = me
    /\ n.uxSchedulerSuspended = IF SuspendingIn(c, r.api) THEN 1 ELSE 0
    /\ \/ n.uxSchedulerSuspended = 0 /\ n.pendSV
       \/ me \in Rdy(n)
       \/ LeavingIn(c, r, me)
    /\ me \in Evt(n) => WaitsIn(c)
    /\ n.ucNotifyState[me] = "waiting" => NotifiedIn(c, r.api) /\ ~IsIn(me, n.pendingReady)
    /\ n.uxSchedulerSuspended = 0 => n.pendingReady = <<>>
    /\ IsIn(me, n.pendingReady) => BlockedIn(c)
    /\ c.stage = "abort" => r.on # me /\ OffLists(n, r.on)

(* The kernel after a step.                                                *)
LEMMA KernelIs ==
    ASSUME NEW n, kernel' = n, Kernel(n), Highest(n)
    PROVE  Kernel(kernel)' /\ Highest(kernel)' /\ Rdy(kernel)' = Rdy(n) /\ Evt(kernel)' = Evt(n)
<1>1. /\ kernel' = n /\ Kernel(n) /\ Highest(n)
  OBVIOUS
<1>2. /\ \A t : IsIn(t, kernel.delayed)' <=> IsIn(t, n.delayed)
      /\ Rdy(kernel)' = Rdy(n) /\ Evt(kernel)' = Evt(n)
  BY <1>1 DEF Rdy, Evt, IsReady, IsIn
<1>3. Typed(kernel)'
  BY <1>1 DEF Kernel, Lists, Typed
<1>4. ReadyLists(kernel)'
  BY <1>1, <1>2 DEF Kernel, Lists, ReadyLists, Marked, Once, IsIn
<1>5. WaitLists(kernel)'
  BY <1>1 DEF Kernel, Lists, WaitLists, Once
<1>6. Apart(kernel)'
  BY <1>1, <1>2 DEF Kernel, Lists, Apart, IsIn
<1>7. Events(kernel)'
  BY <1>1 DEF Kernel, Lists, Events, Once, IsIn
<1>8. Times(kernel)'
  BY <1>1 DEF Kernel, Lists, Times, Sorted, IsIn
<1>9. Bits(kernel)' /\ Unready(kernel)' /\ AtWrap(kernel)' /\ Own(kernel)'
  BY <1>1, <1>2 DEF Kernel, Bits, Unready, AtWrap, Own, IsIn
<1>10. Highest(kernel)'
  BY <1>1, <1>2 DEF Highest, Current
<1> QED BY <1>2, <1>3, <1>4, <1>5, <1>6, <1>7, <1>8, <1>9, <1>10 DEF Kernel, Lists

(* What a step of the running task has to keep for Scheduling to hold      *)
(* after it.                                                               *)
LEMMA StepSchedules ==
    ASSUME CallInv, Scheduling, NEW c, NEW r, OfMe(c, r), CallIn(c, r), NEW n, kernel' = n,
           Kernel(n), Highest(n), Others(n), Mine(n, c, r)
    PROVE  Scheduling'
<1> PICK m : m = me
  OBVIOUS
<1>1. m \in Tasks /\ me' = m /\ n.pxCurrentTCB = m
  BY DEF OfMe, Mine, me
<1>2. /\ \A t \in Tasks : t # m => call'[t] = call[t] /\ Request(t)' = Request(t)
      /\ call'[m] = c /\ Request(m)' = r
  BY <1>1, MyCall
<1>3. /\ \A t \in Tasks : Suspending(t)' <=> IF t = m THEN SuspendingIn(c, r.api) ELSE Suspending(t)
      /\ Leaving(m)' <=> LeavingIn(c, r, m)
  BY <1>1, <1>2 DEF Suspending, Leaving
<1>4. OneSuspends'
  <2>1. \A t \in Tasks : Suspending(t)' => t = m
    BY <1>3 DEF Scheduling, OneSuspends
  <2>2. kernel'.uxSchedulerSuspended = IF Suspending(m)' THEN 1 ELSE 0
    BY <1>1, <1>3 DEF Mine
  <2> QED BY <1>1, <2>1, <2>2 DEF OneSuspends
<1>5. RunsReady'
  BY <1>1, <1>3 DEF RunsReady, Mine, Rdy, IsReady
<1>6. Waiters'
  <2>1. ASSUME NEW t \in Tasks
        PROVE  /\ t \in Evt(n) => WaitsIn(call'[t])
               /\ n.ucNotifyState[t] = "waiting" =>
                      NotifiedIn(call'[t], Request(t)'.api) /\ ~IsIn(t, n.pendingReady)
    <3>1. CASE t = m
      BY <1>2, <3>1 DEF Mine
    <3>2. CASE t # m
      <4>1. t \in Evt(n) => WaitsIn(call[t])
        BY <3>2 DEF Others, Scheduling, Waiters
      <4>2. n.ucNotifyState[t] = "waiting" =>
                NotifiedIn(call[t], Request(t).api) /\ ~IsIn(t, kernel.pendingReady) /\ ~WaitsIn(call[t])
        BY <3>2 DEF Others, Scheduling, Waiters, NotifiedIn, WaitsIn
      <4>3. n.ucNotifyState[t] = "waiting" => ~IsIn(t, n.pendingReady)
        BY <4>2 DEF Others, Scheduling, Waiters
      <4> QED BY <1>2, <3>2, <4>1, <4>2, <4>3
    <3> QED BY <3>1, <3>2
  <2>2. Evt(kernel)' = Evt(n)
    BY DEF Evt
  <2> QED BY <2>1, <2>2 DEF Waiters
<1>7. Pended'
  BY <1>1, <1>2 DEF Pended, Mine
<1>8. CallsFit'
  <2>1. \A t \in Tasks : CallIn(call'[t], Request(t)')
    BY <1>2 DEF Scheduling, CallsFit
  <2> QED BY <2>1 DEF CallsFit
<1>9. Aborting'
  <2>1. ASSUME NEW t \in Tasks, call'[t].stage = "abort"
        PROVE  Request(t)'.on # t /\ OffLists(n, Request(t)'.on)
    <3>1. CASE t = m
      BY <1>2, <2>1, <3>1 DEF Mine
    <3>2. CASE t # m
      <4>1. call[t].stage = "abort"
        BY <1>2, <2>1, <3>2
      <4>2. Suspending(t)
        BY <4>1 DEF Suspending, SuspendingIn
      <4> QED BY <3>2, <4>2 DEF Scheduling, OneSuspends
    <3> QED BY <3>1, <3>2
  <2>2. \A t : OffLists(kernel, t)' <=> OffLists(n, t)
    BY DEF OffLists, Rdy, IsReady
  <2> QED BY <2>1, <2>2 DEF Aborting
<1>10. Kernel(kernel)' /\ Highest(kernel)'
  BY KernelIs
<1> QED BY <1>4, <1>5, <1>6, <1>7, <1>8, <1>9, <1>10 DEF Scheduling

----------------------------------------------------------------------------
(* The calls.                                                              *)

(* The calls of a static application.                                      *)
LEMMA StaticRequests ==
    ASSUME CallInv, Static(scenario)
    PROVE  /\ \A t \in Tasks : StaticCall(Request(t))
           /\ \A t \in Tasks : \A i \in DOMAIN Program(t) : StaticCall(Program(t)[i])
           /\ served < Len(Interrupts) => served + 1 \in DOMAIN Interrupts /\ StaticCall(ISR)
<1>1. served < Len(Interrupts) => served + 1 \in DOMAIN Interrupts
  BY ScenariosAssumption DEF CallInv, Interrupts
<1> QED BY <1>1 DEF CallInv, Static, Request, Program, ISR, Interrupts

(* A call entered.                                                         *)
Entry(c, r) ==
    /\ c.stage \in {"yield", "command", "suspend", "start"} /\ c.outcome = "none"
    /\ CallIn(c, r) /\ ~SuspendingIn(c, r.api) /\ ~BlockedIn(c)

(* A call that is entered starts at its first stage, of a legal request.   *)
LEMMA EnterFits ==
    ASSUME CallInv, Static(scenario), NEW t \in Tasks, NEW k \in Nat \ {0}, NEW c, c = Enter(Program(t), k)
    PROVE  c.pc \in DOMAIN Program(t) /\ Entry(c, Program(t)[c.pc])
<1>1. c.pc \in DOMAIN Program(t)
  BY Entered, ScenariosAssumption DEF CallInv, Program
<1> PICK r : r = Program(t)[c.pc]
  OBVIOUS
<1>2. StaticCall(r)
  BY <1>1, StaticRequests
<1>3. /\ c.stage = IF r.api = "vTaskDelay" /\ r.ticks = 0 THEN "yield"
                   ELSE IF r.api = "xTimerGenericCommand" THEN "command"
                   ELSE IF r.api \in SuspendFirst THEN "suspend" ELSE "start"
      /\ c.ticks = r.ticks /\ c.outcome = "none" /\ c.inherited = FALSE
      /\ c.since.entered = 0
  BY DEF Enter
<1>4. r.ticks \in TickType /\ (r.api \in QueueCalls => r.api \notin SuspendFirst)
  BY <1>2 DEF StaticCall, QueueCalls, SendCalls, ReceiveCalls, TakeCalls, SuspendFirst
<1>5. c.stage \in {"yield", "command", "suspend", "start"}
  BY <1>3
<1>6. CallIn(c, r)
  <2>1. r.api \in QueueCalls => c.stage # "suspend"
    BY <1>3, <1>4
  <2>2. r.api = "vTaskDelay" /\ c.stage \in {"suspend", "body"} => r.ticks # 0
    BY <1>3
  <2>3. c.stage \in Untimed => c.stage = "suspend"
    BY <1>5 DEF Untimed
  <2>4. 0 \in TickType
    BY KernelAssumption DEF TickType
  <2> QED BY <1>3, <1>4, <1>5, <2>1, <2>2, <2>3, <2>4 DEF CallIn
<1>7. ~SuspendingIn(c, r.api) /\ ~BlockedIn(c)
  BY <1>3, <1>5 DEF SuspendingIn, BlockedIn
<1> QED BY <1>1, <1>3, <1>5, <1>6, <1>7 DEF Entry

(* Steps that leave the tasks that wait alone, or wake some.               *)
LEMMA Goes ==
    ASSUME CallInv, Scheduling, CanRun, NEW c, NEW r, OfMe(c, r), CallIn(c, r),
           NEW n, kernel' = n, Keeps(kernel, n, {}),
           SuspendingIn(c, r.api) <=> Suspending(me),
           BlockedIn(call[me]) => BlockedIn(c),
           Leaving(me) => BlockedIn(call[me]),
           call[me].stage \notin {"woken", "waited"} \/ n.ucNotifyState[me] # "waiting",
           c.stage = "abort" => r.on # me /\ OffLists(n, r.on)
    PROVE  Scheduling'
<1>1. /\ me \in Tasks /\ Kernel(n) /\ n.pxCurrentTCB = me /\ ~kernel.pendSV
      /\ n.uxSchedulerSuspended = kernel.uxSchedulerSuspended
      /\ Rdy(kernel) \subseteq Rdy(n) /\ Evt(n) \subseteq Evt(kernel)
  BY DEF Keeps, OfMe, CanRun, me
<1>2. Highest(n) /\ Others(n)
  BY DEF Keeps, Scheduling, Others
<1>3. me \in Rdy(kernel) \/ BlockedIn(call[me])
  BY <1>1 DEF Scheduling, RunsReady
<1>4. me \in Evt(kernel) => BlockedIn(call[me])
  BY <1>3 DEF Scheduling, Kernel, Unready
<1>5. IsIn(me, n.pendingReady) => BlockedIn(c)
  BY <1>1, <1>4 DEF Keeps, Scheduling, Pended
<1>6. n.uxSchedulerSuspended = 0 => n.pendingReady = <<>>
  <2>1. n.uxSchedulerSuspended = 0 => \A u : ~IsIn(u, n.pendingReady)
    BY <1>1, EmptyList DEF Keeps, Scheduling, Pended
  <2>2. n.pendingReady \in Seq(Tasks)
    BY <1>1 DEF Kernel, Lists, Events, Once
  <2> QED BY <2>1, <2>2, NotEmpty
<1>7. n.uxSchedulerSuspended = IF SuspendingIn(c, r.api) THEN 1 ELSE 0
  BY <1>1 DEF Scheduling, OneSuspends
<1>8. me \in Rdy(n) \/ LeavingIn(c, r, me)
  BY <1>1, <1>3 DEF LeavingIn
<1>9. me \in Evt(n) => WaitsIn(c)
  BY <1>1, <1>4 DEF BlockedIn, WaitsIn
<1>10. n.ucNotifyState[me] # "waiting"
  BY <1>1 DEF Keeps, Scheduling, Waiters, NotifiedIn
<1>11. Mine(n, c, r)
  BY <1>1, <1>5, <1>6, <1>7, <1>8, <1>9, <1>10 DEF Mine
<1> QED BY <1>1, <1>2, <1>11, StepSchedules

(* The ways a step moves the call of the running task.                     *)
LEMMA SetIs ==
    ASSUME CallInv, me \in Tasks, scenario' = scenario, NEW c, Set(c), c.pc = call[me].pc
    PROVE  OfMe(c, Now)
BY DEF OfMe, Set, Now, Request

(* Two calls that differ in their stage and outcome only.                  *)
Like(c, d) == c.pc = d.pc /\ c.ticks = d.ticks /\ c.since = d.since /\ c.inherited = d.inherited

(* Goto changes the stage of the running call and nothing else of it.      *)
LEMMA GotoIs ==
    ASSUME CallInv, me \in Tasks, scenario' = scenario, NEW stage, Goto(stage)
    PROVE  \E c : /\ OfMe(c, Now) /\ Like(c, call[me])
                  /\ c.stage = stage /\ c.outcome = call[me].outcome
<1> PICK c : c = [call[me] EXCEPT !.stage = stage]
  OBVIOUS
<1>1. Like(c, call[me]) /\ c.stage = stage /\ c.outcome = call[me].outcome
  BY DEF CallInv, Locals, Like
<1>2. Set(c)
  BY DEF Goto, Set
<1> QED BY <1>1, <1>2, SetIs DEF Like

(* The running task enters its next call.                                  *)
LEMMA EnterIs ==
    ASSUME CallInv, Static(scenario), me \in Tasks, scenario' = scenario, NEW k \in Nat \ {0},
           Set(Enter(Program(me), k))
    PROVE  \E c, r : OfMe(c, r) /\ Entry(c, r)
<1> PICK c : c = Enter(Program(me), k)
  OBVIOUS
<1> PICK r : r = Program(me)[c.pc]
  OBVIOUS
<1>1. Entry(c, r)
  BY EnterFits
<1>2. OfMe(c, r)
  BY DEF OfMe, Set
<1> QED BY <1>1, <1>2

(* A return enters the next call of the program, or ends it.               *)
LEMMA ReturnIs ==
    ASSUME CallInv, Static(scenario), me \in Tasks, scenario' = scenario, Return
    PROVE  \E c, r : OfMe(c, r) /\ Entry(c, r)
<1> PICK k : k = call[me].pc + 1
  OBVIOUS
<1>1. k \in Nat \ {0}
  BY NextCall
<1>2. Set(Enter(Program(me), k))
  BY DEF Return, Set
<1> QED BY <1>1, <1>2, EnterIs

(* So does a call that fails.                                              *)
LEMMA FailsIs ==
    ASSUME CallInv, Static(scenario), me \in Tasks, scenario' = scenario, Fails
    PROVE  \E c, r : OfMe(c, r) /\ Entry(c, r)
<1> PICK k : k = call[me].pc + 2
  OBVIOUS
<1>1. k \in Nat \ {0}
  BY NextCall
<1>2. Set(Enter(Program(me), k)) \/ Return
  BY DEF Fails
<1> QED BY <1>1, <1>2, EnterIs, ReturnIs

(* A call returns from a critical section.                                 *)
LEMMA Returns ==
    ASSUME CallInv, Static(scenario), Scheduling, CanRun, me \in Tasks, scenario' = scenario,
           Return \/ Fails, NEW n, kernel' = n, Keeps(kernel, n, {}),
           ~Suspending(me), ~Leaving(me),
           call[me].stage \notin {"woken", "waited"} \/ n.ucNotifyState[me] # "waiting"
    PROVE  Scheduling'
<1>1. PICK c, r : OfMe(c, r) /\ Entry(c, r)
  BY ReturnIs, FailsIs
<1>2. /\ CallIn(c, r) /\ (SuspendingIn(c, r.api) <=> Suspending(me)) /\ c.stage # "abort"
      /\ ~BlockedIn(call[me])
  BY <1>1 DEF Entry, Leaving, LeavingIn
<1> QED BY <1>1, <1>2, Goes

(* A call goes on.                                                         *)
LEMMA GoesTo ==
    ASSUME CallInv, Scheduling, CanRun, me \in Tasks, scenario' = scenario,
           NEW stage, Goto(stage), NEW n, kernel' = n, Keeps(kernel, n, {}),
           stage \notin {"inherit", "disinherit", "abort"},
           Now.api \in QueueCalls /\ stage \in Untimed => call[me].ticks # 0,
           Now.api = "vTaskDelay" => stage \notin {"suspend", "body"},
           \/ /\ Suspending(me) /\ stage \in {"body", "place", "unlockTx", "unlockRx", "resume", "notify"}
           \/ Suspending(me) /\ stage \in {"check", "test"} /\ Now.api \in QueueCalls
           \/ /\ ~Suspending(me)
              /\ stage \notin {"body", "place", "unlockTx", "unlockRx", "resume", "notify"}
              /\ stage \in {"check", "test"} => Now.api \notin QueueCalls,
           BlockedIn(call[me]) => stage \in {"unlockTx", "unlockRx", "resume"},
           call[me].stage \notin {"yield", "reset"},
           call[me].stage \notin {"woken", "waited"} \/ n.ucNotifyState[me] # "waiting"
    PROVE  Scheduling'
<1>1. PICK c : /\ OfMe(c, Now) /\ Like(c, call[me]) /\ c.stage = stage /\ c.outcome = call[me].outcome
  BY GotoIs
<1>2. CallIn(call[me], Now)
  BY DEF Scheduling, CallsFit, Now
<1>3. CallIn(c, Now)
  BY <1>1, <1>2 DEF CallIn, Like
<1>4. SuspendingIn(c, Now.api) <=> Suspending(me)
  BY <1>1 DEF SuspendingIn
<1>5. (BlockedIn(call[me]) => BlockedIn(c)) /\ (Leaving(me) => BlockedIn(call[me])) /\ c.stage # "abort"
  BY <1>1 DEF BlockedIn, Leaving, LeavingIn
<1> QED BY <1>1, <1>3, <1>4, <1>5, Goes

----------------------------------------------------------------------------
(* The steps of the task calls.                                            *)

(* What is known of the running task in a call that has not put it to      *)
(* sleep.                                                                  *)
LEMMA Awake ==
    ASSUME Scheduling, CanRun, me \in Tasks, ~Leaving(me)
    PROVE  /\ Kernel(kernel) /\ kernel.pxCurrentTCB = me
           /\ me \in Rdy(kernel) /\ me \notin Evt(kernel) /\ ~IsIn(me, kernel.pendingReady)
           /\ kernel.uxSchedulerSuspended = IF Suspending(me) THEN 1 ELSE 0
           /\ call[me].stage \notin {"woken", "waited"} => kernel.ucNotifyState[me] # "waiting"
           /\ CallIn(call[me], Now)
<1>1. Kernel(kernel) /\ kernel.pxCurrentTCB = me /\ CallIn(call[me], Now)
  BY DEF Scheduling, CallsFit, me, Now
<1>2. me \in Rdy(kernel)
  BY DEF Scheduling, RunsReady, CanRun
<1>3. me \notin Evt(kernel)
  BY <1>2 DEF Scheduling, Kernel, Unready
<1>4. ~IsIn(me, kernel.pendingReady)
  BY DEF Scheduling, Pended, Leaving, LeavingIn
<1>5. kernel.uxSchedulerSuspended = IF Suspending(me) THEN 1 ELSE 0
  BY DEF Scheduling, OneSuspends
<1>6. call[me].stage \notin {"woken", "waited"} => kernel.ucNotifyState[me] # "waiting"
  BY DEF Scheduling, Waiters, NotifiedIn
<1> QED BY <1>1, <1>2, <1>3, <1>4, <1>5, <1>6

(* A task that waits for a notification is in no event list.               *)
LEMMA NotifiedApart ==
    ASSUME Scheduling, NEW t \in Tasks, kernel.ucNotifyState[t] = "waiting"
    PROVE  ~InEventList(kernel, t) /\ t \notin Evt(kernel) /\ ~IsIn(t, kernel.pendingReady)
<1>1. t \notin Evt(kernel) /\ ~IsIn(t, kernel.pendingReady)
  BY DEF Scheduling, Waiters, NotifiedIn, WaitsIn
<1>2. \A e \in EventLists : ~IsIn(t, kernel.events[e])
  BY <1>1 DEF Evt, All
<1> QED BY <1>1, <1>2 DEF InEventList

(* The running task goes to sleep.                                         *)
LEMMA FallsAsleep ==
    ASSUME CallInv, Scheduling, CanRun, NEW c, NEW r, OfMe(c, r), CallIn(c, r), Suspending(me), ~Leaving(me),
           c.stage \in {"unlockTx", "resume"}, c.outcome = "blocked",
           NEW m, Keeps(kernel, m, {}), NEW n, kernel' = n, Sleeps(m, n, me)
    PROVE  Scheduling'
<1>1. me \in Tasks /\ call[me].stage \notin {"woken", "waited"}
  BY DEF OfMe, Suspending, SuspendingIn
<1>2. /\ Kernel(n) /\ n.pxCurrentTCB = me /\ n.uxSchedulerSuspended = 1 /\ Highest(n)
      /\ Evt(n) \subseteq Evt(kernel) \cup {me}
      /\ n.pendingReady = m.pendingReady /\ n.ucNotifyState = m.ucNotifyState
  BY <1>1, Awake DEF Keeps, Sleeps, Scheduling
<1>3. Others(n)
  BY <1>2 DEF Keeps, Others
<1>4. SuspendingIn(c, r.api) /\ BlockedIn(c) /\ WaitsIn(c) /\ LeavingIn(c, r, me)
  BY DEF SuspendingIn, BlockedIn, WaitsIn, LeavingIn
<1>5. n.ucNotifyState[me] # "waiting"
  BY <1>1, <1>2, Awake DEF Keeps
<1>6. Mine(n, c, r)
  BY <1>2, <1>4, <1>5 DEF Mine
<1> QED BY <1>2, <1>3, <1>6, StepSchedules

(* The running task waits for a notification.                              *)
LEMMA AwaitsNote ==
    ASSUME CallInv, Scheduling, CanRun, NEW c, NEW r, OfMe(c, r), CallIn(c, r), ~Suspending(me), ~Leaving(me),
           c.stage \in {"woken", "waited"}, r.api \in Notifiable,
           NEW n, kernel' = n, MaySleep(kernel, n, me)
    PROVE  Scheduling'
<1>1. me \in Tasks
  BY DEF OfMe
<1>2. /\ Kernel(n) /\ n.pxCurrentTCB = me /\ n.uxSchedulerSuspended = 0 /\ Highest(n)
      /\ Evt(n) = Evt(kernel) /\ n.pendingReady = kernel.pendingReady
      /\ me \notin Evt(n) /\ ~IsIn(me, n.pendingReady) /\ (n.pendSV \/ me \in Rdy(n))
  BY <1>1, Awake DEF MaySleep, Scheduling
<1>3. Others(n)
  BY <1>2 DEF MaySleep, Others
<1>4. ~SuspendingIn(c, r.api) /\ NotifiedIn(c, r.api) /\ c.stage # "abort"
  BY DEF SuspendingIn, NotifiedIn
<1>5. n.pendingReady = <<>>
  BY <1>1, <1>2, Awake DEF Scheduling, Pended
<1>6. Mine(n, c, r)
  BY <1>2, <1>4, <1>5 DEF Mine
<1> QED BY <1>2, <1>3, <1>6, StepSchedules

(* vTaskSuspendAll, of a call or of a stream buffer that tells its other   *)
(* side.                                                                   *)
LEMMA SuspendsAll ==
    ASSUME CallInv, Scheduling, CanRun, me \in Tasks, scenario' = scenario, ~Suspending(me), ~Leaving(me),
           call[me].stage \notin {"woken", "waited"},
           NEW stage, stage \in {"body", "notify"}, Goto(stage),
           stage = "body" => call[me].stage = "suspend",
           kernel' = vTaskSuspendAll(kernel)
    PROVE  Scheduling'
<1> PICK n : n = vTaskSuspendAll(kernel)
  OBVIOUS
<1>1. PICK c : OfMe(c, Now) /\ Like(c, call[me]) /\ c.stage = stage /\ c.outcome = call[me].outcome
  BY GotoIs
<1>2. /\ kernel.pxCurrentTCB = me /\ me \in Rdy(kernel) /\ me \notin Evt(kernel) /\ ~IsIn(me, kernel.pendingReady)
      /\ kernel.uxSchedulerSuspended = 0 /\ kernel.ucNotifyState[me] # "waiting" /\ CallIn(call[me], Now)
      /\ Kernel(kernel)
  BY Awake
<1>3. /\ Kernel(n) /\ Same(kernel, n, {"uxSchedulerSuspended"})
      /\ n.uxSchedulerSuspended = 1 /\ Rdy(n) = Rdy(kernel) /\ Evt(n) = Evt(kernel) /\ Highest(n)
  BY <1>2, AllSuspended DEF Scheduling
<1>4. n.pxCurrentTCB = me /\ n.pendingReady = kernel.pendingReady /\ n.ucNotifyState = kernel.ucNotifyState
  BY <1>2, <1>3 DEF Same, KernelFields
<1>5. CallIn(c, Now)
  BY <1>1, <1>2 DEF CallIn, Like, Untimed
<1>6. SuspendingIn(c, Now.api) /\ c.stage # "abort"
  BY <1>1 DEF SuspendingIn
<1>7. Others(n)
  BY <1>3, <1>4 DEF Others
<1>8. Mine(n, c, Now)
  BY <1>2, <1>3, <1>4, <1>6 DEF Mine
<1>9. kernel' = n
  OBVIOUS
<1> QED BY <1>1, <1>3, <1>5, <1>7, <1>8, <1>9, StepSchedules

(* vTaskSuspendAll: from here on only the running task is inside a         *)
(* suspended section.                                                      *)
LEMMA CallSuspendAllKeeps == ASSUME CallInv, Scheduling, CallSuspendAll PROVE Scheduling'
<1>1. /\ CanRun /\ me \in Tasks /\ call[me].stage = "suspend" /\ kernel' = vTaskSuspendAll(kernel)
      /\ Goto("body") /\ scenario' = scenario
  BY DEF CallSuspendAll, Step, Unserved
<1>2. ~Suspending(me) /\ ~Leaving(me)
  BY <1>1 DEF Suspending, SuspendingIn, Leaving, LeavingIn, BlockedIn
<1> QED BY <1>1, <1>2, SuspendsAll

(* xTaskResumeAll.                                                         *)
LEMMA CallResumeAllKeeps == ASSUME CallInv, Scheduling, CallResumeAll PROVE Scheduling'
<1> PICK r : r = xTaskResumeAll(kernel)
  OBVIOUS
<1> PICK n : n = r.kernel
  OBVIOUS
<1> PICK stage : stage = IF call[me].outcome = "blocked" /\ ~r.yielded THEN "yield" ELSE "after"
  OBVIOUS
<1>1. /\ CanRun /\ me \in Tasks /\ call[me].stage = "resume" /\ kernel' = n
      /\ Goto(stage) /\ scenario' = scenario
  BY DEF CallResumeAll, Step, Unserved
<1>2. PICK c : OfMe(c, Now) /\ Like(c, call[me]) /\ c.stage = stage /\ c.outcome = call[me].outcome
  BY <1>1, GotoIs
<1>3. Suspending(me) /\ kernel.pxCurrentTCB = me /\ ~kernel.pendSV /\ Kernel(kernel)
  BY <1>1 DEF Suspending, SuspendingIn, me, CanRun, Scheduling
<1>4. kernel.uxSchedulerSuspended = 1
  BY <1>1, <1>3 DEF Scheduling, OneSuspends
<1>5. /\ Kernel(n) /\ n.pxCurrentTCB = me
      /\ n.uxSchedulerSuspended = 0 /\ n.pendingReady = <<>>
      /\ Rdy(kernel) \subseteq Rdy(n) /\ Evt(n) \subseteq Evt(kernel)
      /\ \A u \in Tasks : n.ucNotifyState[u] = "waiting" => kernel.ucNotifyState[u] = "waiting"
      /\ Highest(kernel) => Highest(n)
      /\ r.yielded => n.pendSV
  BY <1>3, <1>4, ResumedAll
<1>6. CallIn(c, Now)
  <2>1. CallIn(call[me], Now)
    BY <1>1 DEF Scheduling, CallsFit, Now
  <2> QED BY <1>2, <2>1 DEF CallIn, Like, Untimed
<1>7. ~SuspendingIn(c, Now.api) /\ c.stage # "abort"
  BY <1>2 DEF SuspendingIn
<1>8. Others(n)
  BY <1>5, EmptyList DEF Others
<1>9. n.pendSV \/ me \in Rdy(n) \/ LeavingIn(c, Now, me)
  <2>1. CASE call[me].outcome # "blocked"
    <3>1. ~Leaving(me)
      BY <1>1, <2>1 DEF Leaving, LeavingIn, BlockedIn
    <3> QED BY <1>1, <1>5, <3>1, Awake
  <2>2. CASE call[me].outcome = "blocked" /\ r.yielded
    BY <1>5, <2>2
  <2>3. CASE call[me].outcome = "blocked" /\ ~r.yielded
    BY <1>2, <2>3 DEF LeavingIn
  <2> QED BY <2>1, <2>2, <2>3
<1>10. me \in Evt(n) => WaitsIn(c)
  BY <1>1, <1>2, <1>5 DEF Scheduling, Waiters, WaitsIn
<1>11. n.ucNotifyState[me] # "waiting"
  BY <1>1, <1>5 DEF Scheduling, Waiters, NotifiedIn
<1>12. Mine(n, c, Now)
  BY <1>5, <1>7, <1>9, <1>10, <1>11, EmptyList DEF Mine
<1>13. Highest(n) /\ kernel' = n
  BY <1>1, <1>5 DEF Scheduling
<1> QED BY <1>2, <1>5, <1>6, <1>8, <1>12, <1>13, StepSchedules

(* portYIELD_WITHIN_API.                                                   *)
LEMMA CallYieldKeeps == ASSUME CallInv, Scheduling, CallYield PROVE Scheduling'
<1> PICK n : n = YieldIf(kernel, TRUE)
  OBVIOUS
<1>1. /\ CanRun /\ me \in Tasks /\ call[me].stage = "yield" /\ kernel' = n /\ n = Yield(kernel)
      /\ Goto("after") /\ scenario' = scenario
  BY DEF CallYield, Step, Unserved, YieldIf
<1>2. PICK c : OfMe(c, Now) /\ Like(c, call[me]) /\ c.stage = "after" /\ c.outcome = call[me].outcome
  BY <1>1, GotoIs
<1>3. Kernel(kernel) /\ kernel.pxCurrentTCB = me /\ CallIn(call[me], Now) /\ Highest(kernel) /\ ~Suspending(me)
  BY <1>1 DEF Scheduling, CallsFit, Now, me, Suspending, SuspendingIn
<1>4. Keeps(kernel, n, {})
  BY <1>3, YieldKeeps DEF Wakes
<1>5. n.pendSV
  BY <1>1, <1>3 DEF Yield, Kernel, Lists, Typed, KernelFields
<1>6. kernel.uxSchedulerSuspended = 0 /\ kernel.pendingReady = <<>>
  BY <1>1, <1>3 DEF Scheduling, OneSuspends, Pended
<1>7. n.pendingReady = <<>>
  <2>1. \A u : ~IsIn(u, n.pendingReady)
    BY <1>4, <1>6, EmptyList DEF Keeps
  <2>2. n.pendingReady \in Seq(Tasks)
    BY <1>4 DEF Keeps, Kernel, Lists, Events, Once
  <2> QED BY <2>1, <2>2, NotEmpty
<1>8. CallIn(c, Now)
  BY <1>2, <1>3 DEF CallIn, Like, Untimed
<1>9. ~SuspendingIn(c, Now.api) /\ c.stage # "abort"
  BY <1>2 DEF SuspendingIn
<1>10. Others(n)
  BY <1>4 DEF Others, Keeps
<1>11. me \in Evt(n) => WaitsIn(c)
  BY <1>1, <1>2, <1>4 DEF Scheduling, Waiters, WaitsIn, Keeps
<1>12. n.ucNotifyState[me] # "waiting"
  BY <1>1, <1>4 DEF Scheduling, Waiters, NotifiedIn, Keeps
<1>13. Kernel(n) /\ Highest(n) /\ n.pxCurrentTCB = me /\ n.uxSchedulerSuspended = 0
  BY <1>3, <1>4, <1>6 DEF Keeps
<1>14. Mine(n, c, Now)
  BY <1>5, <1>7, <1>9, <1>11, <1>12, <1>13, EmptyList DEF Mine
<1> QED BY <1>1, <1>2, <1>8, <1>10, <1>13, <1>14, StepSchedules

(* vTaskDelay.                                                             *)
LEMMA DelayBodyKeeps == ASSUME CallInv, Static(scenario), Scheduling, DelayBody PROVE Scheduling'
<1> PICK n : n = prvAddCurrentTaskToDelayedList(kernel, Now.ticks, FALSE)
  OBVIOUS
<1> PICK c : c = [call[me] EXCEPT !.stage = "resume", !.outcome = "blocked"]
  OBVIOUS
<1>1. /\ CanRun /\ me \in Tasks /\ call[me].stage = "body" /\ Now.api = "vTaskDelay" /\ kernel' = n
      /\ Set(c) /\ scenario' = scenario
  BY DEF DelayBody, InCall, Step, Unserved
<1>2. Like(c, call[me]) /\ c.stage = "resume" /\ c.outcome = "blocked"
  BY <1>1 DEF CallInv, Locals, Like
<1>3. OfMe(c, Now)
  BY <1>1, <1>2, SetIs DEF Like
<1>4. Suspending(me) /\ ~Leaving(me)
  BY <1>1 DEF Suspending, SuspendingIn, Leaving, LeavingIn, BlockedIn
<1>5. Kernel(kernel) /\ kernel.pxCurrentTCB = me /\ CallIn(call[me], Now)
  BY <1>1, <1>4, Awake
<1>6. Now.ticks # 0 /\ Now.ticks \in TickType
  <2>1. Now.ticks # 0
    BY <1>1, <1>5 DEF CallIn
  <2>2. Now.ticks \in TickType
    BY <1>1, StaticRequests DEF StaticCall, Now
  <2> QED BY <2>1, <2>2
<1>7. CallIn(c, Now)
  BY <1>2, <1>5 DEF CallIn, Like, Untimed
<1>8. Sleeps(kernel, n, me)
  BY <1>1, <1>5, <1>6, DelaySleeps
<1>9. Keeps(kernel, kernel, {})
  BY <1>5, KeepsSelf
<1> QED BY <1>1, <1>2, <1>3, <1>4, <1>7, <1>8, <1>9, FallsAsleep

(* xTaskAbortDelay.                                                        *)
LEMMA AbortLookKeeps == ASSUME CallInv, Static(scenario), Scheduling, AbortLook PROVE Scheduling'
<1>1. /\ CanRun /\ me \in Tasks /\ call[me].stage = "body" /\ Now.api = "xTaskAbortDelay" /\ scenario' = scenario
  BY DEF AbortLook, InCall, Unserved
<1>2. Suspending(me) /\ ~Leaving(me)
  BY <1>1 DEF Suspending, SuspendingIn, Leaving, LeavingIn, BlockedIn
<1>3. Kernel(kernel) /\ kernel.pxCurrentTCB = me /\ CallIn(call[me], Now)
  BY <1>1, <1>2, Awake
<1>4. CASE eTaskGetState(kernel, Now.on) = "eBlocked"
  <2> PICK n : n = OffStateList(kernel, Now.on)
    OBVIOUS
  <2>1. Now.on \in Tasks
    BY <1>1, StaticRequests DEF StaticCall, OfTask, Now
  <2>2. Now.on # me /\ Now.on \notin Rdy(kernel)
    <3>1. /\ Now.on # me
          /\ IsIn(Now.on, kernel.delayed) \/ IsIn(Now.on, kernel.overflow) \/ IsIn(Now.on, kernel.suspendedTasks)
      BY <1>3, <1>4 DEF eTaskGetState
    <3> QED BY <1>3, <2>1, <3>1 DEF Kernel, Lists, Apart
  <2>3. Keeps(kernel, n, {}) /\ OffLists(n, Now.on)
    BY <1>3, <2>1, <2>2, OffBlocked
  <2>4. kernel' = n /\ Goto("abort")
    BY <1>4 DEF AbortLook, Step
  <2>5. PICK c : OfMe(c, Now) /\ Like(c, call[me]) /\ c.stage = "abort" /\ c.outcome = call[me].outcome
    BY <1>1, <2>4, GotoIs
  <2>6. CallIn(c, Now)
    BY <1>3, <2>5 DEF CallIn, Like, Untimed
  <2>7. SuspendingIn(c, Now.api) /\ ~BlockedIn(call[me])
    BY <1>1, <2>5 DEF SuspendingIn, BlockedIn
  <2> QED BY <1>1, <1>2, <2>2, <2>3, <2>4, <2>5, <2>6, <2>7, Goes
<1>5. CASE eTaskGetState(kernel, Now.on) # "eBlocked"
  <2> PICK n : n = kernel
    OBVIOUS
  <2>1. Goto("resume") /\ kernel' = n /\ Keeps(kernel, n, {})
    BY <1>3, <1>5, KeepsSelf DEF AbortLook
  <2>2. Now.api \notin QueueCalls /\ ~BlockedIn(call[me])
    BY <1>1 DEF QueueCalls, SendCalls, ReceiveCalls, TakeCalls, BlockedIn
  <2> QED BY <1>1, <1>2, <2>1, <2>2, GoesTo
<1> QED BY <1>4, <1>5

(* xTaskAbortDelay, between vTaskSuspendAll and xTaskResumeAll.            *)
LEMMA AbortDelayKeeps == ASSUME CallInv, Static(scenario), Scheduling, AbortDelay PROVE Scheduling'
<1> PICK n : n = xTaskAbortDelay(kernel, Now.on)
  OBVIOUS
<1>1. /\ CanRun /\ me \in Tasks /\ call[me].stage = "abort" /\ Now.api = "xTaskAbortDelay" /\ scenario' = scenario
      /\ kernel' = n /\ Goto("resume")
  BY DEF AbortDelay, InCall, Step, Unserved
<1>2. Suspending(me) /\ ~Leaving(me)
  BY <1>1 DEF Suspending, SuspendingIn, Leaving, LeavingIn, BlockedIn
<1>3. Kernel(kernel)
  BY DEF Scheduling
<1>4. Now.on \in Tasks /\ OffLists(kernel, Now.on)
  <2>1. Now.on \in Tasks
    BY <1>1, StaticRequests DEF StaticCall, OfTask, Now
  <2>2. OffLists(kernel, Now.on)
    BY <1>1 DEF Scheduling, Aborting, Now
  <2> QED BY <2>1, <2>2
<1>5. Keeps(kernel, n, {})
  BY <1>3, <1>4, AbortKeeps
<1>6. Now.api \notin QueueCalls /\ ~BlockedIn(call[me])
  BY <1>1 DEF QueueCalls, SendCalls, ReceiveCalls, TakeCalls, BlockedIn
<1> QED BY <1>1, <1>2, <1>5, <1>6, GoesTo

(* xTaskCatchUpTicks.                                                      *)
LEMMA CatchUpGoes == ASSUME CallInv, Static(scenario), Scheduling, CatchUp PROVE Scheduling'
<1> PICK n : n = [kernel EXCEPT !.xPendedTicks = @ + Now.with]
  OBVIOUS
<1>1. /\ CanRun /\ me \in Tasks /\ call[me].stage = "body" /\ Now.api = "xTaskCatchUpTicks" /\ scenario' = scenario
      /\ kernel' = n /\ Goto("resume")
  BY DEF CatchUp, InCall, Step, Unserved
<1>2. Suspending(me) /\ ~Leaving(me)
  BY <1>1 DEF Suspending, SuspendingIn, Leaving, LeavingIn, BlockedIn
<1>3. Kernel(kernel)
  BY DEF Scheduling
<1>4. Now.with \in Nat
  BY <1>1, StaticRequests DEF StaticCall, Now
<1>5. Keeps(kernel, n, {})
  BY <1>3, <1>4, CatchUpKeeps DEF Wakes
<1>6. Now.api \notin QueueCalls /\ ~BlockedIn(call[me])
  BY <1>1 DEF QueueCalls, SendCalls, ReceiveCalls, TakeCalls, BlockedIn
<1> QED BY <1>1, <1>2, <1>5, <1>6, GoesTo

(* A call that has done all it had to, or has its one critical section.    *)
LEMMA CallReturnsKeeps == ASSUME CallInv, Static(scenario), Scheduling, CallReturns PROVE Scheduling'
<1> PICK n : n = kernel
  OBVIOUS
<1>1. /\ CanRun /\ me \in Tasks /\ call[me].stage = "after" /\ scenario' = scenario
      /\ kernel' = n /\ Return
  BY DEF CallReturns, InCall, Unserved
<1>2. ~Suspending(me) /\ ~Leaving(me)
  BY <1>1 DEF Suspending, SuspendingIn, Leaving, LeavingIn, BlockedIn
<1>3. Keeps(kernel, n, {})
  BY KeepsSelf DEF Scheduling
<1> QED BY <1>1, <1>2, <1>3, Returns

(* The calls that are one critical section.                                *)
LEMMA OneSectionKeeps == ASSUME CallInv, Static(scenario), Scheduling, OneSection PROVE Scheduling'
<1> PICK n : n = kernel'
  OBVIOUS
<1>1. /\ CanRun /\ me \in Tasks /\ call[me].stage = "start" /\ scenario' = scenario /\ Return
  BY DEF OneSection, InCall, Unserved
<1>2. ~Suspending(me) /\ ~Leaving(me)
  BY <1>1 DEF Suspending, SuspendingIn, Leaving, LeavingIn, BlockedIn
<1>3. Kernel(kernel)
  BY DEF Scheduling
<1>4. StaticCall(Now)
  BY <1>1, StaticRequests DEF Now
<1>5. Keeps(kernel, n, {})
  <2>1. CASE Now.api = "vTaskPrioritySet" /\ n = vTaskPrioritySet(kernel, Now.on, Now.with)
    <3>1. Now.on \in Tasks /\ Now.with \in Priorities
      BY <1>4, <2>1 DEF StaticCall, OfTask
    <3> QED BY <1>3, <2>1, <3>1, PrioritySetKeeps
  <2>2. CASE Now.api = "vTaskResume" /\ n = vTaskResume(kernel, Now.on)
    <3>1. Now.on \in Tasks
      BY <1>4, <2>2 DEF StaticCall, OfTask
    <3> QED BY <1>3, <2>2, <3>1, ResumeKeeps
  <2>3. CASE Now.api = "xTaskNotify" /\ n = xTaskGenericNotify(kernel, Now.on, Now.with[1], Now.with[2])
    <3>1. Now.on \in Tasks
      BY <1>4, <2>3 DEF StaticCall, OfTask
    <3> QED BY <1>3, <2>3, <3>1, NotifyKeeps, NotifiedApart
  <2>4. CASE Now.api = "xTaskNotifyStateClear" /\ n = xTaskGenericNotifyStateClear(kernel, Now.on)
    <3>1. Now.on \in All
      BY <1>4, <2>4 DEF StaticCall, OfTask, All
    <3> QED BY <1>3, <2>4, <3>1, StateCleared DEF Wakes
  <2>5. CASE Now.api = "ulTaskNotifyValueClear" /\ n = ulTaskGenericNotifyValueClear(kernel, Now.on, Now.with)
    BY <1>3, <2>5, ClearedKeeps DEF Wakes
  <2> QED BY <2>1, <2>2, <2>3, <2>4, <2>5 DEF OneSection, InCall, Step
<1> QED BY <1>1, <1>2, <1>5, Returns

(* vTaskSuspend.                                                           *)
LEMMA SuspendStartKeeps == ASSUME CallInv, Static(scenario), Scheduling, SuspendStart PROVE Scheduling'
<1> PICK n : n = vTaskSuspend(kernel, Now.on)
  OBVIOUS
<1>1. /\ CanRun /\ me \in Tasks /\ call[me].stage = "start" /\ scenario' = scenario
      /\ Now.api = "vTaskSuspend" /\ kernel' = n /\ Goto("reset")
  BY DEF SuspendStart, InCall, Step, Unserved
<1>2. ~Suspending(me) /\ ~Leaving(me)
  BY <1>1 DEF Suspending, SuspendingIn, Leaving, LeavingIn, BlockedIn
<1>3. /\ kernel.pxCurrentTCB = me /\ me \in Rdy(kernel) /\ me \notin Evt(kernel) /\ ~IsIn(me, kernel.pendingReady)
      /\ kernel.uxSchedulerSuspended = 0 /\ kernel.ucNotifyState[me] # "waiting" /\ CallIn(call[me], Now)
      /\ Kernel(kernel)
  BY <1>1, <1>2, Awake
<1>4. Now.on \in Tasks
  BY <1>1, StaticRequests DEF StaticCall, OfTask, Now
<1>5. Suspends(kernel, n, Now.on)
  BY <1>3, <1>4, SuspendKeeps
<1>6. PICK c : OfMe(c, Now) /\ Like(c, call[me]) /\ c.stage = "reset" /\ c.outcome = call[me].outcome
  BY <1>1, GotoIs
<1>7. CallIn(c, Now)
  BY <1>3, <1>6 DEF CallIn, Like, Untimed
<1>8. ~SuspendingIn(c, Now.api) /\ c.stage # "abort"
  BY <1>6 DEF SuspendingIn
<1>9. n.pendingReady = <<>>
  <2>1. kernel.pendingReady = <<>>
    BY <1>3 DEF Scheduling, Pended
  <2>2. \A u : ~IsIn(u, n.pendingReady)
    BY <1>5, <2>1, EmptyList DEF Suspends
  <2>3. n.pendingReady \in Seq(Tasks)
    BY <1>5 DEF Suspends, Kernel, Lists, Events, Once
  <2> QED BY <2>2, <2>3, NotEmpty
<1>10. me \in Rdy(n) \/ LeavingIn(c, Now, me)
  BY <1>3, <1>5, <1>6 DEF Suspends, LeavingIn
<1>11. Others(n) /\ Highest(n) /\ Kernel(n)
  BY <1>5 DEF Others, Suspends, Scheduling
<1>12. /\ n.pxCurrentTCB = me /\ n.uxSchedulerSuspended = 0 /\ me \notin Evt(n) /\ n.ucNotifyState[me] # "waiting"
  BY <1>1, <1>3, <1>5 DEF Suspends
<1>13. Mine(n, c, Now)
  BY <1>8, <1>9, <1>10, <1>12, EmptyList DEF Mine
<1> QED BY <1>1, <1>6, <1>7, <1>11, <1>13, StepSchedules

(* vTaskSuspend, whose task has left every list before it asks for the     *)
(* switch.                                                                 *)
LEMMA SuspendResetKeeps == ASSUME CallInv, Static(scenario), Scheduling, SuspendReset PROVE Scheduling'
<1> PICK n : n = prvResetNextTaskUnblockTime(kernel)
  OBVIOUS
<1>1. /\ CanRun /\ me \in Tasks /\ call[me].stage = "reset" /\ scenario' = scenario
      /\ Now.api = "vTaskSuspend" /\ kernel' = n
  BY DEF SuspendReset, InCall, Step, Unserved
<1>2. ~Suspending(me)
  BY <1>1 DEF Suspending, SuspendingIn
<1>3. Kernel(kernel) /\ kernel.pxCurrentTCB = me /\ CallIn(call[me], Now)
  BY <1>1 DEF Scheduling, CallsFit, Now, me
<1>4. Keeps(kernel, n, {})
  BY <1>3, ResetKeeps DEF Wakes
<1>5. CASE Now.on # me
  <2>1. Return
    BY <1>5 DEF SuspendReset
  <2>2. ~Leaving(me)
    BY <1>1, <1>5 DEF Leaving, LeavingIn, BlockedIn, Now
  <2> QED BY <1>1, <1>2, <1>4, <2>1, <2>2, Returns
<1>6. CASE Now.on = me
  <2>1. Goto("yield")
    BY <1>6 DEF SuspendReset
  <2>2. PICK c : OfMe(c, Now) /\ Like(c, call[me]) /\ c.stage = "yield" /\ c.outcome = call[me].outcome
    BY <1>1, <2>1, GotoIs
  <2>3. CallIn(c, Now)
    BY <1>3, <2>2 DEF CallIn, Like, Untimed
  <2>4. ~SuspendingIn(c, Now.api) /\ c.stage # "abort" /\ LeavingIn(c, Now, me)
    BY <2>2 DEF SuspendingIn, LeavingIn
  <2>5. kernel.uxSchedulerSuspended = 0 /\ kernel.pendingReady = <<>>
    BY <1>1, <1>2 DEF Scheduling, OneSuspends, Pended
  <2>6. n.pendingReady = <<>>
    <3>1. \A u : ~IsIn(u, n.pendingReady)
      BY <1>4, <2>5, EmptyList DEF Keeps
    <3>2. n.pendingReady \in Seq(Tasks)
      BY <1>4 DEF Keeps, Kernel, Lists, Events, Once
    <3> QED BY <3>1, <3>2, NotEmpty
  <2>7. Others(n) /\ Highest(n) /\ Kernel(n) /\ n.pxCurrentTCB = me /\ n.uxSchedulerSuspended = 0
    BY <1>3, <1>4, <2>5 DEF Others, Keeps, Scheduling
  <2>8. me \notin Evt(n) /\ n.ucNotifyState[me] # "waiting"
    BY <1>1, <1>4 DEF Scheduling, Waiters, WaitsIn, NotifiedIn, Keeps
  <2>9. Mine(n, c, Now)
    BY <2>4, <2>6, <2>7, <2>8, EmptyList DEF Mine
  <2> QED BY <1>1, <2>2, <2>3, <2>7, <2>9, StepSchedules
<1> QED BY <1>5, <1>6

(* ulTaskNotifyTake and xTaskNotifyWait.                                   *)
LEMMA NotifyStartKeeps == ASSUME CallInv, Static(scenario), Scheduling, NotifyStart PROVE Scheduling'
<1> PICK n : n = IF Now.api = "ulTaskNotifyTake" THEN NotifyTakes(kernel, Now.ticks)
                 ELSE NotifyWaits(kernel, Now.with[1], Now.ticks)
  OBVIOUS
<1>1. /\ CanRun /\ me \in Tasks /\ call[me].stage = "start" /\ scenario' = scenario
      /\ Now.api \in NotifyCalls /\ kernel' = n /\ Goto("woken")
  BY DEF NotifyStart, InCall, Step, Unserved
<1>2. ~Suspending(me) /\ ~Leaving(me)
  BY <1>1 DEF Suspending, SuspendingIn, Leaving, LeavingIn, BlockedIn
<1>3. Kernel(kernel) /\ kernel.pxCurrentTCB = me /\ CallIn(call[me], Now)
  BY <1>1, <1>2, Awake
<1>4. Now.ticks \in TickType
  BY <1>1, StaticRequests DEF StaticCall, Now
<1>5. MaySleep(kernel, n, me)
  BY <1>1, <1>3, <1>4, NotifyTakesIs, NotifyWaitsIs
<1>6. PICK c : OfMe(c, Now) /\ Like(c, call[me]) /\ c.stage = "woken" /\ c.outcome = call[me].outcome
  BY <1>1, GotoIs
<1>7. CallIn(c, Now)
  BY <1>3, <1>6 DEF CallIn, Like, Untimed
<1>8. Now.api \in Notifiable
  BY <1>1 DEF Notifiable
<1> QED BY <1>1, <1>2, <1>5, <1>6, <1>7, <1>8, AwaitsNote

(* The second section of a wait for a notification.                        *)
LEMMA NotifyEndKeeps == ASSUME CallInv, Static(scenario), Scheduling, NotifyEnd PROVE Scheduling'
<1> PICK n : n = IF Now.api = "ulTaskNotifyTake" THEN NotifyTaken(kernel, Now.with)
                 ELSE NotifyWaited(kernel, Now.with[2])
  OBVIOUS
<1>1. /\ CanRun /\ me \in Tasks /\ call[me].stage = "woken" /\ scenario' = scenario
      /\ kernel' = n /\ Return
  BY DEF NotifyEnd, InCall, Step, Unserved
<1>2. ~Suspending(me) /\ ~Leaving(me)
  BY <1>1 DEF Suspending, SuspendingIn, Leaving, LeavingIn, BlockedIn
<1>3. Kernel(kernel) /\ kernel.pxCurrentTCB = me
  BY DEF Scheduling, me
<1>4. Keeps(kernel, n, {}) /\ n.ucNotifyState[me] # "waiting"
  BY <1>3, NotifyTakenKeeps, NotifyWaitedKeeps DEF Wakes
<1> QED BY <1>1, <1>2, <1>4, Returns

(* The calls of tasks.c.                                                   *)
LEMMA TaskCallSchedules == ASSUME CallInv, Static(scenario), Scheduling, TaskCall PROVE Scheduling'
<1>1. ~DeleteStart /\ ~DeleteFree /\ ~CreateStart /\ ~CreateYield
  <2>1. me \in Tasks => Now.api \notin Dynamic
    BY StaticRequests DEF StaticCall, Now
  <2> QED BY <2>1 DEF DeleteStart, DeleteFree, CreateStart, CreateYield, InCall, Dynamic
<1> QED BY <1>1, CallSuspendAllKeeps, CallResumeAllKeeps, CallYieldKeeps, DelayBodyKeeps, AbortLookKeeps,
           AbortDelayKeeps, CatchUpGoes, CallReturnsKeeps, OneSectionKeeps, SuspendStartKeeps,
           SuspendResetKeeps, NotifyStartKeeps, NotifyEndKeeps DEF TaskCall

----------------------------------------------------------------------------
(* Handlers and the switch of context.                                     *)

(* The record a kernel is.                                                 *)
LEMMA PendSVKept ==
    ASSUME NEW s, Kernel(s), NEW t, NEW n, n = ReadyOrPend(s, t)
    PROVE  n.pendSV = s.pendSV /\ n = [f \in KernelFields |-> n[f]]
<1> PICK off : off = OffStateList(s, t)
  OBVIOUS
<1> PICK m : m = prvAddTaskToReadyList(off, t)
  OBVIOUS
<1>1. s = [f \in KernelFields |-> s[f]]
  BY DEF Kernel, Lists, Typed
<1>2. off = [f \in KernelFields |-> off[f]] /\ off.pendSV = s.pendSV
  BY <1>1 DEF OffStateList, KernelFields
<1>3. m = [f \in KernelFields |-> m[f]] /\ m.pendSV = off.pendSV
  <2> PICK p : p = off.uxPriority[t]
    OBVIOUS
  <2> PICK ring : ring = InsertEnd(off.ready[p], t)
    OBVIOUS
  <2> PICK ready : ready = [off.ready EXCEPT ![p] = ring]
    OBVIOUS
  <2>1. m = [off EXCEPT !.uxTopReadyPriority = @ \cup {p}, !.ready = ready]
    BY <1>2 DEF prvAddTaskToReadyList, KernelFields
  <2> QED BY <1>2, <2>1 DEF KernelFields
<1>4. n = m \/ n = [s EXCEPT !.pendingReady = Append(@, t)]
  BY DEF ReadyOrPend
<1> QED BY ONLY <1>1, <1>2, <1>3, <1>4 DEF KernelFields

(* A handler, or a task at rest, wakes tasks and moves no call.            *)
Woken(P) == \A t \in P : kernel.ucNotifyState[t] = "waiting" \/ IsIn(t, kernel.suspendedTasks)

(* What a handler has to keep: it calls for no task, and wakes only tasks  *)
(* of P.                                                                   *)
LEMMA HandlerSchedules ==
    ASSUME CallInv, Scheduling, call' = call, scenario' = scenario,
           NEW P \in SUBSET Tasks, Woken(P), NEW n, kernel' = n, Wakes(kernel, n, P), kernel.pendSV => n.pendSV
    PROVE  Scheduling'
<1>1. /\ Kernel(n) /\ n.pxCurrentTCB = me
      /\ n.uxSchedulerSuspended = kernel.uxSchedulerSuspended
      /\ Rdy(kernel) \subseteq Rdy(n) /\ Evt(n) \subseteq Evt(kernel)
  BY DEF Wakes, Keeps, me
<1>2. Highest(n)
  BY DEF Wakes, Keeps, Scheduling
<1>3. me' = me
  BY <1>1 DEF me
<1>4. \A t \in Tasks : (Suspending(t)' <=> Suspending(t)) /\ (Leaving(t)' <=> Leaving(t)) /\ Request(t)' = Request(t)
  BY DEF Suspending, Leaving, Request, Program
<1>5. Kernel(kernel)' /\ Highest(kernel)' /\ Rdy(kernel)' = Rdy(n) /\ Evt(kernel)' = Evt(n)
  BY <1>1, <1>2, KernelIs
<1>6. OneSuspends'
  BY <1>1, <1>3, <1>4 DEF OneSuspends, Scheduling
<1>7. RunsReady'
  BY <1>1, <1>3, <1>4, <1>5 DEF RunsReady, Scheduling
<1>8. me \in Tasks /\ kernel.uxSchedulerSuspended # 0 =>
          /\ Suspending(me)
          /\ me \notin Rdy(kernel) => BlockedIn(call[me])
          /\ me \notin P \/ me \notin Rdy(kernel)
  <2> SUFFICES ASSUME me \in Tasks, kernel.uxSchedulerSuspended # 0
               PROVE  /\ Suspending(me)
                      /\ me \notin Rdy(kernel) => BlockedIn(call[me])
                      /\ me \notin P \/ me \notin Rdy(kernel)
    OBVIOUS
  <2>1. Suspending(me)
    BY DEF Scheduling, OneSuspends
  <2>2. me \notin Rdy(kernel) => BlockedIn(call[me])
    BY <2>1 DEF Scheduling, RunsReady, Leaving, LeavingIn, Suspending, SuspendingIn
  <2>3. kernel.ucNotifyState[me] # "waiting"
    BY <2>1 DEF Scheduling, Waiters, NotifiedIn, Suspending, SuspendingIn
  <2>4. me \notin P \/ me \notin Rdy(kernel)
    BY <2>3 DEF Woken, Scheduling, Kernel, Lists, Apart
  <2> QED BY <2>1, <2>2, <2>4
<1>9. Waiters'
  <2>1. \A t \in Tasks : t \in Evt(n) => WaitsIn(call[t])
    BY <1>1 DEF Scheduling, Waiters
  <2>2. \A t \in Tasks : n.ucNotifyState[t] = "waiting" =>
            NotifiedIn(call[t], Request(t).api) /\ ~IsIn(t, n.pendingReady)
    BY NotifiedApart DEF Scheduling, Waiters, Wakes, Keeps
  <2> QED BY <1>4, <1>5, <2>1, <2>2 DEF Waiters
<1>10. Pended'
  <2>1. n.uxSchedulerSuspended = 0 => \A u : ~IsIn(u, n.pendingReady)
    BY <1>1, EmptyList DEF Wakes, Keeps, Scheduling, Pended
  <2>2. n.pendingReady \in Seq(Tasks)
    BY <1>1 DEF Kernel, Lists, Events, Once
  <2>3. n.uxSchedulerSuspended = 0 => n.pendingReady = <<>>
    BY <2>1, <2>2, NotEmpty
  <2>4. me \in Tasks /\ IsIn(me, n.pendingReady) => BlockedIn(call[me])
    <3>1. me \in Evt(kernel) => me \notin Rdy(kernel)
      BY DEF Scheduling, Kernel, Unready
    <3> QED BY <1>8, <3>1 DEF Wakes, Keeps, Scheduling, Pended
  <2> QED BY <1>3, <2>3, <2>4 DEF Pended
<1>11. CallsFit'
  BY <1>4 DEF Scheduling, CallsFit
<1>12. Aborting'
  <2>1. ASSUME NEW t \in Tasks, call[t].stage = "abort"
        PROVE  Request(t).on # t /\ OffLists(n, Request(t).on)
    <3>1. Suspending(t)
      BY <2>1 DEF Suspending, SuspendingIn
    <3>2. kernel.uxSchedulerSuspended # 0
      BY <3>1 DEF Scheduling, OneSuspends
    <3>3. Still(kernel, n)
      BY <3>2 DEF Wakes
    <3>4. Request(t).on # t /\ OffLists(kernel, Request(t).on)
      BY <2>1 DEF Scheduling, Aborting
    <3> QED BY <3>3, <3>4 DEF Still, OffLists, Rdy, IsReady
  <2>2. \A t : OffLists(kernel, t)' <=> OffLists(n, t)
    BY <1>5 DEF OffLists, IsIn
  <2> QED BY <1>4, <2>1, <2>2 DEF Aborting
<1> QED BY <1>5, <1>6, <1>7, <1>9, <1>10, <1>11, <1>12 DEF Scheduling

(* A handler ends with a switch if it asks for one.                        *)
LEMMA ServeSchedules ==
    ASSUME CallInv, Scheduling, NEW result, Serve(result),
           NEW P \in SUBSET Tasks, Woken(P), Wakes(kernel, result.kernel, P),
           kernel.pendSV => result.kernel.pendSV
    PROVE  Scheduling'
<1> PICK m : m = result.kernel
  OBVIOUS
<1> PICK asks \in BOOLEAN : kernel' = YieldIf(m, asks /\ result.woken)
  BY DEF Serve, Step
<1> PICK condition : condition = (asks /\ result.woken)
  OBVIOUS
<1> PICK n : n = YieldIf(m, condition)
  OBVIOUS
<1>1. Kernel(m) /\ Wakes(kernel, m, P)
  BY DEF Wakes, Keeps
<1>2. Wakes(m, n, {})
  BY <1>1, YieldKeeps
<1>3. Wakes(kernel, n, P)
  BY <1>1, <1>2, WakesOn
<1>4. m.pendSV => n.pendSV
  <2>1. m = [f \in KernelFields |-> m[f]]
    BY <1>1 DEF Kernel, Lists, Typed
  <2>2. n = m \/ n = Yield(m)
    BY DEF YieldIf
  <2> QED BY <2>1, <2>2 DEF Yield, KernelFields
<1>5. call' = call /\ scenario' = scenario /\ kernel' = n
  BY DEF Serve
<1> QED BY <1>3, <1>4, <1>5, HandlerSchedules

(* SysTick.                                                                *)
LEMMA SysTickSchedules == ASSUME CallInv, Scheduling, SysTick PROVE Scheduling'
<1> PICK r : r = xTaskIncrementTick(kernel)
  OBVIOUS
<1> PICK n : n = YieldIf(r.kernel, r.switch)
  OBVIOUS
<1>1. call' = call /\ scenario' = scenario /\ kernel' = n
  BY DEF SysTick, Step
<1>2. Wakes(kernel, n, {})
  BY TickKeeps DEF Scheduling
<1>3. kernel.pendSV => n.pendSV
  <2>1. Ticked(kernel, r.kernel)
    BY TickStep DEF Scheduling
  <2> PICK m : m = r.kernel
    OBVIOUS
  <2>2. m.pendSV = kernel.pendSV
    BY <2>1 DEF Ticked, Same, TickFields, ListFields, StateFields, EventFields, ReadyFields, KernelFields
  <2>3. m = [f \in KernelFields |-> m[f]]
    BY <2>1 DEF Ticked, Kernel, Lists, Typed
  <2>4. n = m \/ n = Yield(m)
    BY DEF YieldIf
  <2> QED BY <2>2, <2>3, <2>4 DEF Yield, KernelFields
<1>4. Woken({})
  BY DEF Woken
<1> QED BY <1>1, <1>2, <1>3, <1>4, HandlerSchedules

(* The idle task yields.                                                   *)
LEMMA IdleSchedules == ASSUME CallInv, Scheduling, IdleYield PROVE Scheduling'
<1> PICK n : n = YieldIf(kernel, TRUE)
  OBVIOUS
<1>1. call' = call /\ scenario' = scenario /\ kernel' = n /\ ~kernel.pendSV
  BY DEF IdleYield, Step, Unserved, YieldIf, CanRun
<1>2. Wakes(kernel, n, {})
  BY YieldKeeps DEF Scheduling
<1>3. Woken({})
  BY DEF Woken
<1> QED BY <1>1, <1>2, <1>3, HandlerSchedules

(* The context switch.                                                     *)
LEMMA PendSVSchedules == ASSUME CallInv, Scheduling, PendSV PROVE Scheduling'
<1> PICK n : n = vTaskSwitchContext([kernel EXCEPT !.pendSV = FALSE])
  OBVIOUS
<1>1. call' = call /\ scenario' = scenario /\ kernel' = n /\ Kernel(kernel)
  BY DEF PendSV, Step, Unserved, Scheduling
<1>2. \A t \in Tasks : (Suspending(t)' <=> Suspending(t)) /\ (Leaving(t)' <=> Leaving(t)) /\ Request(t)' = Request(t)
  BY <1>1 DEF Suspending, Leaving, Request, Program
<1>3. CallsFit'
  BY <1>1, <1>2 DEF Scheduling, CallsFit
<1>4. CASE kernel.uxSchedulerSuspended = 0
  <2>1. /\ Kernel(n) /\ Same(kernel, n, {"pendSV", "xYieldPending", "ready", "pxCurrentTCB"})
        /\ Rdy(n) = Rdy(kernel) /\ Evt(n) = Evt(kernel)
        /\ n.pxCurrentTCB \in Rdy(n) /\ Highest(n)
    BY <1>1, <1>4, SwitchedContext DEF Switched
  <2>2. /\ n.uxSchedulerSuspended = 0 /\ n.pendingReady = kernel.pendingReady
        /\ n.ucNotifyState = kernel.ucNotifyState
    BY <1>4, <2>1 DEF Same, KernelFields
  <2>3. kernel.pendingReady = <<>>
    BY <1>4 DEF Scheduling, Pended
  <2>4. \A t \in Tasks : ~Suspending(t)
    BY <1>4 DEF Scheduling, OneSuspends
  <2>5. Kernel(kernel)' /\ Highest(kernel)' /\ Rdy(kernel)' = Rdy(n) /\ Evt(kernel)' = Evt(n)
    BY <1>1, <2>1, KernelIs
  <2>6. OneSuspends'
    BY <1>1, <1>2, <2>2, <2>4 DEF OneSuspends, me
  <2>7. RunsReady'
    BY <1>1, <2>1, <2>5 DEF RunsReady, me
  <2>8. Waiters'
    BY <1>1, <1>2, <2>1, <2>2, <2>5 DEF Scheduling, Waiters
  <2>9. Pended'
    BY <1>1, <2>2, <2>3, EmptyList DEF Pended
  <2>10. Aborting'
    <3>1. \A t \in Tasks : call'[t].stage # "abort"
      BY <1>1, <2>4 DEF Suspending, SuspendingIn
    <3> QED BY <3>1 DEF Aborting
  <2> QED BY <1>3, <2>5, <2>6, <2>7, <2>8, <2>9, <2>10 DEF Scheduling
<1>5. CASE kernel.uxSchedulerSuspended # 0
  <2>1. /\ Kernel(n) /\ Same(kernel, n, YieldFields) /\ Rdy(n) = Rdy(kernel) /\ Evt(n) = Evt(kernel)
        /\ Highest(n)
    BY <1>1, <1>5, SwitchedContext
  <2>2. /\ n.uxSchedulerSuspended = kernel.uxSchedulerSuspended /\ n.pendingReady = kernel.pendingReady
        /\ n.ucNotifyState = kernel.ucNotifyState /\ n.pxCurrentTCB = kernel.pxCurrentTCB
        /\ n.delayed = kernel.delayed /\ n.overflow = kernel.overflow /\ n.suspendedTasks = kernel.suspendedTasks
    BY <2>1 DEF Same, KernelFields, YieldFields
  <2>3. me' = me
    BY <1>1, <2>2 DEF me
  <2>4. Kernel(kernel)' /\ Highest(kernel)' /\ Rdy(kernel)' = Rdy(n) /\ Evt(kernel)' = Evt(n)
    BY <1>1, <2>1, KernelIs
  <2>5. OneSuspends'
    BY <1>1, <1>2, <2>2, <2>3 DEF Scheduling, OneSuspends
  <2>6. RunsReady'
    BY <1>1, <1>2, <1>5, <2>1, <2>3, <2>4 DEF Scheduling, RunsReady
  <2>7. Waiters'
    BY <1>1, <1>2, <2>1, <2>2, <2>4 DEF Scheduling, Waiters
  <2>8. Pended'
    BY <1>1, <2>2, <2>3 DEF Scheduling, Pended
  <2>9. Aborting'
    <3>1. \A t : OffLists(kernel, t)' <=> OffLists(kernel, t)
      BY <1>1, <2>1, <2>2, <2>4 DEF OffLists, IsIn
    <3> QED BY <1>1, <1>2, <3>1 DEF Scheduling, Aborting
  <2> QED BY <1>3, <2>4, <2>5, <2>6, <2>7, <2>8, <2>9 DEF Scheduling
<1> QED BY <1>4, <1>5

(* xTaskResumeFromISR, xTaskNotifyFromISR and vTaskNotifyGiveFromISR.      *)
LEMMA NotifySchedules ==
    ASSUME CallInv, Scheduling, NEW t \in Tasks, NEW action, NEW value,
           Serve(xTaskGenericNotifyFromISR(kernel, t, action, value))
    PROVE  Scheduling'
<1> PICK r : r = xTaskGenericNotifyFromISR(kernel, t, action, value)
  OBVIOUS
<1>1. kernel.ucNotifyState[t] = "waiting" => ~InEventList(kernel, t)
  BY NotifiedApart
<1>2. PICK P \in SUBSET {t} : Wakes(kernel, r.kernel, P) /\ (t \in P => kernel.ucNotifyState[t] = "waiting")
  BY <1>1, NotifiedFromISR DEF Scheduling
<1>3. Woken(P)
  BY <1>2 DEF Woken
<1>4. kernel.pendSV => r.kernel.pendSV
  <2>1. kernel = [f \in KernelFields |-> kernel[f]]
    BY DEF Scheduling, Kernel, Lists, Typed
  <2> PICK set : set = Notified(kernel, t, action, value)
    OBVIOUS
  <2>2. Kernel(set)
    BY NotifiedKeeps DEF Scheduling, Wakes, Keeps
  <2>3. set.pendSV = kernel.pendSV
    BY <2>1 DEF Notified, KernelFields
  <2> PICK m : m = ReadyOrPend(set, t)
    OBVIOUS
  <2>4. m.pendSV = kernel.pendSV /\ m = [f \in KernelFields |-> m[f]]
    BY <2>2, <2>3, PendSVKept
  <2> PICK k : k = configASSERT(m, ~InEventList(kernel, t), "notified in an event list")
    OBVIOUS
  <2>6. k.pendSV = kernel.pendSV /\ k = [f \in KernelFields |-> k[f]]
    BY <2>4 DEF configASSERT, KernelFields
  <2> PICK woken : woken = r.woken
    OBVIOUS
  <2>7. r.kernel = set \/ r.kernel = [k EXCEPT !.xYieldPending = @ \/ woken]
    BY DEF xTaskGenericNotifyFromISR
  <2> QED BY <2>3, <2>6, <2>7 DEF KernelFields
<1> QED BY <1>2, <1>3, <1>4, ServeSchedules

(* xTaskResumeFromISR, of a task that never waits for a notification.      *)
LEMMA ResumeSchedules ==
    ASSUME CallInv, Static(scenario), Scheduling, Interrupt({"xTaskResumeFromISR"}),
           Serve(xTaskResumeFromISR(kernel, ISR.on))
    PROVE  Scheduling'
<1> PICK t : t = ISR.on
  OBVIOUS
<1> PICK r : r = xTaskResumeFromISR(kernel, t)
  OBVIOUS
<1>1. t \in Tasks
  BY StaticRequests DEF Interrupt, ISR, StaticCall, OfTask
<1>2. kernel.ucNotifyState[t] # "waiting"
  <2>1. \A j \in DOMAIN Program(t) : Program(t)[j].api \notin Notifiable
    BY StaticRequests DEF Interrupt, ISR, Interrupts, Static, Program
  <2>2. Request(t).api \notin Notifiable
    BY <1>1, <2>1 DEF Request, CallInv
  <2> QED BY <1>1, <2>2 DEF Scheduling, Waiters, NotifiedIn
<1>3. PICK P \in SUBSET {t} : Wakes(kernel, r.kernel, P) /\ (t \in P => IsIn(t, kernel.suspendedTasks))
  BY <1>1, <1>2, ResumedFromISR DEF Scheduling
<1>4. Woken(P)
  BY <1>3 DEF Woken
<1>5. kernel.pendSV => r.kernel.pendSV
  <2>1. kernel = [f \in KernelFields |-> kernel[f]]
    BY DEF Scheduling, Kernel, Lists, Typed
  <2> PICK m : m = ReadyOrPend(kernel, t)
    OBVIOUS
  <2>2. m.pendSV = kernel.pendSV /\ m = [f \in KernelFields |-> m[f]]
    BY PendSVKept DEF Scheduling
  <2> PICK woken : woken = r.woken
    OBVIOUS
  <2>4. r.kernel = kernel \/ r.kernel = [m EXCEPT !.xYieldPending = @ \/ woken]
    BY DEF xTaskResumeFromISR
  <2> QED BY <2>1, <2>2, <2>4 DEF KernelFields
<1> QED BY <1>1, <1>3, <1>4, <1>5, ServeSchedules

(* The steps of the kernel and of tasks.c.                                 *)
LEMMA KernelStepSchedules ==
    ASSUME CallInv, Static(scenario), Scheduling, KernelStep PROVE Scheduling'
<1>1. ~CheckTasksWaitingTermination
  BY DEF CheckTasksWaitingTermination, Scheduling, Kernel, Lists, WaitLists
<1>2. ASSUME TaskInterrupt PROVE Scheduling'
  <2>1. CASE Interrupt({"xTaskResumeFromISR"}) /\ Serve(xTaskResumeFromISR(kernel, ISR.on))
    BY <2>1, ResumeSchedules
  <2>2. ASSUME Interrupt({"xTaskNotifyFromISR", "vTaskNotifyGiveFromISR"}) PROVE ISR.on \in Tasks
    BY <2>2, StaticRequests DEF Interrupt, ISR, StaticCall, OfTask
  <2>3. CASE /\ Interrupt({"xTaskNotifyFromISR"})
             /\ Serve(xTaskGenericNotifyFromISR(kernel, ISR.on, ISR.with[1], ISR.with[2]))
    <3>1. ISR.on \in Tasks
      BY <2>2, <2>3 DEF Interrupt
    <3> QED BY <2>3, <3>1, NotifySchedules
  <2>4. CASE /\ Interrupt({"vTaskNotifyGiveFromISR"})
             /\ Serve(xTaskGenericNotifyFromISR(kernel, ISR.on, "eIncrement", 0))
    <3>1. ISR.on \in Tasks
      BY <2>2, <2>4 DEF Interrupt
    <3> QED BY <2>4, <3>1, NotifySchedules
  <2> QED BY <1>2, <2>1, <2>3, <2>4 DEF TaskInterrupt, vTaskGenericNotifyGiveFromISR
<1> QED BY <1>1, <1>2, TaskCallSchedules, SysTickSchedules, IdleSchedules, PendSVSchedules DEF KernelStep

----------------------------------------------------------------------------
(* The queue calls.                                                        *)

(* The queue of a call of the running task.                                *)
LEMMA MyQueue ==
    ASSUME CallInv, Static(scenario), Kinds, me \in Tasks, Now.api \in OfQueue
    PROVE  /\ Now.on \in QueueNames /\ Q = queue[Now.on] /\ DOMAIN Q = QueueFields
           /\ Q.kind # "mutex" /\ Q.cTxLock \in Int /\ Q.cRxLock \in Int
           /\ ToSend(Now.on) \in EventLists /\ ToReceive(Now.on) \in EventLists
<1>1. Now.on \in QueueNames /\ NewQueue[Now.on].kind # "mutex"
  BY StaticRequests DEF StaticCall, Now
<1> QED BY <1>1, QueuesAssumption DEF Kinds, Q

(* A value the queue q can take.                                           *)
IsQueueOf(R, q) == /\ DOMAIN R = QueueFields /\ R.kind = queue[q].kind
                   /\ R.cTxLock \in Int /\ R.cRxLock \in Int

(* A queue replaced by one of the same kind leaves Kinds true.             *)
LEMMA QueueSet ==
    ASSUME Kinds, NEW q \in QueueNames, NEW R, queue' = [queue EXCEPT ![q] = R], IsQueueOf(R, q)
    PROVE  Kinds'
BY DEF Kinds, IsQueueOf

(* The queue of the running call is such a queue.                          *)
LEMMA MineSet ==
    ASSUME CallInv, Static(scenario), Kinds, me \in Tasks, Now.api \in OfQueue, NEW R, SetQueue(R),
           IsQueueOf(R, Now.on)
    PROVE  Kinds'
BY MyQueue, QueueSet DEF SetQueue

(* Counters and items of a queue are no part of what it is.                *)
LEMMA StoredIs ==
    ASSUME Kinds, NEW q \in QueueNames, NEW item, NEW position
    PROVE  IsQueueOf(Stored(queue[q], item, position), q)
<1> PICK R : R = queue[q]
  OBVIOUS
<1>1. DOMAIN R = QueueFields /\ R.cTxLock \in Int /\ R.cRxLock \in Int
  BY DEF Kinds
<1> PICK back : back = [R.store EXCEPT ![R.write] = item]
  OBVIOUS
<1> PICK front : front = [R.store EXCEPT ![R.read] = item]
  OBVIOUS
<1> PICK n : n = IF position = "overwrite" /\ R.uxMessagesWaiting > 0 THEN R.uxMessagesWaiting ELSE R.uxMessagesWaiting + 1
  OBVIOUS
<1>2. \/ Stored(R, item, position) = [R EXCEPT !.store = back, !.write = Next1(R, R.write), !.uxMessagesWaiting = R.uxMessagesWaiting + 1]
      \/ Stored(R, item, position) = [R EXCEPT !.store = front, !.read = Previous1(R, R.read), !.uxMessagesWaiting = n]
  BY <1>1 DEF Stored, QueueFields
<1> QED BY <1>1, <1>2 DEF IsQueueOf, QueueFields

(* prvCopyDataToQueue leaves the kernel alone unless the queue is a mutex. *)
LEMMA CopiedIs ==
    ASSUME Kinds, NEW q \in QueueNames, queue[q].kind # "mutex", NEW item, NEW position, NEW c,
           c = prvCopyDataToQueue(kernel, queue[q], item, position)
    PROVE  c.kernel = kernel /\ c.yields = FALSE /\ IsQueueOf(c.queue, q)
<1> PICK R : R = queue[q]
  OBVIOUS
<1> PICK counted : counted = [R EXCEPT !.uxMessagesWaiting = R.uxMessagesWaiting + 1, !.holder = NoTask]
  OBVIOUS
<1> PICK S : S = Stored(R, item, position)
  OBVIOUS
<1> PICK new : new = IF R.kind = "queue" THEN S ELSE counted
  OBVIOUS
<1>1. DOMAIN R = QueueFields /\ R.cTxLock \in Int /\ R.cRxLock \in Int
  BY DEF Kinds
<1>2. counted = [R EXCEPT !.uxMessagesWaiting = @ + 1, !.holder = NoTask]
  BY <1>1 DEF QueueFields
<1>3. c = [kernel |-> kernel, yields |-> FALSE, queue |-> new]
  BY <1>2 DEF prvCopyDataToQueue
<1>4. IsQueueOf(counted, q)
  BY <1>1 DEF IsQueueOf, QueueFields
<1>5. IsQueueOf(S, q)
  BY StoredIs
<1> QED BY <1>3, <1>4, <1>5

(* Taking an item keeps the kind of the queue.                             *)
LEMMA TakenIs ==
    ASSUME Kinds, NEW q \in QueueNames
    PROVE  IsQueueOf(Taken(queue[q]), q)
BY DEF Kinds, Taken, IsQueueOf, QueueFields

(* Of any call of a queue.                                                 *)
QueueKept == Scheduling' /\ Kinds'

(* xQueueGenericSend with room in the queue: a receiver is woken.          *)
LEMMA SendKeeps == ASSUME CallInv, Static(scenario), Scheduling, Kinds, xQueueGenericSend PROVE QueueKept
<1>1. CanRun /\ me \in Tasks /\ call[me].stage = "start" /\ scenario' = scenario /\ Return
  BY DEF xQueueGenericSend, InCall, Unserved
<1>2. Now.api \in SendCalls
  <2>1. Now.api \notin Dynamic
    BY <1>1, StaticRequests DEF StaticCall, Now
  <2> QED BY <2>1 DEF xQueueGenericSend, InCall, Dynamic
<1>3. /\ Now.on \in QueueNames /\ Q = queue[Now.on] /\ Q.kind # "mutex" /\ ToReceive(Now.on) \in EventLists
  BY <1>1, <1>2, MyQueue DEF OfQueue, QueueCalls
<1>4. ~Suspending(me) /\ ~Leaving(me)
  BY <1>1 DEF Suspending, SuspendingIn, Leaving, LeavingIn, BlockedIn
<1> PICK c : c = prvCopyDataToQueue(kernel, Q, Item, Now.with[2])
  OBVIOUS
<1>5. c.kernel = kernel /\ c.yields = FALSE /\ IsQueueOf(c.queue, Now.on)
  <2> PICK item : item = Item
    OBVIOUS
  <2> PICK position : position = Now.with[2]
    OBVIOUS
  <2>1. c = prvCopyDataToQueue(kernel, queue[Now.on], item, position)
    BY <1>3
  <2> QED BY <1>3, <2>1, CopiedIs
<1> PICK n : n = kernel'
  OBVIOUS
<1>6. n = WakeOneAndYield(kernel, ToReceive(Now.on)) \/ n = YieldIf(kernel, FALSE)
  BY <1>5 DEF xQueueGenericSend, Step
<1>7. Keeps(kernel, n, {})
  BY <1>3, <1>6, WakeOneYields, YieldKeeps DEF Scheduling, Wakes
<1>8. Scheduling'
  BY <1>1, <1>4, <1>7, Returns
<1> PICK R : R = [c.queue EXCEPT !.uxRecursiveCallCount = 0]
  OBVIOUS
<1>9. SetQueue(R) /\ IsQueueOf(R, Now.on)
  BY <1>5 DEF xQueueGenericSend, IsQueueOf, QueueFields
<1>10. Kinds'
  BY <1>1, <1>2, <1>9, MineSet DEF OfQueue, QueueCalls
<1> QED BY <1>8, <1>10 DEF QueueKept

(* xQueueReceive of an item: a sender is woken.                            *)
LEMMA ReceiveKeeps == ASSUME CallInv, Static(scenario), Scheduling, Kinds, xQueueReceive PROVE QueueKept
<1>1. CanRun /\ me \in Tasks /\ call[me].stage = "start" /\ scenario' = scenario /\ Return
  BY DEF xQueueReceive, InCall, Unserved
<1>2. Now.api \in OfQueue
  BY DEF xQueueReceive, InCall, OfQueue, QueueCalls, ReceiveCalls
<1>3. /\ Now.on \in QueueNames /\ Q = queue[Now.on] /\ Q.kind # "mutex" /\ ToSend(Now.on) \in EventLists
  BY <1>1, <1>2, MyQueue
<1>4. ~Suspending(me) /\ ~Leaving(me)
  BY <1>1 DEF Suspending, SuspendingIn, Leaving, LeavingIn, BlockedIn
<1> PICK n : n = WakeOneAndYield(kernel, ToSend(Now.on))
  OBVIOUS
<1>5. kernel' = n
  BY <1>3 DEF xQueueReceive, Step
<1>6. Keeps(kernel, n, {})
  BY <1>3, WakeOneYields DEF Scheduling, Wakes
<1>7. Scheduling'
  BY <1>1, <1>4, <1>5, <1>6, Returns
<1> PICK S : S = Taken(Q)
  OBVIOUS
<1> PICK N : N = IF Now.api = "xQueueTakeMutexRecursive" THEN S.uxRecursiveCallCount + 1 ELSE S.uxRecursiveCallCount
  OBVIOUS
<1> PICK R : R = [S EXCEPT !.holder = NoTask, !.uxRecursiveCallCount = N]
  OBVIOUS
<1>8. IsQueueOf(S, Now.on)
  BY <1>3, TakenIs
<1>9. IsQueueOf(R, Now.on)
  BY <1>8 DEF IsQueueOf, QueueFields
<1>10. SetQueue(R)
  BY <1>3, <1>8 DEF xQueueReceive, IsQueueOf, QueueFields
<1>11. Kinds'
  BY <1>1, <1>2, <1>9, <1>10, MineSet
<1> QED BY <1>7, <1>11 DEF QueueKept

(* xQueuePeek of an item: another receiver is woken.                       *)
LEMMA PeekKeeps == ASSUME CallInv, Static(scenario), Scheduling, Kinds, xQueuePeek PROVE QueueKept
<1>1. CanRun /\ me \in Tasks /\ call[me].stage = "start" /\ scenario' = scenario /\ Return /\ queue' = queue
  BY DEF xQueuePeek, InCall, Unserved
<1>2. Now.api \in OfQueue
  BY DEF xQueuePeek, InCall, OfQueue, QueueCalls, ReceiveCalls
<1>3. ToReceive(Now.on) \in EventLists
  BY <1>1, <1>2, MyQueue
<1>4. ~Suspending(me) /\ ~Leaving(me)
  BY <1>1 DEF Suspending, SuspendingIn, Leaving, LeavingIn, BlockedIn
<1> PICK n : n = WakeOneAndYield(kernel, ToReceive(Now.on))
  OBVIOUS
<1>5. kernel' = n
  BY DEF xQueuePeek, Step
<1>6. Keeps(kernel, n, {})
  BY <1>3, WakeOneYields DEF Scheduling, Wakes
<1>7. Scheduling'
  BY <1>1, <1>4, <1>5, <1>6, Returns
<1> QED BY <1>1, <1>7 DEF QueueKept, Kinds

(* A call that may not wait fails.                                         *)
LEMMA FailsKeeps == ASSUME CallInv, Static(scenario), Scheduling, Kinds, QueueFails PROVE QueueKept
<1> PICK n : n = kernel
  OBVIOUS
<1>1. /\ CanRun /\ me \in Tasks /\ call[me].stage = "start" /\ scenario' = scenario /\ Fails /\ queue' = queue
      /\ kernel' = n
  BY DEF QueueFails, InCall, Unserved
<1>2. ~Suspending(me) /\ ~Leaving(me)
  BY <1>1 DEF Suspending, SuspendingIn, Leaving, LeavingIn, BlockedIn
<1>3. Keeps(kernel, n, {})
  BY KeepsSelf DEF Scheduling
<1>4. Scheduling'
  BY <1>1, <1>2, <1>3, Returns
<1> QED BY <1>1, <1>4 DEF QueueKept, Kinds

(* A call that has to wait suspends the scheduler.                         *)
LEMMA MustWaitKeeps == ASSUME CallInv, Static(scenario), Scheduling, Kinds, QueueMustWait PROVE QueueKept
<1> PICK n : n = kernel
  OBVIOUS
<1>1. /\ CanRun /\ me \in Tasks /\ call[me].stage = "start" /\ scenario' = scenario /\ queue' = queue
      /\ kernel' = n /\ call[me].ticks # 0 /\ Now.api \in QueueCalls
  BY DEF QueueMustWait, InCall, Unserved
<1>2. ~Suspending(me) /\ ~Leaving(me) /\ ~BlockedIn(call[me])
  BY <1>1 DEF Suspending, SuspendingIn, Leaving, LeavingIn, BlockedIn
<1>3. Keeps(kernel, n, {}) /\ CallIn(call[me], Now)
  BY <1>1, KeepsSelf DEF Scheduling, CallsFit, Now
<1>4. Now.api # "vTaskDelay"
  BY <1>1 DEF QueueCalls, SendCalls, ReceiveCalls, TakeCalls
<1>5. ASSUME Goto("suspend") PROVE Scheduling'
  BY <1>1, <1>2, <1>3, <1>4, <1>5, GoesTo
<1> PICK c : c = [call[me] EXCEPT !.stage = "suspend", !.set = TRUE, !.since = TimeOutState(kernel)]
  OBVIOUS
<1>6. ASSUME Set(c) PROVE Scheduling'
  <2>1. /\ c.pc = call[me].pc /\ c.stage = "suspend" /\ c.ticks = call[me].ticks /\ c.inherited = call[me].inherited
        /\ c.since = TimeOutState(kernel)
    BY <1>1 DEF CallInv, Locals
  <2>2. c.since.entered \in TickType
    BY <2>1 DEF TimeOutState, Scheduling, Kernel, Lists, Typed
  <2>3. CallIn(c, Now)
    BY <1>1, <1>3, <1>4, <2>1, <2>2 DEF CallIn
  <2>4. OfMe(c, Now)
    BY <1>1, <1>6, <2>1, SetIs
  <2>5. ~SuspendingIn(c, Now.api) /\ c.stage # "abort"
    BY <2>1 DEF SuspendingIn
  <2> QED BY <1>1, <1>2, <1>3, <2>3, <2>4, <2>5, Goes
<1>7. Scheduling'
  BY <1>5, <1>6 DEF QueueMustWait
<1> QED BY <1>1, <1>7 DEF QueueKept, Kinds

(* prvLockQueue.                                                           *)
LEMMA LockKeeps == ASSUME CallInv, Static(scenario), Scheduling, Kinds, prvLockQueue PROVE QueueKept
<1> PICK n : n = kernel
  OBVIOUS
<1>1. /\ CanRun /\ me \in Tasks /\ scenario' = scenario /\ kernel' = n
  BY DEF prvLockQueue, InCall, Unserved
<1>2. Now.api \in QueueCalls /\ call[me].stage = "body" /\ Goto("check")
  <2>1. Now.api \notin Dynamic
    BY <1>1, StaticRequests DEF StaticCall, Now
  <2> QED BY <2>1 DEF prvLockQueue, InCall, Dynamic
<1>3. Suspending(me) /\ ~Leaving(me) /\ ~BlockedIn(call[me])
  BY <1>2 DEF Suspending, SuspendingIn, Leaving, LeavingIn, BlockedIn
<1>4. Keeps(kernel, n, {}) /\ CallIn(call[me], Now)
  BY <1>1, KeepsSelf DEF Scheduling, CallsFit, Now
<1>5. call[me].ticks # 0
  BY <1>2, <1>4 DEF CallIn, Untimed
<1>6. Now.api # "vTaskDelay"
  BY <1>2 DEF QueueCalls, SendCalls, ReceiveCalls, TakeCalls
<1>7. Scheduling'
  BY <1>1, <1>2, <1>3, <1>4, <1>5, <1>6, GoesTo
<1>8. Now.api \in OfQueue
  BY <1>2 DEF OfQueue
<1>9. /\ Now.on \in QueueNames /\ Q = queue[Now.on] /\ DOMAIN Q = QueueFields
      /\ Q.cTxLock \in Int /\ Q.cRxLock \in Int
  BY <1>1, <1>8, MyQueue
<1> PICK R : R = [Q EXCEPT !.cRxLock = Lock(@), !.cTxLock = Lock(@)]
  OBVIOUS
<1>10. SetQueue(R) /\ IsQueueOf(R, Now.on)
  BY <1>9 DEF prvLockQueue, IsQueueOf, QueueFields, Lock
<1>11. Kinds'
  BY <1>1, <1>8, <1>10, MineSet
<1> QED BY <1>7, <1>11 DEF QueueKept

(* What is left of a wait that is not over.                                *)
LEMMA TimeLeft ==
    ASSUME Kernel(kernel), NEW since, since.entered \in TickType, NEW n \in TickType,
           ~TimedOut(kernel, since, n)
    PROVE  TicksLeft(kernel, since, n) \in TickType /\ TicksLeft(kernel, since, n) # 0
<1>1. CASE n = portMAX_DELAY
  BY <1>1, KernelAssumption DEF TicksLeft
<1>2. CASE n # portMAX_DELAY
  <2> PICK past : past = Minus(kernel.xTickCount, since.entered)
    OBVIOUS
  <2>1. kernel.xTickCount \in Int /\ since.entered \in Int /\ portMAX_DELAY + 1 \in Nat \ {0}
    BY KernelAssumption DEF Kernel, Lists, Typed, TickType
  <2> PICK d \in Int : d = kernel.xTickCount - since.entered
    BY <2>1
  <2> PICK m \in Nat \ {0} : m = portMAX_DELAY + 1
    BY <2>1
  <2>2. past = d % m
    BY DEF Minus
  <2>3. d % m \in 0 .. m - 1
    BY ONLY d \in Int, m \in Nat \ {0}
  <2>4. past \in Nat /\ ~(past >= n)
    BY <1>2, <2>2, <2>3 DEF TimedOut
  <2>5. TicksLeft(kernel, since, n) = n - past
    BY <1>2 DEF TicksLeft
  <2> QED BY <2>4, <2>5, KernelAssumption DEF TickType
<1> QED BY <1>1, <1>2

(* xTaskCheckForTimeOut, whose wait goes on or is over.                    *)
LEMMA TimeChecked ==
    ASSUME CallInv, Scheduling, CanRun, me \in Tasks, scenario' = scenario,
           call[me].stage = "check", Now.api # "vTaskDelay", NEW over,
           \/ Now.api \in QueueCalls /\ over = "unlockTx"
           \/ Now.api \notin QueueCalls /\ over = "write",
           kernel' = Checked(kernel),
           LET d == call[me]
           IN IF Aborted(kernel)
              THEN Set([d EXCEPT !.stage = over, !.outcome = "aborted"])
              ELSE IF TimedOut(kernel, d.since, d.ticks)
              THEN Set([d EXCEPT !.stage = over, !.outcome = "expired", !.ticks = 0])
              ELSE Set([d EXCEPT !.stage = "test", !.ticks = TicksLeft(kernel, d.since, @),
                                 !.since = IF d.ticks = portMAX_DELAY THEN @ ELSE TimeOutState(kernel)])
    PROVE  Scheduling'
<1> PICK n : n = Checked(kernel)
  OBVIOUS
<1>1. kernel' = n
  OBVIOUS
<1>2. (Suspending(me) <=> Now.api \in QueueCalls) /\ ~Leaving(me) /\ ~BlockedIn(call[me])
  BY DEF Suspending, SuspendingIn, Leaving, LeavingIn, BlockedIn, Now
<1>3. Kernel(kernel) /\ CallIn(call[me], Now)
  BY DEF Scheduling, CallsFit, Now
<1>4. Keeps(kernel, n, {})
  BY <1>3, CheckedKeeps DEF Wakes
<1> PICK d : d = call[me]
  OBVIOUS
<1>5. DOMAIN d = Locals /\ d.since.entered \in TickType /\ d.ticks \in TickType /\ ~d.inherited
  BY <1>3 DEF CallInv, CallIn
<1>6. 0 \in TickType /\ TimeOutState(kernel).entered \in TickType
  BY <1>3, KernelAssumption DEF TickType, TimeOutState, Kernel, Lists, Typed
<1> DEFINE StillIn(c) == /\ Set(c) /\ c.pc = d.pc /\ ~c.inherited
                         /\ c.since.entered \in TickType /\ c.ticks \in TickType
                         /\ (c.stage = over \/ (c.stage = "test" /\ c.ticks # 0))
<1> HIDE DEF StillIn
<1>7. ASSUME NEW c, StillIn(c) PROVE Scheduling'
  <2>1. OfMe(c, Now)
    BY <1>7, SetIs DEF StillIn
  <2>2. CallIn(c, Now)
    BY <1>7 DEF CallIn, Untimed, StillIn
  <2>3. (SuspendingIn(c, Now.api) <=> Now.api \in QueueCalls) /\ c.stage # "abort"
    BY <1>7 DEF SuspendingIn, StillIn
  <2> QED BY <1>1, <1>2, <1>4, <2>1, <2>2, <2>3, Goes
<1>8. ASSUME Aborted(kernel) PROVE Scheduling'
  <2> PICK c : c = [d EXCEPT !.stage = over, !.outcome = "aborted"]
    OBVIOUS
  <2>1. Set(c)
    BY <1>8
  <2>2. c.pc = d.pc /\ c.inherited = d.inherited /\ c.since = d.since /\ c.ticks = d.ticks /\ c.stage = over
    BY <1>5 DEF Locals
  <2>3. StillIn(c)
    BY <1>5, <2>1, <2>2 DEF StillIn
  <2> QED BY ONLY <2>3, <1>7
<1>9. ASSUME ~Aborted(kernel), TimedOut(kernel, d.since, d.ticks) PROVE Scheduling'
  <2> PICK c : c = [d EXCEPT !.stage = over, !.outcome = "expired", !.ticks = 0]
    OBVIOUS
  <2>1. Set(c)
    BY <1>9
  <2>2. c.pc = d.pc /\ c.inherited = d.inherited /\ c.since = d.since /\ c.ticks = 0 /\ c.stage = over
    BY <1>5 DEF Locals
  <2>3. StillIn(c)
    BY <1>5, <1>6, <2>1, <2>2 DEF StillIn
  <2> QED BY ONLY <2>3, <1>7
<1>10. ASSUME ~Aborted(kernel), ~TimedOut(kernel, d.since, d.ticks) PROVE Scheduling'
  <2> PICK rest : rest = TicksLeft(kernel, d.since, d.ticks)
    OBVIOUS
  <2> PICK since : since = IF d.ticks = portMAX_DELAY THEN d.since ELSE TimeOutState(kernel)
    OBVIOUS
  <2> PICK c : c = [d EXCEPT !.stage = "test", !.ticks = rest, !.since = since]
    OBVIOUS
  <2>1. Set(c)
    <3>1. c = [d EXCEPT !.stage = "test", !.ticks = TicksLeft(kernel, d.since, @),
                        !.since = IF d.ticks = portMAX_DELAY THEN @ ELSE TimeOutState(kernel)]
      BY <1>5 DEF Locals
    <3> QED BY <1>10, <3>1
  <2>2. c.pc = d.pc /\ c.inherited = d.inherited /\ c.since = since /\ c.ticks = rest /\ c.stage = "test"
    BY <1>5 DEF Locals
  <2>3. rest \in TickType /\ rest # 0
    BY <1>3, <1>5, <1>10, TimeLeft
  <2>4. since.entered \in TickType
    BY <1>5, <1>6
  <2>5. StillIn(c)
    BY <1>5, <2>1, <2>2, <2>3, <2>4 DEF StillIn
  <2> QED BY ONLY <2>5, <1>7
<1> QED BY <1>8, <1>9, <1>10

(* xTaskCheckForTimeOut of a queue call: aborted, expired or still to      *)
(* wait.                                                                   *)
LEMMA CheckKeeps ==
    ASSUME CallInv, Static(scenario), Scheduling, Kinds, QueueCheckForTimeOut PROVE QueueKept
<1>1. /\ CanRun /\ me \in Tasks /\ call[me].stage = "check" /\ Now.api \in QueueCalls /\ scenario' = scenario
      /\ kernel' = Checked(kernel) /\ queue' = queue
  BY DEF QueueCheckForTimeOut, InCall, Step, Unserved
<1>2. Now.api # "vTaskDelay"
  BY <1>1 DEF QueueCalls, SendCalls, ReceiveCalls, TakeCalls
<1>3. Scheduling'
  BY <1>1, <1>2, TimeChecked DEF QueueCheckForTimeOut
<1> QED BY <1>1, <1>3 DEF QueueKept, Kinds

(* The queue is looked at again, with the scheduler suspended and the      *)
(* queue locked.                                                           *)
LEMMA TestKeeps == ASSUME CallInv, Static(scenario), Scheduling, Kinds, QueueTest PROVE QueueKept
<1> PICK n : n = kernel
  OBVIOUS
<1>1. /\ CanRun /\ me \in Tasks /\ call[me].stage = "test" /\ Now.api \in QueueCalls /\ scenario' = scenario
      /\ kernel' = n /\ queue' = queue
  BY DEF QueueTest, InCall, Unserved
<1>2. Suspending(me) /\ ~Leaving(me) /\ ~BlockedIn(call[me])
  BY <1>1 DEF Suspending, SuspendingIn, Leaving, LeavingIn, BlockedIn, Now
<1>3. Keeps(kernel, n, {}) /\ CallIn(call[me], Now)
  BY <1>1, KeepsSelf DEF Scheduling, CallsFit, Now
<1>4. Now.api # "vTaskDelay" /\ Now.api \in OfQueue
  BY <1>1 DEF QueueCalls, SendCalls, ReceiveCalls, TakeCalls, OfQueue
<1>5. Q.kind # "mutex"
  BY <1>1, <1>4, MyQueue
<1>6. call[me].ticks # 0
  BY <1>1, <1>3 DEF CallIn, Untimed
<1>7. ASSUME Goto("place") PROVE Scheduling'
  BY <1>1, <1>2, <1>3, <1>4, <1>6, <1>7, GoesTo
<1> PICK c : c = [call[me] EXCEPT !.stage = "unlockTx", !.outcome = "retry"]
  OBVIOUS
<1>8. ASSUME Set(c) PROVE Scheduling'
  <2>1. Like(c, call[me]) /\ c.stage = "unlockTx"
    BY <1>1 DEF CallInv, Locals, Like
  <2>2. CallIn(c, Now)
    BY <1>3, <1>4, <2>1 DEF CallIn, Like, Untimed
  <2>3. OfMe(c, Now)
    BY <1>1, <1>8, <2>1, SetIs DEF Like
  <2>4. SuspendingIn(c, Now.api) /\ c.stage # "abort"
    BY <2>1 DEF SuspendingIn
  <2> QED BY <1>1, <1>2, <1>3, <2>2, <2>3, <2>4, Goes
<1>9. Scheduling'
  BY <1>5, <1>7, <1>8 DEF QueueTest
<1> QED BY <1>1, <1>9 DEF QueueKept, Kinds

(* The task is placed on the event list, and leaves the ready list.        *)
LEMMA PlaceKeeps == ASSUME CallInv, Static(scenario), Scheduling, Kinds, QueuePlace PROVE QueueKept
<1> PICK e : e = IF Now.api \in SendCalls THEN ToSend(Now.on) ELSE ToReceive(Now.on)
  OBVIOUS
<1> PICK n : n = vTaskPlaceOnEventList(kernel, e, call[me].ticks)
  OBVIOUS
<1> PICK c : c = [call[me] EXCEPT !.stage = "unlockTx", !.outcome = "blocked"]
  OBVIOUS
<1>1. /\ CanRun /\ me \in Tasks /\ call[me].stage = "place" /\ Now.api \in QueueCalls /\ scenario' = scenario
      /\ kernel' = n /\ queue' = queue /\ Set(c)
  BY DEF QueuePlace, InCall, Step, Unserved
<1>2. Suspending(me) /\ ~Leaving(me)
  BY <1>1 DEF Suspending, SuspendingIn, Leaving, LeavingIn, BlockedIn, Now
<1>3. /\ Kernel(kernel) /\ kernel.pxCurrentTCB = me /\ me \notin Evt(kernel) /\ ~IsIn(me, kernel.pendingReady)
      /\ CallIn(call[me], Now)
  BY <1>1, <1>2, Awake
<1>4. Now.api # "vTaskDelay" /\ Now.api \in OfQueue
  BY <1>1 DEF QueueCalls, SendCalls, ReceiveCalls, TakeCalls, OfQueue
<1>5. e \in EventLists
  BY <1>1, <1>4, MyQueue
<1>6. call[me].ticks # 0 /\ call[me].ticks \in TickType
  BY <1>1, <1>3 DEF CallIn, Untimed
<1>7. Like(c, call[me]) /\ c.stage = "unlockTx" /\ c.outcome = "blocked"
  BY <1>1 DEF CallInv, Locals, Like
<1>8. CallIn(c, Now)
  BY <1>3, <1>4, <1>7 DEF CallIn, Like, Untimed
<1>9. OfMe(c, Now)
  BY <1>1, <1>7, SetIs DEF Like
<1>10. Sleeps(kernel, n, me)
  <2> PICK rest : rest = call[me].ticks
    OBVIOUS
  <2> QED BY <1>1, <1>3, <1>5, <1>6, PlaceSleeps
<1>11. Keeps(kernel, kernel, {})
  BY <1>3, KeepsSelf
<1>12. Scheduling'
  BY <1>1, <1>2, <1>7, <1>8, <1>9, <1>10, <1>11, FallsAsleep
<1> QED BY <1>1, <1>12 DEF QueueKept, Kinds

(* prvUnlockQueue.                                                         *)
LEMMA UnlockKeeps ==
    ASSUME CallInv, Static(scenario), Scheduling, Kinds, QueueUnlockTx \/ QueueUnlockRx PROVE QueueKept
<1>1. /\ CanRun /\ me \in Tasks /\ Now.api \in UnlockCalls /\ scenario' = scenario
      /\ call[me].stage \in {"unlockTx", "unlockRx"}
  BY DEF QueueUnlockTx, QueueUnlockRx, InCall, Unserved
<1>2. Now.api \in QueueCalls /\ Now.api \in OfQueue
  <2>1. Now.api \notin Dynamic
    BY <1>1, StaticRequests DEF StaticCall, Now
  <2> QED BY <1>1, <2>1 DEF Dynamic, UnlockCalls, OfQueue
<1>3. /\ Now.on \in QueueNames /\ Q = queue[Now.on] /\ DOMAIN Q = QueueFields
      /\ Q.cTxLock \in Int /\ Q.cRxLock \in Int
      /\ ToSend(Now.on) \in EventLists /\ ToReceive(Now.on) \in EventLists
  BY <1>1, <1>2, MyQueue
<1> PICK R : R = IF QueueUnlockTx THEN [Q EXCEPT !.cTxLock = queueUNLOCKED] ELSE [Q EXCEPT !.cRxLock = queueUNLOCKED]
  OBVIOUS
<1>4. SetQueue(R) /\ IsQueueOf(R, Now.on)
  <2>1. SetQueue(R)
    BY DEF QueueUnlockTx, QueueUnlockRx
  <2>2. IsQueueOf(R, Now.on)
    BY <1>3 DEF IsQueueOf, QueueFields, queueUNLOCKED
  <2> QED BY <2>1, <2>2
<1>5. Kinds'
  BY <1>1, <1>2, <1>4, MineSet
<1>6. PICK e \in EventLists, N \in Int, stage \in {"unlockRx", "resume"} :
          kernel' = MakeUp(kernel, e, N) /\ Goto(stage)
  <2>1. CASE QueueUnlockTx
    BY <1>3, <2>1 DEF QueueUnlockTx, Step
  <2>2. CASE QueueUnlockRx
    BY <1>3, <2>2 DEF QueueUnlockRx, Step
  <2> QED BY <2>1, <2>2
<1> PICK n : n = MakeUp(kernel, e, N)
  OBVIOUS
<1>7. Keeps(kernel, n, {}) /\ kernel' = n
  BY <1>6, MadeUp DEF Scheduling, Wakes
<1>8. Suspending(me)
  BY <1>1 DEF Suspending, SuspendingIn
<1>9. Now.api # "vTaskDelay" /\ stage \notin Untimed
  BY <1>2, <1>6 DEF QueueCalls, SendCalls, ReceiveCalls, TakeCalls, Untimed
<1>10. Scheduling'
  BY <1>1, <1>6, <1>7, <1>8, <1>9, GoesTo
<1> QED BY <1>5, <1>10 DEF QueueKept

(* What a queue call does once the scheduler runs again.                   *)
LEMMA AfterKeeps == ASSUME CallInv, Static(scenario), Scheduling, Kinds, QueueAfter PROVE QueueKept
<1> PICK n : n = kernel
  OBVIOUS
<1>1. /\ CanRun /\ me \in Tasks /\ call[me].stage = "after" /\ Now.api \in QueueCalls /\ scenario' = scenario
      /\ kernel' = n /\ queue' = queue
  BY DEF QueueAfter, InCall, Unserved
<1>2. ~Suspending(me) /\ ~Leaving(me) /\ ~BlockedIn(call[me])
  BY <1>1 DEF Suspending, SuspendingIn, Leaving, LeavingIn, BlockedIn
<1>3. Keeps(kernel, n, {}) /\ CallIn(call[me], Now)
  BY <1>1, KeepsSelf DEF Scheduling, CallsFit, Now
<1> PICK c : c = [call[me] EXCEPT !.stage = "start", !.outcome = "none"]
  OBVIOUS
<1>4. Set(c) \/ Return \/ Fails
  BY <1>3 DEF QueueAfter, CallIn
<1>5. ASSUME Return \/ Fails PROVE Scheduling'
  BY <1>1, <1>2, <1>3, <1>5, Returns
<1>6. ASSUME Set(c) PROVE Scheduling'
  <2>1. Like(c, call[me]) /\ c.stage = "start"
    BY <1>1 DEF CallInv, Locals, Like
  <2>2. CallIn(c, Now)
    BY <1>3, <2>1 DEF CallIn, Like, Untimed
  <2>3. OfMe(c, Now)
    BY <1>1, <1>6, <2>1, SetIs DEF Like
  <2>4. ~SuspendingIn(c, Now.api) /\ c.stage # "abort"
    BY <2>1 DEF SuspendingIn
  <2> QED BY <1>1, <1>2, <1>3, <2>2, <2>3, <2>4, Goes
<1>7. Scheduling'
  BY <1>4, <1>5, <1>6
<1> QED BY <1>1, <1>7 DEF QueueKept, Kinds

(* xQueueGenericReset: a waiting sender is woken.                          *)
LEMMA QueueResetKeeps == ASSUME CallInv, Static(scenario), Scheduling, Kinds, xQueueGenericReset PROVE QueueKept
<1> PICK n : n = WakeOneAndYield(kernel, ToSend(Now.on))
  OBVIOUS
<1>1. /\ CanRun /\ me \in Tasks /\ call[me].stage = "start" /\ scenario' = scenario /\ Return
      /\ Now.api = "xQueueReset" /\ kernel' = n
  BY DEF xQueueGenericReset, InCall, Step, Unserved
<1>2. Now.api \in OfQueue
  BY <1>1 DEF OfQueue
<1>3. /\ Now.on \in QueueNames /\ Q = queue[Now.on] /\ DOMAIN Q = QueueFields /\ ToSend(Now.on) \in EventLists
  BY <1>1, <1>2, MyQueue
<1>4. ~Suspending(me) /\ ~Leaving(me)
  BY <1>1 DEF Suspending, SuspendingIn, Leaving, LeavingIn, BlockedIn
<1>5. Keeps(kernel, n, {})
  BY <1>3, WakeOneYields DEF Scheduling, Wakes
<1>6. Scheduling'
  BY <1>1, <1>4, <1>5, Returns
<1> PICK R : R = [Q EXCEPT !.uxMessagesWaiting = 0, !.write = 0, !.read = Q.uxLength - 1,
                           !.cRxLock = queueUNLOCKED, !.cTxLock = queueUNLOCKED]
  OBVIOUS
<1>7. SetQueue(R)
  BY DEF xQueueGenericReset
<1>8. IsQueueOf(R, Now.on)
  BY <1>3 DEF IsQueueOf, QueueFields, queueUNLOCKED
<1>9. Kinds'
  BY <1>1, <1>2, <1>7, <1>8, MineSet
<1> QED BY <1>6, <1>9 DEF QueueKept

(* The calls of queue.c.                                                   *)
LEMMA QueueCallSchedules == ASSUME CallInv, Static(scenario), Scheduling, Kinds, QueueCall PROVE QueueKept
<1>1. ~xQueueGiveMutexRecursive /\ ~xQueueTakeMutexRecursive
  <2>1. me \in Tasks => Now.api \notin Dynamic
    BY StaticRequests DEF StaticCall, Now
  <2> QED BY <2>1 DEF xQueueGiveMutexRecursive, xQueueTakeMutexRecursive, InCall, Dynamic
<1>2. ~QueueInherit /\ ~QueueDisinherit
  BY DEF QueueInherit, QueueDisinherit, InCall, Scheduling, CallsFit, CallIn
<1> QED BY <1>1, <1>2, SendKeeps, ReceiveKeeps, PeekKeeps, FailsKeeps, MustWaitKeeps, LockKeeps, CheckKeeps,
           TestKeeps, PlaceKeeps, UnlockKeeps, AfterKeeps, QueueResetKeeps DEF QueueCall

----------------------------------------------------------------------------
(* Queues in handlers, and timers.                                         *)

(* A handler that uses a queue, and wakes the first of those that wait.    *)
LEMMA QueueServes ==
    ASSUME CallInv, Scheduling, NEW result, Serve(result),
           \/ result = [kernel |-> kernel, woken |-> FALSE]
           \/ \E e \in EventLists : result = WakeOne(kernel, e)
    PROVE  Scheduling'
<1>1. Kernel(kernel)
  BY DEF Scheduling
<1>2. Wakes(kernel, result.kernel, {}) /\ result.kernel.pendSV = kernel.pendSV
  <2>1. CASE result = [kernel |-> kernel, woken |-> FALSE]
    <3>1. result.kernel = kernel
      BY ONLY <2>1
    <3> QED BY <1>1, <3>1, WakesSelf
  <2>2. CASE \E e \in EventLists : result = WakeOne(kernel, e)
    <3> PICK e \in EventLists : result = WakeOne(kernel, e)
      BY <2>2
    <3> QED BY <1>1, WakeOneKeeps
  <2> QED BY <2>1, <2>2
<1>3. Woken({})
  BY DEF Woken
<1> QED BY <1>2, <1>3, ServeSchedules

(* The queue of a handler's call.                                          *)
LEMMA HandlersQueue ==
    ASSUME CallInv, Static(scenario), Kinds, served < Len(Interrupts), ISR.api \in OfQueue
    PROVE  /\ ISR.on \in QueueNames /\ IsrQ = queue[ISR.on] /\ DOMAIN IsrQ = QueueFields
           /\ IsrQ.kind # "mutex" /\ IsrQ.cTxLock \in Int /\ IsrQ.cRxLock \in Int
           /\ ToSend(ISR.on) \in EventLists /\ ToReceive(ISR.on) \in EventLists
<1>1. ISR.on \in QueueNames /\ NewQueue[ISR.on].kind # "mutex"
  BY StaticRequests DEF StaticCall
<1> QED BY <1>1, QueuesAssumption DEF Kinds, IsrQ

(* The lock counts of a queue are integers.                                *)
LEMMA CountedIs == ASSUME NEW n \in Int PROVE Counted(n) \in Int
BY DEF Counted

(* xQueueGenericSendFromISR: a receiver is woken, or the lock counts the   *)
(* item.                                                                   *)
LEMMA SendServes ==
    ASSUME CallInv, Static(scenario), Scheduling, Kinds, served < Len(Interrupts), ISR.api \in OfQueue,
           NEW item, NEW position, xQueueGenericSendFromISR(item, position)
    PROVE  QueueKept
<1> PICK q : q = ISR.on
  OBVIOUS
<1>1. /\ q \in QueueNames /\ IsrQ = queue[q] /\ DOMAIN IsrQ = QueueFields /\ IsrQ.kind # "mutex"
      /\ ToReceive(q) \in EventLists
  BY HandlersQueue
<1>2. CASE Serve([kernel |-> kernel, woken |-> FALSE]) /\ UNCHANGED queue
  BY <1>2, QueueServes DEF QueueKept, Kinds
<1> PICK c : c = prvCopyDataToQueue(kernel, queue[q], item, position)
  OBVIOUS
<1>3. c.kernel = kernel /\ IsQueueOf(c.queue, q)
  BY <1>1, CopiedIs
<1>4. Counted(c.queue.cTxLock) \in Int
  BY <1>3, CountedIs DEF IsQueueOf
<1> PICK R : R = [c.queue EXCEPT !.cTxLock = Counted(c.queue.cTxLock)]
  OBVIOUS
<1>5. IsQueueOf(R, q)
  BY <1>3, <1>4 DEF IsQueueOf, QueueFields
<1> PICK result : result = IF IsrQ.cTxLock # queueUNLOCKED THEN [kernel |-> kernel, woken |-> FALSE]
                           ELSE WakeOne(kernel, ToReceive(q))
  OBVIOUS
<1> PICK N : N = IF IsrQ.cTxLock # queueUNLOCKED THEN R ELSE c.queue
  OBVIOUS
<1>6. CASE Serve(result) /\ queue' = [queue EXCEPT ![q] = N]
  <2>1. Scheduling'
    BY <1>1, <1>6, QueueServes
  <2>2. Kinds'
    BY <1>1, <1>3, <1>5, <1>6, QueueSet
  <2> QED BY <2>1, <2>2 DEF QueueKept
<1>7. R = [c.queue EXCEPT !.cTxLock = Counted(@)]
  BY <1>3 DEF IsQueueOf, QueueFields
<1>8. c = prvCopyDataToQueue(kernel, IsrQ, item, position)
  BY <1>1
<1> QED BY <1>2, <1>3, <1>6, <1>7, <1>8 DEF xQueueGenericSendFromISR

(* xQueueGiveFromISR.                                                      *)
LEMMA GiveServes ==
    ASSUME CallInv, Static(scenario), Scheduling, Kinds, xQueueGiveFromISR PROVE QueueKept
<1> PICK q : q = ISR.on
  OBVIOUS
<1>1. /\ q \in QueueNames /\ IsrQ = queue[q] /\ DOMAIN IsrQ = QueueFields /\ ToReceive(q) \in EventLists
      /\ IsrQ.cTxLock \in Int
  BY HandlersQueue DEF xQueueGiveFromISR, Interrupt, ISR, OfQueue
<1>2. CASE Serve([kernel |-> kernel, woken |-> FALSE]) /\ UNCHANGED queue
  BY <1>2, QueueServes DEF QueueKept, Kinds
<1> PICK lock : lock = IF IsrQ.cTxLock # queueUNLOCKED THEN Counted(IsrQ.cTxLock) ELSE IsrQ.cTxLock
  OBVIOUS
<1>3. lock \in Int
  BY <1>1, CountedIs
<1> PICK R : R = [IsrQ EXCEPT !.uxMessagesWaiting = IsrQ.uxMessagesWaiting + 1, !.cTxLock = lock]
  OBVIOUS
<1>4. IsQueueOf(R, q)
  BY <1>1, <1>3 DEF IsQueueOf, QueueFields, Kinds
<1> PICK result : result = IF IsrQ.cTxLock # queueUNLOCKED THEN [kernel |-> kernel, woken |-> FALSE]
                           ELSE WakeOne(kernel, ToReceive(q))
  OBVIOUS
<1>5. CASE Serve(result) /\ queue' = [queue EXCEPT ![q] = R]
  <2>1. Scheduling'
    BY <1>1, <1>5, QueueServes
  <2>2. Kinds'
    BY <1>1, <1>4, <1>5, QueueSet
  <2> QED BY <2>1, <2>2 DEF QueueKept
<1>6. [queue EXCEPT ![q] = R] = [queue EXCEPT ![q].uxMessagesWaiting = @ + 1,
                       ![q].cTxLock = IF IsrQ.cTxLock # queueUNLOCKED THEN Counted(@) ELSE @]
  BY <1>1 DEF Kinds, QueueFields
<1> QED BY <1>2, <1>5, <1>6 DEF xQueueGiveFromISR

(* xQueueReceiveFromISR: a sender is woken, or the lock counts the space.  *)
LEMMA ReceiveServes ==
    ASSUME CallInv, Static(scenario), Scheduling, Kinds, xQueueReceiveFromISR PROVE QueueKept
<1> PICK q : q = ISR.on
  OBVIOUS
<1>1. /\ q \in QueueNames /\ IsrQ = queue[q] /\ DOMAIN IsrQ = QueueFields /\ ToSend(q) \in EventLists
  BY HandlersQueue DEF xQueueReceiveFromISR, Interrupt, ISR, OfQueue, QueueInterrupts
<1>2. CASE Serve([kernel |-> kernel, woken |-> FALSE]) /\ UNCHANGED queue
  BY <1>2, QueueServes DEF QueueKept, Kinds
<1> PICK S : S = Taken(queue[q])
  OBVIOUS
<1>3. IsQueueOf(S, q)
  BY <1>1, TakenIs
<1>4. Counted(S.cRxLock) \in Int
  BY <1>3, CountedIs DEF IsQueueOf
<1> PICK R : R = [S EXCEPT !.cRxLock = Counted(S.cRxLock)]
  OBVIOUS
<1>5. IsQueueOf(R, q)
  BY <1>3, <1>4 DEF IsQueueOf, QueueFields
<1> PICK result : result = IF IsrQ.cRxLock # queueUNLOCKED THEN [kernel |-> kernel, woken |-> FALSE]
                           ELSE WakeOne(kernel, ToSend(q))
  OBVIOUS
<1> PICK N : N = IF IsrQ.cRxLock # queueUNLOCKED THEN R ELSE S
  OBVIOUS
<1>6. CASE Serve(result) /\ queue' = [queue EXCEPT ![q] = N]
  <2>1. Scheduling'
    BY <1>1, <1>6, QueueServes
  <2>2. Kinds'
    BY <1>1, <1>3, <1>5, <1>6, QueueSet
  <2> QED BY <2>1, <2>2 DEF QueueKept
<1>7. R = [S EXCEPT !.cRxLock = Counted(@)] /\ S = Taken(IsrQ)
  BY <1>1, <1>3 DEF IsQueueOf, QueueFields
<1> QED BY <1>2, <1>6, <1>7 DEF xQueueReceiveFromISR

(* The calls of handlers.                                                  *)
LEMMA QueueInterruptSchedules ==
    ASSUME CallInv, Static(scenario), Scheduling, Kinds, QueueInterrupt PROVE QueueKept
<1>1. CASE xQueueSendFromISR
  BY <1>1, SendServes DEF xQueueSendFromISR, Interrupt, ISR, OfQueue, QueueInterrupts
<1>2. CASE xQueuePeekFromISR
  BY <1>2, QueueServes DEF xQueuePeekFromISR, QueueKept, Kinds
<1> QED BY <1>1, <1>2, GiveServes, ReceiveServes DEF QueueInterrupt

(* The calls of timers.c but for those of the timer task.                  *)
LEMMA TimerCommandKeeps ==
    ASSUME CallInv, Static(scenario), Scheduling, Kinds, xTimerGenericCommand PROVE QueueKept
<1> PICK n : n = kernel
  OBVIOUS
<1>1. /\ CanRun /\ me \in Tasks /\ call[me].stage = "command" /\ Now.api = "xTimerGenericCommand"
      /\ scenario' = scenario /\ kernel' = n /\ queue' = queue
  BY DEF xTimerGenericCommand, InCall, Unserved, queueVars
<1>2. ~Suspending(me) /\ ~Leaving(me) /\ ~BlockedIn(call[me])
  BY <1>1 DEF Suspending, SuspendingIn, Leaving, LeavingIn, BlockedIn
<1>3. Keeps(kernel, n, {}) /\ CallIn(call[me], Now)
  BY <1>1, KeepsSelf DEF Scheduling, CallsFit, Now
<1> PICK c : c = [call[me] EXCEPT !.stage = "start", !.space = kernel.xTickCount]
  OBVIOUS
<1>4. Set(c)
  BY DEF xTimerGenericCommand
<1>5. Like(c, call[me]) /\ c.stage = "start"
  BY <1>1 DEF CallInv, Locals, Like
<1>6. CallIn(c, Now)
  BY <1>3, <1>5 DEF CallIn, Like, Untimed
<1>7. OfMe(c, Now)
  BY <1>1, <1>4, <1>5, SetIs DEF Like
<1>8. ~SuspendingIn(c, Now.api) /\ c.stage # "abort"
  BY <1>5 DEF SuspendingIn
<1>9. Scheduling'
  BY <1>1, <1>2, <1>3, <1>6, <1>7, <1>8, Goes
<1> QED BY <1>1, <1>9 DEF QueueKept, Kinds

(* vTimerSetReloadMode touches neither the kernel nor a queue.             *)
LEMMA ReloadModeKeeps ==
    ASSUME CallInv, Static(scenario), Scheduling, Kinds, vTimerSetReloadMode PROVE QueueKept
<1> PICK n : n = kernel
  OBVIOUS
<1>1. /\ CanRun /\ me \in Tasks /\ call[me].stage = "start" /\ scenario' = scenario /\ Return
      /\ kernel' = n /\ queue' = queue
  BY DEF vTimerSetReloadMode, InCall, Unserved, queueVars
<1>2. ~Suspending(me) /\ ~Leaving(me)
  BY <1>1 DEF Suspending, SuspendingIn, Leaving, LeavingIn, BlockedIn
<1>3. Keeps(kernel, n, {})
  BY KeepsSelf DEF Scheduling
<1>4. Scheduling'
  BY <1>1, <1>2, <1>3, Returns
<1> QED BY <1>1, <1>4 DEF QueueKept, Kinds

(* A timer call of a task is a message to the queue of the timers.         *)
LEMMA TimerCallSchedules ==
    ASSUME CallInv, Static(scenario), Scheduling, Kinds, TimerCall PROVE QueueKept
<1>1. ~prvTimerTask
  <2>1. me \in Tasks => Now.api # "prvTimerTask"
    BY StaticRequests DEF StaticCall, Now, Dynamic
  <2> QED BY <2>1 DEF prvTimerTask, prvGetNextExpireTime, SampleTime, QueueIsEmpty,
                vTaskPlaceOnEventListRestricted, ProcessExpired, ReceiveCommand, ProcessCommand, CallPended, InCall
<1>2. CASE xTimerGenericCommandFromISR
  <2> PICK item : item = Stamped(ISR.with[1], kernel.xTickCount)
    OBVIOUS
  <2>1. xQueueGenericSendFromISR(item, "back") /\ served < Len(Interrupts) /\ ISR.api \in OfQueue
    BY <1>2 DEF xTimerGenericCommandFromISR, Interrupt, ISR, OfQueue
  <2> QED BY <2>1, SendServes
<1>3. CASE xEventGroupSetBitsFromISR
  <2> PICK item : item = SetBitsLater(ISR.with)
    OBVIOUS
  <2>1. xQueueGenericSendFromISR(item, "back") /\ served < Len(Interrupts) /\ ISR.api \in OfQueue
    BY <1>3 DEF xEventGroupSetBitsFromISR, Interrupt, ISR, OfQueue
  <2> QED BY <2>1, SendServes
<1> QED BY <1>1, <1>2, <1>3, TimerCommandKeeps, ReloadModeKeeps DEF TimerCall

----------------------------------------------------------------------------
(* The event group calls.                                                  *)

(* The calls of event_groups.c.                                            *)
LEMMA GroupSetBitsKeeps ==
    ASSUME CallInv, Static(scenario), Scheduling, GroupSetBits PROVE Scheduling'
<1> PICK bits : bits = uxEventBits | Now.with
  OBVIOUS
<1> PICK n : n = SetBits(kernel, bits).kernel
  OBVIOUS
<1>1. /\ CanRun /\ me \in Tasks /\ call[me].stage = "body" /\ Now.api = "xEventGroupSetBits"
      /\ scenario' = scenario /\ kernel' = n /\ Goto("resume")
  BY DEF GroupSetBits, InCall, Step, Unserved
<1>2. Suspending(me) /\ ~BlockedIn(call[me])
  BY <1>1 DEF Suspending, SuspendingIn, BlockedIn
<1>3. Keeps(kernel, n, {})
  BY BitsSet DEF Scheduling
<1>4. Now.api \notin QueueCalls /\ Now.api # "vTaskDelay"
  BY <1>1 DEF QueueCalls, SendCalls, ReceiveCalls, TakeCalls
<1> QED BY <1>1, <1>2, <1>3, <1>4, GoesTo

(* xEventGroupClearBits.                                                   *)
LEMMA GroupClearKeeps ==
    ASSUME CallInv, Static(scenario), Scheduling, xEventGroupClearBits PROVE Scheduling'
<1> PICK n : n = kernel
  OBVIOUS
<1>1. /\ CanRun /\ me \in Tasks /\ call[me].stage = "start" /\ scenario' = scenario /\ Return /\ kernel' = n
  BY DEF xEventGroupClearBits, InCall, Unserved
<1>2. ~Suspending(me) /\ ~Leaving(me)
  BY <1>1 DEF Suspending, SuspendingIn, Leaving, LeavingIn, BlockedIn
<1>3. Keeps(kernel, n, {})
  BY KeepsSelf DEF Scheduling
<1> QED BY <1>1, <1>2, <1>3, Returns

(* The wait of a call that has suspended the scheduler: it is over, or the *)
(* task sleeps.                                                            *)
LEMMA GroupBody ==
    ASSUME CallInv, Static(scenario), Scheduling, InCall(WaitCalls, "body"), scenario' = scenario,
           NEW m, Keeps(kernel, m, {}),
           \/ kernel' = m /\ Set([call[me] EXCEPT !.stage = "resume", !.outcome = "met"])
           \/ kernel' = m /\ Goto("resume")
           \/ Now.ticks # 0 /\ \E bits, flags : Blocks(m, bits, flags)
    PROVE  Scheduling'
<1>1. /\ CanRun /\ me \in Tasks /\ call[me].stage = "body" /\ Now.api \in WaitCalls
  BY DEF InCall
<1>2. Suspending(me) /\ ~Leaving(me) /\ ~BlockedIn(call[me])
  BY <1>1 DEF Suspending, SuspendingIn, Leaving, LeavingIn, BlockedIn, WaitCalls
<1>3. Now.api \notin QueueCalls /\ Now.api # "vTaskDelay"
  BY <1>1 DEF QueueCalls, SendCalls, ReceiveCalls, TakeCalls, WaitCalls
<1>4. CallIn(call[me], Now)
  BY <1>1 DEF Scheduling, CallsFit, Now
<1>5. ASSUME kernel' = m, Goto("resume") PROVE Scheduling'
  BY <1>1, <1>2, <1>3, <1>5, GoesTo
<1>6. ASSUME NEW c, Set(c), c.stage = "resume", Like(c, call[me]) PROVE OfMe(c, Now) /\ CallIn(c, Now)
  <2>1. CallIn(c, Now)
    BY <1>4, <1>3, <1>6 DEF CallIn, Like, Untimed
  <2> QED BY <1>1, <1>6, <2>1, SetIs DEF Like
<1>7. ASSUME kernel' = m, Set([call[me] EXCEPT !.stage = "resume", !.outcome = "met"]) PROVE Scheduling'
  <2> PICK c : c = [call[me] EXCEPT !.stage = "resume", !.outcome = "met"]
    OBVIOUS
  <2>1. Set(c) /\ c.stage = "resume" /\ Like(c, call[me])
    BY <1>1, <1>7 DEF CallInv, Locals, Like
  <2>2. OfMe(c, Now) /\ CallIn(c, Now)
    BY <1>6, <2>1
  <2>3. SuspendingIn(c, Now.api) /\ c.stage # "abort"
    BY <2>1 DEF SuspendingIn
  <2> QED BY <1>1, <1>2, <1>7, <2>2, <2>3, Goes
<1>8. ASSUME Now.ticks # 0, NEW bits, NEW flags, Blocks(m, bits, flags) PROVE Scheduling'
  <2> PICK n : n = vTaskPlaceOnUnorderedEventList(m, ForBits, bits, flags, Now.ticks)
    OBVIOUS
  <2> PICK c : c = [call[me] EXCEPT !.stage = "resume", !.outcome = "blocked"]
    OBVIOUS
  <2>1. kernel' = n /\ Set(c) /\ c.stage = "resume" /\ c.outcome = "blocked" /\ Like(c, call[me])
    BY <1>1, <1>8 DEF Blocks, Step, CallInv, Locals, Like
  <2>2. OfMe(c, Now) /\ CallIn(c, Now)
    BY <1>6, <2>1
  <2>3. Now.ticks \in TickType /\ ForBits \in EventLists
    BY <1>1, StaticRequests, QueuesAssumption DEF StaticCall, Now
  <2>4. me \in Rdy(kernel) /\ me \notin Evt(kernel) /\ ~IsIn(me, kernel.pendingReady)
    BY <1>1, <1>2, Awake
  <2>5. /\ Kernel(m) /\ m.pxCurrentTCB = me /\ me \notin Evt(m) /\ ~IsIn(me, m.pendingReady)
    BY <2>4 DEF Keeps, me
  <2>6. Sleeps(m, n, me)
    <3> PICK rest : rest = Now.ticks
      OBVIOUS
    <3>1. rest \in TickType /\ rest # 0 /\ n = vTaskPlaceOnUnorderedEventList(m, ForBits, bits, flags, rest)
      BY <1>8, <2>3
    <3> QED BY <1>1, <2>3, <2>5, <3>1, PlaceUnorderedSleeps
  <2> QED BY <1>1, <1>2, <2>1, <2>2, <2>6, FallsAsleep
<1> QED BY <1>5, <1>7, <1>8

(* xEventGroupWaitBits, with the scheduler suspended.                      *)
LEMMA GroupWaitKeeps ==
    ASSUME CallInv, Static(scenario), Scheduling, GroupWaitBody PROVE Scheduling'
<1>1. InCall(WaitCalls, "body") /\ scenario' = scenario
  BY DEF GroupWaitBody, InCall, Unserved, WaitCalls
<1>2. Keeps(kernel, kernel, {})
  BY KeepsSelf DEF Scheduling
<1>3. \/ kernel' = kernel /\ Set([call[me] EXCEPT !.stage = "resume", !.outcome = "met"])
      \/ kernel' = kernel /\ Goto("resume")
      \/ Now.ticks # 0 /\ \E bits, flags : Blocks(kernel, bits, flags)
  BY DEF GroupWaitBody
<1> QED BY <1>1, <1>2, <1>3, GroupBody

(* xEventGroupSync: the bits it sets ready other tasks before it blocks    *)
(* itself.                                                                 *)
LEMMA GroupSyncKeeps ==
    ASSUME CallInv, Static(scenario), Scheduling, GroupSyncBody PROVE Scheduling'
<1>1. InCall(WaitCalls, "body") /\ scenario' = scenario
  BY DEF GroupSyncBody, InCall, Unserved, WaitCalls
<1> PICK bits : bits = uxEventBits | Now.with.set
  OBVIOUS
<1> PICK m : m = SetBits(kernel, bits).kernel
  OBVIOUS
<1>2. Keeps(kernel, m, {})
  BY BitsSet DEF Scheduling
<1>3. \/ kernel' = m /\ Set([call[me] EXCEPT !.stage = "resume", !.outcome = "met"])
      \/ kernel' = m /\ Goto("resume")
      \/ Now.ticks # 0 /\ \E b, flags : Blocks(m, b, flags)
  BY DEF GroupSyncBody, Step
<1> QED BY <1>1, <1>2, <1>3, GroupBody

(* An event group call, woken.                                             *)
LEMMA GroupAfterKeeps ==
    ASSUME CallInv, Static(scenario), Scheduling, GroupAfter PROVE Scheduling'
<1> PICK n : n = kernel'
  OBVIOUS
<1>1. /\ CanRun /\ me \in Tasks /\ call[me].stage = "after" /\ Now.api \in WaitCalls /\ scenario' = scenario
  BY DEF GroupAfter, InCall, Unserved
<1>2. ~Suspending(me) /\ ~Leaving(me) /\ ~BlockedIn(call[me])
  BY <1>1 DEF Suspending, SuspendingIn, Leaving, LeavingIn, BlockedIn
<1>3. Keeps(kernel, n, {})
  <2>1. n = uxTaskResetEventItemValue(kernel) \/ n = kernel
    BY DEF GroupAfter, Step
  <2> QED BY <2>1, ItemReset, KeepsSelf DEF Scheduling, Wakes
<1>4. Now.api \notin QueueCalls /\ Now.api # "vTaskDelay"
  BY <1>1 DEF QueueCalls, SendCalls, ReceiveCalls, TakeCalls, WaitCalls
<1>5. CASE Return
  BY <1>1, <1>2, <1>3, <1>5, Returns
<1>6. CASE Goto("late")
  BY <1>1, <1>2, <1>3, <1>4, <1>6, GoesTo
<1> QED BY <1>5, <1>6 DEF GroupAfter

(* An event group call whose time ran out.                                 *)
LEMMA GroupLateKeeps ==
    ASSUME CallInv, Static(scenario), Scheduling, GroupLate PROVE Scheduling'
<1> PICK n : n = kernel
  OBVIOUS
<1>1. /\ CanRun /\ me \in Tasks /\ call[me].stage = "late" /\ scenario' = scenario /\ Return /\ kernel' = n
  BY DEF GroupLate, InCall, Unserved
<1>2. ~Suspending(me) /\ ~Leaving(me)
  BY <1>1 DEF Suspending, SuspendingIn, Leaving, LeavingIn, BlockedIn
<1>3. Keeps(kernel, n, {})
  BY KeepsSelf DEF Scheduling
<1> QED BY <1>1, <1>2, <1>3, Returns

(* Every step of an event group call.                                      *)
LEMMA GroupCallSchedules ==
    ASSUME CallInv, Static(scenario), Scheduling, GroupCall PROVE Scheduling'
BY GroupSetBitsKeeps, GroupClearKeeps, GroupWaitKeeps, GroupSyncKeeps, GroupAfterKeeps, GroupLateKeeps
   DEF GroupCall

----------------------------------------------------------------------------
(* The stream buffer calls.                                                *)

(* A stream buffer has one task that writes, and one that reads.           *)
LEMMA OneOfEach ==
    ASSUME CallInv, NEW apis, apis = StreamSend \/ apis = StreamReceive,
           NEW t \in Tasks, NEW u \in Tasks, Request(t).api \in apis, Request(u).api \in apis
    PROVE  t = u
<1>1. PICK name \in DOMAIN Scenarios : scenario = Scenarios[name]
  BY DEF CallInv
<1>2. ASSUME NEW v \in Tasks, Request(v).api \in apis
      PROVE  (apis = StreamSend => v \in Callers(scenario, Writes)) /\ (apis = StreamReceive => v \in Callers(scenario, Reads))
  <2> PICK i : i = call[v].pc
    OBVIOUS
  <2>1. i \in DOMAIN scenario.program[v] /\ scenario.program[v][i].api \in apis
    BY <1>2 DEF CallInv, Request, Program
  <2>2. apis = StreamSend => scenario.program[v][i].api \in Writes
    BY <2>1 DEF StreamSend, Writes
  <2>3. apis = StreamReceive => scenario.program[v][i].api \in Reads
    BY <2>1 DEF StreamReceive, Reads
  <2> QED BY <2>1, <2>2, <2>3 DEF Callers
<1>3. \/ t \in Callers(scenario, Writes) /\ u \in Callers(scenario, Writes)
      \/ (t \in Callers(scenario, Reads) \ {Handler}) /\ (u \in Callers(scenario, Reads) \ {Handler})
  BY <1>2, QueuesAssumption
<1> QED BY <1>1, <1>3, StreamAssumption

(* The calls of stream_buffer.c that leave the kernel as it is.            *)
LEMMA StreamMoves ==
    ASSUME CallInv, Static(scenario), Scheduling, CanRun, me \in Tasks, scenario' = scenario,
           Now.api \in StreamCalls \cup {"xStreamBufferReset", "xStreamBufferSetTriggerLevel"},
           call[me].stage \in {"start", "test", "forget", "write", "written", "after", "count", "read"},
           kernel' = kernel,
           \/ Return
           \/ \E stage \in {"write", "check", "written", "complete", "wait", "count"} : Goto(stage)
           \/ \E c : Set(c) /\ c.pc = call[me].pc /\ c.ticks = call[me].ticks /\ c.inherited = call[me].inherited
                     /\ c.since.entered \in TickType /\ c.stage \in {"test", "wait", "write", "read"}
    PROVE  Scheduling'
<1> PICK n : n = kernel
  OBVIOUS
<1>1. Now.api \notin QueueCalls /\ Now.api # "vTaskDelay"
  BY DEF QueueCalls, SendCalls, ReceiveCalls, TakeCalls, StreamCalls, StreamSend, StreamReceive
<1>2. ~Suspending(me) /\ ~Leaving(me) /\ ~BlockedIn(call[me])
  BY <1>1 DEF Suspending, SuspendingIn, Leaving, LeavingIn, BlockedIn, Now
<1>3. Keeps(kernel, n, {}) /\ CallIn(call[me], Now)
  BY KeepsSelf DEF Scheduling, CallsFit, Now
<1>4. CASE Return
  BY <1>2, <1>3, <1>4, Returns
<1>5. ASSUME NEW stage \in {"write", "check", "written", "complete", "wait", "count"}, Goto(stage)
      PROVE  Scheduling'
  BY <1>1, <1>2, <1>3, <1>5, GoesTo
<1>6. ASSUME NEW c, Set(c), c.pc = call[me].pc, c.ticks = call[me].ticks, c.inherited = call[me].inherited,
             c.since.entered \in TickType, c.stage \in {"test", "wait", "write", "read"}
      PROVE  Scheduling'
  <2>1. OfMe(c, Now)
    BY <1>6, SetIs
  <2>2. CallIn(c, Now)
    BY <1>1, <1>3, <1>6 DEF CallIn, Untimed
  <2>3. ~SuspendingIn(c, Now.api) /\ c.stage # "abort"
    BY <1>1, <1>6 DEF SuspendingIn
  <2> QED BY <1>1, <1>2, <1>3, <2>1, <2>2, <2>3, Goes
<1> QED BY <1>4, <1>5, <1>6

(* The task clears its notification before it looks for space or bytes.    *)
LEMMA LooksFirst ==
    ASSUME CallInv, Scheduling, CanRun, me \in Tasks, scenario' = scenario, NEW stage \in {"start", "test"},
           call[me].stage = stage, Now.api \in StreamCalls,
           kernel' = xTaskGenericNotifyStateClear(kernel, me),
           \/ Goto("wait")
           \/ \E space : Set([call[me] EXCEPT !.stage = "wait", !.space = space])
    PROVE  Scheduling'
<1> PICK n : n = xTaskGenericNotifyStateClear(kernel, me)
  OBVIOUS
<1>1. /\ Now.api \notin QueueCalls /\ Now.api # "vTaskDelay" /\ kernel' = n
      /\ call[me].stage \notin {"yield", "reset", "woken", "waited"}
  BY DEF QueueCalls, SendCalls, ReceiveCalls, TakeCalls, StreamCalls, StreamSend, StreamReceive
<1>2. ~Suspending(me) /\ ~Leaving(me) /\ ~BlockedIn(call[me])
  BY <1>1 DEF Suspending, SuspendingIn, Leaving, LeavingIn, BlockedIn, Now
<1>3. Keeps(kernel, n, {}) /\ CallIn(call[me], Now)
  <2>1. me \in All
    BY DEF All
  <2>2. Wakes(kernel, n, {})
    BY <2>1, StateCleared DEF Scheduling
  <2> QED BY <2>2 DEF Scheduling, CallsFit, Now, Wakes
<1>4. CASE Goto("wait")
  <2>1. /\ CallInv /\ Scheduling /\ CanRun /\ me \in Tasks /\ scenario' = scenario
        /\ Goto("wait") /\ kernel' = n /\ Keeps(kernel, n, {})
        /\ ~Suspending(me) /\ Now.api \notin QueueCalls /\ Now.api # "vTaskDelay"
        /\ ~BlockedIn(call[me]) /\ call[me].stage \notin {"yield", "reset", "woken", "waited"}
    BY <1>1, <1>2, <1>3, <1>4
  <2> QED BY ONLY <2>1, GoesTo
<1>5. ASSUME NEW space, Set([call[me] EXCEPT !.stage = "wait", !.space = space]) PROVE Scheduling'
  <2> PICK c : c = [call[me] EXCEPT !.stage = "wait", !.space = space]
    OBVIOUS
  <2>1. /\ Set(c) /\ c.pc = call[me].pc /\ c.ticks = call[me].ticks /\ c.inherited = call[me].inherited
        /\ c.since.entered \in TickType /\ c.stage = "wait"
    BY <1>3, <1>5 DEF CallInv, Locals, CallIn
  <2>2. OfMe(c, Now)
    BY <2>1, SetIs
  <2>3. CallIn(c, Now)
    BY <1>3, <2>1 DEF CallIn, Untimed
  <2>4. ~SuspendingIn(c, Now.api) /\ c.stage # "abort"
    BY <2>1 DEF SuspendingIn
  <2> QED BY <1>1, <1>2, <1>3, <2>2, <2>3, <2>4, Goes
<1> QED BY <1>4, <1>5

(* The send of a stream starts its time-out.                               *)
LEMMA SendStartKeeps == ASSUME CallInv, Static(scenario), Scheduling, SendStart PROVE Scheduling'
<1>1. /\ CanRun /\ me \in Tasks /\ call[me].stage = "start" /\ Now.api \in StreamCalls /\ scenario' = scenario
      /\ kernel' = kernel
  BY DEF SendStart, InCall, Unserved, StreamCalls
<1> PICK since : since = TimeOutState(kernel)
  OBVIOUS
<1> PICK c : c = [call[me] EXCEPT !.stage = "test", !.since = since]
  OBVIOUS
<1>2. since.entered \in TickType
  BY DEF TimeOutState, Scheduling, Kernel, Lists, Typed
<1>3. /\ c.pc = call[me].pc /\ c.ticks = call[me].ticks /\ c.inherited = call[me].inherited
      /\ c.since.entered \in TickType /\ c.stage = "test"
  <2> PICK d : d = call[me]
    OBVIOUS
  <2>1. DOMAIN d = Locals
    BY <1>1 DEF CallInv
  <2> QED BY <1>2, <2>1 DEF Locals
<1>4. Goto("write") \/ Set(c)
  BY DEF SendStart
<1> QED BY <1>1, <1>3, <1>4, StreamMoves

(* The send finds too little space; no other writer is registered, so the  *)
(* assertion holds.                                                        *)
LEMMA SendTestKeeps == ASSUME CallInv, Static(scenario), Scheduling, Partners, SendTest PROVE Scheduling'
<1>1. /\ CanRun /\ me \in Tasks /\ call[me].stage = "test" /\ Now.api \in StreamSend /\ scenario' = scenario
  BY DEF SendTest, InCall, Unserved
<1> PICK space : space = SpacesAvailable
  OBVIOUS
<1>2. stream.xTaskWaitingToSend = NoReader
  <2> SUFFICES ASSUME stream.xTaskWaitingToSend # NoReader PROVE FALSE
    OBVIOUS
  <2>1. Request(me).api \in StreamSend
    BY <1>1 DEF Now
  <2>2. PICK u \in Tasks : Request(u).api \in StreamSend /\ call[u].stage \in InWait
    BY Zenon DEF Partners, Waiting
  <2>3. CallInv /\ me \in Tasks
    BY <1>1
  <2>4. me = u
    BY ONLY <2>1, <2>2, <2>3, OneOfEach
  <2> QED BY <1>1, <2>2, <2>4 DEF InWait
<1>3. CASE /\ kernel' = configASSERT(xTaskGenericNotifyStateClear(kernel, me),
                                     stream.xTaskWaitingToSend = NoReader, "two writers")
           /\ Set([call[me] EXCEPT !.stage = "wait", !.space = space])
  <2>1. kernel' = xTaskGenericNotifyStateClear(kernel, me)
    BY <1>2, <1>3 DEF configASSERT
  <2> QED BY <1>1, <1>3, <2>1, LooksFirst DEF StreamCalls
<1>4. CASE kernel' = kernel /\ Set([call[me] EXCEPT !.stage = "write", !.space = space])
  <2> PICK c : c = [call[me] EXCEPT !.stage = "write", !.space = space]
    OBVIOUS
  <2>1. /\ Set(c) /\ c.pc = call[me].pc /\ c.ticks = call[me].ticks /\ c.inherited = call[me].inherited
        /\ c.since.entered \in TickType /\ c.stage = "write"
    <3> PICK d : d = call[me]
      OBVIOUS
    <3>1. d.since.entered \in TickType
      BY <1>1 DEF Scheduling, CallsFit, CallIn
    <3>2. DOMAIN d = Locals
      BY <1>1 DEF CallInv
    <3>3. c = [d EXCEPT !.stage = "write", !.space = space]
      OBVIOUS
    <3>4. /\ c.pc = d.pc /\ c.ticks = d.ticks /\ c.inherited = d.inherited
          /\ c.since = d.since /\ c.stage = "write"
      BY ONLY <3>2, <3>3 DEF Locals
    <3>5. Set(c)
      BY <1>4
    <3> QED BY <3>1, <3>4, <3>5
  <2> QED BY <1>1, <1>4, <2>1, StreamMoves DEF StreamCalls
<1> QED BY <1>3, <1>4 DEF SendTest, Step

(* The receive finds too little data; no other reader is registered.       *)
LEMMA ReceiveStartKeeps == ASSUME CallInv, Static(scenario), Scheduling, Partners, ReceiveStart PROVE Scheduling'
<1>1. /\ CanRun /\ me \in Tasks /\ call[me].stage = "start" /\ Now.api \in StreamReceive /\ scenario' = scenario
  BY DEF ReceiveStart, InCall, Unserved
<1> PICK space : space = BytesInBuffer
  OBVIOUS
<1>2. stream.xTaskWaitingToReceive = NoReader
  <2> SUFFICES ASSUME stream.xTaskWaitingToReceive # NoReader PROVE FALSE
    OBVIOUS
  <2>1. Request(me).api \in StreamReceive
    BY <1>1 DEF Now
  <2>2. PICK u \in Tasks : Request(u).api \in StreamReceive /\ call[u].stage \in InWait
    BY Zenon DEF Partners, Waiting
  <2>3. CallInv /\ me \in Tasks
    BY <1>1
  <2>4. me = u
    BY ONLY <2>1, <2>2, <2>3, OneOfEach
  <2> QED BY <1>1, <2>2, <2>4 DEF InWait
<1>3. CASE /\ kernel' = configASSERT(xTaskGenericNotifyStateClear(kernel, me),
                                     stream.xTaskWaitingToReceive = NoReader, "two readers")
           /\ Goto("wait")
  <2>1. kernel' = xTaskGenericNotifyStateClear(kernel, me)
    BY <1>2, <1>3 DEF configASSERT
  <2> QED BY <1>1, <1>3, <2>1, LooksFirst DEF StreamCalls
<1>4. CASE kernel' = kernel /\ Set([call[me] EXCEPT !.stage = "read", !.space = space])
  <2> PICK c : c = [call[me] EXCEPT !.stage = "read", !.space = space]
    OBVIOUS
  <2>1. /\ Set(c) /\ c.pc = call[me].pc /\ c.ticks = call[me].ticks /\ c.inherited = call[me].inherited
        /\ c.since.entered \in TickType /\ c.stage = "read"
    <3> PICK d : d = call[me]
      OBVIOUS
    <3>1. d.since.entered \in TickType
      BY <1>1 DEF Scheduling, CallsFit, CallIn
    <3>2. DOMAIN d = Locals
      BY <1>1 DEF CallInv
    <3>3. c = [d EXCEPT !.stage = "read", !.space = space]
      OBVIOUS
    <3>4. /\ c.pc = d.pc /\ c.ticks = d.ticks /\ c.inherited = d.inherited
          /\ c.since = d.since /\ c.stage = "read"
      BY ONLY <3>2, <3>3 DEF Locals
    <3>5. Set(c)
      BY <1>4
    <3> QED BY <3>1, <3>4, <3>5
  <2> QED BY <1>1, <1>4, <2>1, StreamMoves DEF StreamCalls
<1> QED BY <1>3, <1>4 DEF ReceiveStart, Step

(* The wait for a notification.                                            *)
LEMMA StreamWaitKeeps == ASSUME CallInv, Static(scenario), Scheduling, StreamWait PROVE Scheduling'
<1>1. /\ CanRun /\ me \in Tasks /\ call[me].stage = "wait" /\ Now.api \in StreamCalls /\ scenario' = scenario
      /\ Goto("waited")
  BY DEF StreamWait, InCall, Unserved, StreamCalls
<1> PICK n : n = NotifyWaits(kernel, 0, call[me].ticks)
  OBVIOUS
<1>2. Now.api \notin QueueCalls /\ Now.api # "vTaskDelay" /\ Now.api \in Notifiable
  BY <1>1 DEF QueueCalls, SendCalls, ReceiveCalls, TakeCalls, StreamCalls, StreamSend, StreamReceive, Notifiable
<1>3. ~Suspending(me) /\ ~Leaving(me)
  BY <1>1, <1>2 DEF Suspending, SuspendingIn, Leaving, LeavingIn, BlockedIn, Now
<1>4. CallIn(call[me], Now)
  BY <1>1 DEF Scheduling, CallsFit, Now
<1>5. MaySleep(kernel, n, me)
  <2> PICK rest : rest = call[me].ticks
    OBVIOUS
  <2>1. rest \in TickType /\ Kernel(kernel) /\ kernel.pxCurrentTCB \in Tasks
    BY <1>1, <1>4 DEF CallIn, Scheduling, me
  <2> QED BY <2>1, NotifyWaitsIs DEF me
<1> PICK c : OfMe(c, Now) /\ Like(c, call[me]) /\ c.stage = "waited" /\ c.outcome = call[me].outcome
  BY <1>1, GotoIs
<1>6. CallIn(c, Now)
  BY <1>2, <1>4 DEF CallIn, Like, Untimed
<1>7. kernel' = n
  BY DEF StreamWait, Step
<1> QED BY <1>1, <1>2, <1>3, <1>5, <1>6, <1>7, AwaitsNote

(* The end of the wait of either side.                                     *)
LEMMA StreamWaitedKeeps == ASSUME CallInv, Static(scenario), Scheduling, StreamWaited PROVE Scheduling'
<1>1. /\ CanRun /\ me \in Tasks /\ call[me].stage = "waited" /\ Now.api \in StreamCalls /\ scenario' = scenario
      /\ Goto("forget")
  BY DEF StreamWaited, InCall, Unserved, StreamCalls
<1> PICK n : n = NotifyWaited(kernel, 0)
  OBVIOUS
<1>2. Now.api \notin QueueCalls /\ Now.api # "vTaskDelay"
  BY <1>1 DEF QueueCalls, SendCalls, ReceiveCalls, TakeCalls, StreamCalls, StreamSend, StreamReceive
<1>3. ~Suspending(me) /\ ~Leaving(me) /\ ~BlockedIn(call[me])
  BY <1>1, <1>2 DEF Suspending, SuspendingIn, Leaving, LeavingIn, BlockedIn, Now
<1>4. Keeps(kernel, n, {}) /\ n.ucNotifyState[me] # "waiting"
  BY NotifyWaitedKeeps DEF Scheduling, Wakes, me
<1>5. kernel' = n
  BY DEF StreamWaited, Step
<1> QED BY <1>1, <1>2, <1>3, <1>4, <1>5, GoesTo

(* xTaskCheckForTimeOut of a send, outside of any suspended section.       *)
LEMMA CheckForTimeOutKeeps == ASSUME CallInv, Static(scenario), Scheduling, SendCheckForTimeOut PROVE Scheduling'
<1>1. /\ CanRun /\ me \in Tasks /\ call[me].stage = "check" /\ Now.api \in StreamSend /\ scenario' = scenario
      /\ kernel' = Checked(kernel)
  BY DEF SendCheckForTimeOut, InCall, Step, Unserved
<1>2. Now.api # "vTaskDelay" /\ Now.api \notin QueueCalls
  BY <1>1 DEF QueueCalls, SendCalls, ReceiveCalls, TakeCalls, StreamSend
<1> QED BY <1>1, <1>2, TimeChecked DEF SendCheckForTimeOut

(* The other side is told, with the scheduler suspended.                   *)
LEMMA CompleteSuspendKeeps == ASSUME CallInv, Static(scenario), Scheduling, CompleteSuspend PROVE Scheduling'
<1>1. /\ CanRun /\ me \in Tasks /\ call[me].stage = "complete" /\ Now.api \in StreamCalls /\ scenario' = scenario
      /\ kernel' = vTaskSuspendAll(kernel) /\ Goto("notify")
  BY DEF CompleteSuspend, InCall, Step, Unserved, StreamCalls
<1>2. ~Suspending(me) /\ ~Leaving(me)
  BY <1>1 DEF Suspending, SuspendingIn, Leaving, LeavingIn, BlockedIn
<1> QED BY <1>1, <1>2, SuspendsAll

(* The partner that waits is notified, with the scheduler suspended.       *)
LEMMA CompleteNotifyKeeps == ASSUME CallInv, Static(scenario), Scheduling, Partners, CompleteNotify PROVE Scheduling'
<1> PICK n : n = kernel'
  OBVIOUS
<1>1. /\ CanRun /\ me \in Tasks /\ call[me].stage = "notify" /\ Now.api \in StreamCalls /\ scenario' = scenario
      /\ Goto("resume")
  BY DEF CompleteNotify, InCall, Unserved, StreamCalls
<1>2. Suspending(me) /\ ~BlockedIn(call[me])
  BY <1>1 DEF Suspending, SuspendingIn, BlockedIn
<1>3. Now.api \notin QueueCalls /\ Now.api # "vTaskDelay"
  BY <1>1 DEF QueueCalls, SendCalls, ReceiveCalls, TakeCalls, StreamCalls, StreamSend, StreamReceive
<1>4. Keeps(kernel, n, {})
  <2>1. CASE Partner = NoReader
    <3>1. n = kernel
      BY <2>1 DEF CompleteNotify
    <3> QED BY <3>1, KeepsSelf DEF Scheduling
  <2>2. CASE Partner # NoReader
    <3> PICK t : t = Partner
      OBVIOUS
    <3>1. t \in Tasks
      BY <2>2 DEF Partners, Waiting, Partner
    <3>2. kernel.ucNotifyState[t] = "waiting" => ~InEventList(kernel, t)
      BY <3>1, NotifiedApart
    <3>3. n = xTaskGenericNotify(kernel, t, "eNoAction", 0)
      BY <2>2 DEF CompleteNotify, Step
    <3> QED BY <3>1, <3>2, <3>3, NotifyKeeps DEF Scheduling
  <2> QED BY <2>1, <2>2
<1> QED BY <1>1, <1>2, <1>3, <1>4, GoesTo

(* The steps that only move the call.                                      *)
LEMMA StreamMovesKeep ==
    ASSUME CallInv, Static(scenario), Scheduling,
           \/ SendForget \/ SendWrite \/ SendWritten \/ StreamReturns
           \/ ReceiveForget \/ ReceiveCount \/ ReceiveRead \/ xStreamBufferReset \/ xStreamBufferSetTriggerLevel
    PROVE  Scheduling'
<1>1. /\ CanRun /\ me \in Tasks /\ scenario' = scenario /\ kernel' = kernel
      /\ Now.api \in StreamCalls \cup {"xStreamBufferReset", "xStreamBufferSetTriggerLevel"}
      /\ call[me].stage \in {"start", "test", "forget", "write", "written", "after", "count", "read"}
  BY DEF SendForget, SendWrite, SendWritten, StreamReturns, ReceiveForget, ReceiveCount, ReceiveRead,
         xStreamBufferReset, xStreamBufferSetTriggerLevel, InCall, Unserved, StreamCalls
<1>2. CASE ReceiveCount
  <2> PICK space : space = BytesInBuffer
    OBVIOUS
  <2> PICK c : c = [call[me] EXCEPT !.stage = "read", !.space = space]
    OBVIOUS
  <2>1. Set(c)
    BY <1>2 DEF ReceiveCount
  <2>2. /\ c.pc = call[me].pc /\ c.ticks = call[me].ticks /\ c.inherited = call[me].inherited
        /\ c.since.entered \in TickType /\ c.stage = "read"
    <3>1. call[me].since.entered \in TickType
      BY <1>1 DEF Scheduling, CallsFit, CallIn
    <3> QED BY <1>1, <3>1 DEF CallInv, Locals
  <2> QED BY <1>1, <2>1, <2>2, StreamMoves
<1>3. CASE ~ReceiveCount
  <2>1. Return \/ \E stage \in {"write", "check", "written", "complete", "wait", "count"} : Goto(stage)
    BY <1>3 DEF SendForget, SendWrite, SendWritten, StreamReturns, ReceiveForget, ReceiveRead,
                xStreamBufferReset, xStreamBufferSetTriggerLevel
  <2> QED BY <1>1, <2>1, StreamMoves
<1> QED BY <1>2, <1>3

(* The calls of stream_buffer.c.                                           *)
LEMMA StreamCallSchedules ==
    ASSUME CallInv, Static(scenario), Scheduling, Partners, StreamCall PROVE Scheduling'
BY SendStartKeeps, SendTestKeeps, ReceiveStartKeeps, StreamWaitKeeps, StreamWaitedKeeps, CheckForTimeOutKeeps,
   CompleteSuspendKeeps, CompleteNotifyKeeps, StreamMovesKeep DEF StreamCall

(* A handler tells the task that waits.                                    *)
LEMMA TellSchedules ==
    ASSUME CallInv, Scheduling, NEW task, task # NoReader => task \in Tasks, Serve(TellFromISR(task))
    PROVE  Scheduling'
<1>1. CASE task = NoReader
  BY <1>1, QueueServes DEF TellFromISR, NoOne
<1>2. CASE task # NoReader
  BY <1>2, NotifySchedules DEF TellFromISR
<1> QED BY <1>1, <1>2

(* A stream call of a handler notifies the waiting partner.                *)
LEMMA StreamInterruptSchedules ==
    ASSUME CallInv, Scheduling, Partners, StreamInterrupt PROVE Scheduling'
<1> PICK w : w = stream.xTaskWaitingToSend
  OBVIOUS
<1> PICK r : r = stream.xTaskWaitingToReceive
  OBVIOUS
<1>1. (w # NoReader => w \in Tasks) /\ (r # NoReader => r \in Tasks)
  BY DEF Partners, Waiting
<1>2. \/ Serve(TellFromISR(w)) \/ Serve(TellFromISR(r)) \/ Serve(NoOne)
  <2>1. CASE xStreamBufferSendFromISR
    <3> PICK tells : tells = (ToWrite(ISR.with, SpacesAvailable) # <<>>
                              /\ BytesInBuffer + (IF ToWrite(ISR.with, SpacesAvailable) = <<>> THEN 0
                                                  ELSE Len(ToWrite(ISR.with, SpacesAvailable)) + Header)
                                 >= stream.xTriggerLevelBytes)
      OBVIOUS
    <3>1. Serve(IF tells THEN TellFromISR(r) ELSE NoOne)
      BY <2>1 DEF xStreamBufferSendFromISR
    <3> QED BY <3>1
  <2>2. CASE xStreamBufferReceiveFromISR
    <3> PICK count : count = IF BytesInBuffer > Header THEN ToRead(ISR.with, BytesInBuffer) ELSE 0
      OBVIOUS
    <3>1. Serve(IF count = 0 THEN NoOne ELSE TellFromISR(w))
      BY <2>2 DEF xStreamBufferReceiveFromISR
    <3> QED BY <3>1
  <2>3. CASE StreamCompletedFromISR
    BY <2>3 DEF StreamCompletedFromISR
  <2> QED BY <2>1, <2>2, <2>3 DEF StreamInterrupt
<1> QED BY <1>1, <1>2, TellSchedules, QueueServes DEF NoOne

----------------------------------------------------------------------------
(* The registrations of the stream buffer.                                 *)

(* A step of the running task, or of none, moves no other call.            *)
Alone == scenario' = scenario /\ \A t \in Tasks : t # me => call'[t] = call[t]

(* A stream call changes one call only.                                    *)
LEMMA MovesOne ==
    ASSUME CallInv, (\E stage : Goto(stage)) \/ (\E c : Set(c)) \/ Return
    PROVE  \A t \in Tasks : t # me => call'[t] = call[t]
<1>1. CASE \E stage : Goto(stage)
  BY <1>1 DEF Goto, CallInv
<1>2. CASE \E c : Set(c)
  BY <1>2 DEF Set, CallInv
<1>3. CASE Return
  BY <1>3 DEF Return, CallInv
<1> QED BY <1>1, <1>2, <1>3

(* Who waits in the buffer is in a call that waits.                        *)
Stays(apis) ==
    me \in Tasks /\ Now.api \in apis /\ call[me].stage \in InWait
        => call'[me].pc = call[me].pc /\ call'[me].stage \in InWait

(* A registered task stays one that waits.                                 *)
LEMMA WaitingKept ==
    ASSUME CallInv, Alone, NEW w, NEW apis, Waiting(w, apis), Stays(apis)
    PROVE  Waiting(w, apis)'
<1> SUFFICES ASSUME w # NoReader PROVE Waiting(w, apis)'
  BY DEF Waiting
<1> PICK t \in Tasks : w = t /\ Request(t).api \in apis /\ call[t].stage \in InWait
  BY DEF Waiting
<1>1. call'[t].pc = call[t].pc /\ call'[t].stage \in InWait
  BY DEF Alone, Stays, Now
<1>2. Request(t)' = Request(t)
  BY <1>1 DEF Request, Program, Alone
<1> QED BY <1>1, <1>2 DEF Waiting

(* The running task comes to wait in the buffer.                           *)
Comes(apis) == /\ me \in Tasks /\ Now.api \in apis
               /\ call'[me].pc = call[me].pc /\ call'[me].stage \in InWait

(* The running task registers itself.                                      *)
LEMMA MeWaits ==
    ASSUME CallInv, Alone, NEW w, w = me, NEW apis, Comes(apis)
    PROVE  Waiting(w, apis)'
<1>1. Request(w)' = Request(w)
  BY DEF Request, Program, Alone, Comes
<1> QED BY <1>1 DEF Waiting, Comes, Now

(* What a step has to do to the two registrations for Partners to hold     *)
(* after it.                                                               *)
LEMMA PartnersStep ==
    ASSUME CallInv, Alone, Partners,
           NEW w, stream'.xTaskWaitingToSend = w, NEW r, stream'.xTaskWaitingToReceive = r,
           \/ w = NoReader
           \/ w = stream.xTaskWaitingToSend /\ Stays(StreamSend)
           \/ w = me /\ Comes(StreamSend),
           \/ r = NoReader
           \/ r = stream.xTaskWaitingToReceive /\ Stays(StreamReceive)
           \/ r = me /\ Comes(StreamReceive)
    PROVE  Partners'
<1>1. Waiting(w, StreamSend)'
  <2>1. CASE w = NoReader
    BY <2>1 DEF Waiting
  <2>2. CASE w = stream.xTaskWaitingToSend /\ Stays(StreamSend)
    <3>1. Waiting(w, StreamSend)
      BY <2>2 DEF Partners
    <3> QED BY <2>2, <3>1, WaitingKept
  <2>3. CASE w = me /\ Comes(StreamSend)
    BY <2>3, MeWaits
  <2> QED BY <2>1, <2>2, <2>3
<1>2. Waiting(r, StreamReceive)'
  <2>1. CASE r = NoReader
    BY <2>1 DEF Waiting
  <2>2. CASE r = stream.xTaskWaitingToReceive /\ Stays(StreamReceive)
    <3>1. Waiting(r, StreamReceive)
      BY <2>2 DEF Partners
    <3> QED BY <2>2, <3>1, WaitingKept
  <2>3. CASE r = me /\ Comes(StreamReceive)
    BY <2>3, MeWaits
  <2> QED BY <2>1, <2>2, <2>3
<1> QED BY <1>1, <1>2 DEF Partners, Waiting

(* The fields of the buffer that name who waits.                           *)
Sides(S, w, r) == S.xTaskWaitingToSend = w /\ S.xTaskWaitingToReceive = r

(* Bytes written leave the registrations alone.                            *)
LEMMA WrittenSides ==
    ASSUME IsStream(stream), NEW bytes
    PROVE  Sides(Written(bytes), stream.xTaskWaitingToSend, stream.xTaskWaitingToReceive)
<1> PICK cells : cells = [i \in DOMAIN stream.cells |->
                        LET n == (i - stream.xHead) % StreamLength
                        IN IF n < Len(bytes) THEN bytes[n + 1] ELSE stream.cells[i]]
  OBVIOUS
<1> PICK head : head = At(stream.xHead + Len(bytes))
  OBVIOUS
<1>1. DOMAIN stream = StreamFields
  BY DEF IsStream
<1>2. Written(bytes) = [stream EXCEPT !.cells = cells, !.xHead = head]
  BY <1>1 DEF Written, StreamFields
<1> QED BY <1>1, <1>2 DEF Sides, StreamFields

(* So does a message, written or read.                                     *)
LEMMA MessageSides ==
    ASSUME IsStream(stream), (\E bytes, space : WriteMessage(bytes, space)) \/ (\E n, available : ReadMessage(n, available))
    PROVE  Sides(stream', stream.xTaskWaitingToSend, stream.xTaskWaitingToReceive)
<1>1. DOMAIN stream = StreamFields
  BY DEF IsStream
<1>2. ASSUME NEW bytes, NEW space, WriteMessage(bytes, space)
      PROVE  Sides(stream', stream.xTaskWaitingToSend, stream.xTaskWaitingToReceive)
  <2>1. stream' = stream \/ \E b : stream' = Written(b)
    BY <1>2 DEF WriteMessage
  <2> QED BY <2>1, WrittenSides DEF Sides
<1>3. ASSUME NEW n, NEW available, ReadMessage(n, available)
      PROVE  Sides(stream', stream.xTaskWaitingToSend, stream.xTaskWaitingToReceive)
  <2>1. stream' = stream \/ \E tail : stream' = [stream EXCEPT !.xTail = tail]
    BY <1>1, <1>3 DEF ReadMessage, StreamFields
  <2> QED BY <1>1, <2>1 DEF Sides, StreamFields
<1> QED BY <1>2, <1>3

(* Calls of the buffer that leave those that wait alone.                   *)
LEMMA SidesStay ==
    ASSUME CallInv, Partners, Alone,
           Sides(stream', stream.xTaskWaitingToSend, stream.xTaskWaitingToReceive),
           me \notin Tasks \/ call[me].stage \notin InWait \/ Comes(StreamCalls)
    PROVE  Partners'
<1>1. Stays(StreamSend) /\ Stays(StreamReceive)
  BY DEF Stays, Comes
<1> QED BY <1>1, PartnersStep DEF Sides

(* The ways a call moves.                                                  *)
Moving == (\E stage : Goto(stage)) \/ (\E c : Set(c)) \/ Return

(* Steps that leave the buffer as it is, of tasks that do not wait in it.  *)
NotWaiting == /\ scenario' = scenario /\ stream' = stream
             /\ \/ call' = call
                \/ Moving /\ call[me].stage \notin InWait

(* A step of a call that is not between registering and forgetting keeps   *)
(* Partners.                                                               *)
LEMMA ElsewhereKeeps == ASSUME CallInv, Partners, NotWaiting PROVE Partners'
<1>1. Alone
  BY MovesOne DEF NotWaiting, Moving, Alone
<1>2. Stays(StreamSend) /\ Stays(StreamReceive)
  BY DEF NotWaiting, Stays
<1> QED BY <1>1, <1>2, PartnersStep DEF NotWaiting

(* The task calls are no such calls.                                       *)
LEMMA CallElsewhere == ASSUME Static(scenario), TaskCall, stream' = stream PROVE NotWaiting
<1>1. CASE CallSuspendAll
  BY <1>1 DEF CallSuspendAll, Unserved, NotWaiting, Moving, InWait
<1>2. CASE CallResumeAll
  <2> PICK stage : stage = IF call[me].outcome = "blocked" /\ ~xTaskResumeAll(kernel).yielded THEN "yield" ELSE "after"
    OBVIOUS
  <2>1. Goto(stage) /\ scenario' = scenario /\ call[me].stage = "resume"
    BY <1>2 DEF CallResumeAll, Unserved
  <2> QED BY <2>1 DEF NotWaiting, Moving, InWait
<1>3. CASE CallYield
  BY <1>3 DEF CallYield, Unserved, NotWaiting, Moving, InWait
<1>4. CASE DelayBody
  BY <1>4 DEF DelayBody, InCall, Unserved, NotWaiting, Moving, InWait
<1>5. CASE AbortLook
  BY <1>5 DEF AbortLook, InCall, Unserved, NotWaiting, Moving, InWait
<1>6. CASE AbortDelay
  BY <1>6 DEF AbortDelay, InCall, Unserved, NotWaiting, Moving, InWait
<1>7. CASE CatchUp
  BY <1>7 DEF CatchUp, InCall, Unserved, NotWaiting, Moving, InWait
<1>8. CASE CallReturns
  BY <1>8 DEF CallReturns, InCall, Unserved, NotWaiting, Moving, InWait
<1>9. CASE OneSection
  BY <1>9 DEF OneSection, InCall, Unserved, NotWaiting, Moving, InWait
<1>10. CASE SuspendStart
  BY <1>10 DEF SuspendStart, InCall, Unserved, NotWaiting, Moving, InWait
<1>11. CASE SuspendReset
  BY <1>11 DEF SuspendReset, InCall, Unserved, NotWaiting, Moving, InWait
<1>12. CASE DeleteStart
  BY <1>12 DEF DeleteStart, InCall, Unserved, NotWaiting, Moving, InWait
<1>13. CASE DeleteFree
  BY <1>13 DEF DeleteFree, InCall, Unserved, NotWaiting, Moving, InWait
<1>14. CASE CreateStart
  BY <1>14 DEF CreateStart, InCall, Unserved, NotWaiting, Moving, InWait
<1>15. CASE CreateYield
  BY <1>15 DEF CreateYield, InCall, Unserved, NotWaiting, Moving, InWait
<1>16. CASE NotifyStart
  BY <1>16 DEF NotifyStart, InCall, Unserved, NotWaiting, Moving, InWait
<1>17. CASE NotifyEnd
  BY <1>17 DEF NotifyEnd, InCall, Unserved, NotWaiting, Moving, InWait
<1> QED BY <1>1, <1>2, <1>3, <1>4, <1>5, <1>6, <1>7, <1>8, <1>9, <1>10, <1>11, <1>12, <1>13, <1>14, <1>15,
           <1>16, <1>17 DEF TaskCall

(* Nor are the steps of the kernel.                                        *)
LEMMA KernelElsewhere == ASSUME Static(scenario), KernelStep, stream' = stream PROVE NotWaiting
<1>1. CASE TaskCall
  BY <1>1, CallElsewhere
<1>2. CASE CheckTasksWaitingTermination \/ IdleYield \/ PendSV \/ SysTick
  BY <1>2 DEF CheckTasksWaitingTermination, IdleYield, PendSV, SysTick, Unserved, NotWaiting
<1>3. CASE TaskInterrupt
  BY <1>3 DEF TaskInterrupt, Serve, NotWaiting
<1> QED BY <1>1, <1>2, <1>3 DEF KernelStep

(* No static application uses the timer task.                              *)
LEMMA NoTimerTask == ASSUME CallInv, Static(scenario), me \in Tasks PROVE Now.api \notin Dynamic
BY DEF CallInv, Static, StaticCall, Now, Request, Program

(* Nor are the queue calls.                                                *)
LEMMA QueueElsewhere ==
    ASSUME CallInv, Static(scenario), QueueCall \/ QueueInterrupt, stream' = stream PROVE NotWaiting
<1>1. CASE xQueueGenericSend
  BY <1>1 DEF xQueueGenericSend, InCall, Unserved, NotWaiting, Moving, InWait
<1>2. CASE xQueueGiveMutexRecursive \/ xQueueTakeMutexRecursive
  BY <1>2 DEF xQueueGiveMutexRecursive, xQueueTakeMutexRecursive, InCall, Unserved, NotWaiting, Moving, InWait
<1>3. CASE xQueueReceive
  BY <1>3 DEF xQueueReceive, InCall, Unserved, NotWaiting, Moving, InWait
<1>4. CASE xQueuePeek
  BY <1>4 DEF xQueuePeek, InCall, Unserved, NotWaiting, Moving, InWait
<1>5. CASE QueueFails
  BY <1>5 DEF QueueFails, Fails, InCall, Unserved, NotWaiting, Moving, InWait
<1>6. CASE QueueMustWait
  BY <1>6 DEF QueueMustWait, InCall, Unserved, NotWaiting, Moving, InWait
<1>7. CASE prvLockQueue
  BY <1>7, NoTimerTask DEF prvLockQueue, InCall, Unserved, NotWaiting, Moving, InWait, Dynamic
<1>8. CASE QueueCheckForTimeOut
  BY <1>8 DEF QueueCheckForTimeOut, InCall, Unserved, NotWaiting, Moving, InWait
<1>9. CASE QueueTest
  BY <1>9 DEF QueueTest, InCall, Unserved, NotWaiting, Moving, InWait
<1>10. CASE QueueInherit
  BY <1>10 DEF QueueInherit, InCall, Unserved, NotWaiting, Moving, InWait
<1>11. CASE QueuePlace
  BY <1>11 DEF QueuePlace, InCall, Unserved, NotWaiting, Moving, InWait
<1>12. CASE QueueUnlockTx \/ QueueUnlockRx
  BY <1>12 DEF QueueUnlockTx, QueueUnlockRx, InCall, Unserved, NotWaiting, Moving, InWait
<1>13. CASE QueueAfter
  BY <1>13 DEF QueueAfter, Fails, InCall, Unserved, NotWaiting, Moving, InWait
<1>14. CASE QueueDisinherit
  BY <1>14 DEF QueueDisinherit, Fails, InCall, Unserved, NotWaiting, Moving, InWait
<1>15. CASE xQueueGenericReset
  BY <1>15 DEF xQueueGenericReset, InCall, Unserved, NotWaiting, Moving, InWait
<1>16. CASE QueueInterrupt
  <2>1. xQueueSendFromISR \/ xQueueGiveFromISR \/ xQueueReceiveFromISR \/ xQueuePeekFromISR
    BY <1>16 DEF QueueInterrupt
  <2>2. CASE xQueueSendFromISR
    BY <2>2 DEF xQueueSendFromISR, xQueueGenericSendFromISR, Serve, NotWaiting
  <2>3. CASE xQueueGiveFromISR
    BY <2>3 DEF xQueueGiveFromISR, Serve, NotWaiting
  <2>4. CASE xQueueReceiveFromISR
    BY <2>4 DEF xQueueReceiveFromISR, Serve, NotWaiting
  <2>5. CASE xQueuePeekFromISR
    BY <2>5 DEF xQueuePeekFromISR, Serve, NotWaiting
  <2> QED BY <2>1, <2>2, <2>3, <2>4, <2>5
<1> QED BY <1>1, <1>2, <1>3, <1>4, <1>5, <1>6, <1>7, <1>8, <1>9, <1>10, <1>11, <1>12, <1>13, <1>14, <1>15, <1>16
        DEF QueueCall

(* Nor are the event group calls.                                          *)
LEMMA GroupElsewhere == ASSUME GroupCall, stream' = stream PROVE NotWaiting
<1>1. CASE GroupSetBits
  BY <1>1 DEF GroupSetBits, InCall, Unserved, NotWaiting, Moving, InWait
<1>2. CASE xEventGroupClearBits
  BY <1>2 DEF xEventGroupClearBits, InCall, Unserved, NotWaiting, Moving, InWait
<1>3. CASE GroupWaitBody
  BY <1>3 DEF GroupWaitBody, Blocks, InCall, Unserved, NotWaiting, Moving, InWait
<1>4. CASE GroupSyncBody
  BY <1>4 DEF GroupSyncBody, Blocks, InCall, Unserved, NotWaiting, Moving, InWait
<1>5. CASE GroupAfter
  BY <1>5 DEF GroupAfter, InCall, Unserved, NotWaiting, Moving, InWait
<1>6. CASE GroupLate
  BY <1>6 DEF GroupLate, InCall, Unserved, NotWaiting, Moving, InWait
<1> QED BY <1>1, <1>2, <1>3, <1>4, <1>5, <1>6 DEF GroupCall

(* Nor are the timer calls.                                                *)
LEMMA TimerElsewhere == ASSUME CallInv, Static(scenario), TimerCall, stream' = stream PROVE NotWaiting
<1>1. CASE xTimerGenericCommand
  BY <1>1 DEF xTimerGenericCommand, InCall, Unserved, NotWaiting, Moving, InWait
<1>2. CASE vTimerSetReloadMode
  BY <1>2 DEF vTimerSetReloadMode, InCall, Unserved, NotWaiting, Moving, InWait
<1>3. CASE prvTimerTask
  <2>1. me \in Tasks /\ Now.api = "prvTimerTask"
    BY <1>3 DEF prvTimerTask, prvGetNextExpireTime, SampleTime, QueueIsEmpty, vTaskPlaceOnEventListRestricted,
                ProcessExpired, ReceiveCommand, ProcessCommand, CallPended, InCall
  <2> QED BY <2>1, NoTimerTask DEF Dynamic
<1>4. CASE xTimerGenericCommandFromISR \/ xEventGroupSetBitsFromISR
  BY <1>4 DEF xTimerGenericCommandFromISR, xEventGroupSetBitsFromISR, xQueueGenericSendFromISR, Serve, NotWaiting
<1> QED BY <1>1, <1>2, <1>3, <1>4 DEF TimerCall

(* The steps of stream_buffer.c that name nobody else to wait.             *)
LEMMA SameSides ==
    ASSUME IsStream(stream),
           \/ SendStart \/ StreamWait \/ StreamWaited \/ SendCheckForTimeOut \/ SendWrite \/ SendWritten
           \/ CompleteSuspend \/ StreamReturns \/ ReceiveCount \/ ReceiveRead \/ xStreamBufferSetTriggerLevel
    PROVE  Sides(stream', stream.xTaskWaitingToSend, stream.xTaskWaitingToReceive)
<1>1. CASE SendWrite
  BY <1>1, MessageSides DEF SendWrite
<1>2. CASE ReceiveRead
  <2>1. stream' = stream \/ \E n, available : ReadMessage(n, available)
    BY <1>2 DEF ReceiveRead
  <2> QED BY <2>1, MessageSides DEF Sides
<1>3. CASE xStreamBufferSetTriggerLevel
  <2>1. DOMAIN stream = StreamFields
    BY DEF IsStream
  <2>2. stream' = stream \/ \E level : stream' = [stream EXCEPT !.xTriggerLevelBytes = level]
    BY <1>3 DEF xStreamBufferSetTriggerLevel
  <2> QED BY <2>1, <2>2 DEF Sides, StreamFields
<1>4. CASE SendStart \/ StreamWait \/ StreamWaited \/ SendCheckForTimeOut \/ SendWritten
           \/ CompleteSuspend \/ StreamReturns \/ ReceiveCount
  BY <1>4 DEF SendStart, StreamWait, StreamWaited, SendCheckForTimeOut, SendWritten, CompleteSuspend,
              StreamReturns, ReceiveCount, Sides
<1> QED BY <1>1, <1>2, <1>3, <1>4

(* The running call moves to a stage at which it may be registered.        *)
LEMMA SetComes ==
    ASSUME CallInv, me \in Tasks, NEW apis, Now.api \in apis, NEW stage \in InWait,
           Goto(stage) \/ \E space : Set([call[me] EXCEPT !.stage = stage, !.space = space])
    PROVE  Comes(apis)
<1>1. CASE Goto(stage)
  <2>1. call'[me] = [call[me] EXCEPT !.stage = stage]
    BY <1>1 DEF Goto, CallInv
  <2> QED BY <2>1 DEF Comes, CallInv, Locals
<1>2. ASSUME NEW space, Set([call[me] EXCEPT !.stage = stage, !.space = space]) PROVE Comes(apis)
  <2>1. call'[me] = [call[me] EXCEPT !.stage = stage, !.space = space]
    BY <1>2 DEF Set, CallInv
  <2> QED BY <2>1 DEF Comes, CallInv, Locals
<1> QED BY <1>1, <1>2

(* The stream steps that leave the registrations alone.                    *)
LEMMA SameSidesStay ==
    ASSUME CallInv, IsStream(stream), Partners,
           \/ SendStart \/ StreamWait \/ StreamWaited \/ SendCheckForTimeOut \/ SendWrite \/ SendWritten
           \/ CompleteSuspend \/ StreamReturns \/ ReceiveCount \/ ReceiveRead \/ xStreamBufferSetTriggerLevel
    PROVE  Partners'
<1>1. Sides(stream', stream.xTaskWaitingToSend, stream.xTaskWaitingToReceive)
  BY SameSides
<1>2. me \in Tasks /\ scenario' = scenario
  BY DEF SendStart, StreamWait, StreamWaited, SendCheckForTimeOut, SendWrite, SendWritten, CompleteSuspend,
         StreamReturns, ReceiveCount, ReceiveRead, xStreamBufferSetTriggerLevel, InCall, Unserved
<1>3. (\E stage : Goto(stage)) \/ (\E c : Set(c)) \/ Return
  <2>1. CASE SendStart
    BY <2>1 DEF SendStart
  <2>2. CASE SendCheckForTimeOut
    BY <2>2 DEF SendCheckForTimeOut
  <2>3. CASE SendWrite \/ SendWritten \/ ReceiveRead
    BY <2>3 DEF SendWrite, SendWritten, ReceiveRead
  <2>4. CASE StreamWait \/ StreamWaited \/ CompleteSuspend \/ StreamReturns \/ ReceiveCount \/ xStreamBufferSetTriggerLevel
    BY <2>4 DEF StreamWait, StreamWaited, CompleteSuspend, StreamReturns, ReceiveCount, xStreamBufferSetTriggerLevel
  <2> QED BY <2>1, <2>2, <2>3, <2>4
<1>4. Alone
  BY <1>2, <1>3, MovesOne DEF Alone
<1>5. call[me].stage \notin InWait \/ Comes(StreamCalls)
  <2>1. CASE StreamWait \/ StreamWaited
    <3>1. Now.api \in StreamCalls /\ \E stage \in InWait : Goto(stage)
      BY <2>1 DEF StreamWait, StreamWaited, InCall, StreamCalls, InWait
    <3> QED BY <1>2, <3>1, SetComes
  <2>2. CASE ~(StreamWait \/ StreamWaited)
    BY <2>2 DEF SendStart, SendCheckForTimeOut, SendWrite, SendWritten, CompleteSuspend,
                StreamReturns, ReceiveCount, ReceiveRead, xStreamBufferSetTriggerLevel, InCall, InWait
  <2> QED BY <2>1, <2>2
<1> QED BY <1>1, <1>4, <1>5, SidesStay

(* A step that makes nobody wait: of each side who waits there is the same *)
(* or is told.                                                             *)
LEMMA SidesTold ==
    ASSUME CallInv, Partners, Alone, NEW w, NEW r, Sides(stream', w, r),
           w = NoReader \/ w = stream.xTaskWaitingToSend,
           r = NoReader \/ r = stream.xTaskWaitingToReceive,
           \/ call' = call
           \/ me \in Tasks /\ call[me].stage \notin InWait
    PROVE  Partners'
<1>1. Stays(StreamSend) /\ Stays(StreamReceive)
  BY DEF Stays
<1> QED BY <1>1, PartnersStep DEF Sides

(* A send registers.                                                       *)
LEMMA SendTestPartners == ASSUME CallInv, IsStream(stream), Partners, SendTest PROVE Partners'
<1>1. me \in Tasks /\ call[me].stage = "test" /\ Now.api \in StreamSend /\ scenario' = scenario
  BY DEF SendTest, InCall, Unserved
<1>2. Alone
  <2>1. \E c : Set(c)
    BY DEF SendTest
  <2> QED BY <1>1, <2>1, MovesOne DEF Alone
<1>3. CASE /\ stream' = [stream EXCEPT !.xTaskWaitingToSend = me]
           /\ \E space : Set([call[me] EXCEPT !.stage = "wait", !.space = space])
  <2> PICK w, r : w = me /\ r = stream.xTaskWaitingToReceive
    OBVIOUS
  <2>1. stream'.xTaskWaitingToSend = w /\ stream'.xTaskWaitingToReceive = r
    BY <1>3 DEF IsStream, StreamFields
  <2>2. Comes(StreamSend)
    BY <1>1, <1>3, SetComes DEF InWait
  <2>3. Stays(StreamReceive)
    BY <1>1 DEF Stays, InWait
  <2> QED BY <1>2, <2>1, <2>2, <2>3, PartnersStep
<1>4. CASE stream' = stream
  <2>1. me \in Tasks /\ call[me].stage \notin InWait
    BY <1>1 DEF InWait
  <2>2. Sides(stream', stream.xTaskWaitingToSend, stream.xTaskWaitingToReceive)
    BY <1>4 DEF Sides
  <2> QED BY <1>2, <2>1, <2>2, SidesStay
<1> QED BY <1>3, <1>4 DEF SendTest

(* A receive registers.                                                    *)
LEMMA ReceiveStartPartners == ASSUME CallInv, IsStream(stream), Partners, ReceiveStart PROVE Partners'
<1>1. me \in Tasks /\ call[me].stage = "start" /\ Now.api \in StreamReceive /\ scenario' = scenario
  BY DEF ReceiveStart, InCall, Unserved
<1>2. Alone
  <2>1. (\E stage : Goto(stage)) \/ \E c : Set(c)
    BY DEF ReceiveStart
  <2> QED BY <1>1, <2>1, MovesOne DEF Alone
<1>3. CASE stream' = [stream EXCEPT !.xTaskWaitingToReceive = me] /\ Goto("wait")
  <2> PICK w, r : w = stream.xTaskWaitingToSend /\ r = me
    OBVIOUS
  <2>1. stream'.xTaskWaitingToSend = w /\ stream'.xTaskWaitingToReceive = r
    BY <1>3 DEF IsStream, StreamFields
  <2>2. Comes(StreamReceive)
    BY <1>1, <1>3, SetComes DEF InWait
  <2>3. Stays(StreamSend)
    BY <1>1 DEF Stays, InWait
  <2> QED BY <1>2, <2>1, <2>2, <2>3, PartnersStep
<1>4. CASE stream' = stream
  <2>1. me \in Tasks /\ call[me].stage \notin InWait
    BY <1>1 DEF InWait
  <2>2. Sides(stream', stream.xTaskWaitingToSend, stream.xTaskWaitingToReceive)
    BY <1>4 DEF Sides
  <2> QED BY <1>2, <2>1, <2>2, SidesStay
<1> QED BY <1>3, <1>4 DEF ReceiveStart

(* A send forgets its registration.                                        *)
LEMMA SendForgetPartners == ASSUME CallInv, IsStream(stream), Partners, SendForget PROVE Partners'
<1>1. me \in Tasks /\ Now.api \in StreamSend /\ scenario' = scenario /\ Goto("check")
  BY DEF SendForget, InCall, Unserved
<1>2. Alone
  BY <1>1, MovesOne DEF Alone
<1> PICK r : r = stream.xTaskWaitingToReceive
  OBVIOUS
<1>3. stream'.xTaskWaitingToSend = NoReader /\ stream'.xTaskWaitingToReceive = r
  BY DEF SendForget, IsStream, StreamFields
<1>4. Stays(StreamReceive)
  BY <1>1 DEF Stays, StreamSend, StreamReceive
<1> QED BY <1>2, <1>3, <1>4, PartnersStep

(* A receive forgets its registration.                                     *)
LEMMA ReceiveForgetPartners == ASSUME CallInv, IsStream(stream), Partners, ReceiveForget PROVE Partners'
<1>1. me \in Tasks /\ Now.api \in StreamReceive /\ scenario' = scenario /\ Goto("count")
  BY DEF ReceiveForget, InCall, Unserved
<1>2. Alone
  BY <1>1, MovesOne DEF Alone
<1> PICK w : w = stream.xTaskWaitingToSend
  OBVIOUS
<1>3. stream'.xTaskWaitingToSend = w /\ stream'.xTaskWaitingToReceive = NoReader
  BY DEF ReceiveForget, IsStream, StreamFields
<1>4. Stays(StreamSend)
  BY <1>1 DEF Stays, StreamSend, StreamReceive
<1> QED BY <1>2, <1>3, <1>4, PartnersStep

(* Forgetting a side empties it and keeps the other.                       *)
LEMMA ForgottenSides ==
    ASSUME IsStream(stream), NEW reader \in BOOLEAN
    PROVE  \E w, r : /\ Sides(Forgotten(reader), w, r)
                     /\ w = NoReader \/ w = stream.xTaskWaitingToSend
                     /\ r = NoReader \/ r = stream.xTaskWaitingToReceive
<1>1. CASE reader
  <2>1. Sides(Forgotten(reader), stream.xTaskWaitingToSend, NoReader)
    BY <1>1 DEF Forgotten, Sides, IsStream, StreamFields
  <2> QED BY <2>1
<1>2. CASE ~reader
  <2>1. Sides(Forgotten(reader), NoReader, stream.xTaskWaitingToReceive)
    BY <1>2 DEF Forgotten, Sides, IsStream, StreamFields
  <2> QED BY <2>1
<1> QED BY <1>1, <1>2

(* A partner is notified and forgotten.                                    *)
LEMMA CompleteNotifyPartners == ASSUME CallInv, IsStream(stream), Partners, CompleteNotify PROVE Partners'
<1>1. me \in Tasks /\ call[me].stage \notin InWait /\ scenario' = scenario /\ Goto("resume")
  BY DEF CompleteNotify, InCall, Unserved, InWait
<1>2. Alone
  BY <1>1, MovesOne DEF Alone
<1>3. stream' = stream \/ \E reader \in BOOLEAN : stream' = Forgotten(reader)
  <2>1. stream' = stream \/ stream' = Forgotten(TRUE) \/ stream' = Forgotten(FALSE)
    BY DEF CompleteNotify, Forgotten
  <2> QED BY <2>1
<1>4. CASE stream' = stream
  <2>1. Sides(stream', stream.xTaskWaitingToSend, stream.xTaskWaitingToReceive)
    BY <1>4 DEF Sides
  <2> QED BY <1>1, <1>2, <2>1, SidesTold
<1>5. ASSUME NEW reader \in BOOLEAN, stream' = Forgotten(reader) PROVE Partners'
  BY <1>1, <1>2, <1>5, ForgottenSides, SidesTold
<1> QED BY <1>3, <1>4, <1>5

(* xStreamBufferReset, refused while a task is registered.                 *)
LEMMA ResetPartners == ASSUME CallInv, IsStream(stream), Partners, xStreamBufferReset PROVE Partners'
<1>1. me \in Tasks /\ call[me].stage \notin InWait /\ scenario' = scenario /\ Return
  BY DEF xStreamBufferReset, InCall, Unserved, InWait
<1>2. Alone
  BY <1>1, MovesOne DEF Alone
<1>3. CASE stream' = NewStream(stream.xTriggerLevelBytes, stream.messages)
  <2>1. Sides(stream', NoReader, NoReader)
    BY <1>3 DEF Sides, NewStream
  <2> QED BY <1>1, <1>2, <2>1, SidesTold
<1>4. CASE stream' = stream
  <2>1. Sides(stream', stream.xTaskWaitingToSend, stream.xTaskWaitingToReceive)
    BY <1>4 DEF Sides
  <2> QED BY <1>1, <1>2, <2>1, SidesTold
<1> QED BY <1>3, <1>4 DEF xStreamBufferReset

(* Every step of a stream call.                                            *)
LEMMA StreamCallPartners == ASSUME CallInv, IsStream(stream), Partners, StreamCall PROVE Partners'
BY SameSidesStay, SendTestPartners, ReceiveStartPartners, SendForgetPartners, ReceiveForgetPartners,
   CompleteNotifyPartners, ResetPartners DEF StreamCall

(* Every stream call of a handler.                                         *)
LEMMA StreamInterruptPartners == ASSUME CallInv, IsStream(stream), Partners, StreamInterrupt PROVE Partners'
<1>1. call' = call /\ scenario' = scenario
  BY DEF StreamInterrupt, xStreamBufferSendFromISR, xStreamBufferReceiveFromISR, StreamCompletedFromISR, Serve
<1>2. Alone
  BY <1>1 DEF Alone
<1>3. \E w, r : /\ Sides(stream', w, r)
                /\ w = NoReader \/ w = stream.xTaskWaitingToSend
                /\ r = NoReader \/ r = stream.xTaskWaitingToReceive
  <2> PICK w : w = stream.xTaskWaitingToSend
    OBVIOUS
  <2> PICK r : r = stream.xTaskWaitingToReceive
    OBVIOUS
  <2>0. DOMAIN stream = StreamFields /\ Sides(stream, w, r)
    BY DEF IsStream, Sides
  <2>1. CASE xStreamBufferSendFromISR
    <3> PICK bytes : bytes = ToWrite(ISR.with, SpacesAvailable)
      OBVIOUS
    <3> PICK new : new = IF bytes = <<>> THEN stream
                         ELSE IF IsMessageBuffer THEN Written(<<Len(bytes)>> \o bytes) ELSE Written(bytes)
      OBVIOUS
    <3>1. stream' = new \/ stream' = [new EXCEPT !.xTaskWaitingToReceive = NoReader]
      BY <2>1 DEF xStreamBufferSendFromISR
    <3>2. new = stream \/ \E b : new = Written(b)
      OBVIOUS
    <3>3. Sides(new, w, r) /\ DOMAIN new = StreamFields
      <4>1. ASSUME NEW b, new = Written(b) PROVE Sides(new, w, r) /\ DOMAIN new = StreamFields
        <5>1. DOMAIN Written(b) = StreamFields
          BY <2>0 DEF Written
        <5> QED BY <4>1, <5>1, WrittenSides
      <4> QED BY <2>0, <3>2, <4>1
    <3>4. Sides(stream', w, r) \/ Sides(stream', w, NoReader)
      BY <3>1, <3>3 DEF Sides, StreamFields
    <3> QED BY <3>4
  <2>2. CASE xStreamBufferReceiveFromISR
    <3> PICK count : count = IF BytesInBuffer > Header THEN ToRead(ISR.with, BytesInBuffer) ELSE 0
      OBVIOUS
    <3> PICK tail : tail = At(stream.xTail + Header + count)
      OBVIOUS
    <3>1. stream' = stream \/ stream' = [stream EXCEPT !.xTail = tail, !.xTaskWaitingToSend = NoReader]
      BY <2>0, <2>2 DEF xStreamBufferReceiveFromISR, StreamFields
    <3>2. Sides(stream', w, r) \/ Sides(stream', NoReader, r)
      BY <2>0, <3>1 DEF Sides, StreamFields
    <3> QED BY <3>2
  <2>3. CASE StreamCompletedFromISR
    <3>1. \E reader \in BOOLEAN : stream' = Forgotten(reader)
      BY <2>3 DEF StreamCompletedFromISR
    <3> QED BY <3>1, ForgottenSides
  <2> QED BY <2>1, <2>2, <2>3 DEF StreamInterrupt
<1> QED BY <1>1, <1>2, <1>3, SidesTold

----------------------------------------------------------------------------
(* The theorems.                                                           *)

(* A static application starts with every list in order and its highest    *)
(* task running.                                                           *)
LEMMA InitStatic == Init => StaticInv
<1> SUFFICES ASSUME Init, Static(scenario) PROVE Scheduling /\ Partners /\ Kinds
  BY DEF StaticInv
<1> PICK n : n = KernelInit(scenario)
  OBVIOUS
<1>1. /\ kernel = n /\ call = [t \in Tasks |-> Enter(Program(t), 1)]
      /\ stream = NewStream(scenario.trigger, scenario.messages) /\ queue = NewQueue
  BY DEF Init, TaskInit, StreamInit, QueueInit, Program
<1>2. Fresh(kernel) /\ CallInv
  BY <1>1, KernelStarted, InitCalls
<1>3. ASSUME NEW t \in Tasks PROVE Entry(call[t], Request(t))
  <2>1. call[t] = Enter(Program(t), 1) /\ 1 \in Nat \ {0}
    BY <1>1
  <2> QED BY <1>2, <2>1, EnterFits DEF Request
<1>4. Scheduling
  <2>1. Kernel(kernel) /\ Highest(kernel)
    BY <1>2 DEF Fresh
  <2>2. OneSuspends
    BY <1>2, <1>3 DEF OneSuspends, Fresh, Entry, Suspending
  <2>3. RunsReady
    BY <1>2 DEF RunsReady, Fresh, me
  <2>4. Waiters
    BY <1>2 DEF Waiters, Fresh, All
  <2>5. Pended
    <3>1. ~IsIn(me, <<>>)
      BY DEF IsIn, ToSet
    <3> QED BY <1>2, <3>1 DEF Pended, Fresh
  <2>6. CallsFit
    BY <1>3 DEF CallsFit, Entry
  <2>7. Aborting
    BY <1>3 DEF Aborting, Entry
  <2> QED BY <2>1, <2>2, <2>3, <2>4, <2>5, <2>6, <2>7 DEF Scheduling
<1>5. Partners
  BY <1>1 DEF Partners, Waiting, NewStream
<1>6. Kinds
  <2>1. DOMAIN queue = QueueNames
    BY <1>1, QueuesAssumption
  <2>2. ASSUME NEW q \in QueueNames
        PROVE  /\ DOMAIN queue[q] = QueueFields /\ queue[q].kind = NewQueue[q].kind
               /\ queue[q].cTxLock \in Int /\ queue[q].cRxLock \in Int
    <3> PICK new : new = NewQueue[q]
      OBVIOUS
    <3> PICK nothing : nothing = "nothing"
      OBVIOUS
    <3>1. new = Created(new.kind, new.uxLength, new.uxMessagesWaiting, nothing)
      BY QueuesAssumption
    <3>2. DOMAIN new = QueueFields /\ new.cTxLock = queueUNLOCKED /\ new.cRxLock = queueUNLOCKED
      BY ONLY <3>1 DEF Created, QueueFields
    <3> QED BY <1>1, <3>2 DEF queueUNLOCKED
  <2> QED BY <2>1, <2>2 DEF Kinds
<1> QED BY <1>4, <1>5, <1>6

(* No step changes the application.                                        *)
LEMMA NextScenario == ASSUME CallInv, Next PROVE scenario' = scenario
BY KernelStepGoesOn, QueueCallGoesOn, InterruptGoesOn, GroupCallGoesOn, StreamCallGoesOn, TimerCallGoesOn
   DEF Next, CallsGoOn

(* Every step of a static application keeps its lists.                     *)
LEMMA NextStatic == StaticInv /\ CallInv /\ StreamInv /\ [Next]_vars => StaticInv'
<1> SUFFICES ASSUME StaticInv, CallInv, StreamInv, [Next]_vars, Static(scenario)'
             PROVE  (Scheduling /\ Partners /\ Kinds)'
  BY DEF StaticInv
<1>1. CASE vars' = vars
  <2>1. /\ kernel' = kernel /\ call' = call /\ scenario' = scenario /\ stream' = stream /\ queue' = queue
    BY <1>1 DEF vars, taskVars, queueVars, groupVars, streamVars
  <2>2. Static(scenario)
    BY <2>1
  <2>3. Scheduling /\ Partners /\ Kinds
    BY <2>2 DEF StaticInv
  <2>4. Scheduling'
    BY Zenon, <2>1, <2>3 DEF Scheduling, OneSuspends, RunsReady, Waiters, Pended, CallsFit, Aborting, Suspending, Leaving,
                      Request, Program, me
  <2>5. Partners' /\ Kinds'
    BY <2>1, <2>3 DEF Partners, Waiting, Kinds, Request, Program
  <2> QED BY <2>4, <2>5
<1>2. CASE Next
  <2>0. scenario' = scenario
    BY <1>2, NextScenario
  <2>1. Static(scenario)
    BY <2>0
  <2>2. Scheduling /\ Partners /\ Kinds
    BY <2>1 DEF StaticInv
  <2>3. IsStream(stream)
    BY DEF StreamInv, Holds
  <2>4. CASE KernelStep /\ UNCHANGED <<queueVars, groupVars, streamVars, timers>>
    <3>1. queue' = queue /\ stream' = stream
      BY <2>4 DEF queueVars, streamVars
    <3>2. Kinds'
      BY <2>2, <3>1 DEF Kinds
    <3> QED BY <2>1, <2>2, <2>4, <3>1, <3>2, KernelStepSchedules, KernelElsewhere, ElsewhereKeeps
  <2>5. CASE (QueueCall \/ QueueInterrupt) /\ UNCHANGED <<groupVars, streamVars, timers>>
    <3>1. stream' = stream
      BY <2>5 DEF streamVars
    <3> QED BY <2>1, <2>2, <2>5, <3>1, QueueCallSchedules, QueueInterruptSchedules, QueueElsewhere, ElsewhereKeeps
            DEF QueueKept
  <2>6. CASE GroupCall /\ UNCHANGED <<queueVars, streamVars, timers>>
    <3>1. queue' = queue /\ stream' = stream
      BY <2>6 DEF queueVars, streamVars
    <3>2. Kinds'
      BY <2>2, <3>1 DEF Kinds
    <3> QED BY <2>1, <2>2, <2>6, <3>1, <3>2, GroupCallSchedules, GroupElsewhere, ElsewhereKeeps
  <2>7. CASE (StreamCall \/ StreamInterrupt) /\ UNCHANGED <<queueVars, groupVars, timers>>
    <3>1. queue' = queue
      BY <2>7 DEF queueVars
    <3>2. Kinds'
      BY <2>2, <3>1 DEF Kinds
    <3> QED BY <2>1, <2>2, <2>3, <2>7, <3>2, StreamCallSchedules, StreamInterruptSchedules,
               StreamCallPartners, StreamInterruptPartners
  <2>8. CASE TimerCall /\ UNCHANGED streamVars
    <3>1. stream' = stream
      BY <2>8 DEF streamVars
    <3> QED BY <2>1, <2>2, <2>8, <3>1, TimerCallSchedules, TimerElsewhere, ElsewhereKeeps DEF QueueKept
  <2> QED BY <1>2, <2>4, <2>5, <2>6, <2>7, <2>8 DEF Next
<1> QED BY <1>1, <1>2

(* The state lists of the kernel, one by one.                              *)
LEMMA StateListsAre ==
    ASSUME Kernel(kernel)
    PROVE  /\ \A l \in DOMAIN StateLists :
                  \/ l = 1 /\ StateLists[l] = kernel.delayed
                  \/ l = 2 /\ StateLists[l] = kernel.overflow
                  \/ l = 3 /\ StateLists[l] = kernel.suspendedTasks
                  \/ l = 4 /\ StateLists[l] = <<>>
                  \/ l - 5 \in Priorities /\ StateLists[l] = kernel.ready[l - 5]
           /\ DOMAIN StateLists \subseteq Int
<1>1. configMAX_PRIORITIES \in Nat
  BY KernelAssumption
<1> PICK M \in Nat : M = configMAX_PRIORITIES
  BY <1>1
<1> PICK rings : rings = [p \in 1 .. M |-> kernel.ready[p - 1]]
  OBVIOUS
<1> PICK four : four = <<kernel.delayed, kernel.overflow, kernel.suspendedTasks, kernel.tasksWaitingTermination>>
  OBVIOUS
<1> PICK all : all = StateLists
  OBVIOUS
<1>2. all = four \o rings
  BY DEF StateLists
<1> PICK X : X = {kernel.delayed, kernel.overflow, kernel.suspendedTasks, kernel.tasksWaitingTermination}
                 \cup {kernel.ready[p - 1] : p \in 1 .. M}
  OBVIOUS
<1>3. four \in Seq(X) /\ Len(four) = 4
  OBVIOUS
<1>4. rings \in Seq(X) /\ Len(rings) = M
  OBVIOUS
<1>5. /\ DOMAIN all = 1 .. 4 + M
      /\ \A l \in 1 .. 4 + M : all[l] = IF l <= 4 THEN four[l] ELSE rings[l - 4]
  BY <1>2, <1>3, <1>4
<1>6. kernel.tasksWaitingTermination = <<>>
  BY DEF Kernel, Lists, WaitLists
<1>7. ASSUME NEW l \in DOMAIN all
      PROVE  \/ l = 1 /\ all[l] = kernel.delayed
             \/ l = 2 /\ all[l] = kernel.overflow
             \/ l = 3 /\ all[l] = kernel.suspendedTasks
             \/ l = 4 /\ all[l] = <<>>
             \/ l - 5 \in Priorities /\ all[l] = kernel.ready[l - 5]
  <2>1. CASE l <= 4
    <3>1. all[l] = four[l] /\ (l = 1 \/ l = 2 \/ l = 3 \/ l = 4)
      BY <1>5, <2>1
    <3> QED BY <1>6, <3>1
  <2>2. CASE l > 4
    <3>1. l - 4 \in 1 .. M /\ (l - 4) - 1 = l - 5 /\ l - 5 \in Priorities
      BY <1>5, <2>2 DEF Priorities
    <3>2. all[l] = rings[l - 4] /\ rings[l - 4] = kernel.ready[(l - 4) - 1]
      BY <1>5, <2>2, <3>1
    <3> QED BY <3>1, <3>2
  <2> QED BY <1>5, <2>1, <2>2
<1>8. DOMAIN all \subseteq Int
  BY <1>5
<1> QED BY ONLY <1>7, <1>8, all = StateLists

(* No task is in two of them, or twice in one.                             *)
LEMMA InOne == ASSUME Kernel(kernel) PROVE InOneList(StateLists)
<1> PICK all : all = StateLists
  OBVIOUS
<1> DEFINE Is(l) == \/ l = 1 /\ all[l] = kernel.delayed
                    \/ l = 2 /\ all[l] = kernel.overflow
                    \/ l = 3 /\ all[l] = kernel.suspendedTasks
                    \/ l = 4 /\ all[l] = <<>>
                    \/ l - 5 \in Priorities /\ all[l] = kernel.ready[l - 5]
<1>1. (\A l \in DOMAIN all : Is(l)) /\ DOMAIN all \subseteq Int
  <2>1. DOMAIN all \subseteq Int
    BY StateListsAre
  <2>2. ASSUME NEW l \in DOMAIN all PROVE Is(l)
    BY StateListsAre
  <2> HIDE DEF Is
  <2> QED BY <2>1, <2>2
<1>2. ASSUME NEW l, Is(l) PROVE Once(all[l], All \cup {End})
  <2>1. Once(kernel.delayed, Tasks) /\ Once(kernel.overflow, Tasks) /\ Once(kernel.suspendedTasks, Tasks)
    BY DEF Kernel, Lists, WaitLists
  <2>2. ASSUME NEW list, Once(list, Tasks) PROVE Once(list, All \cup {End})
    <3>1. list \in Seq(All \cup {End})
      BY <2>2 DEF Once, All
    <3> QED BY <2>2, <3>1 DEF Once
  <2>3. Once(<<>>, All \cup {End})
    BY DEF Once
  <2>4. \A p \in Priorities : Once(kernel.ready[p], All \cup {End})
    BY DEF Kernel, Lists, ReadyLists, Marked
  <2> QED BY <1>2, <2>1, <2>2, <2>3, <2>4
<1>3. ASSUME NEW l \in Int, NEW m \in Int, Is(l), Is(m), NEW t \in All, IsIn(t, all[l]), IsIn(t, all[m]) PROVE l = m
  <2> PICK d, o, u : d = kernel.delayed /\ o = kernel.overflow /\ u = kernel.suspendedTasks
    OBVIOUS
  <2>1. /\ \A x : (IsIn(x, d) \/ IsIn(x, o) \/ IsIn(x, u)) => x \in Tasks
        /\ \A x \in Tasks : /\ IsIn(x, d) => x \notin Rdy(kernel) /\ ~IsIn(x, o) /\ ~IsIn(x, u)
                            /\ IsIn(x, o) => x \notin Rdy(kernel) /\ ~IsIn(x, u)
                            /\ IsIn(x, u) => x \notin Rdy(kernel)
    BY DEF Kernel, Lists, WaitLists, Apart, Once, IsIn, ToSet
  <2>2. ~IsIn(t, <<>>)
    BY DEF IsIn, ToSet
  <2>3. \A p \in Priorities : IsIn(t, kernel.ready[p]) => t \in Rdy(kernel) /\ kernel.uxPriority[t] = p
    BY DEF Rdy, IsReady, Kernel, Lists, ReadyLists
  <2>4. CASE l - 5 \in Priorities /\ m - 5 \in Priorities
    <3>1. Priorities \subseteq Nat
      BY KernelAssumption DEF Priorities
    <3>2. all[l] = kernel.ready[l - 5] /\ all[m] = kernel.ready[m - 5]
      BY <1>3, <2>4, <3>1
    <3>3. l - 5 = m - 5
      BY <1>3, <2>3, <2>4, <3>2
    <3> QED BY <3>3
  <2>5. CASE l - 5 \in Priorities /\ ~(m - 5 \in Priorities)
    BY <1>3, <2>1, <2>2, <2>3, <2>5
  <2>6. CASE m - 5 \in Priorities /\ ~(l - 5 \in Priorities)
    BY <1>3, <2>1, <2>2, <2>3, <2>6
  <2>7. CASE ~(l - 5 \in Priorities) /\ ~(m - 5 \in Priorities)
    BY <1>3, <2>1, <2>2, <2>7
  <2> QED BY <2>4, <2>5, <2>6, <2>7
<1> HIDE DEF Is
<1>4. ASSUME NEW l \in DOMAIN all, NEW m \in DOMAIN all, NEW i \in DOMAIN all[l], NEW j \in DOMAIN all[m],
             all[l][i] = all[m][j], all[l][i] # End
      PROVE  l = m /\ i = j
  <2> PICK x : x = all[l][i]
    OBVIOUS
  <2>1. x \in All /\ IsIn(x, all[l]) /\ IsIn(x, all[m])
    BY <1>1, <1>2, <1>4 DEF Once, IsIn, ToSet
  <2>2. l = m
    BY <1>1, <1>3, <2>1
  <2> QED BY <1>1, <1>2, <1>4, <2>2 DEF Once
<1> QED BY <1>4 DEF InOneList

(* A ring with the end marker alone has length 0.                          *)
LEMMA RingLength ==
    ASSUME NEW ring, Marked(ring)
    PROVE  Length(ring) > 0 <=> \E t \in All : IsIn(t, ring)
<1>1. ring \in Seq(All \cup {End}) /\ Len(ring) \in Nat /\ DOMAIN ring = 1 .. Len(ring)
  BY DEF Marked, Once
<1> PICK k \in DOMAIN ring : ring[k] = End
  BY DEF Marked, IsIn, ToSet
<1>2. ASSUME Length(ring) > 0 PROVE \E t \in All : IsIn(t, ring)
  <2>1. Len(ring) >= 2
    BY <1>1, <1>2 DEF Length
  <2> PICK i : i = IF k = 1 THEN 2 ELSE 1
    OBVIOUS
  <2>2. i \in DOMAIN ring /\ i # k
    BY <1>1, <2>1
  <2>3. ring[i] # End
    BY <2>2 DEF Marked, Once
  <2> QED BY <1>1, <2>2, <2>3 DEF IsIn, ToSet
<1>3. ASSUME NEW t \in All, IsIn(t, ring) PROVE Length(ring) > 0
  <2> PICK i \in DOMAIN ring : ring[i] = t
    BY <1>3 DEF IsIn, ToSet
  <2>1. i # k
    BY KernelAssumption
  <2> QED BY <1>1, <2>1 DEF Length
<1> QED BY <1>2, <1>3

(* The invariant is what the runs check.                                   *)
LEMMA StaticLists == ASSUME StaticInv, Static(scenario) PROVE KernelLists /\ HighestRuns
<1>1. Kernel(kernel) /\ Highest(kernel)
  BY DEF StaticInv, Scheduling
<1>2. InOneList(StateLists)
  BY <1>1, InOne
<1>3. \A list \in EventLists : \A t \in ToSet(kernel.events[list]) : ~IsReady(kernel, t)
  <2> SUFFICES ASSUME NEW list \in EventLists, NEW t \in ToSet(kernel.events[list]) PROVE ~IsReady(kernel, t)
    OBVIOUS
  <2>1. t \in All
    BY <1>1 DEF Kernel, Lists, Events, Once, ToSet, All
  <2>2. t \in Evt(kernel)
    BY <2>1 DEF Evt, IsIn
  <2> QED BY <1>1, <2>1, <2>2 DEF Kernel, Unready, Rdy
<1>4. kernel.uxTopReadyPriority = {p \in Priorities : Length(kernel.ready[p]) > 0}
  <2>1. \A p \in Priorities : Length(kernel.ready[p]) > 0 <=> \E t \in All : IsIn(t, kernel.ready[p])
    BY <1>1, RingLength DEF Kernel, Lists, ReadyLists
  <2> QED BY <1>1, <2>1 DEF Kernel, Bits
<1>5. /\ Sorted(kernel.delayed, kernel.wake) /\ Sorted(kernel.overflow, kernel.wake)
      /\ \A t \in ToSet(kernel.delayed) : kernel.wake[t] >= kernel.xNextTaskUnblockTime
      /\ kernel.halted = "no"
  BY <1>1 DEF Kernel, Lists, Times, Typed, IsIn
<1>6. KernelLists
  BY <1>2, <1>3, <1>4, <1>5 DEF KernelLists
<1>7. HighestRuns
  BY <1>1 DEF HighestRuns, Highest, Rdy
<1> QED BY <1>6, <1>7

(* The lists of the kernel fit together in every static application: with  *)
(* any number of tasks, programs, handlers and ticks, whatever tick, event *)
(* and abort end a wait together. A task is in one state list at most and  *)
(* there once; in an event list it is not ready; the bitmap of ready       *)
(* priorities is exact; the delayed lists are in order, and the next       *)
(* unblock time is not behind; no configASSERT fails.                      *)
(* (xTaskIncrementTick, xTaskResumeAll, prvAddCurrentTaskToDelayedList,    *)
(* xTaskRemoveFromEventList and what calls them)                           *)
THEOREM ListsHold == Spec => [](Static(scenario) => KernelLists)
<1>1. Init => StaticInv /\ StreamInv /\ CallInv
  BY InitStatic, InitStream, InitCalls
<1>2. (StaticInv /\ StreamInv /\ CallInv) /\ [Next]_vars => (StaticInv /\ StreamInv /\ CallInv)'
  BY NextStatic, NextStream, NextCalls
<1>3. StaticInv => (Static(scenario) => KernelLists)
  BY StaticLists
<1> QED BY <1>1, <1>2, <1>3, PTL DEF Spec

(* The highest of the ready tasks runs in every static application, or a   *)
(* switch is on its way: no task, handler, tick or pended tick that wakes  *)
(* another forgets to ask for it. (the yields of tasks.c, queue.c,         *)
(* event_groups.c and stream_buffer.c)                                     *)
THEOREM HighestRun == Spec => [](Static(scenario) => HighestRuns)
<1>1. Init => StaticInv /\ StreamInv /\ CallInv
  BY InitStatic, InitStream, InitCalls
<1>2. (StaticInv /\ StreamInv /\ CallInv) /\ [Next]_vars => (StaticInv /\ StreamInv /\ CallInv)'
  BY NextStatic, NextStream, NextCalls
<1>3. StaticInv => (Static(scenario) => HighestRuns)
  BY StaticLists
<1> QED BY <1>1, <1>2, <1>3, PTL DEF Spec

=============================================================================
