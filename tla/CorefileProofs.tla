---------------------------- MODULE CorefileProofs ----------------------------
(***************************************************************************)
(* Facts about Corefiles of any length: what Pick leaves of a file, and    *)
(* that applyPrivateDNSToCorefile leaves one block, keeps the lines of     *)
(* others, and changes nothing the second time.                            *)
(*                                                                         *)
(* Pick and Open are defined line by line, so these are inductions.  The   *)
(* library's induction theorems have an operator as a parameter; here      *)
(* induction is over the set of numbers for which a statement holds, and   *)
(* rests on WFMin, the least element of a set under a well-founded order.  *)
(***************************************************************************)
EXTENDS Corefile, Integers, WellFoundedInduction, SequenceTheorems, TLAPS

-----------------------------------------------------------------------------
(* Induction *)

LessOnNat == {p \in Nat \X Nat : p[1] < p[2]}

(***************************************************************************)
(* The order of the natural numbers, as a set of pairs, is well-founded.   *)
(***************************************************************************)
LEMMA NatWellFounded == IsWellFoundedOn(LessOnNat, Nat)
  BY NatLessThanWellFounded DEF OpToRel, LessOnNat

(***************************************************************************)
(* A set of natural numbers that has 0, and with n also n + 1, has all.    *)
(***************************************************************************)
LEMMA SetInduction ==
  ASSUME NEW S, 0 \in S, \A n \in Nat : n \in S => n + 1 \in S
  PROVE  \A n \in Nat : n \in S
<1> DEFINE T == {n \in Nat : n \notin S}
<1>1. SUFFICES ASSUME T # {} PROVE FALSE
  OBVIOUS
<1>2. PICK x \in T : \A y \in T : ~(<<y, x>> \in LessOnNat)
  BY <1>1, NatWellFounded, WFMin
<1>3. x \in Nat /\ x # 0 /\ x \notin S
  OBVIOUS
<1>4. x - 1 \in Nat /\ x - 1 < x
  BY <1>3
<1>5. <<x - 1, x>> \in LessOnNat
  BY <1>3, <1>4 DEF LessOnNat
<1>6. x - 1 \in S
  BY <1>2, <1>4, <1>5
<1> QED
  BY <1>3, <1>4, <1>6

(***************************************************************************)
(* The same up to a bound.                                                 *)
(***************************************************************************)
LEMMA BoundedInduction ==
  ASSUME NEW m \in Nat, NEW S, 0 \in S, \A n \in 0 .. m - 1 : n \in S => n + 1 \in S
  PROVE  \A n \in 0 .. m : n \in S
<1> DEFINE T == {n \in Nat : n <= m => n \in S}
<1>1. 0 \in T
  OBVIOUS
<1>2. \A n \in Nat : n \in T => n + 1 \in T
  OBVIOUS
<1> HIDE DEF T
<1>3. \A n \in Nat : n \in T
  BY <1>1, <1>2, SetInduction
<1> QED
  BY <1>3 DEF T

-----------------------------------------------------------------------------
(* Pick *)

\* t[n] is what is taken of the first n lines.
IsTaking(t, file, keep) ==
  /\ t \in [0 .. Len(file) -> Files]
  /\ t[0] = << >>
  /\ \A n \in 1 .. Len(file) :
       t[n] = IF n \in keep THEN Append(t[n - 1], file[n]) ELSE t[n - 1]

\* The equation by which Pick is defined, at n.
Taking(t, n, file, keep) ==
  IF n = 0 THEN << >> ELSE IF n \in keep THEN Append(t[n - 1], file[n]) ELSE t[n - 1]

(***************************************************************************)
(* There is a function that fits the equation by which Pick is defined.    *)
(***************************************************************************)
LEMMA TakingExists ==
  ASSUME NEW file \in Files, NEW keep
  PROVE  \E t : t = [n \in 0 .. Len(file) |-> Taking(t, n, file, keep)]
<1> DEFINE Upto == {m \in Nat : \E t : t = [n \in 0 .. m |-> Taking(t, n, file, keep)]}
<1>1. 0 \in Upto
  <2> DEFINE t == [n \in 0 .. 0 |-> << >>]
  <2>1. t = [n \in 0 .. 0 |-> Taking(t, n, file, keep)]
    BY DEF Taking
  <2> QED
    BY <2>1
<1>2. ASSUME NEW m \in Nat, m \in Upto PROVE m + 1 \in Upto
  <2>1. PICK t : t = [n \in 0 .. m |-> Taking(t, n, file, keep)]
    BY <1>2
  <2> DEFINE u == [n \in 0 .. m + 1 |-> IF n = m + 1 THEN Taking(t, n, file, keep) ELSE t[n]]
             v == [n \in 0 .. m + 1 |-> Taking(u, n, file, keep)]
  <2>2. ASSUME NEW n \in 0 .. m + 1 PROVE u[n] = Taking(u, n, file, keep)
    <3>1. CASE n = m + 1
      BY <3>1 DEF Taking
    <3>2. CASE n \in 0 .. m
      <4>1. t[n] = Taking(t, n, file, keep)
        BY <2>1, <3>2
      <4>2. u[n] = t[n] /\ (n # 0 => u[n - 1] = t[n - 1])
        BY <3>2
      <4> QED
        BY <4>1, <4>2 DEF Taking
    <3> QED
      BY <3>1, <3>2
  <2>3. u = [n \in 0 .. m + 1 |-> u[n]] /\ v = [n \in 0 .. m + 1 |-> v[n]]
    OBVIOUS
  <2>4. \A n \in 0 .. m + 1 : u[n] = v[n]
    BY <2>2
  <2> HIDE DEF u
  <2>5. u = v
    BY <2>3, <2>4
  <2> QED
    BY <2>5
<1> HIDE DEF Upto
<1>3. \A n \in Nat : n \in Upto
  BY <1>1, <1>2, SetInduction
<1> QED
  BY <1>3, LenProperties DEF Upto, Files

(***************************************************************************)
(* Pick, line by line.                                                     *)
(***************************************************************************)
LEMMA PickTakes ==
  ASSUME NEW file \in Files, NEW keep
  PROVE  \E t : IsTaking(t, file, keep) /\ Pick(file, keep) = t[Len(file)]
<1>0. Len(file) \in Nat /\ \A n \in 1 .. Len(file) : file[n] \in Lines
  BY LenProperties, ElementOfSeq DEF Files
<1>1. PICK t : /\ t = [n \in 0 .. Len(file) |-> Taking(t, n, file, keep)]
               /\ Pick(file, keep) = t[Len(file)]
  <2>1. PICK t : t = CHOOSE u : u = [n \in 0 .. Len(file) |-> Taking(u, n, file, keep)]
    OBVIOUS
  <2>2. Pick(file, keep) = t[Len(file)]
    BY <2>1 DEF Pick, Taking
  <2>3. \E u : u = [n \in 0 .. Len(file) |-> Taking(u, n, file, keep)]
    BY TakingExists, Zenon
  <2>4. t = [n \in 0 .. Len(file) |-> Taking(t, n, file, keep)]
    BY <2>1, <2>3, Zenon
  <2> QED
    BY <2>2, <2>4
<1>3. t[0] = << >>
  BY <1>0, <1>1 DEF Taking
<1>4. ASSUME NEW n \in 1 .. Len(file)
      PROVE  t[n] = IF n \in keep THEN Append(t[n - 1], file[n]) ELSE t[n - 1]
  <2>1. n # 0 /\ n \in 0 .. Len(file)
    BY <1>0
  <2> QED
    BY <1>1, <2>1 DEF Taking
<1> DEFINE S == {n \in Nat : t[n] \in Files}
<1>5. 0 \in S
  BY <1>3, EmptySeq DEF Files
<1>6. ASSUME NEW n \in 0 .. Len(file) - 1, n \in S PROVE n + 1 \in S
  <2>1. n + 1 \in 1 .. Len(file) /\ (n + 1) - 1 = n /\ t[n] \in Files
    BY <1>0, <1>6
  <2>2. file[n + 1] \in Lines /\ t[n + 1] \in {Append(t[n], file[n + 1]), t[n]}
    BY <1>0, <1>4, <2>1
  <2>3. \A e \in Lines : Append(t[n], e) \in Files
    BY <2>1, AppendProperties DEF Files
  <2>4. t[n + 1] \in Files
    BY <2>1, <2>2, <2>3
  <2> QED
    BY <1>0, <2>4
<1> HIDE DEF S
<1>7. \A n \in 0 .. Len(file) : n \in S
  BY <1>0, <1>5, <1>6, BoundedInduction
<1>8. t \in [0 .. Len(file) -> Files]
  <2>1. t = [n \in 0 .. Len(file) |-> t[n]]
    BY <1>1
  <2> QED
    BY <1>7, <2>1 DEF S
<1> QED
  BY <1>1, <1>3, <1>4, <1>8 DEF IsTaking

(***************************************************************************)
(* What is picked are lines of the file, at positions to keep.             *)
(***************************************************************************)
LEMMA PickOrigin ==
  ASSUME NEW file \in Files, NEW keep
  PROVE  /\ Pick(file, keep) \in Files
         /\ \A j \in 1 .. Len(Pick(file, keep)) :
              \E i \in 1 .. Len(file) : i \in keep /\ Pick(file, keep)[j] = file[i]
<1>0. Len(file) \in Nat /\ \A n \in 1 .. Len(file) : file[n] \in Lines
  BY LenProperties, ElementOfSeq DEF Files
<1>1. PICK t : IsTaking(t, file, keep) /\ Pick(file, keep) = t[Len(file)]
  BY PickTakes
<1> DEFINE From(n) == \A j \in 1 .. Len(t[n]) : \E i \in 1 .. n : i \in keep /\ t[n][j] = file[i]
           S == {n \in Nat : From(n)}
<1>2. 0 \in S
  BY <1>1 DEF IsTaking
<1>3. ASSUME NEW n \in 0 .. Len(file) - 1, n \in S PROVE n + 1 \in S
  <2>1. n + 1 \in 1 .. Len(file) /\ (n + 1) - 1 = n /\ t[n] \in Seq(Lines) /\ From(n)
    BY <1>0, <1>1, <1>3 DEF IsTaking, Files
  <2>2. t[n + 1] = IF n + 1 \in keep THEN Append(t[n], file[n + 1]) ELSE t[n]
    BY <1>1, <2>1 DEF IsTaking
  <2>3. ASSUME NEW j \in 1 .. Len(t[n + 1])
        PROVE  \E i \in 1 .. n + 1 : i \in keep /\ t[n + 1][j] = file[i]
    <3>1. CASE j \in 1 .. Len(t[n])
      <4>1. t[n + 1][j] = t[n][j]
        BY <1>0, <2>1, <2>2, <3>1
      <4>2. \E i \in 1 .. n : i \in keep /\ t[n][j] = file[i]
        BY <2>1, <3>1
      <4> QED
        BY <4>1, <4>2
    <3>2. CASE j \notin 1 .. Len(t[n])
      <4>1. n + 1 \in keep /\ t[n + 1][j] = file[n + 1]
        BY <1>0, <2>1, <2>2, <2>3, <3>2
      <4> QED
        BY <4>1
    <3> QED
      BY <3>1, <3>2
  <2> QED
    BY <2>3
<1> HIDE DEF S
<1>4. \A n \in 0 .. Len(file) : n \in S
  BY <1>0, <1>2, <1>3, BoundedInduction
<1>5. From(Len(file)) /\ t[Len(file)] \in Files
  BY <1>0, <1>1, <1>4 DEF S, IsTaking
<1> QED
  BY <1>1, <1>5

(***************************************************************************)
(* Of two files that begin alike the same is taken for as long.            *)
(***************************************************************************)
LEMMA SameTaken ==
  ASSUME NEW f \in Files, NEW g \in Files, NEW K, NEW L, NEW t, NEW u,
         IsTaking(t, f, K), IsTaking(u, g, L),
         NEW m \in Nat, m <= Len(f), m <= Len(g),
         \A n \in 1 .. m : f[n] = g[n] /\ (n \in K <=> n \in L)
  PROVE  t[m] = u[m]
<1>0. Len(f) \in Nat /\ Len(g) \in Nat
  BY LenProperties DEF Files
<1> DEFINE S == {n \in Nat : t[n] = u[n]}
<1>1. 0 \in S
  BY DEF IsTaking
<1>2. ASSUME NEW n \in 0 .. m - 1, n \in S PROVE n + 1 \in S
  <2>1. n + 1 \in 1 .. m /\ n + 1 \in 1 .. Len(f) /\ n + 1 \in 1 .. Len(g) /\ (n + 1) - 1 = n
    BY <1>0
  <2>2. /\ t[n + 1] = IF n + 1 \in K THEN Append(t[n], f[n + 1]) ELSE t[n]
        /\ u[n + 1] = IF n + 1 \in L THEN Append(u[n], g[n + 1]) ELSE u[n]
    BY <2>1 DEF IsTaking
  <2> QED
    BY <1>2, <2>1, <2>2
<1> HIDE DEF S
<1>3. \A n \in 0 .. m : n \in S
  BY <1>1, <1>2, BoundedInduction
<1> QED
  BY <1>3 DEF S

(***************************************************************************)
(* When nothing is picked after the first lines, the rest does not matter. *)
(***************************************************************************)
LEMMA PickBeginning ==
  ASSUME NEW f \in Files, NEW g \in Files, NEW K, NEW L, Len(g) <= Len(f),
         \A n \in 1 .. Len(g) : f[n] = g[n] /\ (n \in K <=> n \in L),
         \A n \in Len(g) + 1 .. Len(f) : n \notin K
  PROVE  Pick(f, K) = Pick(g, L)
<1>0. Len(f) \in Nat /\ Len(g) \in Nat
  BY LenProperties DEF Files
<1>1. PICK t : IsTaking(t, f, K) /\ Pick(f, K) = t[Len(f)]
  BY PickTakes
<1>2. PICK u : IsTaking(u, g, L) /\ Pick(g, L) = u[Len(g)]
  BY PickTakes
<1>3. t[Len(g)] = u[Len(g)]
  BY <1>0, <1>1, <1>2, SameTaken
<1> DEFINE S == {n \in Nat : n < Len(g) \/ t[n] = t[Len(g)]}
<1>4. 0 \in S
  BY <1>0
<1>5. ASSUME NEW n \in 0 .. Len(f) - 1, n \in S PROVE n + 1 \in S
  <2>1. CASE n + 1 <= Len(g)
    BY <1>0, <2>1
  <2>2. CASE n + 1 > Len(g)
    <3>1. n + 1 \in Len(g) + 1 .. Len(f) /\ n + 1 \in 1 .. Len(f) /\ (n + 1) - 1 = n
      BY <1>0, <2>2
    <3>2. t[n + 1] = t[n]
      BY <1>1, <3>1 DEF IsTaking
    <3> QED
      BY <1>0, <1>5, <2>2, <3>2
  <2> QED
    BY <1>0, <2>1, <2>2
<1> HIDE DEF S
<1>6. \A n \in 0 .. Len(f) : n \in S
  BY <1>0, <1>4, <1>5, BoundedInduction
<1> QED
  BY <1>0, <1>1, <1>2, <1>3, <1>6 DEF S

(***************************************************************************)
(* When every line is picked, the file stays what it is.                   *)
(***************************************************************************)
LEMMA PickAll ==
  ASSUME NEW file \in Files, NEW keep, 1 .. Len(file) \subseteq keep
  PROVE  Pick(file, keep) = file
<1>0. Len(file) \in Nat /\ \A n \in 1 .. Len(file) : file[n] \in Lines
  BY LenProperties, ElementOfSeq DEF Files
<1>1. PICK t : IsTaking(t, file, keep) /\ Pick(file, keep) = t[Len(file)]
  BY PickTakes
<1> DEFINE Same(n) == Len(t[n]) = n /\ \A j \in 1 .. n : t[n][j] = file[j]
           S == {n \in Nat : Same(n)}
<1>2. 0 \in S
  BY <1>1 DEF IsTaking
<1>3. ASSUME NEW n \in 0 .. Len(file) - 1, n \in S PROVE n + 1 \in S
  <2>1. n + 1 \in 1 .. Len(file) /\ (n + 1) - 1 = n /\ t[n] \in Seq(Lines) /\ Same(n)
    BY <1>0, <1>1, <1>3 DEF IsTaking, Files
  <2>2. t[n + 1] = Append(t[n], file[n + 1])
    BY <1>1, <2>1 DEF IsTaking
  <2>3. Same(n + 1)
    BY <1>0, <2>1, <2>2
  <2> QED
    BY <2>3
<1> HIDE DEF S
<1>4. \A n \in 0 .. Len(file) : n \in S
  BY <1>0, <1>2, <1>3, BoundedInduction
<1>5. Same(Len(file)) /\ t[Len(file)] \in Seq(Lines)
  BY <1>0, <1>1, <1>4 DEF S, IsTaking, Files
<1> QED
  BY <1>1, <1>5, SeqEqual DEF Files

-----------------------------------------------------------------------------
(* One block *)

(***************************************************************************)
(* One sequence after the other.                                           *)
(***************************************************************************)
LEMMA SequencesJoined ==
  ASSUME NEW S, NEW s \in Seq(S), NEW t \in Seq(S)
  PROVE  /\ s \o t \in Seq(S)
         /\ Len(s) \in Nat /\ Len(t) \in Nat
         /\ Len(s \o t) = Len(s) + Len(t)
         /\ \A i \in 1 .. Len(s) : (s \o t)[i] = s[i]
         /\ \A i \in 1 .. Len(t) : (s \o t)[Len(s) + i] = t[i]
<1>0. Len(s) \in Nat /\ Len(t) \in Nat
  BY LenProperties
<1>1. s \o t \in Seq(S) /\ Len(s \o t) = Len(s) + Len(t)
  BY ConcatProperties
<1>2. ASSUME NEW i \in 1 .. Len(s) + Len(t)
      PROVE  (s \o t)[i] = IF i <= Len(s) THEN s[i] ELSE t[i - Len(s)]
  BY ConcatProperties
<1>3. ASSUME NEW i \in 1 .. Len(s) PROVE (s \o t)[i] = s[i]
  BY <1>0, <1>2
<1>4. ASSUME NEW i \in 1 .. Len(t) PROVE (s \o t)[Len(s) + i] = t[i]
  <2>1. Len(s) + i \in 1 .. Len(s) + Len(t) /\ ~(Len(s) + i <= Len(s)) /\ (Len(s) + i) - Len(s) = i
    BY <1>0
  <2> QED
    BY <1>2, <2>1
<1> QED
  BY <1>0, <1>1, <1>3, <1>4

(***************************************************************************)
(* One file after the other.                                               *)
(***************************************************************************)
LEMMA Joined ==
  ASSUME NEW s \in Files, NEW t \in Files
  PROVE  /\ s \o t \in Files
         /\ Len(s \o t) = Len(s) + Len(t)
         /\ \A i \in 1 .. Len(s) : (s \o t)[i] = s[i]
         /\ \A i \in 1 .. Len(t) : (s \o t)[Len(s) + i] = t[i]
<1>1. s \in Seq(Lines) /\ t \in Seq(Lines)
  BY DEF Files
<1>2. s \o t \in Seq(Lines) /\ Len(s \o t) = Len(s) + Len(t)
  BY <1>1, SequencesJoined
<1>3. \A i \in 1 .. Len(s) : (s \o t)[i] = s[i]
  BY <1>1, SequencesJoined
<1>4. \A i \in 1 .. Len(t) : (s \o t)[Len(s) + i] = t[i]
  BY <1>1, SequencesJoined
<1> QED
  BY <1>2, <1>3, <1>4 DEF Files

(***************************************************************************)
(* The block as a sequence.                                                *)
(***************************************************************************)
LEMMA BlockLines ==
  ASSUME NEW zones \in Nat
  PROVE  /\ PrivateBlock(zones) \in Files /\ Len(PrivateBlock(zones)) = zones + 2
         /\ PrivateBlock(zones)[1] = "begin" /\ PrivateBlock(zones)[zones + 2] = "end"
         /\ \A i \in 1 .. zones : PrivateBlock(zones)[1 + i] = "zone"
<1> DEFINE z == [i \in 1 .. zones |-> "zone"]
           first == <<"begin">>
           last  == <<"end">>
<1>1. /\ first \in Files /\ Len(first) = 1 /\ first[1] = "begin"
      /\ last \in Files /\ Len(last) = 1 /\ last[1] = "end"
  BY DEF Lines, Files
<1>2. z \in Files /\ Len(z) = zones /\ \A i \in 1 .. zones : z[i] = "zone"
  <2>1. z \in [1 .. zones -> Lines]
    BY DEF Lines
  <2>2. z \in Seq(Lines)
    BY <2>1, SeqDef, Zenon
  <2>3. DOMAIN z = 1 .. zones /\ DOMAIN z = 1 .. Len(z) /\ Len(z) \in Nat
    BY <2>2, LenProperties
  <2>4. Len(z) = zones
    BY <2>3
  <2> QED
    BY <2>2, <2>4 DEF Files
<1>3. PrivateBlock(zones) = (first \o z) \o last
  BY DEF PrivateBlock
<1> HIDE DEF z, first, last
<1> DEFINE most == first \o z
           all  == most \o last
<1>4. /\ most \in Files /\ Len(most) = 1 + zones
      /\ most[1] = "begin" /\ \A i \in 1 .. zones : most[1 + i] = "zone"
  <2>1. /\ most \in Files /\ Len(most) = Len(first) + Len(z)
        /\ \A i \in 1 .. Len(first) : most[i] = first[i]
        /\ \A i \in 1 .. Len(z) : most[Len(first) + i] = z[i]
    BY <1>1, <1>2, Joined
  <2> HIDE DEF most
  <2>2. Len(most) = 1 + zones /\ most[1] = "begin"
    BY <1>1, <1>2, <2>1
  <2>3. ASSUME NEW i \in 1 .. zones PROVE most[1 + i] = "zone"
    BY <1>1, <1>2, <2>1
  <2> QED
    BY <2>1, <2>2, <2>3
<1>6. /\ all \in Files /\ Len(all) = (1 + zones) + 1
      /\ \A i \in 1 .. 1 + zones : all[i] = most[i]
      /\ all[(1 + zones) + 1] = last[1]
  <2> HIDE DEF most
  <2>1. /\ all \in Files /\ Len(all) = Len(most) + Len(last)
        /\ \A i \in 1 .. Len(most) : all[i] = most[i]
        /\ \A i \in 1 .. Len(last) : all[Len(most) + i] = last[i]
    BY <1>1, <1>4, Joined
  <2> HIDE DEF all
  <2> QED
    BY <1>1, <1>4, <2>1
<1> HIDE DEF most, all
<1>7. all[1] = "begin" /\ all[zones + 2] = "end"
  BY <1>1, <1>4, <1>6
<1>8. \A i \in 1 .. zones : all[1 + i] = "zone"
  BY <1>4, <1>6
<1>9. PrivateBlock(zones) = all
  BY <1>3 DEF all, most
<1> QED
  BY <1>6, <1>7, <1>8, <1>9

(***************************************************************************)
(* No begin marker survives stripPrivateDNSBlock.                          *)
(***************************************************************************)
LEMMA StripLeavesNoBegin ==
  ASSUME NEW file \in Files
  PROVE  Strip(file) \in Files /\ \A i \in 1 .. Len(Strip(file)) : Strip(file)[i] # "begin"
<1> DEFINE keep == DOMAIN file \ Marked(file)
<1>1. Len(file) \in Nat /\ DOMAIN file = 1 .. Len(file)
  BY LenProperties DEF Files
<1>2. ASSUME NEW i \in 1 .. Len(file), i \in keep PROVE file[i] # "begin"
  BY <1>1, <1>2 DEF Marked, InBlock
<1> HIDE DEF keep
<1>3. Strip(file) = Pick(file, keep)
  BY DEF Strip, keep
<1> QED
  BY <1>2, <1>3, PickOrigin

(***************************************************************************)
(* A file without a begin marker and a block make a file with one block.   *)
(***************************************************************************)
LEMMA BlockAdded ==
  ASSUME NEW s \in Files, \A i \in 1 .. Len(s) : s[i] # "begin", NEW zones \in Nat
  PROVE  /\ s \o PrivateBlock(zones) \in Files
         /\ HasOneBlock(s \o PrivateBlock(zones), zones)
<1> DEFINE b == PrivateBlock(zones)
           w == s \o b
<1>1. b \in Files /\ Len(b) = zones + 2 /\ Len(s) \in Nat
  BY BlockLines, LenProperties DEF Files
<1> HIDE DEF b
<1>2. /\ w \in Files /\ Len(w) = Len(s) + (zones + 2)
      /\ \A i \in 1 .. Len(s) : w[i] = s[i]
  <2>1. w \in Files /\ Len(w) = Len(s) + Len(b) /\ \A i \in 1 .. Len(s) : w[i] = s[i]
    BY <1>1, Joined
  <2> HIDE DEF w
  <2> QED
    BY <1>1, <2>1
<1>3. SubSeq(w, Len(s) + 1, Len(s) + (zones + 2)) = b
  <2>1. /\ Len(s) + 1 \in Len(s) + 1 .. Len(s) + Len(b)
        /\ Len(s) + (zones + 2) \in Len(s) + 1 .. Len(s) + Len(b)
    BY <1>1
  <2>2. SubSeq(w, Len(s) + 1, Len(s) + (zones + 2))
          = SubSeq(b, (Len(s) + 1) - Len(s), (Len(s) + (zones + 2)) - Len(s))
    BY <1>1, <2>1, SubSeqOfConcat2 DEF Files
  <2>3. (Len(s) + 1) - Len(s) = 1 /\ (Len(s) + (zones + 2)) - Len(s) = Len(b)
    BY <1>1
  <2>4. SubSeq(b, 1, Len(b)) = b
    BY <1>1, SubSeqFull DEF Files
  <2> QED
    BY <2>2, <2>3, <2>4
<1> HIDE DEF w
<1>4. Len(w) - zones - 2 = Len(s)
  BY <1>1, <1>2
<1>5. SubSeq(w, (Len(w) - zones - 2) + 1, Len(w)) = PrivateBlock(zones)
  BY <1>2, <1>3, <1>4 DEF b
<1>6. HasOneBlock(w, zones)
  BY <1>1, <1>2, <1>4, <1>5 DEF HasOneBlock
<1> QED
  BY <1>2, <1>6 DEF w, b

(***************************************************************************)
(* Stripped of the block again, it is what it was.                         *)
(***************************************************************************)
LEMMA BlockTakenAway ==
  ASSUME NEW s \in Files, \A i \in 1 .. Len(s) : s[i] # "begin", NEW zones \in Nat
  PROVE  Strip(s \o PrivateBlock(zones)) = s
<1> DEFINE b == PrivateBlock(zones)
           w == s \o b
           keep == DOMAIN w \ Marked(w)
<1>1. /\ b \in Files /\ Len(b) = zones + 2 /\ b[1] = "begin" /\ Len(s) \in Nat
      /\ \A i \in 1 .. zones : b[1 + i] = "zone"
  BY BlockLines, LenProperties DEF Files
<1> HIDE DEF b
<1>2. /\ w \in Files /\ Len(w) = Len(s) + (zones + 2)
      /\ \A i \in 1 .. Len(s) : w[i] = s[i]
      /\ \A i \in 1 .. zones + 2 : w[Len(s) + i] = b[i]
  <2>1. /\ w \in Files /\ Len(w) = Len(s) + Len(b) /\ \A i \in 1 .. Len(s) : w[i] = s[i]
        /\ \A i \in 1 .. Len(b) : w[Len(s) + i] = b[i]
    BY <1>1, Joined
  <2> HIDE DEF w
  <2> QED
    BY <1>1, <2>1
<1> HIDE DEF w
<1>3. DOMAIN w = 1 .. Len(w)
  BY <1>2, LenProperties DEF Files
<1>4. ASSUME NEW i \in 1 .. Len(s) PROVE i \in keep
  <2>1. \A j \in 1 .. i : w[j] # "begin"
    BY <1>2
  <2> QED
    BY <1>2, <1>3, <2>1 DEF Marked, InBlock
<1>5. ASSUME NEW i \in Len(s) + 1 .. Len(w) PROVE i \notin keep
  <2>1. Len(s) + 1 \in 1 .. i /\ w[Len(s) + 1] = "begin"
    BY <1>1, <1>2
  <2>2. ASSUME NEW j \in Len(s) + 1 .. i - 1 PROVE w[j] # "end"
    <3>1. CASE j = Len(s) + 1
      BY <1>1, <1>2, <3>1
    <3>2. CASE j # Len(s) + 1
      <4> DEFINE n == j - (Len(s) + 1)
      <4>1. n \in 1 .. zones /\ 1 + n \in 1 .. zones + 2 /\ j = Len(s) + (1 + n)
        BY <1>1, <1>2, <3>2
      <4> QED
        BY <1>1, <1>2, <4>1
    <3> QED
      BY <3>1, <3>2
  <2>3. InBlock(w, i)
    BY <2>1, <2>2 DEF InBlock
  <2> QED
    BY <2>3, <1>2, <1>3 DEF Marked
<1> HIDE DEF keep
<1>6. Pick(w, keep) = Pick(s, 1 .. Len(s))
  BY <1>2, <1>4, <1>5, PickBeginning
<1>7. Pick(s, 1 .. Len(s)) = s
  BY PickAll
<1>8. Strip(w) = Pick(w, keep)
  BY DEF Strip, keep
<1> QED
  BY <1>6, <1>7, <1>8 DEF w, b
-----------------------------------------------------------------------------
(* The lines of others *)

(***************************************************************************)
(* One line more.                                                          *)
(***************************************************************************)
LEMMA OthersAppend ==
  ASSUME NEW s \in Files, NEW e \in Lines
  PROVE  Others(Append(s, e)) = IF Foreign(e) THEN Append(Others(s), e) ELSE Others(s)
<1> DEFINE w == Append(s, e)
           K == {i \in DOMAIN w : Foreign(w[i])}
           L == {i \in DOMAIN s : Foreign(s[i])}
           m == Len(s)
<1>0. m \in Nat /\ DOMAIN s = 1 .. m
  BY LenProperties DEF Files
<1>1. /\ w \in Files /\ Len(w) = m + 1 /\ w[m + 1] = e
      /\ \A i \in 1 .. m : w[i] = s[i]
  BY <1>0, AppendProperties DEF Files
<1>2. DOMAIN w = 1 .. m + 1
  BY <1>1, LenProperties DEF Files
<1> HIDE DEF w
<1>3. PICK t : IsTaking(t, w, K) /\ Pick(w, K) = t[Len(w)]
  BY <1>1, PickTakes
<1>4. PICK u : IsTaking(u, s, L) /\ Pick(s, L) = u[Len(s)]
  BY PickTakes
<1>5. \A n \in 1 .. m : w[n] = s[n] /\ (n \in K <=> n \in L)
  BY <1>0, <1>1, <1>2
<1>6. m + 1 \in K <=> Foreign(e)
  BY <1>0, <1>1, <1>2
<1> HIDE DEF K, L
<1>7. t[m] = u[m]
  BY <1>0, <1>1, <1>3, <1>4, <1>5, SameTaken
<1>8. t[m + 1] = IF m + 1 \in K THEN Append(t[m], w[m + 1]) ELSE t[m]
  <2>1. m + 1 \in 1 .. Len(w) /\ (m + 1) - 1 = m
    BY <1>0, <1>1
  <2> QED
    BY <1>3, <2>1 DEF IsTaking
<1>9. Others(w) = t[m + 1] /\ Others(s) = u[m]
  BY <1>1, <1>3, <1>4 DEF Others, K, L
<1> QED
  BY <1>1, <1>6, <1>7, <1>8, <1>9 DEF w

(***************************************************************************)
(* Of what was picked, the lines of others are those that were.            *)
(***************************************************************************)
LEMMA OthersOfPick ==
  ASSUME NEW file \in Files, NEW keep
  PROVE  Others(Pick(file, keep)) = Pick(file, {i \in keep : Foreign(file[i])})
<1> DEFINE L == {i \in keep : Foreign(file[i])}
<1>0. Len(file) \in Nat /\ \A n \in 1 .. Len(file) : file[n] \in Lines
  BY LenProperties, ElementOfSeq DEF Files
<1>1. PICK t : IsTaking(t, file, keep) /\ Pick(file, keep) = t[Len(file)]
  BY PickTakes
<1>2. PICK u : IsTaking(u, file, L) /\ Pick(file, L) = u[Len(file)]
  BY PickTakes
<1> DEFINE S == {n \in Nat : Others(t[n]) = u[n]}
<1>3. 0 \in S
  <2>1. t[0] = << >> /\ u[0] = << >>
    BY <1>1, <1>2 DEF IsTaking
  <2>2. << >> \in Files /\ 1 .. Len(<< >>) = {}
    BY DEF Files
  <2>3. \A k : Pick(<< >>, k) = << >>
    BY <2>2, PickAll
  <2> QED
    BY <2>1, <2>3 DEF Others
<1>4. ASSUME NEW n \in 0 .. Len(file) - 1, n \in S PROVE n + 1 \in S
  <2>1. n + 1 \in 1 .. Len(file) /\ (n + 1) - 1 = n /\ n \in 0 .. Len(file)
    BY <1>0
  <2>2. t[n] \in Files /\ file[n + 1] \in Lines /\ Others(t[n]) = u[n]
    BY <1>0, <1>1, <1>4, <2>1 DEF IsTaking
  <2>3. /\ t[n + 1] = IF n + 1 \in keep THEN Append(t[n], file[n + 1]) ELSE t[n]
        /\ u[n + 1] = IF n + 1 \in L THEN Append(u[n], file[n + 1]) ELSE u[n]
    BY <1>1, <1>2, <2>1 DEF IsTaking
  <2>4. Others(Append(t[n], file[n + 1]))
          = IF Foreign(file[n + 1]) THEN Append(Others(t[n]), file[n + 1]) ELSE Others(t[n])
    BY <2>2, OthersAppend
  <2>5. Others(t[n + 1]) = u[n + 1]
    BY <2>2, <2>3, <2>4
  <2> QED
    BY <2>1, <2>5
<1> HIDE DEF S, L
<1>5. \A n \in 0 .. Len(file) : n \in S
  BY <1>0, <1>3, <1>4, BoundedInduction
<1>6. Others(t[Len(file)]) = u[Len(file)]
  BY <1>0, <1>5 DEF S
<1> QED
  BY <1>1, <1>2, <1>6 DEF L

\* The equation by which Open is defined, at n.
Opening(o, n, file) ==
  IF n = 0 \/ file[n] = "end" THEN FALSE ELSE o[n - 1] \/ file[n] = "begin"

\* A block is open after line n.
IsOpen(file, n) == \E b \in 1 .. n : file[b] = "begin" /\ \A j \in b .. n : file[j] # "end"

(***************************************************************************)
(* IsOpen fits the equation by which Open is defined.                      *)
(***************************************************************************)
LEMMA OpeningExists ==
  ASSUME NEW file, NEW m \in Nat
  PROVE  LET o == [n \in 0 .. m |-> IsOpen(file, n)]
         IN  o = [n \in 0 .. m |-> Opening(o, n, file)]
<1> DEFINE o == [n \in 0 .. m |-> IsOpen(file, n)]
<1>1. ASSUME NEW n \in 0 .. m PROVE IsOpen(file, n) = Opening(o, n, file)
  <2>1. CASE n = 0
    BY <2>1 DEF IsOpen, Opening
  <2>2. CASE n # 0 /\ file[n] = "end"
    BY <2>2 DEF IsOpen, Opening
  <2>3. CASE n # 0 /\ file[n] # "end"
    <3>1. n - 1 \in 0 .. m /\ n - 1 \in Nat /\ o[n - 1] = IsOpen(file, n - 1)
      BY <2>3
    <3>2. IsOpen(file, n) <=> IsOpen(file, n - 1) \/ file[n] = "begin"
      BY <2>3 DEF IsOpen
    <3>3. Opening(o, n, file) = (IsOpen(file, n - 1) \/ file[n] = "begin")
      BY <2>3, <3>1 DEF Opening
    <3>4. IsOpen(file, n) \in BOOLEAN
      BY DEF IsOpen
    <3> QED
      BY <3>2, <3>3, <3>4
  <2> QED
    BY <2>1, <2>2, <2>3
<1> HIDE DEF o
<1>2. [n \in 0 .. m |-> IsOpen(file, n)] = [n \in 0 .. m |-> Opening(o, n, file)]
  BY <1>1
<1> QED
  BY <1>2 DEF o

(***************************************************************************)
(* Any function that fits it says IsOpen.                                  *)
(***************************************************************************)
LEMMA OpeningUnique ==
  ASSUME NEW file, NEW m \in Nat, NEW o, o = [n \in 0 .. m |-> Opening(o, n, file)]
  PROVE  \A n \in 0 .. m : o[n] = IsOpen(file, n)
<1> DEFINE p == [n \in 0 .. m |-> IsOpen(file, n)]
           S == {n \in Nat : o[n] = p[n]}
<1>1. p = [n \in 0 .. m |-> Opening(p, n, file)]
  BY OpeningExists
<1> HIDE DEF p
<1>2. \A n \in 0 .. m : o[n] = Opening(o, n, file) /\ p[n] = Opening(p, n, file)
  BY <1>1
<1>3. 0 \in S
  <2>1. 0 \in Nat /\ 0 \in 0 .. m
    OBVIOUS
  <2>2. Opening(o, 0, file) = FALSE /\ Opening(p, 0, file) = FALSE
    BY DEF Opening
  <2>3. o[0] = p[0]
    BY <1>2, <2>1, <2>2, Zenon
  <2> QED
    BY <2>1, <2>3, Zenon
<1>4. ASSUME NEW n \in 0 .. m - 1, n \in S PROVE n + 1 \in S
  <2>1. n + 1 \in 0 .. m /\ (n + 1) - 1 = n /\ n + 1 # 0 /\ o[n] = p[n]
    BY <1>4
  <2>2. Opening(o, n + 1, file) = Opening(p, n + 1, file)
    BY <2>1 DEF Opening
  <2> QED
    BY <1>2, <2>1, <2>2
<1> HIDE DEF S
<1>5. \A n \in 0 .. m : n \in S
  BY <1>3, <1>4, BoundedInduction
<1> QED
  BY <1>5 DEF S, p

(***************************************************************************)
(* Open, from its beginning to the line.                                   *)
(***************************************************************************)
LEMMA OpenMeans ==
  ASSUME NEW file \in Files
  PROVE  \A n \in 0 .. Len(file) : Open(file)[n] = IsOpen(file, n)
<1>0. Len(file) \in Nat
  BY LenProperties DEF Files
<1>1. PICK o : o = CHOOSE u : u = [n \in 0 .. Len(file) |-> Opening(u, n, file)]
  OBVIOUS
<1>2. Open(file) = o
  BY <1>1 DEF Open, Opening
<1>3. \E u : u = [n \in 0 .. Len(file) |-> Opening(u, n, file)]
  <2> DEFINE p == [n \in 0 .. Len(file) |-> IsOpen(file, n)]
  <2>1. p = [n \in 0 .. Len(file) |-> Opening(p, n, file)]
    BY <1>0, OpeningExists
  <2> HIDE DEF p
  <2> QED
    BY <2>1, Zenon
<1>4. o = [n \in 0 .. Len(file) |-> Opening(o, n, file)]
  BY <1>1, <1>3, Zenon
<1> QED
  BY <1>0, <1>2, <1>4, OpeningUnique

-----------------------------------------------------------------------------
(***************************************************************************)
(* applyPrivateDNSToCorefile, for any Corefile and at least one zone: one  *)
(* block, the lines of others in their order, and nothing to change the    *)
(* second time.                                                            *)
(***************************************************************************)
THEOREM PrivateZonesWritten ==
  ASSUME NEW file \in Files, NEW zones \in Nat \ {0}
  PROVE  /\ WithPrivateZones(file, zones) \in Files
         /\ HasOneBlock(WithPrivateZones(file, zones), zones)
         /\ KeepsOthers(file, WithPrivateZones(file, zones))
         /\ WithPrivateZones(WithPrivateZones(file, zones), zones) = WithPrivateZones(file, zones)
<1> DEFINE s == Strip(file)
           b == PrivateBlock(zones)
           w == s \o b
<1>0. Len(file) \in Nat /\ DOMAIN file = 1 .. Len(file)
  BY LenProperties DEF Files
<1>1. s \in Files /\ \A i \in 1 .. Len(s) : s[i] # "begin"
  BY StripLeavesNoBegin
<1>2. WithPrivateZones(file, zones) = w
  BY DEF WithPrivateZones
<1> HIDE DEF s
<1>3. w \in Files /\ HasOneBlock(w, zones)
  BY <1>1, BlockAdded
<1>4. WithPrivateZones(w, zones) = w
  <2>1. Strip(w) = s
    BY <1>1, BlockTakenAway
  <2> QED
    BY <2>1 DEF WithPrivateZones
<1>5. Others(w) = Others(s)
  <2>1. /\ b \in Files /\ Len(b) = zones + 2 /\ b[1] = "begin" /\ b[zones + 2] = "end"
        /\ \A i \in 1 .. zones : b[1 + i] = "zone"
    BY BlockLines
  <2> HIDE DEF b
  <2>2. ASSUME NEW i \in 1 .. Len(b) PROVE ~Foreign(b[i])
    <3>1. CASE i = 1 \/ i = zones + 2
      BY <2>1, <3>1 DEF Foreign
    <3>2. CASE i # 1 /\ i # zones + 2
      <4>1. i - 1 \in 1 .. zones /\ 1 + (i - 1) = i
        BY <2>1, <3>2
      <4> QED
        BY <2>1, <4>1 DEF Foreign
    <3> QED
      BY <3>1, <3>2
  <2>3. /\ Len(w) = Len(s) + Len(b) /\ \A i \in 1 .. Len(s) : w[i] = s[i]
        /\ \A i \in 1 .. Len(b) : w[Len(s) + i] = b[i]
    BY <1>1, <2>1, Joined
  <2>4. Len(s) \in Nat /\ Len(b) \in Nat /\ DOMAIN s = 1 .. Len(s) /\ DOMAIN w = 1 .. Len(w)
    BY <1>1, <1>3, <2>1, LenProperties DEF Files
  <2> HIDE DEF w
  <2>5. ASSUME NEW n \in Len(s) + 1 .. Len(w) PROVE ~Foreign(w[n])
    <3>1. n - Len(s) \in 1 .. Len(b) /\ Len(s) + (n - Len(s)) = n
      BY <2>3, <2>4
    <3> QED
      BY <2>2, <2>3, <3>1
  <2> DEFINE K == {i \in DOMAIN w : Foreign(w[i])}
             L == {i \in DOMAIN s : Foreign(s[i])}
  <2>6. \A n \in 1 .. Len(s) : w[n] = s[n] /\ (n \in K <=> n \in L)
    BY <2>3, <2>4
  <2>7. \A n \in Len(s) + 1 .. Len(w) : n \notin K
    BY <2>5
  <2>8. Len(s) <= Len(w)
    BY <2>3, <2>4
  <2> HIDE DEF K, L
  <2>9. Pick(w, K) = Pick(s, L)
    BY <1>1, <1>3, <2>6, <2>7, <2>8, PickBeginning
  <2> QED
    BY <2>9 DEF Others, K, L
<1>6. Others(s) = Pick(file, {i \in DOMAIN file : Foreign(file[i]) /\ ~Open(file)[i]})
  <2> DEFINE K == {i \in DOMAIN file \ Marked(file) : Foreign(file[i])}
             L == {i \in DOMAIN file : Foreign(file[i]) /\ ~Open(file)[i]}
  <2>1. Others(s) = Pick(file, K)
    BY OthersOfPick DEF s, Strip
  <2>2. ASSUME NEW n \in 1 .. Len(file), Foreign(file[n])
        PROVE  InBlock(file, n) <=> Open(file)[n]
    <3>1. n \in 0 .. Len(file) /\ file[n] # "end"
      BY <1>0, <2>2 DEF Foreign
    <3>2. InBlock(file, n) <=> IsOpen(file, n)
      BY <1>0, <3>1 DEF InBlock, IsOpen
    <3> QED
      BY <3>1, <3>2, OpenMeans
  <2>3. \A n \in 1 .. Len(file) : n \in K <=> n \in L
    BY <1>0, <2>2 DEF Marked
  <2>4. Len(file) <= Len(file) /\ Len(file) + 1 .. Len(file) = {}
    BY <1>0
  <2> HIDE DEF K, L
  <2>5. Pick(file, K) = Pick(file, L)
    BY <2>3, <2>4, PickBeginning
  <2> QED
    BY <2>1, <2>5 DEF L
<1> QED
  BY <1>2, <1>3, <1>4, <1>5, <1>6 DEF KeepsOthers
==============================================================================
