-------------------------- MODULE TaskManagerProofs --------------------------
(***************************************************************************)
(* Proofs about TaskManager for every value of its constants: the typing   *)
(* invariant, the identity of tasks, the order of the list, what is in the *)
(* file, and that the promise of Schedule is kept over every crash and     *)
(* every failed save.                                                      *)
(***************************************************************************)
EXTENDS TaskManager, SequenceTheorems, FiniteSetTheorems, WellFoundedInduction, TLAPS

-----------------------------------------------------------------------------
(* Induction.  The rule of the library takes the property as an operator;  *)
(* here it is the set of the numbers that have it, and the rule follows    *)
(* from the order of the naturals being well-founded.                      *)

(* A nonempty set of naturals has a least element.                         *)
LEMMA LeastNatural ==
    ASSUME NEW T, T \subseteq Nat, T # {}
    PROVE  \E n \in T : \A m \in T : n <= m
<1>. DEFINE R == OpToRel(<, Nat)
<1>1. IsWellFoundedOn(R, Nat)
    BY NatLessThanWellFounded
<1>2. \A m, n \in Nat : m < n => <<m, n>> \in R
    BY DEF OpToRel
<1>. HIDE DEF R
<1>3. PICK n \in T : \A m \in T : ~(<<m, n>> \in R)
    BY <1>1, WFMin
<1>4. \A m \in T : n <= m
    <2>. SUFFICES ASSUME NEW m \in T, m < n
                  PROVE  FALSE
        OBVIOUS
    <2>. QED  BY <1>2, <1>3
<1>. QED  BY <1>4

(* A set with 0 and with the successor of each of its numbers has all.    *)
LEMMA Induct ==
    ASSUME NEW S, 0 \in S, \A n \in Nat : n \in S => n + 1 \in S
    PROVE  Nat \subseteq S
<1>. SUFFICES ASSUME Nat \ S # {}
              PROVE  FALSE
    OBVIOUS
<1>1. PICK n \in Nat \ S : \A m \in Nat \ S : n <= m
    BY LeastNatural
<1>2. n # 0 /\ n - 1 \in Nat
    BY <1>1
<1>3. n - 1 \in S
    BY <1>1, <1>2
<1>. QED BY <1>1, <1>2, <1>3

-----------------------------------------------------------------------------
(* Sequences of sequences, the posted calls of ReminderThread and the rows *)
(* of MainWindow: what FlattenSeq, which the library defines recursively,  *)
(* makes of them, as a whole and at either end.                            *)

(* The sequences flattened so far, which FlattenSeq defines recursively.   *)
Flattens(f, q) == f = [i \in 1..Len(q) |-> IF i = 1 THEN q[i] ELSE f[i - 1] \o q[i]]

(* The recursion can be carried out to the end of the sequence.            *)
LEMMA FlattensExists ==
    ASSUME NEW S, NEW q \in Seq(Seq(S))
    PROVE  \E f : Flattens(f, q)
<1>. DEFINE G(n) == {g \in [1..n -> Seq(S)] : \A i \in 1..n : g[i] = IF i = 1 THEN q[i] ELSE g[i - 1] \o q[i]}
<1>. DEFINE T == {n \in Nat : n <= Len(q) => G(n) # {}}
<1>0. Len(q) \in Nat /\ \A i \in 1..Len(q) : q[i] \in Seq(S)
    OBVIOUS
<1>1. G(0) # {}
    <2>. DEFINE e == [i \in 1..0 |-> <<>>]
    <2>1. e \in G(0)
        OBVIOUS
    <2>. QED  BY <2>1
<1>2. ASSUME NEW n \in Nat, n + 1 <= Len(q), G(n) # {}
      PROVE  G(n + 1) # {}
    <2>1. PICK g \in [1..n -> Seq(S)] : \A i \in 1..n : g[i] = IF i = 1 THEN q[i] ELSE g[i - 1] \o q[i]
        BY <1>2
    <2>. DEFINE last == IF n = 0 THEN q[n + 1] ELSE g[n] \o q[n + 1]
    <2>2. last \in Seq(S)
        BY <1>0, <1>2, <2>1, ConcatProperties
    <2>. DEFINE h == [i \in 1..(n + 1) |-> IF i <= n THEN g[i] ELSE last]
    <2>3. h \in [1..(n + 1) -> Seq(S)]
        BY <2>1, <2>2
    <2>4. \A i \in 1..n : i \in 1..(n + 1) /\ h[i] = g[i] /\ (i # 1 => i - 1 \in 1..n /\ h[i - 1] = g[i - 1])
        OBVIOUS
    <2>5. h[n + 1] = last /\ (n # 0 => h[n] = g[n])
        OBVIOUS
    <2>. HIDE DEF h
    <2>6. ASSUME NEW i \in 1..(n + 1)
          PROVE  h[i] = IF i = 1 THEN q[i] ELSE h[i - 1] \o q[i]
        <3>1. CASE i \in 1..n
            BY <2>1, <2>4, <3>1
        <3>2. CASE i = n + 1
            BY <2>5, <3>2
        <3>. QED  BY <3>1, <3>2
    <2>. QED  BY <2>3, <2>6
<1>. HIDE DEF G
<1>3. Len(q) \in T
    <2>1. 0 \in T
        BY <1>1
    <2>2. \A n \in Nat : n \in T => n + 1 \in T
        BY <1>0, <1>2
    <2>. HIDE DEF T
    <2>. QED  BY <1>0, <2>1, <2>2, Induct
<1>4. PICK f \in G(Len(q)) : TRUE
    BY <1>0, <1>3 DEF G
<1>5. Flattens(f, q)
    BY <1>4 DEF Flattens, G
<1>. QED  BY <1>5

(* So FlattenSeq, which chooses it, is its last element.                   *)
LEMMA FlattenIsLast ==
    ASSUME NEW S, NEW q \in Seq(Seq(S)), q # <<>>
    PROVE  \E f : Flattens(f, q) /\ FlattenSeq(q) = f[Len(q)]
<1>. DEFINE F == CHOOSE f : Flattens(f, q)
<1>1. Flattens(F, q)
    BY FlattensExists
<1>2. FlattenSeq(q) = F[Len(q)]
    BY EmptySeq DEF FlattenSeq, Flattens
<1>. QED  BY <1>1, <1>2

(* Its elements one by one, and their type.                                *)
LEMMA FlattensStep ==
    ASSUME NEW q, Len(q) \in Nat, NEW f, Flattens(f, q), NEW n \in Nat, n + 1 \in 1..Len(q)
    PROVE  f[n + 1] = IF n = 0 THEN q[n + 1] ELSE f[n] \o q[n + 1]
<1>1. (n + 1) - 1 = n /\ (n + 1 = 1 <=> n = 0)
    OBVIOUS
<1>2. f[n + 1] = IF n + 1 = 1 THEN q[n + 1] ELSE f[(n + 1) - 1] \o q[n + 1]
    <2>. DEFINE i == n + 1
    <2>. HIDE DEF i
    <2>1. i \in 1..Len(q) => f[i] = IF i = 1 THEN q[i] ELSE f[i - 1] \o q[i]
        BY DEF Flattens
    <2>. QED  BY <2>1 DEF i
<1>. QED  BY <1>1, <1>2

LEMMA FlattensType ==
    ASSUME NEW S, NEW q \in Seq(Seq(S)), NEW f, Flattens(f, q)
    PROVE  \A i \in 1..Len(q) : f[i] \in Seq(S)
<1>. DEFINE T == {i \in Nat : i \in 1..Len(q) => f[i] \in Seq(S)}
<1>1. 0 \in T
    OBVIOUS
<1>2. ASSUME NEW n \in Nat, n \in T
      PROVE  n + 1 \in T
    <2>. SUFFICES ASSUME n + 1 \in 1..Len(q)
                  PROVE  f[n + 1] \in Seq(S)
        OBVIOUS
    <2>1. f[n + 1] = IF n = 0 THEN q[n + 1] ELSE f[n] \o q[n + 1]
        BY FlattensStep
    <2>2. q[n + 1] \in Seq(S)
        BY ElementOfSeq
    <2>3. n # 0 => f[n] \in Seq(S)
        BY <1>2
    <2>. QED  BY <2>1, <2>2, <2>3, ConcatProperties
<1>. HIDE DEF T
<1>3. Nat \subseteq T
    BY <1>1, <1>2, Induct
<1>. QED  BY <1>3 DEF T

(* FlattenSeq of no sequence, with one more at the end, with one less at   *)
(* the front.                                                              *)
LEMMA FlattenEmpty == FlattenSeq(<<>>) = <<>>
BY DEF FlattenSeq

LEMMA FlattenType ==
    ASSUME NEW S, NEW q \in Seq(Seq(S))
    PROVE  FlattenSeq(q) \in Seq(S)
<1>1. CASE q = <<>>
    BY <1>1, FlattenEmpty, EmptySeq
<1>2. CASE q # <<>>
    <2>1. PICK f : Flattens(f, q) /\ FlattenSeq(q) = f[Len(q)]
        BY <1>2, FlattenIsLast
    <2>2. Len(q) \in 1..Len(q)
        BY <1>2, EmptySeq
    <2>. QED  BY <2>1, <2>2, FlattensType
<1>. QED  BY <1>1, <1>2

LEMMA FlattenAppend ==
    ASSUME NEW S, NEW q \in Seq(Seq(S)), NEW s \in Seq(S)
    PROVE  FlattenSeq(Append(q, s)) = FlattenSeq(q) \o s
<1>. DEFINE r == Append(q, s)
<1>1. /\ r \in Seq(Seq(S)) /\ Len(r) = Len(q) + 1 /\ r # <<>>
      /\ r[Len(r)] = s /\ \A i \in 1..Len(q) : r[i] = q[i]
    BY AppendProperties
<1>. HIDE DEF r
<1>2. PICK g : Flattens(g, r) /\ FlattenSeq(r) = g[Len(r)]
    BY <1>1, FlattenIsLast
<1>3. CASE q = <<>>
    <2>1. Len(r) = 1
        BY <1>1, <1>3
    <2>2. FlattenSeq(r) = s
        <3>1. 0 \in Nat /\ 0 + 1 \in 1..Len(r) /\ Len(r) \in Nat
            BY <2>1
        <3>2. g[0 + 1] = r[0 + 1]
            BY <1>2, <3>1, FlattensStep
        <3>. QED  BY <1>1, <1>2, <2>1, <3>2
    <2>. QED  BY <1>3, <2>2, FlattenEmpty, ConcatEmptySeq DEF r
<1>4. CASE q # <<>>
    <2>0. Len(q) \in Nat /\ Len(q) # 0
        BY <1>4, EmptySeq
    <2>1. PICK f : Flattens(f, q) /\ FlattenSeq(q) = f[Len(q)]
        BY <1>4, FlattenIsLast
    <2>. DEFINE T == {i \in Nat : i \in 1..Len(q) => g[i] = f[i]}
    <2>2. 0 \in T
        OBVIOUS
    <2>3. ASSUME NEW n \in Nat, n \in T
          PROVE  n + 1 \in T
        <3>. SUFFICES ASSUME n + 1 \in 1..Len(q)
                      PROVE  g[n + 1] = f[n + 1]
            OBVIOUS
        <3>1. g[n + 1] = IF n = 0 THEN r[n + 1] ELSE g[n] \o r[n + 1]
            <4>1. Len(r) \in Nat /\ n + 1 \in 1..Len(r)
                BY <1>1, <2>0
            <4>. QED  BY <1>2, <4>1, FlattensStep
        <3>2. f[n + 1] = IF n = 0 THEN q[n + 1] ELSE f[n] \o q[n + 1]
            BY <2>0, <2>1, FlattensStep
        <3>3. n # 0 => g[n] = f[n]
            BY <2>3
        <3>. QED  BY <1>1, <3>1, <3>2, <3>3
    <2>. HIDE DEF T
    <2>4. Nat \subseteq T
        BY <2>2, <2>3, Induct
    <2>5. g[Len(q)] = f[Len(q)]
        BY <2>0, <2>4 DEF T
    <2>6. g[Len(r)] = g[Len(q)] \o s
        <3>1. Len(r) \in Nat /\ Len(q) + 1 \in 1..Len(r)
            BY <1>1, <2>0
        <3>. QED  BY <1>1, <1>2, <2>0, <3>1, FlattensStep
    <2>. QED  BY <1>2, <2>1, <2>5, <2>6 DEF r
<1>. QED  BY <1>3, <1>4

LEMMA FlattenHead ==
    ASSUME NEW S, NEW q \in Seq(Seq(S)), q # <<>>
    PROVE  FlattenSeq(q) = Head(q) \o FlattenSeq(Tail(q))
<1>. DEFINE h == Head(q)  t == Tail(q)
<1>1. /\ h \in Seq(S) /\ t \in Seq(Seq(S)) /\ Len(q) \in Nat \ {0}
      /\ q[1] = h /\ Len(t) = Len(q) - 1 /\ \A i \in 1..Len(t) : t[i] = q[i + 1]
    BY HeadTailProperties, EmptySeq
<1>. HIDE DEF h, t
<1>2. PICK f : Flattens(f, q) /\ FlattenSeq(q) = f[Len(q)]
    BY FlattenIsLast
<1>3. CASE t = <<>>
    <2>1. Len(q) = 1
        BY <1>1, <1>3, EmptySeq
    <2>2. FlattenSeq(q) = h
        BY <1>1, <1>2, <2>1 DEF Flattens
    <2>. QED  BY <1>1, <1>3, <2>2, FlattenEmpty, ConcatEmptySeq DEF h, t
<1>4. CASE t # <<>>
    <2>0. Len(t) \in Nat /\ Len(t) # 0
        BY <1>1, <1>4, EmptySeq
    <2>1. PICK g : Flattens(g, t) /\ FlattenSeq(t) = g[Len(t)]
        BY <1>1, <1>4, FlattenIsLast
    <2>. DEFINE T == {i \in Nat : i \in 1..Len(t) => f[i + 1] = h \o g[i]}
    <2>2. 0 \in T
        OBVIOUS
    <2>3. ASSUME NEW n \in Nat, n \in T
          PROVE  n + 1 \in T
        <3>. DEFINE m == n + 1
        <3>. SUFFICES ASSUME m \in 1..Len(t)
                      PROVE  f[m + 1] = h \o g[m]
            OBVIOUS
        <3>0. m \in Nat /\ m # 0 /\ m + 1 \in 1..Len(q) /\ Len(q) \in Nat
            BY <1>1
        <3>1. g[m] = IF n = 0 THEN t[m] ELSE g[n] \o t[m]
            BY <2>0, <2>1, FlattensStep
        <3>. HIDE DEF m
        <3>2. f[m + 1] = f[m] \o q[m + 1]
            BY <1>2, <3>0, FlattensStep
        <3>3. t[m] = q[m + 1] /\ t[m] \in Seq(S)
            BY <1>1, ElementOfSeq
        <3>4. CASE n = 0
            <4>1. m = 1
                BY <3>4 DEF m
            <4>2. f[0 + 1] = q[0 + 1]
                BY <1>1, <1>2, FlattensStep
            <4>3. f[m] = h
                BY <1>1, <4>1, <4>2
            <4>4. g[m] = t[m]
                BY <3>1, <3>4
            <4>. QED  BY <3>2, <3>3, <4>3, <4>4
        <3>5. CASE n # 0
            <4>1. n \in 1..Len(t)
                BY <3>5, <2>0 DEF m
            <4>2. g[n] \in Seq(S)
                BY <1>1, <2>1, <4>1, FlattensType
            <4>3. f[m] = h \o g[n]
                BY <2>3, <4>1 DEF m
            <4>4. (h \o g[n]) \o t[m] = h \o (g[n] \o t[m])
                <5>1. h \in Seq(S) /\ t[m] \in Seq(S)
                    BY <1>1, <3>3
                <5>. DEFINE x == g[n]  y == t[m]
                <5>2. x \in Seq(S) /\ y \in Seq(S)
                    BY <4>2, <5>1
                <5>. HIDE DEF x, y
                <5>3. (h \o x) \o y = h \o (x \o y)
                    BY <5>1, <5>2, ConcatAssociative, SMTT(30)
                <5>. QED  BY <5>3 DEF x, y
            <4>. QED  BY <3>1, <3>2, <3>3, <3>5, <4>3, <4>4
        <3>. QED  BY <3>4, <3>5
    <2>. HIDE DEF T
    <2>4. Nat \subseteq T
        BY <2>2, <2>3, Induct
    <2>5. f[Len(t) + 1] = h \o g[Len(t)]
        BY <2>0, <2>4 DEF T
    <2>6. Len(t) + 1 = Len(q)
        BY <1>1
    <2>7. FlattenSeq(q) = h \o FlattenSeq(t)
        BY <1>2, <2>1, <2>5, <2>6
    <2>. QED  BY <2>7 DEF h, t
<1>. QED  BY <1>3, <1>4

-----------------------------------------------------------------------------
(* The lines of the file.                                                  *)

(* A name, typed or read, is a nonempty sequence of pieces.                *)
LEMMA NamesArePieces ==
    ASSUME NEW n \in TaskNames
    PROVE  n \in Seq(Pieces) /\ n # <<>>
  <1>1. CASE n \in Names
    BY <1>1, NamesAssumption
  <1>2. CASE n \in {<<p>> : p \in Pieces}
    <2>1. PICK p \in Pieces : n = <<p>>
      BY <1>2
    <2>2. <<p>> \in Seq(Pieces) /\ Len(<<p>>) = 1
      OBVIOUS
    <2> QED BY <2>1, <2>2, EmptySeq
  <1> QED BY <1>1, <1>2 DEF TaskNames

(* Serialize writes the id first, then the pieces of the name, then the    *)
(* two times (task.cpp 38-55).                                             *)
LEMMA SerializeFields ==
    ASSUME NEW t \in Tasks
    PROVE  /\ Serialize(t) \in Seq(Fields)
           /\ Len(Serialize(t)) = Len(t.name) + 3
           /\ Len(t.name) \in Nat \ {0}
           /\ Serialize(t)[1] = t.id
           /\ \A k \in 1..Len(t.name) : Serialize(t)[k + 1] = t.name[k]
           /\ Serialize(t)[Len(t.name) + 2] = t.start
           /\ Serialize(t)[Len(t.name) + 3] = t.remind
  <1> DEFINE front == <<t.id>> \o t.name
             back  == <<t.start, t.remind>>
  <1>1. t.id \in Fields /\ t.start \in Fields /\ t.remind \in Fields
    BY TimesAssumption DEF Tasks, Fields
  <1>2. t.name \in Seq(Pieces) /\ t.name # <<>>
    BY NamesArePieces DEF Tasks
  <1>3. t.name \in Seq(Fields) /\ Len(t.name) \in Nat \ {0}
    BY <1>2, SeqMonotonic, LenProperties, EmptySeq DEF Fields
  <1>4. <<t.id>> \in Seq(Fields) /\ back \in Seq(Fields)
    BY <1>1
  <1>5. /\ front \in Seq(Fields)
        /\ Len(front) = Len(t.name) + 1
        /\ front[1] = t.id
        /\ \A k \in 1..Len(t.name) : front[k + 1] = t.name[k]
    BY <1>3, <1>4, ConcatProperties
  <1>0. Len(back) = 2 /\ back[1] = t.start /\ back[2] = t.remind
    OBVIOUS
  <1> HIDE DEF front, back
  <1>6. /\ front \o back \in Seq(Fields)
        /\ Len(front \o back) = Len(t.name) + 3
        /\ \A k \in 1..(Len(t.name) + 1) : (front \o back)[k] = front[k]
        /\ (front \o back)[Len(t.name) + 2] = t.start
        /\ (front \o back)[Len(t.name) + 3] = t.remind
    <2>1. Len(front) \in Nat /\ Len(back) \in Nat
      BY <1>4, <1>5, LenProperties
    <2>2. /\ front \o back \in Seq(Fields)
          /\ Len(front \o back) = Len(front) + Len(back)
          /\ \A k \in 1..(Len(front) + Len(back)) :
                (front \o back)[k] = IF k <= Len(front) THEN front[k]
                                     ELSE back[k - Len(front)]
      BY <1>4, <1>5, ConcatProperties
    <2>3. (front \o back)[Len(front) + 1] = back[1] /\ (front \o back)[Len(front) + 2] = back[2]
      BY <1>0, <2>1, <2>2
    <2> QED BY <1>3, <1>0, <1>5, <2>1, <2>2, <2>3
  <1>7. Serialize(t) = front \o back
    BY DEF Serialize, front, back
  <1> QED BY <1>3, <1>5, <1>6, <1>7

(* A line that serialize wrote is accepted exactly when the name holds no  *)
(* '|', and then gives back the same task (task.cpp 61-91).                *)
LEMMA RoundTrip ==
    ASSUME NEW t \in Tasks
    PROVE  /\ Parses(Serialize(t)) <=> Len(t.name) = 1
           /\ Parses(Serialize(t)) => Deserialize(Serialize(t)) = t
  <1>1. Parses(Serialize(t)) <=> Len(t.name) = 1
    <2> DEFINE line == Serialize(t)
               n    == Len(t.name)
    <2>1. Len(line) = n + 3 /\ n \in Nat
      BY SerializeFields
    <2>2. Parses(line) <=> Len(line) = 4
      BY DEF Parses, FieldCount
    <2> HIDE DEF line, n
    <2>3. Parses(line) <=> n = 1
      BY <2>1, <2>2
    <2> QED BY <2>3 DEF line, n
  <1>2. ASSUME Len(t.name) = 1
        PROVE  Deserialize(Serialize(t)) = t
    <2>1. t.name \in Seq(Pieces)
      BY NamesArePieces DEF Tasks
    <2>2. /\ Serialize(t)[1] = t.id
          /\ Serialize(t)[2] = t.name[1]
          /\ Serialize(t)[3] = t.start
          /\ Serialize(t)[4] = t.remind
      <3> DEFINE line == Serialize(t)
                 name == t.name
      <3>1. /\ line[1] = t.id
            /\ \A k \in 1..Len(name) : line[k + 1] = name[k]
            /\ line[Len(name) + 2] = t.start
            /\ line[Len(name) + 3] = t.remind
        BY SerializeFields
      <3>2. Len(name) = 1
        BY <1>2
      <3> HIDE DEF line, name
      <3>3. line[2] = name[1] /\ line[3] = t.start /\ line[4] = t.remind
        BY <3>1, <3>2
      <3> QED BY <3>1, <3>3 DEF line, name
    <2>3. t.name = <<t.name[1]>>
      BY <1>2, <2>1
    <2> QED BY <2>2, <2>3 DEF Deserialize, Tasks
  <1> QED BY <1>1, <1>2

(* A whole line never makes stoi throw.                                    *)
LEMMA WholeLineIsRead ==
    ASSUME NEW t \in Tasks
    PROVE  ~Throws(Serialize(t))
  <1> SUFFICES ASSUME Parses(Serialize(t))
               PROVE  {Serialize(t)[3], Serialize(t)[4]} \subseteq Times
    BY DEF Throws
  <1>1. Len(t.name) = 1
    BY RoundTrip
  <1>2. Serialize(t)[3] = t.start /\ Serialize(t)[4] = t.remind
    BY <1>1, SerializeFields
  <1> QED BY <1>2 DEF Tasks

(* A torn line that has the right number of fields starts with the id and  *)
(* a piece of the name; read without a throw it is a task.                 *)
LEMMA TornFields ==
    ASSUME NEW t \in Tasks, NEW line \in Torn(t)
    PROVE  /\ line \in Seq(Fields)
           /\ Parses(line)
           /\ line[1] = t.id
           /\ ~Throws(line) => Deserialize(line) \in Tasks
  <1>1. Len(t.name) # 1 /\ t.name \in Seq(Pieces) /\ t.name # <<>>
    BY NamesArePieces DEF Torn, Tasks
  <1>2. t.name \in Names
    BY <1>1 DEF Tasks, TaskNames
  <1>3. PICK m \in Misread[<<t.name, t.start, t.remind>>] : line = <<t.id, t.name[1], m[1], m[2]>>
    BY <1>1 DEF Torn
  <1>4. m \in (Times \cup Pieces) \X (Times \cup Pieces)
    BY <1>2, <1>3, MisreadAssumption DEF Tasks
  <1>5. t.name[1] \in Pieces /\ t.id \in Nat
    <2>1. Len(t.name) \in Nat /\ Len(t.name) # 0
      BY <1>1, EmptySeq, LenProperties
    <2>2. 1 \in 1..Len(t.name)
      BY <2>1
    <2>3. t.name[1] \in Pieces
      BY <1>1, <2>2, ElementOfSeq
    <2>4. t.id \in Nat
      BY DEF Tasks
    <2> QED BY <2>3, <2>4
  <1>6. m[1] \in Times \cup Pieces /\ m[2] \in Times \cup Pieces
    BY <1>4
  <1>7. line \in Seq(Fields) /\ Parses(line) /\ line[1] = t.id
    <2> DEFINE a == t.id
               b == t.name[1]
               c == m[1]
               d == m[2]
    <2>1. a \in Fields /\ b \in Fields /\ c \in Fields /\ d \in Fields
      BY <1>5, <1>6, TimesAssumption DEF Fields
    <2> DEFINE l == <<a, b, c, d>>
    <2>2. line = l
      BY <1>3
    <2> HIDE DEF a, b, c, d
    <2>3. l \in Seq(Fields) /\ Len(l) = 4 /\ l[1] = a
      BY <2>1
    <2> HIDE DEF l
    <2>4. line \in Seq(Fields) /\ Len(line) = 4 /\ line[1] = a
      BY <2>2, <2>3
    <2> QED BY <2>4 DEF Parses, FieldCount, a
  <1>8. ASSUME ~Throws(line)
        PROVE  Deserialize(line) \in Tasks
    <2>1. line[3] \in Times /\ line[4] \in Times
      BY <1>7, <1>8 DEF Throws
    <2>2. <<line[2]>> \in TaskNames
      BY <1>3, <1>5 DEF TaskNames
    <2> QED BY <1>5, <1>7, <2>1, <2>2 DEF Deserialize, Tasks
  <1> QED BY <1>7, <1>8

-----------------------------------------------------------------------------
(* Sorting.                                                                *)

(* A sorted list is a rearrangement of what was given to std::sort: it is  *)
(* sorted, holds the same tasks, and no id twice if no id was given twice. *)
LEMMA SortingsFacts ==
    ASSUME NEW K, IsFiniteSet(K), NEW f \in [K -> Tasks], NEW s \in Sortings(f)
    PROVE  /\ s \in Seq(Tasks)
           /\ SortedByStart(s)
           /\ Range(s) = Range(f)
           /\ Ids(s) = Ids(f)
           /\ Len(s) = Cardinality(K)
           /\ (\A i, j \in K : f[i].id = f[j].id => i = j) =>
                 \A i, j \in DOMAIN s : s[i].id = s[j].id => i = j
  <1> DEFINE n == Cardinality(K)
  <1>1. n \in Nat
    BY FS_CardinalityType
  <1>2. DOMAIN f = K
    OBVIOUS
  <1>3. PICK p \in Bijection(1..n, K) : s = [i \in 1..n |-> f[p[i]]]
    BY <1>2 DEF Sortings
  <1>4. SortedByStart(s)
    BY DEF Sortings
  <1>5. /\ p \in [1..n -> K]
        /\ \A i, j \in 1..n : p[i] = p[j] => i = j
        /\ \A k \in K : \E i \in 1..n : p[i] = k
    BY <1>3 DEF Bijection, Injection, Surjection, IsInjective
  <1> HIDE DEF n
  <1>6. s \in Seq(Tasks) /\ DOMAIN s = 1..n /\ Len(s) = n
    BY <1>1, <1>3, <1>5
  <1>7. Range(s) = Range(f) /\ Ids(s) = Ids(f)
    BY <1>2, <1>3, <1>5, <1>6 DEF Range, Ids
  <1>8. (\A i, j \in K : f[i].id = f[j].id => i = j) =>
           \A i, j \in DOMAIN s : s[i].id = s[j].id => i = j
    BY <1>3, <1>5, <1>6
  <1> QED BY <1>4, <1>6, <1>7, <1>8 DEF n

(* The domain of a list is finite, and so is what is left of it.           *)
LEMMA DomainsFinite ==
    ASSUME NEW S, NEW q \in Seq(S)
    PROVE  /\ DOMAIN q = 1..Len(q)
           /\ Len(q) \in Nat
           /\ IsFiniteSet(DOMAIN q)
           /\ \A K \in SUBSET DOMAIN q : IsFiniteSet(K)
           /\ q \in [DOMAIN q -> S]
  <1>1. DOMAIN q = 1..Len(q) /\ Len(q) \in Nat
    BY LenProperties
  <1>2. IsFiniteSet(1..Len(q))
    BY <1>1, FS_Interval
  <1>3. \A K \in SUBSET DOMAIN q : IsFiniteSet(K)
    BY <1>1, <1>2, FS_Subset
  <1>4. q \in [DOMAIN q -> S]
    BY <1>1, LenProperties
  <1> QED BY <1>1, <1>2, <1>3, <1>4

(* The ids of a list of tasks are numbers.                                 *)
LEMMA ListIds ==
    ASSUME NEW q \in Seq(Tasks)
    PROVE  /\ \A k \in DOMAIN q : q[k] \in Tasks /\ q[k].id \in Nat /\ q[k].id \in Ids(q)
           /\ Ids(q) \subseteq Nat
  <1>1. \A k \in DOMAIN q : q[k] \in Tasks
    BY DomainsFinite
  <1>2. \A k \in DOMAIN q : q[k].id \in Nat
    BY <1>1 DEF Tasks
  <1> QED BY <1>1, <1>2 DEF Ids

-----------------------------------------------------------------------------
(* The inductive invariant: the parts that TLC checks, and what they need  *)
(* to survive a restart, namely that every line of the file was written by *)
(* serialize, in full or in part, and that no two lines carry the same id. *)

LinesWritten ==
    \A i \in DOMAIN file :
        \E t \in Tasks : file[i] = Serialize(t) \/ file[i] \in Torn(t)

LineIdsDistinct == \A i, j \in DOMAIN file : file[i][1] = file[j][1] => i = j

IInv ==
    /\ TypeOK
    /\ IdsDistinct
    /\ CounterAhead
    /\ ListSorted
    /\ FileIsPrefix
    /\ LinesWritten
    /\ LineIdsDistinct

(* The state predicates of the file and of the memory, apart.              *)
LEMMA InitIInv == Init => IInv
  <1> SUFFICES ASSUME Init PROVE IInv
    OBVIOUS
  <1>1. /\ tasks = <<>> /\ nextId = 1 /\ reminded = {} /\ file = <<>>
        /\ pc = "off" /\ synced = TRUE
    BY DEF Init
  <1>2. TypeOK
    BY <1>1 DEF TypeOK
  <1>3. IdsDistinct /\ ListSorted /\ FileIsPrefix
    BY <1>1 DEF IdsDistinct, ListSorted, SortedByStart, FileIsPrefix
  <1>4. CounterAhead
    BY <1>1 DEF CounterAhead, Ids
  <1>5. LinesWritten /\ LineIdsDistinct
    BY <1>1 DEF LinesWritten, LineIdsDistinct
  <1> QED BY <1>2, <1>3, <1>4, <1>5 DEF IInv

(* In a file that can be read, a readable line yields a task with a name   *)
(* of one piece, and its id is the line's first field.                     *)
LEMMA ReadableLine ==
    ASSUME IInv, ~Unreadable(file), NEW i \in Readable(file)
    PROVE  /\ i \in DOMAIN file
           /\ Deserialize(file[i]) \in Tasks
           /\ Deserialize(file[i]).id = file[i][1]
           /\ Len(Deserialize(file[i]).name) = 1
  <1>1. i \in DOMAIN file /\ Parses(file[i]) /\ ~Throws(file[i])
    BY DEF Readable, Unreadable
  <1>2. PICK t \in Tasks : file[i] = Serialize(t) \/ file[i] \in Torn(t)
    BY <1>1 DEF IInv, LinesWritten
  <1>3. Deserialize(file[i]) \in Tasks
    BY <1>1, <1>2, RoundTrip, TornFields
  <1>4. /\ Deserialize(file[i]).id = file[i][1]
        /\ Len(Deserialize(file[i]).name) = 1
    BY DEF Deserialize
  <1> QED BY <1>1, <1>3, <1>4

(* What loadFromFile sorts: one task per readable line, ids distinct.      *)
LEMMA LoadedList ==
    ASSUME IInv, ~Unreadable(file),
           NEW s \in Sortings([i \in Readable(file) |-> Deserialize(file[i])])
    PROVE  /\ s \in Seq(Tasks)
           /\ SortedByStart(s)
           /\ Range(s) = Recover(file)
           /\ \A i, j \in DOMAIN s : s[i].id = s[j].id => i = j
  <1> DEFINE K == Readable(file)
             f == [i \in K |-> Deserialize(file[i])]
  <1>1. IsFiniteSet(K)
    <2>1. file \in Seq(Seq(Fields))
      BY DEF IInv, TypeOK
    <2>2. K \in SUBSET DOMAIN file
      BY DEF Readable
    <2> QED BY <2>1, <2>2, DomainsFinite
  <1>2. f \in [K -> Tasks]
    BY ReadableLine
  <1>3. \A i, j \in K : f[i].id = f[j].id => i = j
    BY ReadableLine DEF IInv, LineIdsDistinct
  <1>4. Range(f) = Recover(file)
    BY DEF Range, Recover
  <1> HIDE DEF K, f
  <1>5. s \in Sortings(f)
    BY DEF K, f
  <1> QED BY <1>1, <1>2, <1>3, <1>4, <1>5, SortingsFacts

(* Erasing position i moves the rest of the list one place forward.        *)
LEMMA RemoveAtFacts ==
    ASSUME NEW S, NEW q \in Seq(S), NEW i \in DOMAIN q
    PROVE  /\ RemoveAt(q, i) \in Seq(S)
           /\ DOMAIN RemoveAt(q, i) = 1..(Len(q) - 1)
           /\ \A k \in 1..(Len(q) - 1) :
                 RemoveAt(q, i)[k] = IF k < i THEN q[k] ELSE q[k + 1]
  <1> DEFINE left == SubSeq(q, 1, i - 1)
             right == SubSeq(q, i + 1, Len(q))
  <1>1. DOMAIN q = 1..Len(q) /\ Len(q) \in Nat /\ i \in Nat /\ 1 <= i /\ i <= Len(q)
    BY LenProperties
  <1>2. /\ left \in Seq(S) /\ Len(left) = i - 1
        /\ \A k \in 1..(i - 1) : left[k] = q[k]
    BY <1>1, SubSeqProperties
  <1>3. /\ right \in Seq(S) /\ Len(right) = Len(q) - i
        /\ \A k \in 1..(Len(q) - i) : right[k] = q[i + k]
    BY <1>1, SubSeqProperties
  <1> HIDE DEF left, right
  <1>4. /\ left \o right \in Seq(S)
        /\ Len(left \o right) = Len(q) - 1
        /\ \A k \in 1..(Len(q) - 1) :
              (left \o right)[k] = IF k <= i - 1 THEN left[k] ELSE right[k - (i - 1)]
    <2>1. /\ left \o right \in Seq(S)
          /\ Len(left \o right) = Len(left) + Len(right)
          /\ \A k \in 1..(Len(left) + Len(right)) :
                (left \o right)[k] = IF k <= Len(left) THEN left[k]
                                    ELSE right[k - Len(left)]
      BY <1>2, <1>3, ConcatProperties
    <2>2. Len(left) + Len(right) = Len(q) - 1
      BY <1>1, <1>2, <1>3
    <2> QED BY <1>2, <2>1, <2>2
  <1>5. \A k \in 1..(Len(q) - 1) :
           (left \o right)[k] = IF k < i THEN q[k] ELSE q[k + 1]
    <2> SUFFICES ASSUME NEW k \in 1..(Len(q) - 1)
                 PROVE  (left \o right)[k] = IF k < i THEN q[k] ELSE q[k + 1]
      OBVIOUS
    <2>1. CASE k < i
      BY <1>1, <1>2, <1>4, <2>1
    <2>2. CASE ~(k < i)
      <3> DEFINE m == k - (i - 1)
      <3>1. m \in 1..(Len(q) - i) /\ i + m = k + 1 /\ ~(k <= i - 1)
        BY <1>1, <2>2
      <3>2. (left \o right)[k] = right[m]
        BY <1>4, <3>1
      <3> HIDE DEF m
      <3>3. right[m] = q[k + 1]
        BY <1>3, <3>1
      <3> QED BY <2>2, <3>2, <3>3
    <2> QED BY <2>1, <2>2
  <1>6. RemoveAt(q, i) = left \o right
    BY DEF RemoveAt, left, right
  <1>7. DOMAIN (left \o right) = 1..(Len(q) - 1)
    BY <1>4, LenProperties
  <1> QED BY <1>4, <1>5, <1>6, <1>7

-----------------------------------------------------------------------------
(* Each action keeps the invariant.                                        *)

(* A line cut off in a save carries the id of its task, so that it is no   *)
(* second line of another.                                                 *)
LEMMA CutLines ==
    ASSUME IInv, file' \in {file} \cup Cuts
    PROVE  file' \in Seq(Seq(Fields)) /\ LinesWritten' /\ LineIdsDistinct'
  <1>1. CASE file' = file
    BY <1>1 DEF IInv, TypeOK, LinesWritten, LineIdsDistinct
  <1>2. CASE file' # file
    <2> DEFINE n == Len(file) + 1
               t == tasks[n]
    <2>1. pc = "write" /\ Len(file) < Len(tasks)
      BY <1>2 DEF Cuts
    <2>2. PICK line \in Torn(t) : file' = Append(file, line)
      BY <1>2 DEF Cuts
    <2>3. /\ tasks \in Seq(Tasks) /\ file \in Seq(Seq(Fields))
          /\ DOMAIN tasks = 1..Len(tasks) /\ Len(tasks) \in Nat
          /\ DOMAIN file = 1..Len(file) /\ Len(file) \in Nat
      BY DomainsFinite DEF IInv, TypeOK
    <2>4. n \in DOMAIN tasks /\ t \in Tasks
      <3>1. n \in DOMAIN tasks
        BY <2>1, <2>3
      <3> QED BY <2>3, <3>1, ListIds
    <2>5. line \in Seq(Fields) /\ line[1] = t.id
      BY <2>4, TornFields
    <2>6. /\ file' \in Seq(Seq(Fields)) /\ DOMAIN file' = 1..n
          /\ \A k \in 1..Len(file) : file'[k] = file[k]
          /\ file'[n] = line
      <3> DEFINE f == Append(file, line)
      <3>1. /\ f \in Seq(Seq(Fields)) /\ Len(f) = n
            /\ \A k \in 1..Len(file) : f[k] = file[k]
            /\ f[n] = line
        BY <2>3, <2>5, AppendProperties
      <3>2. file' = f
        BY <2>2
      <3> HIDE DEF f
      <3> QED BY <3>1, <3>2, DomainsFinite
    <2>7. \A k \in 1..n : k = n \/ k \in 1..Len(file)
      BY <2>3
    <2>8. LinesWritten'
      BY <2>3, <2>4, <2>6, <2>7 DEF IInv, LinesWritten
    <2>9. \A k \in 1..n : k \in DOMAIN tasks /\ file'[k][1] = tasks[k].id
      <3>1. \A k \in 1..Len(file) : k \in DOMAIN tasks /\ file[k] = Serialize(tasks[k])
        <4>1. \A k \in DOMAIN file : file[k] = Serialize(tasks[k])
          BY <2>1 DEF IInv, FileIsPrefix
        <4> QED BY <2>1, <2>3, <4>1
      <3>2. \A k \in 1..Len(file) : k \in DOMAIN tasks /\ file[k][1] = tasks[k].id
        BY <2>3, <3>1, ListIds, SerializeFields
      <3> QED BY <2>4, <2>5, <2>6, <2>7, <3>2
    <2>10. LineIdsDistinct'
      BY <2>6, <2>9 DEF LineIdsDistinct, IInv, IdsDistinct
    <2> QED BY <2>6, <2>8, <2>10
  <1> QED BY <1>1, <1>2

(* What an action must establish when it leaves the file alone, or cuts a  *)
(* save off, and does not leave the GUI thread in the middle of a write.   *)
LEMMA MemoryStep ==
    ASSUME IInv, file' \in {file} \cup Cuts,
           pc' \in {"off", "idle", "save"}, synced' \in BOOLEAN,
           tasks' \in Seq(Tasks), nextId' \in Nat \ {0}, reminded' \subseteq Nat,
           IdsDistinct', CounterAhead', ListSorted'
    PROVE  IInv'
  <1>1. file' \in Seq(Seq(Fields)) /\ LinesWritten' /\ LineIdsDistinct'
    BY CutLines
  <1>2. TypeOK'
    BY <1>1 DEF TypeOK
  <1>3. FileIsPrefix'
    BY DEF FileIsPrefix
  <1> QED BY <1>1, <1>2, <1>3 DEF IInv

LEMMA LoadStep == IInv /\ LoadFromFile => IInv'
  <1> SUFFICES ASSUME IInv, LoadFromFile PROVE IInv'
    OBVIOUS
  <1>1. /\ tasks' \in Sortings([i \in Readable(file) |-> Deserialize(file[i])])
        /\ ~Unreadable(file)
        /\ pc' = "idle" /\ file' = file /\ synced' = TRUE /\ reminded' = {}
    BY DEF LoadFromFile
  <1>2. /\ tasks' \in Seq(Tasks)
        /\ SortedByStart(tasks')
        /\ \A i, j \in DOMAIN tasks' : tasks'[i].id = tasks'[j].id => i = j
    BY <1>1, LoadedList
  <1>3. PICK maxId \in Ids(tasks') \cup {0} :
           /\ \A id \in Ids(tasks') : id <= maxId
           /\ nextId' = maxId + 1
    BY DEF LoadFromFile
  <1>4. Ids(tasks') \subseteq Nat
    BY <1>2, ListIds
  <1>5. nextId' \in Nat \ {0} /\ \A id \in Ids(tasks') : id < nextId'
    BY <1>3, <1>4
  <1>6. IdsDistinct' /\ CounterAhead' /\ ListSorted'
    BY <1>1, <1>2, <1>5 DEF IdsDistinct, CounterAhead, ListSorted
  <1> QED BY <1>1, <1>2, <1>5, <1>6, MemoryStep

LEMMA EmptyListStep == IInv /\ (LoadFails \/ ProcessEnds) => IInv'
  <1> SUFFICES ASSUME IInv, LoadFails \/ ProcessEnds PROVE IInv'
    OBVIOUS
  <1>1. /\ tasks' = <<>> /\ nextId' = 1 /\ reminded' = {}
        /\ file' \in {file} \cup Cuts /\ pc' \in {"off", "idle"} /\ synced' \in BOOLEAN
    BY DEF LoadFails, ProcessEnds, IInv, TypeOK
  <1>2. IdsDistinct' /\ CounterAhead' /\ ListSorted'
    BY <1>1 DEF IdsDistinct, CounterAhead, ListSorted, SortedByStart, Ids
  <1> QED BY <1>1, <1>2, MemoryStep

LEMMA AddStep ==
    ASSUME IInv, NEW t \in Candidates, AddTask(t)
    PROVE  IInv'
  <1> DEFINE f == Append(tasks, t)
  <1>1. /\ t \in Tasks /\ t.id = nextId /\ nextId' = nextId + 1
        /\ tasks' \in Sortings(f)
        /\ pc' = "save" /\ file' = file /\ synced' = synced /\ reminded' = reminded
    BY DEF AddTask, Entered, NewId
  <1>2. tasks \in Seq(Tasks) /\ nextId \in Nat \ {0} /\ reminded \subseteq Nat /\ synced \in BOOLEAN
    BY DEF IInv, TypeOK
  <1>3. /\ f \in Seq(Tasks) /\ Len(f) = Len(tasks) + 1
        /\ \A k \in 1..Len(tasks) : f[k] = tasks[k]
        /\ f[Len(tasks) + 1] = t
    BY <1>1, <1>2, AppendProperties
  <1>4. DOMAIN tasks = 1..Len(tasks) /\ Len(tasks) \in Nat
    BY <1>2, DomainsFinite
  <1>5. DOMAIN f = 1..(Len(tasks) + 1) /\ IsFiniteSet(DOMAIN f) /\ f \in [DOMAIN f -> Tasks]
    <2> HIDE DEF f
    <2>1. DOMAIN f = 1..Len(f) /\ IsFiniteSet(DOMAIN f) /\ f \in [DOMAIN f -> Tasks]
      BY <1>3, DomainsFinite
    <2> QED BY <1>3, <2>1
  <1>6. \A k \in DOMAIN tasks : tasks[k].id \in Nat /\ tasks[k].id < nextId
    BY <1>2, ListIds DEF IInv, CounterAhead
  <1>7. \A i, j \in DOMAIN f : f[i].id = f[j].id => i = j
    BY <1>1, <1>2, <1>3, <1>4, <1>5, <1>6 DEF IInv, IdsDistinct
  <1>8. Ids(f) = Ids(tasks) \cup {nextId}
    BY <1>1, <1>3, <1>4, <1>5 DEF Ids
  <1> HIDE DEF f
  <1>9. /\ tasks' \in Seq(Tasks) /\ SortedByStart(tasks') /\ Ids(tasks') = Ids(f)
        /\ \A i, j \in DOMAIN tasks' : tasks'[i].id = tasks'[j].id => i = j
    BY <1>1, <1>5, <1>7, SortingsFacts
  <1>10. CounterAhead'
    <2> SUFFICES ASSUME NEW id \in Ids(tasks) \cup {nextId} \cup reminded
                 PROVE  id < nextId + 1
      BY <1>1, <1>8, <1>9 DEF CounterAhead
    <2>1. id = nextId \/ (id \in Nat /\ id < nextId)
      BY <1>2, <1>6 DEF IInv, CounterAhead, Ids
    <2> QED BY <1>2, <2>1
  <1>11. IdsDistinct' /\ ListSorted'
    BY <1>9 DEF IdsDistinct, ListSorted
  <1> QED BY <1>1, <1>2, <1>9, <1>10, <1>11, MemoryStep

LEMMA RejectStep ==
    ASSUME IInv, NEW t \in Candidates, AddRejected(t)
    PROVE  IInv'
  <1>1. /\ nextId' = nextId + 1 /\ tasks' = tasks /\ pc' = "idle"
        /\ file' = file /\ synced' = synced /\ reminded' = reminded
    BY DEF AddRejected, NewId
  <1>2. tasks \in Seq(Tasks) /\ nextId \in Nat \ {0} /\ reminded \subseteq Nat /\ synced \in BOOLEAN
    BY DEF IInv, TypeOK
  <1>3. Ids(tasks) \subseteq Nat
    BY <1>2, ListIds
  <1>4. IdsDistinct' /\ ListSorted'
    BY <1>1 DEF IInv, IdsDistinct, ListSorted
  <1>5. CounterAhead'
    <2> SUFFICES ASSUME NEW id \in Ids(tasks) \cup reminded
                 PROVE  id < nextId + 1
      BY <1>1 DEF CounterAhead
    <2>1. id \in Nat /\ id < nextId
      BY <1>2, <1>3 DEF IInv, CounterAhead
    <2> QED BY <1>2, <2>1
  <1> QED BY <1>1, <1>2, <1>4, <1>5, MemoryStep

LEMMA DeleteStep ==
    ASSUME IInv, NEW id, DeleteTask(id)
    PROVE  IInv'
  <1>1. PICK i \in DOMAIN tasks : tasks' = RemoveAt(tasks, i)
    BY DEF DeleteTask
  <1>2. /\ pc' = "save" /\ nextId' = nextId /\ file' = file
        /\ synced' = synced /\ reminded' = reminded
    BY DEF DeleteTask
  <1>3. tasks \in Seq(Tasks) /\ nextId \in Nat \ {0} /\ reminded \subseteq Nat /\ synced \in BOOLEAN
    BY DEF IInv, TypeOK
  <1>4. DOMAIN tasks = 1..Len(tasks) /\ Len(tasks) \in Nat
    BY <1>3, DomainsFinite
  <1>5. /\ tasks' \in Seq(Tasks)
        /\ DOMAIN tasks' = 1..(Len(tasks) - 1)
        /\ \A k \in 1..(Len(tasks) - 1) :
              tasks'[k] = IF k < i THEN tasks[k] ELSE tasks[k + 1]
    BY <1>1, <1>3, RemoveAtFacts
  <1> DEFINE old(k) == IF k < i THEN k ELSE k + 1
  <1>6. \A k \in DOMAIN tasks' : old(k) \in DOMAIN tasks /\ tasks'[k] = tasks[old(k)]
    BY <1>4, <1>5
  <1>7. \A k, m \in DOMAIN tasks' : /\ k < m => old(k) < old(m)
                                    /\ old(k) = old(m) => k = m
    BY <1>4, <1>5
  <1> HIDE DEF old
  <1>8. IdsDistinct'
    BY <1>6, <1>7 DEF IInv, IdsDistinct
  <1>9. ListSorted'
    BY <1>6, <1>7 DEF IInv, ListSorted, SortedByStart
  <1>10. Ids(tasks') \subseteq Ids(tasks)
    BY <1>6 DEF Ids
  <1>11. CounterAhead'
    BY <1>2, <1>10 DEF IInv, CounterAhead
  <1> QED BY <1>2, <1>3, <1>5, <1>8, <1>9, <1>11, MemoryStep

LEMMA UpdateStep ==
    ASSUME IInv, NEW t \in Candidates, UpdateTask(t)
    PROVE  IInv'
  <1>1. PICK i \in DOMAIN tasks :
           tasks[i].id = t.id /\ tasks' \in Sortings([tasks EXCEPT ![i] = t])
    BY DEF UpdateTask, IsFirst
  <1> DEFINE f == [tasks EXCEPT ![i] = t]
  <1>2. /\ t \in Tasks /\ nextId' = nextId + 1
        /\ pc' = "save" /\ file' = file /\ synced' = synced /\ reminded' = reminded
    BY DEF UpdateTask, Entered, NewId
  <1>3. tasks \in Seq(Tasks) /\ nextId \in Nat \ {0} /\ reminded \subseteq Nat /\ synced \in BOOLEAN
    BY DEF IInv, TypeOK
  <1>4. IsFiniteSet(DOMAIN tasks) /\ tasks \in [DOMAIN tasks -> Tasks]
    BY <1>3, DomainsFinite
  <1>5. f \in [DOMAIN tasks -> Tasks] /\ DOMAIN f = DOMAIN tasks
    BY <1>2, <1>4
  <1>6. \A k \in DOMAIN tasks : f[k].id = tasks[k].id
    BY <1>1, <1>4
  <1>7. \A k, m \in DOMAIN tasks : f[k].id = f[m].id => k = m
    BY <1>6 DEF IInv, IdsDistinct
  <1>8. Ids(f) = Ids(tasks)
    BY <1>5, <1>6 DEF Ids
  <1> HIDE DEF f
  <1>9. /\ tasks' \in Seq(Tasks) /\ SortedByStart(tasks') /\ Ids(tasks') = Ids(f)
        /\ \A k, m \in DOMAIN tasks' : tasks'[k].id = tasks'[m].id => k = m
    <2>1. tasks' \in Sortings(f)
      BY <1>1 DEF f
    <2> QED BY <1>4, <1>5, <1>7, <2>1, SortingsFacts
  <1>10. CounterAhead'
    <2> SUFFICES ASSUME NEW id \in Ids(tasks) \cup reminded
                 PROVE  id < nextId + 1
      BY <1>2, <1>8, <1>9 DEF CounterAhead
    <2>1. id \in Nat /\ id < nextId
      BY <1>3, ListIds DEF IInv, CounterAhead
    <2> QED BY <1>3, <2>1
  <1>11. IdsDistinct' /\ ListSorted'
    BY <1>9 DEF IdsDistinct, ListSorted
  <1> QED BY <1>2, <1>3, <1>9, <1>10, <1>11, MemoryStep

(* The steps that change neither the list nor the file.                    *)
LEMMA QuietStep ==
    ASSUME IInv, \/ SaveOpenFails
                 \/ LoadThrows
                 \/ \E now \in Instants : CheckReminders(now)
                 \/ UNCHANGED vars
    PROVE  IInv'
  <1>1. /\ tasks' = tasks /\ nextId' = nextId /\ file' = file
    BY DEF SaveOpenFails, LoadThrows, CheckReminders, vars
  <1>2. tasks \in Seq(Tasks) /\ nextId \in Nat \ {0} /\ reminded \subseteq Nat /\ synced \in BOOLEAN
    BY DEF IInv, TypeOK
  <1>3. reminded' \subseteq reminded \cup Ids(tasks)
    BY DEF SaveOpenFails, LoadThrows, CheckReminders, vars, Due, Ids
  <1>4. reminded' \subseteq Nat
    BY <1>2, <1>3, ListIds
  <1>5. pc' \in {"off", "idle", "save", "write"} /\ synced' \in BOOLEAN
    BY DEF SaveOpenFails, LoadThrows, CheckReminders, vars, IInv, TypeOK
  <1>6. pc' = "write" => pc = "write"
    BY DEF SaveOpenFails, LoadThrows, CheckReminders, vars
  <1>7. TypeOK'
    BY <1>1, <1>4, <1>5 DEF IInv, TypeOK
  <1>8. IdsDistinct' /\ ListSorted' /\ LinesWritten' /\ LineIdsDistinct'
    BY <1>1 DEF IInv, IdsDistinct, ListSorted, LinesWritten, LineIdsDistinct
  <1>9. CounterAhead'
    BY <1>1, <1>3 DEF IInv, CounterAhead
  <1>10. FileIsPrefix'
    BY <1>1, <1>6 DEF IInv, FileIsPrefix
  <1> QED BY <1>7, <1>8, <1>9, <1>10 DEF IInv

LEMMA CloseStep == IInv /\ SaveClose => IInv'
  <1> SUFFICES ASSUME IInv, SaveClose PROVE IInv'
    OBVIOUS
  <1>1. /\ tasks' = tasks /\ nextId' = nextId /\ reminded' = reminded
        /\ file' \in {file} \cup Cuts /\ pc' = "idle" /\ synced' \in BOOLEAN
    BY DEF SaveClose
  <1>2. /\ tasks \in Seq(Tasks) /\ nextId \in Nat \ {0} /\ reminded \subseteq Nat
        /\ IdsDistinct /\ CounterAhead /\ ListSorted
    BY DEF IInv, TypeOK
  <1>3. IdsDistinct' /\ CounterAhead' /\ ListSorted'
    BY <1>1, <1>2 DEF IdsDistinct, CounterAhead, ListSorted
  <1> QED BY <1>1, <1>2, <1>3, MemoryStep

LEMMA OpenStep == IInv /\ SaveOpen => IInv'
  <1> SUFFICES ASSUME IInv, SaveOpen PROVE IInv'
    OBVIOUS
  <1>1. /\ tasks' = tasks /\ nextId' = nextId /\ reminded' = reminded
        /\ file' = <<>> /\ pc' = "write" /\ synced' = synced
    BY DEF SaveOpen
  <1>2. TypeOK'
    BY <1>1 DEF IInv, TypeOK
  <1>3. IdsDistinct' /\ CounterAhead' /\ ListSorted'
    BY <1>1 DEF IInv, IdsDistinct, CounterAhead, ListSorted
  <1>4. FileIsPrefix' /\ LinesWritten' /\ LineIdsDistinct'
    <2>1. DOMAIN file' = {} /\ Len(file') = 0
      BY <1>1
    <2>2. Len(tasks') \in Nat
      BY <1>2, LenProperties DEF TypeOK
    <2> QED BY <2>1, <2>2 DEF FileIsPrefix, LinesWritten, LineIdsDistinct
  <1> QED BY <1>2, <1>3, <1>4 DEF IInv

LEMMA LineStep == IInv /\ SaveLine => IInv'
  <1> SUFFICES ASSUME IInv, SaveLine PROVE IInv'
    OBVIOUS
  <1> DEFINE n == Len(file) + 1
             t == tasks[n]
  <1>1. /\ pc = "write" /\ Len(file) < Len(tasks)
        /\ file' = Append(file, Serialize(t))
        /\ tasks' = tasks /\ nextId' = nextId /\ reminded' = reminded
        /\ pc' = pc /\ synced' = synced
    BY DEF SaveLine
  <1>2. /\ tasks \in Seq(Tasks) /\ file \in Seq(Seq(Fields))
        /\ DOMAIN tasks = 1..Len(tasks) /\ Len(tasks) \in Nat
        /\ DOMAIN file = 1..Len(file) /\ Len(file) \in Nat
    BY DomainsFinite DEF IInv, TypeOK
  <1>3. n \in DOMAIN tasks /\ t \in Tasks /\ Serialize(t) \in Seq(Fields)
    <2>1. n \in DOMAIN tasks
      BY <1>1, <1>2
    <2> QED BY <1>2, <2>1, ListIds, SerializeFields
  <1>4. /\ file' \in Seq(Seq(Fields)) /\ Len(file') = n
        /\ DOMAIN file' = 1..n
        /\ \A k \in 1..Len(file) : file'[k] = file[k]
        /\ file'[n] = Serialize(t)
    <2>1. /\ file' \in Seq(Seq(Fields)) /\ Len(file') = n
          /\ \A k \in 1..Len(file) : file'[k] = file[k]
          /\ file'[n] = Serialize(t)
      BY <1>1, <1>2, <1>3, AppendProperties
    <2> QED BY <2>1, DomainsFinite
  <1>5. TypeOK'
    BY <1>1, <1>4 DEF IInv, TypeOK
  <1>6. IdsDistinct' /\ CounterAhead' /\ ListSorted'
    BY <1>1 DEF IInv, IdsDistinct, CounterAhead, ListSorted
  <1>7. \A k \in 1..n : file'[k] = Serialize(tasks[k]) /\ k \in DOMAIN tasks
    <2>1. \A k \in 1..Len(file) : file[k] = Serialize(tasks[k])
      BY <1>1, <1>2 DEF IInv, FileIsPrefix
    <2> SUFFICES ASSUME NEW k \in 1..n
                 PROVE  file'[k] = Serialize(tasks[k]) /\ k \in DOMAIN tasks
      OBVIOUS
    <2>2. k = n \/ k \in 1..Len(file)
      BY <1>2
    <2>3. k \in DOMAIN tasks
      BY <1>1, <1>2
    <2>4. CASE k = n
      BY <1>4, <2>3, <2>4
    <2>5. CASE k \in 1..Len(file)
      BY <1>4, <2>1, <2>3, <2>5
    <2> QED BY <2>2, <2>4, <2>5
  <1>8. FileIsPrefix'
    BY <1>1, <1>2, <1>3, <1>4, <1>7 DEF FileIsPrefix
  <1>9. LinesWritten'
    BY <1>2, <1>4, <1>7, ListIds DEF LinesWritten
  <1>10. LineIdsDistinct'
    <2>1. \A k \in 1..n : file'[k][1] = tasks[k].id
      BY <1>2, <1>7, ListIds, SerializeFields
    <2> QED BY <1>4, <1>7, <2>1 DEF LineIdsDistinct, IInv, IdsDistinct
  <1> QED BY <1>5, <1>6, <1>8, <1>9, <1>10 DEF IInv

LEMMA NextIInv == IInv /\ [Next]_vars => IInv'
  <1> SUFFICES ASSUME IInv, [Next]_vars PROVE IInv'
    OBVIOUS
  <1>1. CASE LoadFromFile
    BY <1>1, LoadStep
  <1>2. CASE LoadFails \/ ProcessEnds
    BY <1>2, EmptyListStep
  <1>3. CASE \E t \in Candidates : AddTask(t) \/ AddRejected(t) \/ UpdateTask(t)
    BY <1>3, AddStep, RejectStep, UpdateStep
  <1>4. CASE \E id \in Ids(tasks) : DeleteTask(id)
    BY <1>4, DeleteStep
  <1>5. CASE SaveOpen
    BY <1>5, OpenStep
  <1>6. CASE SaveLine
    BY <1>6, LineStep
  <1>7. CASE SaveOpenFails \/ LoadThrows \/ (\E now \in Instants : CheckReminders(now))
    BY <1>7, QuietStep
  <1>8. CASE UNCHANGED vars
    BY <1>8, QuietStep
  <1>9. CASE SaveClose
    BY <1>9, CloseStep
  <1> QED BY <1>1, <1>2, <1>3, <1>4, <1>5, <1>6, <1>7, <1>8, <1>9 DEF Next, Save

THEOREM Invariance == Spec => []IInv
  <1> QED BY InitIInv, NextIInv, PTL DEF Spec

(* The variables keep their types, whatever the user does and wherever the *)
(* program dies (class TaskManager).                                       *)
THEOREM TypeCorrect == Spec => []TypeOK
  <1>1. IInv => TypeOK
    BY DEF IInv
  <1> QED BY <1>1, Invariance, PTL

(* The id of a task names one task, and the id counter is ahead of every   *)
(* id in use: loadFromFile's setNextId(maxId + 1) and next_id++ suffice.   *)
THEOREM IdsSafe == Spec => [](IdsDistinct /\ CounterAhead)
  <1>1. IInv => IdsDistinct /\ CounterAhead
    BY DEF IInv
  <1> QED BY <1>1, Invariance, PTL

(* In particular the next task added cannot be born already reminded       *)
(* (Task::next_id, m_reminded_ids).                                        *)
THEOREM CounterSafe == Spec => []CounterAhead
  <1> QED BY IdsSafe, PTL

(* The list is sorted by start time after every operation and every load.  *)
THEOREM AlwaysSorted == Spec => []ListSorted
  <1>1. IInv => ListSorted
    BY DEF IInv
  <1> QED BY <1>1, Invariance, PTL

(* A half-written file holds a prefix of the new list.                     *)
THEOREM PrefixWhileSaving == Spec => []FileIsPrefix
  <1>1. IInv => FileIsPrefix
    BY DEF IInv
  <1> QED BY <1>1, Invariance, PTL

-----------------------------------------------------------------------------
(* What a restart gives back.                                              *)

(* The lines written so far in a save can be read.                         *)
LEMMA ReadableWhileSaving ==
    ASSUME IInv, pc = "write"
    PROVE  ~Unreadable(file)
  <1>1. /\ tasks \in Seq(Tasks) /\ DOMAIN tasks = 1..Len(tasks) /\ Len(tasks) \in Nat
        /\ DOMAIN file = 1..Len(file) /\ Len(file) \in Nat
    BY DomainsFinite DEF IInv, TypeOK
  <1>2. \A k \in DOMAIN file : file[k] = Serialize(tasks[k]) /\ k \in DOMAIN tasks
    BY <1>1 DEF IInv, FileIsPrefix
  <1>3. \A k \in DOMAIN file : ~Throws(file[k])
    BY <1>1, <1>2, ListIds, WholeLineIsRead
  <1> QED BY <1>3 DEF Unreadable

(* A file that holds the whole list gives back its storable tasks.         *)
LEMMA FullFile ==
    ASSUME IInv, Len(file) = Len(tasks), pc = "write"
    PROVE  Recover(file) = Storable
  <1>1. /\ tasks \in Seq(Tasks)
        /\ DOMAIN tasks = 1..Len(tasks)
        /\ DOMAIN file = 1..Len(file)
    BY DomainsFinite DEF IInv, TypeOK
  <1>2. DOMAIN file = DOMAIN tasks
    BY <1>1
  <1>3. \A k \in DOMAIN file : file[k] = Serialize(tasks[k]) /\ tasks[k] \in Tasks
    BY <1>1, <1>2, ListIds DEF IInv, FileIsPrefix
  <1>4. \A k \in Readable(file) : Deserialize(file[k]) = tasks[k]
    BY <1>3, RoundTrip DEF Readable
  <1>5. Readable(file) = {j \in DOMAIN tasks : Parses(Serialize(tasks[j]))}
    BY <1>2, <1>3 DEF Readable
  <1> QED BY <1>4, <1>5, ReadableWhileSaving DEF Recover, Storable

(* A save that went through leaves the file as it is.                      *)
LEMMA CloseInFull ==
    ASSUME IInv, SaveClose, synced'
    PROVE  file' = file
  <1>1. Len(file) \in Nat /\ Len(file) = Len(tasks)
    BY DomainsFinite DEF SaveClose, IInv, TypeOK
  <1>2. ~(Len(file) < Len(tasks))
    BY <1>1
  <1> QED BY <1>2 DEF SaveClose

(* Every task that a load restores can be stored again.                    *)
LEMMA RecoveredStorable ==
    ASSUME IInv, NEW t \in Recover(file)
    PROVE  t \in Tasks /\ Parses(Serialize(t))
  <1>1. ~Unreadable(file) /\ \E i \in Readable(file) : t = Deserialize(file[i])
    BY DEF Recover
  <1>2. t \in Tasks /\ Len(t.name) = 1
    BY <1>1, ReadableLine
  <1> QED BY <1>2, RoundTrip

LEMMA InitDurable == Init => Durable
  <1> SUFFICES ASSUME Init PROVE pc # "idle"
    BY DEF Durable
  <1> QED BY DEF Init

LEMMA NextDurable == IInv /\ Durable /\ [Next]_vars => Durable'
  <1> SUFFICES ASSUME IInv, Durable, [Next]_vars, pc' = "idle", synced'
               PROVE  Recover(file') = Storable'
    BY DEF Durable
  <1>1. CASE LoadFromFile
    <2>1. /\ tasks' \in Sortings([i \in Readable(file) |-> Deserialize(file[i])])
          /\ ~Unreadable(file) /\ file' = file
      BY <1>1 DEF LoadFromFile
    <2>2. Range(tasks') = Recover(file)
      BY <2>1, LoadedList
    <2>3. \A j \in DOMAIN tasks' : tasks'[j] \in Recover(file)
      BY <2>2 DEF Range
    <2>4. \A j \in DOMAIN tasks' : Parses(Serialize(tasks'[j]))
      BY <2>3, RecoveredStorable
    <2>5. Storable' = Range(tasks')
      BY <2>4 DEF Storable, Range
    <2> QED BY <2>1, <2>2, <2>5
  <1>2. CASE SaveClose
    <2>1. pc = "write" /\ Len(file) = Len(tasks) /\ tasks' = tasks
      BY <1>2 DEF SaveClose
    <2>3. file' = file
      BY <1>2, CloseInFull
    <2>2. Recover(file) = Storable
      BY <2>1, FullFile
    <2> QED BY <2>1, <2>2, <2>3 DEF Storable
  <1>3. CASE \/ \E t \in Candidates : AddRejected(t)
             \/ \E now \in Instants : CheckReminders(now)
             \/ LoadThrows
             \/ UNCHANGED vars
    <2>1. pc = pc' /\ tasks' = tasks /\ file' = file /\ synced' = synced
      BY <1>3 DEF AddRejected, CheckReminders, LoadThrows, vars
    <2>2. Recover(file) = Storable
      BY <2>1 DEF Durable
    <2> QED BY <2>1, <2>2 DEF Storable
  <1>4. CASE \/ LoadFails
             \/ ProcessEnds
             \/ \E t \in Candidates : AddTask(t) \/ UpdateTask(t)
             \/ \E id \in Ids(tasks) : DeleteTask(id)
             \/ SaveOpenFails \/ SaveOpen \/ SaveLine
    BY <1>4 DEF LoadFails, ProcessEnds, AddTask, UpdateTask, DeleteTask,
                SaveOpenFails, SaveOpen, SaveLine
  <1> QED BY <1>1, <1>2, <1>3, <1>4 DEF Next, Save

(* After every operation whose save succeeded, and after every load, the   *)
(* file holds exactly the storable tasks in memory (saveToFile, called by  *)
(* addTask, deleteTask and updateTask).                                    *)
THEOREM DurableAlways == Spec => []Durable
  <1> QED BY Invariance, InitDurable, NextDurable, PTL DEF Spec

-----------------------------------------------------------------------------
(* A task that appears during a run is not marked as reminded: its id is   *)
(* new, and the counter is ahead of every id that was marked.              *)
THEOREM NewTaskIsFresh == Spec => AddedIsFresh
  <1> DEFINE Fresh == pc = "idle" /\ pc' # "off" =>
                         \A id \in Ids(tasks') \ Ids(tasks) : id \notin reminded'
  <1>1. IInv /\ IInv' /\ [Next]_vars => [Fresh]_vars
    <2> SUFFICES ASSUME IInv, IInv', Next, pc = "idle", pc' # "off",
                        NEW id \in Ids(tasks'), id \notin Ids(tasks)
                 PROVE  id \notin reminded'
      OBVIOUS
    <2>1. CASE \E t \in Candidates : AddTask(t)
      <3>1. PICK t \in Candidates : AddTask(t)
        BY <2>1
      <3> DEFINE f == Append(tasks, t)
      <3>2. /\ t \in Tasks /\ t.id = nextId /\ reminded' = reminded
            /\ tasks' \in Sortings(f) /\ tasks \in Seq(Tasks)
        BY <3>1 DEF AddTask, Entered, NewId, IInv, TypeOK
      <3>3. f \in Seq(Tasks) /\ \A k \in DOMAIN f : f[k] = t \/ \E m \in DOMAIN tasks : f[k] = tasks[m]
        <4>1. /\ f \in Seq(Tasks) /\ Len(f) = Len(tasks) + 1
              /\ \A k \in 1..Len(tasks) : f[k] = tasks[k]
              /\ f[Len(tasks) + 1] = t
          BY <3>2, AppendProperties
        <4>2. DOMAIN f = 1..Len(f) /\ DOMAIN tasks = 1..Len(tasks) /\ Len(tasks) \in Nat
          <5> HIDE DEF f
          <5> QED BY <3>2, <4>1, DomainsFinite
        <4> HIDE DEF f
        <4> QED BY <4>1, <4>2
      <3>4. Ids(f) \subseteq Ids(tasks) \cup {nextId}
        BY <3>2, <3>3 DEF Ids
      <3> HIDE DEF f
      <3>5. Ids(tasks') = Ids(f)
        BY <3>2, <3>3, DomainsFinite, SortingsFacts
      <3>6. id = nextId
        BY <3>4, <3>5
      <3>7. nextId \notin reminded
        BY DEF IInv, TypeOK, CounterAhead
      <3> QED BY <3>2, <3>6, <3>7
    <2>2. CASE \E t \in Candidates : UpdateTask(t)
      <3>1. PICK t \in Candidates : UpdateTask(t)
        BY <2>2
      <3>2. PICK i \in DOMAIN tasks :
               tasks[i].id = t.id /\ tasks' \in Sortings([tasks EXCEPT ![i] = t])
        BY <3>1 DEF UpdateTask, IsFirst
      <3> DEFINE f == [tasks EXCEPT ![i] = t]
      <3>3. t \in Tasks /\ IsFiniteSet(DOMAIN tasks) /\ tasks \in [DOMAIN tasks -> Tasks]
        BY <3>1, DomainsFinite DEF UpdateTask, Entered, IInv, TypeOK
      <3>4. f \in [DOMAIN tasks -> Tasks] /\ Ids(f) = Ids(tasks)
        BY <3>2, <3>3 DEF Ids
      <3> HIDE DEF f
      <3>5. tasks' \in Sortings(f)
        BY <3>2 DEF f
      <3>6. Ids(tasks') = Ids(tasks)
        BY <3>3, <3>4, <3>5, SortingsFacts
      <3> QED BY <3>6
    <2>3. CASE \E d \in Ids(tasks) : DeleteTask(d)
      <3>1. PICK i \in DOMAIN tasks : tasks' = RemoveAt(tasks, i)
        BY <2>3 DEF DeleteTask
      <3>2. tasks \in Seq(Tasks) /\ DOMAIN tasks = 1..Len(tasks) /\ Len(tasks) \in Nat
        BY DomainsFinite DEF IInv, TypeOK
      <3>3. /\ DOMAIN tasks' = 1..(Len(tasks) - 1)
            /\ \A k \in 1..(Len(tasks) - 1) :
                  tasks'[k] = IF k < i THEN tasks[k] ELSE tasks[k + 1]
        BY <3>1, <3>2, RemoveAtFacts
      <3>4. \A k \in DOMAIN tasks' : \E m \in DOMAIN tasks : tasks'[k] = tasks[m]
        BY <3>2, <3>3
      <3> QED BY <3>4 DEF Ids
    <2>4. CASE LoadFromFile \/ LoadFails \/ LoadThrows
      BY <2>4 DEF LoadFromFile, LoadFails, LoadThrows
    <2>5. CASE ProcessEnds
      BY <2>5 DEF ProcessEnds
    <2>6. CASE \/ \E t \in Candidates : AddRejected(t)
               \/ \E now \in Instants : CheckReminders(now)
               \/ Save
      BY <2>6 DEF AddRejected, CheckReminders, Save, SaveOpenFails, SaveOpen,
                  SaveLine, SaveClose
    <2> QED BY <2>1, <2>2, <2>3, <2>4, <2>5, <2>6 DEF Next
  <1> HIDE DEF Fresh
  <1>2. Spec => [][Fresh]_vars
    BY <1>1, Invariance, PTL DEF Spec
  <1> QED BY <1>2 DEF AddedIsFresh, Fresh

-----------------------------------------------------------------------------
(* The tasks that the list holds after each operation.                     *)

LEMMA RangeAfterSort ==
    ASSUME NEW q \in Seq(Tasks), NEW s \in Sortings(q)
    PROVE  Range(s) = Range(q)
  <1> QED BY DomainsFinite, SortingsFacts

LEMMA RangeAfterAppend ==
    ASSUME NEW q \in Seq(Tasks), NEW t \in Tasks
    PROVE  /\ Append(q, t) \in Seq(Tasks)
           /\ Range(Append(q, t)) = Range(q) \cup {t}
  <1> DEFINE f == Append(q, t)
  <1>1. /\ f \in Seq(Tasks) /\ Len(f) = Len(q) + 1
        /\ \A k \in 1..Len(q) : f[k] = q[k]
        /\ f[Len(q) + 1] = t
    BY AppendProperties
  <1> HIDE DEF f
  <1>2. DOMAIN f = 1..Len(f) /\ DOMAIN q = 1..Len(q) /\ Len(q) \in Nat
    BY <1>1, DomainsFinite
  <1>3. DOMAIN f = DOMAIN q \cup {Len(q) + 1}
    BY <1>1, <1>2
  <1>4. Range(f) = Range(q) \cup {t}
    BY <1>1, <1>2, <1>3 DEF Range
  <1> QED BY <1>1, <1>4 DEF f

LEMMA RangeAfterRemove ==
    ASSUME NEW q \in Seq(Tasks), NEW i \in DOMAIN q,
           \A k, m \in DOMAIN q : q[k].id = q[m].id => k = m
    PROVE  Range(RemoveAt(q, i)) = Range(q) \ {q[i]}
  <1> DEFINE s == RemoveAt(q, i)
  <1>1. DOMAIN q = 1..Len(q) /\ Len(q) \in Nat
    BY DomainsFinite
  <1>2. /\ DOMAIN s = 1..(Len(q) - 1)
        /\ \A k \in 1..(Len(q) - 1) : s[k] = IF k < i THEN q[k] ELSE q[k + 1]
    BY RemoveAtFacts
  <1> HIDE DEF s
  <1>3. ASSUME NEW k \in DOMAIN s
        PROVE  \E m \in DOMAIN q : m # i /\ s[k] = q[m]
    <2>1. CASE k < i
      BY <1>1, <1>2, <2>1
    <2>2. CASE ~(k < i)
      BY <1>1, <1>2, <2>2
    <2> QED BY <2>1, <2>2
  <1>4. ASSUME NEW m \in DOMAIN q, m # i
        PROVE  \E k \in DOMAIN s : s[k] = q[m]
    <2>1. CASE m < i
      <3>1. m \in DOMAIN s /\ s[m] = q[m]
        BY <1>1, <1>2, <2>1
      <3> QED BY <3>1
    <2>2. CASE ~(m < i)
      <3>1. (m - 1) \in DOMAIN s /\ ~((m - 1) < i) /\ (m - 1) + 1 = m
        BY <1>1, <1>2, <1>4, <2>2
      <3>2. s[m - 1] = q[m]
        BY <1>2, <3>1
      <3> QED BY <3>1, <3>2
    <2> QED BY <2>1, <2>2
  <1>5. \A m \in DOMAIN q : m # i <=> q[m] # q[i]
    OBVIOUS
  <1>6. Range(s) = Range(q) \ {q[i]}
    BY <1>3, <1>4, <1>5 DEF Range
  <1> QED BY <1>6 DEF s

LEMMA RangeAfterReplace ==
    ASSUME NEW q \in Seq(Tasks), NEW i \in DOMAIN q, NEW t \in Tasks,
           \A k, m \in DOMAIN q : q[k].id = q[m].id => k = m
    PROVE  /\ [q EXCEPT ![i] = t] \in Seq(Tasks)
           /\ Range([q EXCEPT ![i] = t]) = (Range(q) \ {q[i]}) \cup {t}
  <1> DEFINE f == [q EXCEPT ![i] = t]
  <1>1. DOMAIN q = 1..Len(q) /\ Len(q) \in Nat
    BY DomainsFinite
  <1>2. f \in Seq(Tasks)
    BY <1>1, ExceptSeq
  <1>3. /\ DOMAIN f = DOMAIN q /\ f[i] = t
        /\ \A k \in DOMAIN q : k # i => f[k] = q[k]
    OBVIOUS
  <1> HIDE DEF f
  <1>4. \A m \in DOMAIN q : m # i <=> q[m] # q[i]
    OBVIOUS
  <1>5. Range(f) = (Range(q) \ {q[i]}) \cup {t}
    BY <1>3, <1>4 DEF Range
  <1> QED BY <1>2, <1>5 DEF f

LEMMA AddedRange ==
    ASSUME IInv, NEW t, AddTask(t)
    PROVE  /\ Range(tasks') = Range(tasks) \cup {t}
           /\ Len(tasks') = Len(tasks) + 1
<1>1. t \in Tasks /\ tasks \in Seq(Tasks) /\ tasks' \in Sortings(Append(tasks, t))
    BY DEF AddTask, Entered, IInv, TypeOK
<1>2. Append(tasks, t) \in Seq(Tasks) /\ Range(Append(tasks, t)) = Range(tasks) \cup {t}
    BY <1>1, RangeAfterAppend
<1>3. Len(Append(tasks, t)) = Len(tasks) + 1
    BY <1>1, AppendProperties
<1>. DEFINE f == Append(tasks, t)
<1>. HIDE DEF f
<1>4. Range(tasks') = Range(f) /\ Len(tasks') = Len(f)
    <2>1. /\ IsFiniteSet(DOMAIN f) /\ f \in [DOMAIN f -> Tasks]
          /\ DOMAIN f = 1..Len(f) /\ Len(f) \in Nat
          /\ tasks' \in Sortings(f)
        BY <1>1, <1>2, DomainsFinite DEF f
    <2>2. Range(tasks') = Range(f) /\ Len(tasks') = Cardinality(DOMAIN f)
        BY <2>1, SortingsFacts
    <2>3. Cardinality(1..Len(f)) = Len(f)
        BY <2>1, FS_Interval
    <2>. QED  BY <2>1, <2>2, <2>3
<1>. QED  BY <1>2, <1>3, <1>4 DEF f

LEMMA UpdatedRange ==
    ASSUME IInv, NEW t, UpdateTask(t)
    PROVE  \E i \in DOMAIN tasks :
              /\ tasks[i].id = t.id
              /\ Range(tasks') = (Range(tasks) \ {tasks[i]}) \cup {t}
<1>1. PICK i \in DOMAIN tasks : IsFirst(i, t.id) /\ tasks' \in Sortings([tasks EXCEPT ![i] = t])
    BY DEF UpdateTask
<1>2. t \in Tasks /\ tasks \in Seq(Tasks) /\ IdsDistinct
    BY DEF UpdateTask, Entered, IInv, TypeOK
<1>. DEFINE f == [tasks EXCEPT ![i] = t]
<1>3. f \in Seq(Tasks) /\ Range(f) = (Range(tasks) \ {tasks[i]}) \cup {t}
    BY <1>2, RangeAfterReplace DEF IdsDistinct
<1>4. tasks' \in Sortings(f)
    BY <1>1
<1>. HIDE DEF f
<1>5. Range(tasks') = Range(f)
    BY <1>3, <1>4, RangeAfterSort
<1>. QED  BY <1>1, <1>3, <1>5 DEF IsFirst

LEMMA DeletedRange ==
    ASSUME IInv, NEW id, DeleteTask(id)
    PROVE  \E i \in DOMAIN tasks :
              /\ tasks[i].id = id
              /\ Range(tasks') = Range(tasks) \ {tasks[i]}
<1>1. PICK i \in DOMAIN tasks : IsFirst(i, id) /\ tasks' = RemoveAt(tasks, i)
    BY DEF DeleteTask
<1>2. tasks \in Seq(Tasks) /\ IdsDistinct
    BY DEF IInv, TypeOK
<1>3. Range(RemoveAt(tasks, i)) = Range(tasks) \ {tasks[i]}
    BY <1>2, RangeAfterRemove DEF IdsDistinct
<1>. QED  BY <1>1, <1>3 DEF IsFirst

-----------------------------------------------------------------------------
(* The promise of Schedule.                                                *)

(* What one more line adds to the tasks that a load would give back.       *)
LEMMA RecoverAppended ==
    ASSUME IInv, ~Unreadable(file), NEW line \in Seq(Fields)
    PROVE  Recover(Append(file, line)) =
              IF Throws(line) THEN {}
              ELSE IF Parses(line) THEN Recover(file) \cup {Deserialize(line)}
              ELSE Recover(file)
  <1> DEFINE f == Append(file, line)
             n == Len(file) + 1
  <1>1. file \in Seq(Seq(Fields))
    BY DEF IInv, TypeOK
  <1>2. /\ f \in Seq(Seq(Fields)) /\ Len(f) = n
        /\ \A k \in 1..Len(file) : f[k] = file[k]
        /\ f[n] = line
    BY <1>1, AppendProperties
  <1> HIDE DEF f
  <1>3. DOMAIN f = 1..n /\ DOMAIN file = 1..Len(file) /\ Len(file) \in Nat
    BY <1>1, <1>2, DomainsFinite
  <1>4. DOMAIN f = DOMAIN file \cup {n} /\ n \notin DOMAIN file
    BY <1>3
  <1>5. Unreadable(f) <=> Throws(line)
    BY <1>2, <1>3, <1>4 DEF Unreadable
  <1>6. Readable(f) = IF Parses(line) THEN Readable(file) \cup {n} ELSE Readable(file)
    BY <1>2, <1>3, <1>4 DEF Readable
  <1>7. \A k \in Readable(file) : f[k] = file[k]
    BY <1>2, <1>3 DEF Readable
  <1>8. {Deserialize(f[k]) : k \in Readable(f)} =
           IF Parses(line) THEN {Deserialize(file[k]) : k \in Readable(file)} \cup {Deserialize(line)}
           ELSE {Deserialize(file[k]) : k \in Readable(file)}
    BY <1>2, <1>6, <1>7
  <1>9. Recover(f) = IF Throws(line) THEN {}
                     ELSE IF Parses(line) THEN Recover(file) \cup {Deserialize(line)}
                     ELSE Recover(file)
    BY <1>5, <1>8 DEF Recover
  <1> QED BY <1>9 DEF f

LEMMA RecoverAfterLine ==
    ASSUME IInv, pc = "write", NEW t \in Tasks
    PROVE  Recover(Append(file, Serialize(t))) =
              IF Parses(Serialize(t)) THEN Recover(file) \cup {t} ELSE Recover(file)
  <1>1. Serialize(t) \in Seq(Fields) /\ ~Throws(Serialize(t))
    BY SerializeFields, WholeLineIsRead
  <1>2. Parses(Serialize(t)) => Deserialize(Serialize(t)) = t
    BY RoundTrip
  <1> QED BY <1>1, <1>2, ReadableWhileSaving, RecoverAppended

(* What a cut in a line does to them: nothing, or none of them can be      *)
(* read, or a task that nobody entered stands beside them.                 *)
LEMMA RecoverAfterCut ==
    ASSUME IInv, file' \in {file} \cup Cuts
    PROVE  \/ Recover(file') = Recover(file)
           \/ /\ pc = "write"
              /\ \/ Recover(file') = {}
                 \/ \E t \in Range(tasks) : \E u \in Misreadings(t) :
                       u \in Tasks /\ Recover(file') = Recover(file) \cup {u}
  <1>1. CASE file' = file
    BY <1>1
  <1>2. CASE file' # file
    <2> DEFINE n == Len(file) + 1
               t == tasks[n]
    <2>1. pc = "write" /\ Len(file) < Len(tasks)
      BY <1>2 DEF Cuts
    <2>2. PICK line \in Torn(t) : file' = Append(file, line)
      BY <1>2 DEF Cuts
    <2>3. /\ tasks \in Seq(Tasks)
          /\ DOMAIN tasks = 1..Len(tasks) /\ Len(tasks) \in Nat /\ Len(file) \in Nat
      BY DomainsFinite DEF IInv, TypeOK
    <2>4. n \in DOMAIN tasks
      BY <2>1, <2>3
    <2> HIDE DEF n
    <2>5. t \in Tasks /\ t \in Range(tasks)
      BY <2>3, <2>4, ListIds DEF Range
    <2> HIDE DEF t
    <2>6. /\ line \in Seq(Fields) /\ Parses(line)
          /\ ~Throws(line) => Deserialize(line) \in Tasks
      BY <2>5, TornFields
    <2>7. Recover(file') = IF Throws(line) THEN {} ELSE Recover(file) \cup {Deserialize(line)}
      BY <2>1, <2>2, <2>6, ReadableWhileSaving, RecoverAppended
    <2>8. ~Throws(line) => Deserialize(line) \in Misreadings(t)
      BY DEF Misreadings
    <2> QED BY <2>1, <2>5, <2>6, <2>7, <2>8
  <1> QED BY <1>1, <1>2

(* The storable tasks of the list, in the words of the promise.            *)
LEMMA StorableTasks ==
    ASSUME IInv
    PROVE  Storable = {t \in Range(tasks) : Promise!CanBeStored(t)}
  <1>1. \A k \in DOMAIN tasks : tasks[k] \in Tasks
    BY ListIds DEF IInv, TypeOK
  <1>2. \A k \in DOMAIN tasks : Parses(Serialize(tasks[k])) <=> Len(tasks[k].name) = 1
    BY <1>1, RoundTrip
  <1> QED BY <1>2 DEF Storable, Range, Promise!CanBeStored

-----------------------------------------------------------------------------
(* The initial state and every step, in the words of the promise.          *)

LEMMA SameMisreadings == \A t : Promise!Misreadings(t) = Misreadings(t)
  <1>1. \A t : Promise!Torn(t) = Torn(t)
    BY DEF Promise!Torn, Torn
  <1>2. \A line : Promise!Throws(line) <=> Throws(line)
    BY DEF Promise!Throws, Throws, Promise!Parses, Parses, Promise!FieldCount, FieldCount
  <1>3. \A line : Promise!Deserialize(line) = Deserialize(line)
    BY DEF Promise!Deserialize, Deserialize
  <1> QED BY <1>1, <1>2, <1>3 DEF Promise!Misreadings, Misreadings

LEMMA RefineInit == Init => Promise!Init
  <1> SUFFICES ASSUME Init PROVE Promise!Init
    OBVIOUS
  <1>1. tasks = <<>> /\ reminded = {} /\ file = <<>> /\ pc = "off"
    BY DEF Init
  <1>2. Range(tasks) = {} /\ Recover(file) = {}
    BY <1>1 DEF Range, Recover, Readable
  <1> QED BY <1>1, <1>2 DEF Promise!Init

LEMMA RefineChange ==
    ASSUME IInv, NEW t \in Candidates, AddTask(t) \/ UpdateTask(t)
    PROVE  Promise!Next
  <1>1. /\ tasks \in Seq(Tasks) /\ t \in Tasks
        /\ pc = "idle" /\ pc' = "save" /\ file' = file /\ reminded' = reminded
    BY DEF IInv, TypeOK, AddTask, UpdateTask, Entered
  <1>2. Recover(file') = Recover(file)
    BY <1>1
  <1>3. CASE AddTask(t)
    <2>1. t.id = nextId /\ ~Conflict(t)
      BY <1>3 DEF AddTask, NewId
    <2>2. Range(tasks') = Range(tasks) \cup {t}
      BY <1>3, AddedRange
    <2>3. t.id \notin Ids(tasks) \cup reminded
      BY <2>1 DEF IInv, TypeOK, CounterAhead
    <2>4. Promise!TaskIds = Ids(tasks)
      BY DEF Promise!TaskIds, Ids, Range
    <2>5. \A u \in Range(tasks) : u.start # t.start
      BY <2>1 DEF Conflict, Range
    <2>6. Promise!Add(t)
      BY <1>1, <1>2, <2>2, <2>3, <2>4, <2>5 DEF Promise!Add
    <2> QED BY <2>6 DEF Promise!Next
  <1>4. CASE UpdateTask(t)
    <2>1. PICK i \in DOMAIN tasks :
             tasks[i].id = t.id /\ Range(tasks') = (Range(tasks) \ {tasks[i]}) \cup {t}
      BY <1>4, UpdatedRange
    <2>2. tasks[i] \in Range(tasks)
      BY DEF Range
    <2>3. Promise!Replace(tasks[i], t)
      BY <1>1, <1>2, <2>1 DEF Promise!Replace
    <2> QED BY <2>2, <2>3 DEF Promise!Next
  <1> QED BY <1>3, <1>4

LEMMA RefineDelete ==
    ASSUME IInv, NEW id, DeleteTask(id)
    PROVE  Promise!Next
  <1>1. PICK i \in DOMAIN tasks : Range(tasks') = Range(tasks) \ {tasks[i]}
    BY DeletedRange
  <1>2. pc = "idle" /\ pc' = "save" /\ file' = file /\ reminded' = reminded
    BY DEF DeleteTask
  <1>3. Recover(file') = Recover(file)
    BY <1>2
  <1>4. Promise!Delete(tasks[i])
    BY <1>1, <1>2, <1>3 DEF Promise!Delete
  <1>5. tasks[i] \in Range(tasks)
    BY DEF Range
  <1> QED BY <1>4, <1>5 DEF Promise!Next

LEMMA RefineSave ==
    ASSUME IInv, Save
    PROVE  [Promise!Next]_(Promise!vars)
  <1>1. tasks' = tasks /\ reminded' = reminded
    BY DEF Save, SaveOpenFails, SaveOpen, SaveLine, SaveClose
  <1>2. Range(tasks') = Range(tasks)
    BY <1>1
  <1>3. CASE SaveOpenFails
    <2>1. pc = "save" /\ pc' = "idle" /\ synced' = FALSE /\ file' = file
      BY <1>3 DEF SaveOpenFails
    <2>2. Recover(file') = Recover(file)
      BY <2>1
    <2>3. UNCHANGED Promise!vars
      BY <1>1, <1>2, <2>1, <2>2 DEF Promise!vars
    <2> QED BY <2>3
  <1>4. CASE SaveOpen
    <2>1. pc = "save" /\ pc' = "write" /\ file' = <<>>
      BY <1>4 DEF SaveOpen
    <2>2. Recover(file') = {}
      BY <2>1 DEF Recover, Readable
    <2>3. Promise!Forget
      BY <1>1, <1>2, <2>1, <2>2 DEF Promise!Forget
    <2> QED BY <2>3 DEF Promise!Next
  <1>5. CASE SaveLine
    <2> DEFINE n == Len(file) + 1
               t == tasks[n]
    <2>1. /\ pc = "write" /\ pc' = "write" /\ synced' = synced
          /\ Len(file) < Len(tasks)
          /\ file' = Append(file, Serialize(t))
      BY <1>5 DEF SaveLine
    <2>2. /\ tasks \in Seq(Tasks)
          /\ DOMAIN tasks = 1..Len(tasks) /\ Len(tasks) \in Nat /\ Len(file) \in Nat
      BY DomainsFinite DEF IInv, TypeOK
    <2>3. n \in DOMAIN tasks
      BY <2>1, <2>2
    <2> HIDE DEF n
    <2>4. t \in Tasks /\ t \in Range(tasks)
      BY <2>2, <2>3, ListIds DEF Range
    <2> HIDE DEF t
    <2>5. Recover(file') = IF Parses(Serialize(t)) THEN Recover(file) \cup {t} ELSE Recover(file)
      BY <2>1, <2>4, RecoverAfterLine
    <2>6. CASE Parses(Serialize(t))
      <3>1. Len(t.name) = 1
        BY <2>4, <2>6, RoundTrip
      <3>2. Promise!Store(t)
        BY <1>1, <1>2, <2>1, <2>5, <2>6, <3>1 DEF Promise!Store, Promise!CanBeStored
      <3> QED BY <2>4, <3>2 DEF Promise!Next
    <2>7. CASE ~Parses(Serialize(t))
      <3>1. UNCHANGED Promise!vars
        BY <1>1, <1>2, <2>1, <2>5, <2>7 DEF Promise!vars
      <3> QED BY <3>1
    <2> QED BY <2>6, <2>7
  <1>6. CASE SaveClose
    <2>1. /\ pc = "write" /\ pc' = "idle"
          /\ synced' = (Len(file) = Len(tasks))
      BY <1>6 DEF SaveClose
    <2>2. CASE Len(file) = Len(tasks)
      <3>1. synced' /\ file' = file
        BY <1>6, <2>1, <2>2, CloseInFull
      <3>2. Recover(file') = {t \in Range(tasks) : Promise!CanBeStored(t)}
        BY <2>1, <2>2, <3>1, FullFile, StorableTasks
      <3>3. Promise!Commit
        BY <1>1, <1>2, <2>1, <3>1, <3>2 DEF Promise!Commit
      <3> QED BY <3>3 DEF Promise!Next
    <2>3. CASE Len(file) # Len(tasks)
      <3>1. ~synced' /\ file' \in {file} \cup Cuts
        BY <1>6, <2>1, <2>3 DEF SaveClose
      <3>2. CASE Recover(file') = Recover(file)
        <4>1. UNCHANGED Promise!vars
          BY <1>1, <1>2, <2>1, <3>1, <3>2 DEF Promise!vars
        <4> QED BY <4>1
      <3>3. CASE Recover(file') = {}
        <4>1. Promise!Forget
          BY <1>1, <1>2, <2>1, <3>1, <3>3 DEF Promise!Forget
        <4> QED BY <4>1 DEF Promise!Next
      <3>4. ASSUME NEW t \in Range(tasks), NEW u \in Misreadings(t),
                   Recover(file') = Recover(file) \cup {u}
            PROVE  Promise!Next
        <4>1. u \in Promise!Misreadings(t)
          BY SameMisreadings
        <4>2. Promise!Garble(t)
          BY <1>1, <1>2, <2>1, <3>1, <3>4, <4>1 DEF Promise!Garble
        <4> QED BY <4>2 DEF Promise!Next
      <3> QED BY <3>1, <3>2, <3>3, <3>4, RecoverAfterCut
    <2> QED BY <2>2, <2>3
  <1> QED BY <1>3, <1>4, <1>5, <1>6 DEF Save

LEMMA RefineCheck ==
    ASSUME NEW now \in Instants, CheckReminders(now)
    PROVE  [Promise!Next]_(Promise!vars)
  <1>1. /\ pc = "idle" /\ pc' = pc /\ tasks' = tasks /\ file' = file /\ synced' = synced
        /\ reminded' = reminded \cup {tasks[i].id : i \in Due(now)}
    BY DEF CheckReminders
  <1>2. Range(tasks') = Range(tasks) /\ Recover(file') = Recover(file)
    BY <1>1
  <1>3. reminded' = reminded \cup {t.id : t \in {u \in Range(tasks) : Promise!InWindow(u, now)}}
    <2>1. \A time : Promise!Instant(time) = Instant(time)
      BY DEF Promise!Instant, Instant, Promise!Epoch, Epoch
    <2>2. \A i \in DOMAIN tasks :
             i \in Due(now) <=> Promise!InWindow(tasks[i], now) /\ tasks[i].id \notin reminded
      BY <2>1 DEF Due, Promise!InWindow
    <2>3. Due(now) \subseteq DOMAIN tasks
      BY DEF Due
    <2> QED BY <1>1, <2>2, <2>3 DEF Range
  <1>4. Promise!Alert(now)
    BY <1>1, <1>2, <1>3 DEF Promise!Alert
  <1> QED BY <1>4 DEF Promise!Next

LEMMA RefineStartStop ==
    ASSUME IInv, LoadFromFile \/ LoadFails \/ ProcessEnds
    PROVE  Promise!Next
  <1>1. /\ reminded' = {}
        /\ LoadFromFile \/ LoadFails => Recover(file') = Recover(file)
    BY DEF LoadFromFile, LoadFails, ProcessEnds
  <1>2. CASE LoadFromFile
    <2>1. /\ pc = "off" /\ pc' = "idle" /\ synced' = TRUE /\ ~Unreadable(file)
          /\ tasks' \in Sortings([i \in Readable(file) |-> Deserialize(file[i])])
      BY <1>2 DEF LoadFromFile
    <2>2. Range(tasks') = Recover(file)
      BY <2>1, LoadedList
    <2>3. Promise!Start
      BY <1>1, <1>2, <2>1, <2>2 DEF Promise!Start
    <2> QED BY <2>3 DEF Promise!Next
  <1>3. CASE LoadFails
    <2>1. pc = "off" /\ pc' = "idle" /\ synced' = FALSE /\ Range(tasks') = {}
      BY <1>3 DEF LoadFails, Range
    <2>2. Promise!Start
      BY <1>1, <1>3, <2>1 DEF Promise!Start
    <2> QED BY <2>2 DEF Promise!Next
  <1>4. CASE ProcessEnds
    <2>1. /\ pc # "off" /\ pc' = "off" /\ Range(tasks') = {}
          /\ file' \in {file} \cup Cuts
      BY <1>4 DEF ProcessEnds, Range
    <2>2. \/ Recover(file') = Recover(file)
          \/ /\ pc = "write"
             /\ \/ Recover(file') = {}
                \/ \E t \in Range(tasks) : \E u \in Misreadings(t) :
                      Recover(file') = Recover(file) \cup {u}
      BY <2>1, RecoverAfterCut
    <2>3. Promise!Stop
      BY <1>1, <2>1, <2>2, SameMisreadings DEF Promise!Stop
    <2> QED BY <2>3 DEF Promise!Next
  <1> QED BY <1>2, <1>3, <1>4

LEMMA RefineNext == IInv /\ [Next]_vars => [Promise!Next]_(Promise!vars)
  <1> SUFFICES ASSUME IInv, [Next]_vars
               PROVE  [Promise!Next]_(Promise!vars)
    OBVIOUS
  <1>1. CASE LoadFromFile \/ LoadFails \/ ProcessEnds
    BY <1>1, RefineStartStop
  <1>2. CASE \E t \in Candidates : AddTask(t) \/ UpdateTask(t)
    BY <1>2, RefineChange
  <1>3. CASE \E t \in Candidates : AddRejected(t)
    <2>1. tasks' = tasks /\ reminded' = reminded /\ file' = file /\ pc' = pc /\ synced' = synced
      BY <1>3 DEF AddRejected
    <2>2. Range(tasks') = Range(tasks) /\ Recover(file') = Recover(file)
      BY <2>1
    <2>3. UNCHANGED Promise!vars
      BY <2>1, <2>2 DEF Promise!vars
    <2> QED BY <2>3
  <1>4. CASE \E id \in Ids(tasks) : DeleteTask(id)
    BY <1>4, RefineDelete
  <1>5. CASE Save
    BY <1>5, RefineSave
  <1>6. CASE \E now \in Instants : CheckReminders(now)
    BY <1>6, RefineCheck
  <1>7. CASE LoadThrows \/ UNCHANGED vars
    <2>1. tasks' = tasks /\ reminded' = reminded /\ file' = file /\ pc' = pc /\ synced' = synced
      BY <1>7 DEF LoadThrows, vars
    <2>2. Range(tasks') = Range(tasks) /\ Recover(file') = Recover(file)
      BY <2>1
    <2>3. UNCHANGED Promise!vars
      BY <2>1, <2>2 DEF Promise!vars
    <2> QED BY <2>3
  <1> QED BY <1>1, <1>2, <1>3, <1>4, <1>5, <1>6, <1>7 DEF Next

(* Seen as a set of tasks, a stored set and a set of announced ids, the    *)
(* task manager behaves as Schedule says: class TaskManager as a whole.    *)
THEOREM ScheduleKept == Spec => Implements
  <1>1. Spec => Promise!Spec
    BY RefineInit, RefineNext, Invariance, PTL DEF Spec, Promise!Spec
  <1> QED BY <1>1 DEF Implements
=============================================================================
