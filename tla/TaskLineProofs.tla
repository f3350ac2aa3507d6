---------------------------- MODULE TaskLineProofs ----------------------------
(***************************************************************************)
(* What a torn line of tasks.txt can become, for all names, numbers and    *)
(* moments.                                                                *)
(***************************************************************************)
EXTENDS TaskLine, SequenceTheorems, TLAPS

-----------------------------------------------------------------------------
(* The line that serialize writes.  Only the fields of the name may be     *)
(* anything but a number.                                                  *)

LEMMA NumberIsField ==
    ASSUME NEW n \in Numbers
    PROVE  <<n>> \in Fields /\ IsNumber(<<n>>) /\ <<n>> # Blank /\ Head(<<n>>) = n
BY DEF Fields, IsNumber, Blank

LEMMA AsFieldsFacts ==
    ASSUME NEW k \in Nat, NEW m \in [1..k -> Numbers]
    PROVE  /\ AsFields(m) \in Seq(Fields) /\ Len(AsFields(m)) = k
           /\ \A i \in 1..k : AsFields(m)[i] = <<m[i]>>
<1>1. AsFields(m) = [i \in 1..k |-> <<m[i]>>]
    BY DEF AsFields
<1>2. AsFields(m) \in [1..k -> Fields]
    BY <1>1, NumberIsField
<1>. QED  BY <1>1, <1>2

LEMMA Joined ==
    ASSUME NEW S, NEW a \in Seq(S), NEW b \in Seq(S)
    PROVE  /\ a \o b \in Seq(S) /\ Len(a \o b) = Len(a) + Len(b)
           /\ \A i \in 1..Len(a) : (a \o b)[i] = a[i]
           /\ \A i \in 1..Len(b) : (a \o b)[Len(a) + i] = b[i]
BY ConcatProperties

LEMMA SerializeFields ==
    ASSUME NEW t \in Tasks
    PROVE  /\ Serialize(t) \in Seq(Fields) /\ Len(t.name) \in Nat \ {0}
           /\ Len(Serialize(t)) = Len(t.name) + 13
           /\ Serialize(t)[1] = <<t.id>>
           /\ \A i \in 1..Len(t.name) : Serialize(t)[i + 1] = t.name[i] /\ t.name[i] \in Fields
           /\ \A i \in 1..5 : /\ Serialize(t)[Len(t.name) + 1 + i] = <<t.start[i]>>
                              /\ Serialize(t)[Len(t.name) + 6 + i] = <<t.remind[i]>>
           /\ \A i \in 1..2 : Serialize(t)[Len(t.name) + 11 + i] = <<t.enums[i]>>
<1>. DEFINE x == <<<<t.id>>>>  n == t.name
            s == AsFields(t.start)  r == AsFields(t.remind)  e == AsFields(t.enums)
<1>1. /\ t.id \in Numbers /\ n \in Seq(Fields) /\ n # <<>>
      /\ t.start \in [1..5 -> Numbers] /\ t.remind \in [1..5 -> Numbers]
      /\ t.enums \in [1..2 -> Numbers]
    BY LineAssumption DEF Tasks
<1>2. x \in Seq(Fields) /\ Len(x) = 1 /\ x[1] = <<t.id>>
    BY <1>1, NumberIsField
<1>3. /\ s \in Seq(Fields) /\ Len(s) = 5 /\ \A i \in 1..5 : s[i] = <<t.start[i]>>
      /\ r \in Seq(Fields) /\ Len(r) = 5 /\ \A i \in 1..5 : r[i] = <<t.remind[i]>>
      /\ e \in Seq(Fields) /\ Len(e) = 2 /\ \A i \in 1..2 : e[i] = <<t.enums[i]>>
    BY <1>1, AsFieldsFacts
<1>4. Len(n) \in Nat \ {0} /\ \A i \in 1..Len(n) : n[i] \in Fields
    BY <1>1, EmptySeq, ElementOfSeq
<1>. DEFINE a == x \o n  b == a \o s  c == b \o r  d == c \o e
<1>5. Serialize(t) = d
    BY DEF Serialize
<1>. HIDE DEF x, s, r, e
<1>. HIDE DEF n
<1>6. a \in Seq(Fields) /\ Len(a) = Len(x) + Len(n) /\ (\A i \in 1..Len(x) : a[i] = x[i])
      /\ \A i \in 1..Len(n) : a[Len(x) + i] = n[i]
    <2>1. x \in Seq(Fields) /\ n \in Seq(Fields)
        BY <1>1, <1>2
    <2>. QED  BY <2>1, Joined
<1>. HIDE DEF a
<1>7. Len(a) = Len(n) + 1 /\ a[1] = <<t.id>> /\ \A i \in 1..Len(n) : a[i + 1] = n[i]
    <2>1. \A i \in 1..Len(n) : i + 1 = Len(x) + i
        BY <1>2, <1>4
    <2>. QED  BY <1>2, <1>4, <1>6, <2>1
<1>8. b \in Seq(Fields) /\ Len(b) = Len(a) + Len(s) /\ (\A i \in 1..Len(a) : b[i] = a[i])
      /\ \A i \in 1..Len(s) : b[Len(a) + i] = s[i]
    <2>1. a \in Seq(Fields) /\ s \in Seq(Fields)
        BY <1>3, <1>6
    <2>. QED  BY <2>1, Joined
<1>. HIDE DEF b
<1>9. c \in Seq(Fields) /\ Len(c) = Len(b) + Len(r) /\ (\A i \in 1..Len(b) : c[i] = b[i])
      /\ \A i \in 1..Len(r) : c[Len(b) + i] = r[i]
    <2>1. b \in Seq(Fields) /\ r \in Seq(Fields)
        BY <1>3, <1>8
    <2>. QED  BY <2>1, Joined
<1>. HIDE DEF c
<1>10. d \in Seq(Fields) /\ Len(d) = Len(c) + Len(e) /\ (\A i \in 1..Len(c) : d[i] = c[i])
      /\ \A i \in 1..Len(e) : d[Len(c) + i] = e[i]
    <2>1. c \in Seq(Fields) /\ e \in Seq(Fields)
        BY <1>3, <1>9
    <2>. QED  BY <2>1, Joined
<1>. HIDE DEF d
<1>11. Len(d) = Len(n) + 13
    BY <1>3, <1>4, <1>7, <1>8, <1>9, <1>10
<1>12. Len(a) = Len(n) + 1 /\ Len(b) = Len(n) + 6 /\ Len(c) = Len(n) + 11
    BY <1>3, <1>4, <1>7, <1>8, <1>9
<1>13. \A i \in 1..(Len(n) + 1) : d[i] = a[i]
    BY <1>4, <1>12, <1>8, <1>9, <1>10
<1>14. \A i \in 1..5 : d[Len(n) + 1 + i] = s[i]
    <2>. SUFFICES ASSUME NEW i \in 1..5
                  PROVE  d[Len(n) + 1 + i] = s[i]
        OBVIOUS
    <2>. DEFINE k == Len(n) + 1 + i
    <2>1. k \in 1..Len(b) /\ k \in 1..Len(c) /\ k = Len(a) + i
        BY <1>4, <1>12
    <2>. HIDE DEF k
    <2>2. d[k] = c[k] /\ c[k] = b[k]
        BY <1>9, <1>10, <2>1
    <2>3. b[k] = s[i]
        BY <1>3, <1>8, <2>1
    <2>. QED  BY <2>2, <2>3 DEF k
<1>15. \A i \in 1..5 : d[Len(n) + 6 + i] = r[i]
    <2>. SUFFICES ASSUME NEW i \in 1..5
                  PROVE  d[Len(n) + 6 + i] = r[i]
        OBVIOUS
    <2>. DEFINE k == Len(n) + 6 + i
    <2>1. k \in 1..Len(c) /\ k = Len(b) + i
        BY <1>4, <1>12
    <2>. HIDE DEF k
    <2>2. d[k] = c[k] /\ c[k] = r[i]
        BY <1>3, <1>9, <1>10, <2>1
    <2>. QED  BY <2>2 DEF k
<1>16. \A i \in 1..2 : d[Len(n) + 11 + i] = e[i]
    BY <1>3, <1>10, <1>12
<1>17. d[1] = <<t.id>> /\ \A i \in 1..Len(n) : d[i + 1] = n[i]
    BY <1>4, <1>7, <1>13
<1>. QED  BY <1>3, <1>4, <1>5, <1>10, <1>11, <1>14, <1>15, <1>16, <1>17 DEF n

(* The fields of the line that are not in the name are numbers.            *)
LEMMA NumbersAround ==
    ASSUME NEW t \in Tasks, NEW k \in 1..Len(Serialize(t)), k \notin 2..(Len(t.name) + 1)
    PROVE  \E n \in Numbers : Serialize(t)[k] = <<n>>
<1>. DEFINE s == Serialize(t)  l == Len(t.name)
<1>1. l \in Nat \ {0} /\ Len(s) = l + 13
    BY SerializeFields
<1>2. /\ t.id \in Numbers /\ \A i \in 1..5 : t.start[i] \in Numbers /\ t.remind[i] \in Numbers
      /\ \A i \in 1..2 : t.enums[i] \in Numbers
    <2>1. /\ t.id \in Numbers /\ t.start \in [1..5 -> Numbers] /\ t.remind \in [1..5 -> Numbers]
          /\ t.enums \in [1..2 -> 0..2] /\ 0..2 \subseteq Numbers
        BY LineAssumption DEF Tasks
    <2>. QED  BY <2>1
<1>3. s[1] = <<t.id>>
      /\ (\A i \in 1..5 : s[l + 1 + i] = <<t.start[i]>> /\ s[l + 6 + i] = <<t.remind[i]>>)
      /\ \A i \in 1..2 : s[l + 11 + i] = <<t.enums[i]>>
    BY SerializeFields
<1>. HIDE DEF s, l
<1>4. CASE k = 1
    BY <1>2, <1>3, <1>4 DEF s
<1>5. CASE k \in (l + 2)..(l + 6)
    <2>. DEFINE i == k - (l + 1)
    <2>1. i \in 1..5 /\ k = l + 1 + i
        BY <1>1, <1>5
    <2>. HIDE DEF i
    <2>. QED  BY <1>2, <1>3, <2>1 DEF s
<1>6. CASE k \in (l + 7)..(l + 11)
    <2>. DEFINE i == k - (l + 6)
    <2>1. i \in 1..5 /\ k = l + 6 + i
        BY <1>1, <1>6
    <2>. HIDE DEF i
    <2>. QED  BY <1>2, <1>3, <2>1 DEF s
<1>7. CASE k \in (l + 12)..(l + 13)
    <2>. DEFINE i == k - (l + 11)
    <2>1. i \in 1..2 /\ k = l + 11 + i
        BY <1>1, <1>7
    <2>. HIDE DEF i
    <2>. QED  BY <1>2, <1>3, <2>1 DEF s
<1>. QED  BY <1>1, <1>4, <1>5, <1>6, <1>7 DEF s, l

-----------------------------------------------------------------------------
(* What is left of it.                                                     *)

(* A number that loses digits is a number or nothing.                      *)
LEMMA FewerDigits ==
    ASSUME NEW n \in Numbers, NEW f \in Shorter(<<n>>)
    PROVE  f = Blank \/ \E m \in Numbers : f = <<m>>
<1>1. n \in 0..9999 /\ n \in Nat
      /\ \A m \in Numbers : m >= 10 => m \div 10 \in Numbers
    <2>1. Numbers \subseteq 0..9999
        BY LineAssumption
    <2>2. \A m \in Numbers : m >= 10 => m \div 10 \in Numbers
        BY LineAssumption
    <2>. QED  BY <2>1, <2>2
<1>2. IsNumber(<<n>>) /\ Head(<<n>>) = n
    BY NumberIsField
<1>3. f = Blank \/ \E d \in {10, 100, 1000} : d <= n /\ f = <<n \div d>>
    BY <1>2 DEF Shorter
<1>4. n >= 10 => n \div 10 \in Numbers
    BY <1>1
<1>5. n >= 100 => n \div 100 \in Numbers
    <2>1. n >= 100 => n \div 10 >= 10 /\ (n \div 10) \div 10 = n \div 100
        BY <1>1
    <2>. QED  BY <1>1, <1>4, <2>1
<1>6. n >= 1000 => n \div 1000 \in Numbers
    <2>1. n >= 1000 => n \div 100 >= 10 /\ (n \div 100) \div 10 = n \div 1000
        BY <1>1
    <2>. QED  BY <1>1, <1>5, <2>1
<1>. QED  BY <1>1, <1>3, <1>4, <1>5, <1>6

(* A torn line is the whole one, or shorter or as long with its last field *)
(* cut.                                                                    *)
TornAt(s, k, f, x) ==
    /\ k \in 1..Len(s)
    /\ f \in Shorter(s[k]) \cup {s[k]}
    /\ x = Append(SubSeq(s, 1, k - 1), f)

LEMMA TornFields ==
    ASSUME NEW s \in Seq(Fields), NEW x \in Torn(s), x # s
    PROVE  \E k, f : TornAt(s, k, f, x)
<1>1. DOMAIN s = 1..Len(s)
    OBVIOUS
<1>. QED  BY <1>1 DEF Torn, TornAt

LEMMA TornLine ==
    ASSUME NEW s \in Seq(Fields), NEW k, NEW f, NEW x, TornAt(s, k, f, x)
    PROVE  /\ Len(x) = k /\ x[k] = f
           /\ \A i \in 1..(k - 1) : x[i] = s[i]
           /\ x \in Seq(Fields \cup {f})
<1>1. k \in 1..Len(s) /\ Len(s) \in Nat
    BY DEF TornAt
<1>. DEFINE y == SubSeq(s, 1, k - 1)  S == Fields \cup {f}
<1>2. s \in Seq(S)
    BY SeqMonotonic
<1>3. y \in Seq(S) /\ Len(y) = k - 1 /\ \A i \in 1..(k - 1) : y[i] = s[i]
    BY <1>1, <1>2, SubSeqProperties
<1>4. x = Append(y, f)
    BY DEF TornAt
<1>. HIDE DEF y, S
<1>5. f \in S
    BY DEF S
<1>6. /\ x \in Seq(S) /\ Len(x) = Len(y) + 1 /\ x[Len(y) + 1] = f
      /\ \A i \in 1..Len(y) : x[i] = y[i]
    BY <1>3, <1>4, <1>5, AppendProperties
<1>. QED  BY <1>1, <1>3, <1>6 DEF S

(* split drops one empty field at the end.                                 *)
LEMMA SplitFacts ==
    ASSUME NEW S, NEW x \in Seq(S), x # <<>>
    PROVE  /\ x[Len(x)] = Blank =>
                 Len(Split(x)) = Len(x) - 1 /\ \A i \in 1..(Len(x) - 1) : Split(x)[i] = x[i]
           /\ x[Len(x)] # Blank => Split(x) = x
<1>1. Len(x) \in Nat \ {0}
    BY EmptySeq
<1>. DEFINE y == SubSeq(x, 1, Len(x) - 1)
<1>2. Len(y) = Len(x) - 1 /\ \A i \in 1..(Len(x) - 1) : y[i] = x[i]
    <2>1. \A i \in 1..(Len(x) - 1) : x[i] \in S
        BY <1>1, ElementOfSeq
    <2>. DEFINE l == Len(x) - 1
    <2>2. l \in Nat /\ 1 \in Int /\ l \in Int /\ \A i \in 1..l : x[i] \in S
        BY <1>1, <2>1
    <2>. HIDE DEF l
    <2>3. l = IF 1 <= l THEN l - 1 + 1 ELSE 0
        BY <2>2
    <2>4. \A i \in 1..l : i \in 1..(l - 1 + 1) /\ 1 + i - 1 = i
        BY <2>2
    <2>5. /\ Len(SubSeq(x, 1, l)) = IF 1 <= l THEN l - 1 + 1 ELSE 0
          /\ \A i \in 1..(l - 1 + 1) : SubSeq(x, 1, l)[i] = x[1 + i - 1]
        BY <2>2, SubSeqProperties
    <2>. QED  BY <2>3, <2>4, <2>5 DEF l
<1>. QED  BY <1>2 DEF Split

(* What split makes of a torn line: the fields before the cut, and the cut *)
(* one unless nothing is left of it.                                       *)
LEMMA TornParts ==
    ASSUME NEW s \in Seq(Fields), NEW k, NEW f, NEW x, TornAt(s, k, f, x)
    PROVE  /\ k \in 1..Len(s)
           /\ \A i \in 1..(k - 1) : Split(x)[i] = s[i]
           /\ f = Blank => Len(Split(x)) = k - 1
           /\ f # Blank => Len(Split(x)) = k /\ Split(x)[k] = f
<1>. DEFINE S == Fields \cup {f}
<1>1. /\ Len(x) = k /\ x[k] = f /\ x \in Seq(S) /\ k \in 1..Len(s) /\ Len(s) \in Nat
      /\ \A i \in 1..(k - 1) : x[i] = s[i]
    BY TornLine DEF TornAt
<1>. HIDE DEF S
<1>2. x # <<>>
    BY <1>1
<1>. QED  BY <1>1, <1>2, SplitFacts

(* The whole line gives the task back, or is dropped if its name has bars. *)
LEMMA WholeLine ==
    ASSUME NEW t \in Tasks
    PROVE  Deserialize(Serialize(t)) = IF Len(t.name) = 1 THEN Loaded(t) ELSE Dropped
<1>. DEFINE s == Serialize(t)  l == Len(t.name)
<1>1. /\ l \in Nat \ {0} /\ s \in Seq(Fields) /\ Len(s) = l + 13 /\ s[1] = <<t.id>>
      /\ \A i \in 1..l : s[i + 1] = t.name[i]
      /\ \A i \in 1..5 : s[l + 1 + i] = <<t.start[i]>> /\ s[l + 6 + i] = <<t.remind[i]>>
      /\ \A i \in 1..2 : s[l + 11 + i] = <<t.enums[i]>>
    BY SerializeFields
<1>2. \A k \in 1..Len(s) : k \notin 2..(l + 1) => \E n \in Numbers : s[k] = <<n>>
    BY NumbersAround
<1>. HIDE DEF s, l
<1>3. Split(s) = s
    <2>1. Len(s) \in 1..Len(s) /\ Len(s) \notin 2..(l + 1) /\ s # <<>>
        BY <1>1
    <2>2. s[Len(s)] # Blank
        BY <1>2, <2>1, NumberIsField
    <2>. QED  BY <1>1, <2>1, <2>2, SplitFacts
<1>4. CASE l # 1
    <2>1. Len(s) # 14
        BY <1>1, <1>4
    <2>. QED  BY <1>3, <1>4, <2>1 DEF Deserialize, FieldCount, s, l
<1>5. CASE l = 1
    <2>1. Len(s) = 14 /\ \A i \in NumberFields : IsNumber(s[i])
        <3>1. Len(s) = 14
            BY <1>1, <1>5
        <3>2. \A i \in NumberFields : i \in 1..Len(s) /\ i \notin 2..(l + 1)
            BY <1>5, <3>1 DEF NumberFields, FieldCount
        <3>. QED  BY <1>2, <3>1, <3>2, NumberIsField
    <2>2. /\ t.id \in Numbers /\ t.start \in [1..5 -> Numbers] /\ t.remind \in [1..5 -> Numbers]
          /\ t.enums \in [1..2 -> 0..2] /\ t.name \in Seq(Fields)
        BY LineAssumption DEF Tasks
    <2>3. Head(s[1]) = t.id /\ <<s[2]>> = t.name
        <3>1. s[1 + 1] = t.name[1]
            BY <1>1, <1>5
        <3>2. s[2] = t.name[1]
            BY <3>1
        <3>3. t.name = <<t.name[1]>>
            BY <1>5, <2>2 DEF l
        <3>. QED  BY <1>1, <3>2, <3>3
    <2>4. Numerals(s, 3, 7) = t.start
        <3>1. \A i \in 1..5 : s[3 + i - 1] = <<t.start[i]>>
            <4>1. \A i \in 1..5 : 3 + i - 1 = l + 1 + i
                BY <1>5
            <4>. QED  BY <1>1, <4>1
        <3>2. Numerals(s, 3, 7) = [i \in 1..5 |-> Head(s[3 + i - 1])]
            BY DEF Numerals
        <3>3. \A i \in 1..5 : Head(s[3 + i - 1]) = t.start[i]
            BY <3>1
        <3>4. t.start = [i \in 1..5 |-> t.start[i]]
            BY <2>2
        <3>. QED  BY <3>2, <3>3, <3>4, Zenon
    <2>5. Numerals(s, 8, 12) = t.remind
        <3>1. \A i \in 1..5 : s[8 + i - 1] = <<t.remind[i]>>
            <4>1. \A i \in 1..5 : 8 + i - 1 = l + 6 + i
                BY <1>5
            <4>. QED  BY <1>1, <4>1
        <3>2. Numerals(s, 8, 12) = [i \in 1..5 |-> Head(s[8 + i - 1])]
            BY DEF Numerals
        <3>3. \A i \in 1..5 : Head(s[8 + i - 1]) = t.remind[i]
            BY <3>1
        <3>4. t.remind = [i \in 1..5 |-> t.remind[i]]
            BY <2>2
        <3>. QED  BY <3>2, <3>3, <3>4, Zenon
    <2>6. Numerals(s, 13, 14) = t.enums
        <3>1. \A i \in 1..2 : s[13 + i - 1] = <<t.enums[i]>>
            <4>1. \A i \in 1..2 : 13 + i - 1 = l + 11 + i
                BY <1>5
            <4>. QED  BY <1>1, <4>1
        <3>2. Numerals(s, 13, 14) = [i \in 1..2 |-> Head(s[13 + i - 1])]
            BY DEF Numerals
        <3>. QED  BY <2>2, <3>1, <3>2
    <2>7. t = [id |-> t.id, name |-> t.name, start |-> t.start, remind |-> t.remind,
               enums |-> t.enums]
        BY DEF Tasks
    <2>8. Deserialize(s) = Loaded(t)
        BY <1>3, <2>1, <2>3, <2>4, <2>5, <2>6, <2>7 DEF Deserialize, FieldCount
    <2>. QED  BY <1>5, <2>8 DEF s, l
<1>. QED  BY <1>4, <1>5

-----------------------------------------------------------------------------
LineInv ==
    /\ task \in Tasks
    /\ line = <<>> \/ line \in Torn(Serialize(task))
    /\ loaded = Pending \/ (line # <<>> /\ loaded = Deserialize(line))

LEMMA Outcomes ==
    /\ Pending # Dropped /\ Pending # Throws /\ Dropped # Throws
    /\ \A t : Loaded(t) # Pending /\ Loaded(t) # Dropped /\ Loaded(t) # Throws
<1>1. Pending.outcome = "pending" /\ Dropped.outcome = "dropped" /\ Throws.outcome = "throws"
      /\ \A t : Loaded(t).outcome = "loaded"
    BY DEF Pending, Dropped, Throws, Loaded
<1>. QED  BY <1>1

LEMMA LineInit == Init => LineInv
BY DEF Init, LineInv

LEMMA LineStep == LineInv /\ [Next]_vars => LineInv'
<1>. SUFFICES ASSUME LineInv, [Next]_vars
              PROVE  LineInv'
    OBVIOUS
<1>1. CASE Save
    BY <1>1 DEF Save, LineInv
<1>2. CASE Load
    BY <1>2 DEF Load, LineInv
<1>3. CASE UNCHANGED vars
    BY <1>3 DEF vars, LineInv
<1>. QED  BY <1>1, <1>2, <1>3 DEF Next

(* The cut of the last field leaves nothing of it: it has one digit.       *)
LEMMA CutBarless ==
    ASSUME NEW t \in Tasks, Len(t.name) = 1, NEW x \in Torn(Serialize(t)), x # Serialize(t)
    PROVE  Deserialize(x) = Dropped
<1>. DEFINE s == Serialize(t)
<1>1. s \in Seq(Fields) /\ Len(s) = 14 /\ s[14] = <<t.enums[2]>>
    <2>. DEFINE l == Len(t.name)
    <2>1. s \in Seq(Fields) /\ Len(s) = l + 13 /\ \A i \in 1..2 : s[l + 11 + i] = <<t.enums[i]>>
        BY SerializeFields
    <2>2. l = 1
        OBVIOUS
    <2>. HIDE DEF s, l
    <2>3. l + 11 + 2 = 14 /\ 2 \in 1..2
        BY <2>2
    <2>4. s[l + 11 + 2] = <<t.enums[2]>>
        BY <2>1
    <2>. QED  BY <2>1, <2>2, <2>3, <2>4
<1>2. PICK k, f : TornAt(s, k, f, x)
    BY <1>1, TornFields
<1>3. x # s
    OBVIOUS
<1>4. s \in Seq(Fields)
    BY <1>1
<1>. HIDE DEF s
<1>5. /\ Len(x) = k /\ x[k] = f /\ (\A i \in 1..(k - 1) : x[i] = s[i])
       /\ x \in Seq(Fields \cup {f})
    BY <1>4, <1>2, TornLine DEF TornAt
<1>6. (k = 14 /\ f # Blank) \/ Len(Split(x)) # 14
    <2>1. /\ k \in 1..Len(s)
          /\ f = Blank => Len(Split(x)) = k - 1
          /\ f # Blank => Len(Split(x)) = k
        BY <1>4, <1>2, TornParts
    <2>2. k - 1 # 14
        BY <1>1, <2>1
    <2>. QED  BY <2>1, <2>2, Zenon
<1>7. SUFFICES ASSUME k = 14, f # Blank
               PROVE  FALSE
    BY <1>6 DEF Deserialize, FieldCount
<1>8. t.enums[2] \in 0..2 /\ t.enums[2] \in Numbers
    BY LineAssumption DEF Tasks
<1>9. f = s[14]
    <2>1. f \in Shorter(s[14]) \cup {s[14]}
        BY <1>2, <1>7 DEF TornAt
    <2>2. Head(s[14]) \in 0..2 /\ IsNumber(s[14])
        BY <1>1, <1>8, NumberIsField
    <2>3. Shorter(s[14]) = {Blank}
        <3>1. {e \in {10, 100, 1000} : e <= Head(s[14])} = {}
            BY <2>2
        <3>. QED  BY <2>2, <3>1 DEF Shorter
    <2>. QED  BY <1>7, <2>1, <2>3
<1>10. Len(x) = 14 /\ x[14] = f /\ (\A i \in 1..13 : x[i] = s[i]) /\ x \in Seq(Fields \cup {f})
    <2>1. k - 1 = 13
        BY <1>7
    <2>. QED  BY <1>7, <1>5, <2>1
<1>11. x = s
    <2>1. s[14] \in Fields
        <3>1. 14 \in 1..Len(s)
            BY <1>1
        <3>. QED  BY <1>4, <3>1, ElementOfSeq
    <2>2. Fields \cup {f} = Fields
        BY <1>9, <2>1
    <2>3. \A i \in 1..14 : x[i] = s[i]
        <3>1. \A i \in 1..14 : i \in 1..13 \/ i = 14
            OBVIOUS
        <3>. QED  BY <1>9, <1>10, <3>1
    <2>. QED  BY <1>1, <1>10, <2>2, <2>3, SeqEqual
<1>. QED  BY <1>11, <1>3

(* A field of a torn line that is read as a number and is none comes from  *)
(* the name, and is not its first.                                         *)
LEMMA CutThrows ==
    ASSUME NEW t \in Tasks, NEW x \in Torn(Serialize(t)), x # Serialize(t),
           Deserialize(x) = Throws
    PROVE  \E i \in 2..Len(t.name) : ~IsNumber(t.name[i])
<1>. DEFINE s == Serialize(t)  l == Len(t.name)
<1>1. /\ s \in Seq(Fields) /\ l \in Nat \ {0} /\ Len(s) = l + 13
      /\ \A i \in 1..l : s[i + 1] = t.name[i]
    BY SerializeFields
<1>2. \A i \in 1..Len(s) : i \notin 2..(l + 1) => \E n \in Numbers : s[i] = <<n>>
    BY NumbersAround
<1>3. PICK k, f : TornAt(s, k, f, x)
    BY <1>1, TornFields
<1>. HIDE DEF s, l
<1>4. Len(Split(x)) = 14 /\ \E i \in NumberFields : ~IsNumber(Split(x)[i])
    BY Outcomes DEF Deserialize, FieldCount
<1>5. PICK i \in 1..14 : i # 2 /\ ~IsNumber(Split(x)[i])
    BY <1>4 DEF NumberFields, FieldCount
<1>6. /\ k \in 1..Len(s)
      /\ \A j \in 1..(k - 1) : Split(x)[j] = s[j]
      /\ f = Blank => 14 = k - 1
      /\ f # Blank => 14 = k /\ Split(x)[k] = f
    <2>1. /\ k \in 1..Len(s)
          /\ \A j \in 1..(k - 1) : Split(x)[j] = s[j]
          /\ f = Blank => Len(Split(x)) = k - 1
          /\ f # Blank => Len(Split(x)) = k /\ Split(x)[k] = f
        BY <1>1, <1>3, TornParts
    <2>. QED  BY <1>4, <2>1
<1>7. i \in 1..Len(s) /\ ~IsNumber(s[i])
    <2>1. CASE i \in 1..(k - 1)
        BY <1>1, <1>5, <1>6, <2>1
    <2>2. CASE i \notin 1..(k - 1)
        <3>1. f # Blank /\ k = 14 /\ i = k /\ ~IsNumber(f)
            BY <1>1, <1>5, <1>6, <2>2
        <3>2. f \in Shorter(s[k]) \cup {s[k]}
            BY <1>3 DEF TornAt
        <3>3. ASSUME NEW n \in Numbers, s[k] = <<n>>
              PROVE  FALSE
            <4>1. f = <<n>> \/ \E m \in Numbers : f = <<m>>
                BY <3>1, <3>2, <3>3, FewerDigits
            <4>. QED  BY <3>1, <4>1, NumberIsField
        <3>. QED  BY <1>6, <3>1, <3>3 DEF IsNumber
    <2>. QED  BY <2>1, <2>2
<1>8. i \in 3..(l + 1)
    <2>1. ~\E n \in Numbers : s[i] = <<n>>
        BY <1>7 DEF IsNumber
    <2>2. i \in 2..(l + 1)
        BY <1>2, <1>7, <2>1
    <2>. QED  BY <1>1, <1>5, <2>2
<1>9. i - 1 \in 2..l /\ s[i] = t.name[i - 1]
    <2>. DEFINE j == i - 1
    <2>1. j \in 2..l /\ j \in 1..l /\ i = j + 1
        BY <1>1, <1>8
    <2>. HIDE DEF j
    <2>2. s[i] = t.name[j]
        BY <1>1, <2>1
    <2>. QED  BY <2>1, <2>2 DEF j
<1>. QED  BY <1>7, <1>9 DEF l

(* The line of a task without a bar in its name comes back whole or is     *)
(* skipped, at whatever character it was torn (Task::serialize,            *)
(* Task::deserialize, loadFromFile).                                       *)
THEOREM TornLineHarmless == Spec => []TornIsSkippedOrWhole
<1>1. LineInv => TornIsSkippedOrWhole
    <2>. SUFFICES ASSUME LineInv, loaded # Pending, Barless
                  PROVE  loaded = Dropped \/ (loaded = Loaded(task) /\ line = Serialize(task))
        BY DEF TornIsSkippedOrWhole
    <2>1. /\ task \in Tasks /\ line \in Torn(Serialize(task)) /\ loaded = Deserialize(line)
          /\ Len(task.name) = 1
        BY DEF LineInv, Barless
    <2>2. CASE line = Serialize(task)
        BY <2>1, <2>2, WholeLine
    <2>3. CASE line # Serialize(task)
        BY <2>1, <2>3, CutBarless
    <2>. QED  BY <2>2, <2>3
<1>. QED  BY LineInit, LineStep, <1>1, PTL DEF Spec

(* Only a torn line can end the program while it starts, and only if the   *)
(* name has a word after a bar (Task::deserialize, std::stoi).             *)
THEOREM OnlyWordsThrow == Spec => []ThrowsOnlyOnWords
<1>1. LineInv => ThrowsOnlyOnWords
    <2>. SUFFICES ASSUME LineInv, loaded = Throws
                  PROVE  /\ line # Serialize(task)
                         /\ \E i \in 2..Len(task.name) : ~IsNumber(task.name[i])
        BY DEF ThrowsOnlyOnWords
    <2>1. /\ task \in Tasks /\ line \in Torn(Serialize(task)) /\ Deserialize(line) = Throws
        BY Outcomes DEF LineInv
    <2>2. line # Serialize(task)
        BY <2>1, WholeLine, Outcomes
    <2>. QED  BY <2>1, <2>2, CutThrows
<1>. QED  BY LineInit, LineStep, <1>1, PTL DEF Spec
=============================================================================
