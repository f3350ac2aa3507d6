----------------------------- MODULE AuthProofs -----------------------------
(***************************************************************************)
(* Accounts, for any number of instances of the program, any names and any *)
(* length of users.txt: the main window is open only for someone who has   *)
(* registered, and no registration changes whose password an account has.  *)
(***************************************************************************)
EXTENDS Auth, SequenceTheorems, TLAPS

(* A line that login can match with a one-word name was written for that   *)
(* very name: what it takes for the hash is one field only if the name has *)
(* one word.                                                               *)
LEMMA LineOfName ==
    ASSUME NEW m \in Seq(Words) \ {<<>>}, NEW x, NEW y, NEW n,
           StoredUser(m \o <<x>>) = n, StoredHash(m \o <<x>>) = <<y>>
    PROVE  m = n /\ x = y
<1>. DEFINE line == m \o <<x>>
<1>1. Len(m) \in Nat /\ Len(m) > 0 /\ m = [i \in 1..Len(m) |-> m[i]]
    OBVIOUS
<1>2. Len(line) = Len(m) + 1 /\ line[1] = m[1] /\ line[Len(m) + 1] = x
    BY <1>1
<1>3. Len(Tail(line)) = Len(m)
    BY <1>1, <1>2
<1>4. Len(m) = 1
    BY <1>3 DEF StoredHash
<1>5. m = <<m[1]>>
    BY <1>1, <1>4
<1>6. Head(line) = m[1] /\ Tail(line)[1] = line[2]
    BY <1>1, <1>2, <1>4
<1>7. <<m[1]>> = n /\ Tail(line) = <<y>>
    BY <1>2, <1>6 DEF StoredUser, StoredHash
<1>8. x = y
    <2>1. line[2] = x
        BY <1>2, <1>4
    <2>2. Tail(line)[1] = x
        BY <1>6, <2>1
    <2>3. <<y>>[1] = y
        OBVIOUS
    <2>. HIDE DEF line
    <2>. QED  BY <1>7, <2>2, <2>3
<1>. QED  BY <1>5, <1>7, <1>8

-----------------------------------------------------------------------------
(* While an instance is between the search and the append, its form still  *)
(* holds what was validated; and every line was written for an account     *)
(* that is reported as registered.                                         *)
AppendValid ==
    \A s \in Instances : stage[s] = "append" =>
        form[s] \in [name : Usernames, password : Passwords \ ShortPasswords]

LinesTold ==
    \A i \in DOMAIN users : \E a \in told : users[i] = a.name \o <<sha256(a.password)>>

IInv == TypeOK /\ AppendValid /\ LinesTold /\ NeedsRegistration

(* The condition under which the main window opens.                        *)
LEMMA LoginTold ==
    ASSUME IInv, NEW n \in Usernames, NEW p \in Passwords, login(n, p)
    PROVE  [name |-> n, password |-> p] \in told
<1>1. PICK i \in DOMAIN users : StoredUser(users[i]) = n /\ StoredHash(users[i]) = <<sha256(p)>>
    BY DEF login
<1>2. PICK a \in told : users[i] = a.name \o <<sha256(a.password)>>
    BY DEF IInv, LinesTold
<1>3. a \in [name : Usernames, password : Passwords]
    BY <1>2 DEF IInv, TypeOK
<1>4. a.name \in Seq(Words) \ {<<>>}
    BY <1>3, AccountsAssumption
<1>5. a.name = n /\ sha256(a.password) = sha256(p)
    BY <1>1, <1>2, <1>4, LineOfName
<1>6. a.password = p
    BY <1>5 DEF sha256
<1>. QED  BY <1>3, <1>5, <1>6

-----------------------------------------------------------------------------
(* What a line may hold does not depend on the state.                      *)
LEMMA LinesRigid == Lines' = Lines
BY DEF Lines, sha256

LEMMA InitIInv == Init => IInv
BY AccountsAssumption DEF Init, IInv, TypeOK, AppendValid, LinesTold, NeedsRegistration, EmptyForm

LEMMA TypeIInv ==
    ASSUME IInv, NEW s \in Instances, NEW n \in Usernames \cup {<<>>}, NEW p \in Passwords \cup {Empty},
           Type(s, n, p)
    PROVE  IInv'
<1>1. form' \in [Instances -> [name : Usernames \cup {<<>>}, password : Passwords \cup {Empty}]]
    BY DEF IInv, TypeOK, Type
<1>2. \A r \in Instances : stage[r] # "form" => form'[r] = form[r]
    BY DEF IInv, TypeOK, Type
<1>3. UNCHANGED <<users, stage, told>>
    BY DEF Type
<1>4. TypeOK'
    BY <1>1, <1>3, LinesRigid DEF IInv, TypeOK
<1>. QED  BY <1>2, <1>3, <1>4 DEF IInv, AppendValid, LinesTold, NeedsRegistration

LEMMA LoginIInv ==
    ASSUME IInv, NEW s \in Instances, OnLogin(s)
    PROVE  IInv'
<1>1. form[s] \in [name : Usernames, password : Passwords]
    BY DEF IInv, TypeOK, OnLogin, Filled
<1>2. UNCHANGED <<users, told>>
    BY DEF OnLogin
<1>3. CASE login(form[s].name, form[s].password)
    <2>1. form[s] \in told
        BY <1>1, <1>3, LoginTold
    <2>2. stage' = [stage EXCEPT ![s] = "main"] /\ form' = form
        BY <1>3 DEF OnLogin
    <2>. QED  BY <1>2, <2>1, <2>2, LinesRigid DEF IInv, TypeOK, AppendValid, LinesTold, NeedsRegistration
<1>4. CASE ~login(form[s].name, form[s].password)
    <2>1. form' = [form EXCEPT ![s].password = Empty] /\ stage' = stage /\ stage[s] = "form"
        BY <1>4 DEF OnLogin, Filled
    <2>2. \A r \in Instances : stage[r] # "form" => form'[r] = form[r]
        BY <2>1 DEF IInv, TypeOK
    <2>3. form' \in [Instances -> [name : Usernames \cup {<<>>}, password : Passwords \cup {Empty}]]
        BY <2>1 DEF IInv, TypeOK
    <2>. QED  BY <1>2, <2>1, <2>2, <2>3, LinesRigid DEF IInv, TypeOK, AppendValid, LinesTold, NeedsRegistration
<1>. QED  BY <1>3, <1>4

LEMMA RegisterIInv ==
    ASSUME IInv, NEW s \in Instances, OnRegister(s)
    PROVE  IInv'
<1>1. form[s] \in [name : Usernames, password : Passwords \ ShortPasswords]
    BY DEF IInv, TypeOK, OnRegister, Filled
<1>2. stage' = [stage EXCEPT ![s] = "append"] /\ UNCHANGED <<users, form, told>>
    BY DEF OnRegister
<1>. QED  BY <1>1, <1>2, LinesRigid DEF IInv, TypeOK, AppendValid, LinesTold, NeedsRegistration

LEMMA AppendIInv ==
    ASSUME IInv, NEW s \in Instances, AppendUser(s)
    PROVE  IInv'
<1>. DEFINE line == form[s].name \o <<sha256(form[s].password)>>
<1>1. form[s] \in [name : Usernames, password : Passwords \ ShortPasswords]
    BY DEF IInv, AppendValid, AppendUser
<1>2. /\ told' = told \cup {form[s]}
      /\ stage' = [stage EXCEPT ![s] = "form"]
      /\ form' = [form EXCEPT ![s].password = Empty]
      /\ users' = Append(users, line) \/ users' = users
    BY DEF AppendUser
<1>3. line \in Lines
    <2>1. form[s] \in [name : Usernames, password : Passwords]
        BY <1>1
    <2>. QED  BY <2>1 DEF Lines
<1>4. \A r \in Instances : stage'[r] # "form" => form'[r] = form[r] /\ stage'[r] = stage[r]
    BY <1>2 DEF IInv, TypeOK
<1>5. TypeOK'
    <2>1. users' \in Seq(Lines)
        <3>1. users \in Seq(Lines)
            BY DEF IInv, TypeOK
        <3>. HIDE DEF line
        <3>. QED  BY <1>2, <1>3, <3>1
    <2>2. form' \in [Instances -> [name : Usernames \cup {<<>>}, password : Passwords \cup {Empty}]]
        BY <1>2 DEF IInv, TypeOK
    <2>. QED  BY <1>1, <1>2, <2>1, <2>2, LinesRigid DEF IInv, TypeOK
<1>6. LinesTold'
    <2>. SUFFICES ASSUME NEW i \in DOMAIN users'
                  PROVE  \E a \in told' : users'[i] = a.name \o <<sha256(a.password)>>
        BY DEF LinesTold, sha256
    <2>1. CASE i \in DOMAIN users /\ users'[i] = users[i]
        BY <1>2, <2>1 DEF IInv, LinesTold
    <2>2. CASE users'[i] = line
        BY <1>2, <2>2
    <2>3. users \in Seq(Lines)
        BY DEF IInv, TypeOK
    <2>4. (i \in DOMAIN users /\ users'[i] = users[i]) \/ users'[i] = line
        <3>. HIDE DEF line
        <3>. QED  BY <1>2, <2>3
    <2>. QED  BY <2>1, <2>2, <2>4
<1>7. AppendValid'
    BY <1>4 DEF IInv, AppendValid
<1>8. NeedsRegistration'
    BY <1>2, <1>4 DEF IInv, NeedsRegistration
<1>. QED  BY <1>5, <1>6, <1>7, <1>8 DEF IInv

LEMMA QuitIInv ==
    ASSUME IInv, NEW s \in Instances, Quit(s)
    PROVE  IInv'
<1>1. /\ stage' = [stage EXCEPT ![s] = "off"]
      /\ form' = [form EXCEPT ![s] = EmptyForm]
      /\ UNCHANGED <<users, told>>
    BY DEF Quit
<1>2. \A r \in Instances : stage'[r] # "off" => form'[r] = form[r] /\ stage'[r] = stage[r]
    BY <1>1 DEF IInv, TypeOK
<1>3. form' \in [Instances -> [name : Usernames \cup {<<>>}, password : Passwords \cup {Empty}]]
    BY <1>1 DEF IInv, TypeOK, EmptyForm
<1>. QED  BY <1>1, <1>2, <1>3, LinesRigid DEF IInv, TypeOK, AppendValid, LinesTold, NeedsRegistration

LEMMA StartIInv ==
    ASSUME IInv, NEW s \in Instances, Start(s)
    PROVE  IInv'
BY LinesRigid DEF IInv, TypeOK, AppendValid, LinesTold, NeedsRegistration, Start

LEMMA NextIInv == IInv /\ [Next]_vars => IInv'
<1>. SUFFICES ASSUME IInv, [Next]_vars
              PROVE  IInv'
    OBVIOUS
<1>1. CASE UNCHANGED vars
    BY <1>1, LinesRigid DEF vars, IInv, TypeOK, AppendValid, LinesTold, NeedsRegistration
<1>2. ASSUME NEW s \in Instances, NEW n \in Usernames \cup {<<>>}, NEW p \in Passwords \cup {Empty},
             Type(s, n, p)
      PROVE  IInv'
    BY <1>2, TypeIInv
<1>3. ASSUME NEW s \in Instances,
             OnLogin(s) \/ OnRegister(s) \/ AppendUser(s) \/ Quit(s) \/ Start(s)
      PROVE  IInv'
    BY <1>3, LoginIInv, RegisterIInv, AppendIInv, QuitIInv, StartIInv
<1>. QED  BY <1>1, <1>2, <1>3 DEF Next

(* The invariant that is inductive: the two properties of the runs with    *)
(* what the file and the forms in the middle of a registration hold.       *)
THEOREM AccountsInvariance == Spec => []IInv
BY InitIInv, NextIInv, PTL DEF Spec

(* Lines, forms and reports keep their types (auth.cpp, loginwindow.cpp).  *)
THEOREM AccountsTyped == Spec => []TypeOK
BY AccountsInvariance, PTL DEF IInv

(* The main window opens only for a name and a password that were          *)
(* registered together, although login cuts lines at their first space and *)
(* names may hold spaces, and other instances append lines at any time.    *)
THEOREM OnlyRegistered == Spec => []NeedsRegistration
BY AccountsInvariance, PTL DEF IInv

-----------------------------------------------------------------------------
(* The file only grows at its end.                                         *)
LEMMA LinesStay ==
    ASSUME IInv, [Next]_vars, NEW i \in DOMAIN users
    PROVE  i \in DOMAIN users' /\ users'[i] = users[i]
<1>1. users' = users \/ \E line : users' = Append(users, line)
    BY DEF Next, vars, Type, OnLogin, OnRegister, AppendUser, Quit, Start
<1>. QED  BY <1>1 DEF IInv, TypeOK

(* An account that can log in can do so after every step, with the same    *)
(* password and no other: its line is the first of its name for ever.      *)
THEOREM PasswordsSafe == Spec => PasswordStays
<1>. DEFINE Stays ==
        \A n \in Usernames, p, q \in Passwords :
            login(n, p) => login(n, p)' /\ (q # p => ~login(n, q)')
<1>1. IInv /\ [Next]_vars => Stays
    <2>. SUFFICES ASSUME IInv, [Next]_vars,
                         NEW n \in Usernames, NEW p \in Passwords, NEW q \in Passwords, login(n, p)
                  PROVE  login(n, p)' /\ (q # p => ~login(n, q)')
        OBVIOUS
    <2>1. PICK i \in DOMAIN users :
             /\ StoredUser(users[i]) = n
             /\ \A j \in 1..(i - 1) : StoredUser(users[j]) # n
             /\ StoredHash(users[i]) = <<sha256(p)>>
        BY DEF login
    <2>2. users \in Seq(Lines) /\ i \in Nat \ {0} /\ 1..i \subseteq DOMAIN users
        BY <2>1 DEF IInv, TypeOK
    <2>3. \A j \in 1..i : j \in DOMAIN users' /\ users'[j] = users[j]
        BY <2>2, LinesStay
    <2>4. /\ i \in DOMAIN users'
          /\ StoredUser(users'[i]) = n
          /\ \A j \in 1..(i - 1) : StoredUser(users'[j]) # n
          /\ StoredHash(users'[i]) = <<sha256(p)>>
        BY <2>1, <2>2, <2>3
    <2>5. login(n, p)'
        BY <2>4 DEF login, StoredUser, StoredHash, sha256
    <2>6. ASSUME login(n, q)'
          PROVE  q = p
        <3>1. PICK k \in DOMAIN users' :
                 /\ StoredUser(users'[k]) = n
                 /\ \A j \in 1..(k - 1) : StoredUser(users'[j]) # n
                 /\ StoredHash(users'[k]) = <<sha256(q)>>
            BY <2>6 DEF login, StoredUser, StoredHash, sha256
        <3>2. k \in Nat \ {0}
            <4>1. IInv'
                BY NextIInv
            <4>. QED  BY <4>1, <3>1 DEF IInv, TypeOK
        <3>3. ~(k < i) /\ ~(i < k)
            BY <2>2, <2>4, <3>1, <3>2
        <3>4. k = i
            BY <2>2, <3>2, <3>3
        <3>. QED  BY <2>4, <3>1, <3>4 DEF sha256
    <2>. QED  BY <2>5, <2>6
<1>. QED  BY <1>1, AccountsInvariance, PTL DEF Spec, PasswordStays
=============================================================================
