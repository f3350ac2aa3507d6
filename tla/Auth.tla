-------------------------------- MODULE Auth --------------------------------
(***************************************************************************)
(* Accounts: users.txt with register_user and login of auth.cpp, and the   *)
(* login dialog of loginwindow.cpp that main.cpp opens first, in any       *)
(* number of instances of the program, started again at will, that share   *)
(* the file.                                                               *)
(*                                                                         *)
(* A user name is the sequence of its words, the empty field is <<>>; a    *)
(* line of the file is the name's words followed by the hash of the        *)
(* password, because the code puts one space between the two and later     *)
(* cuts the line at its first space.                                       *)
(***************************************************************************)
EXTENDS Naturals, Sequences

CONSTANTS
    Instances,       \* running copies of the program
    Words,           \* parts of a user name between spaces
    Usernames,       \* what may be typed, trimmed: nonempty sequences of words
    Passwords,       \* the passwords that may be typed
    ShortPasswords,  \* those of fewer than three characters
    Empty,           \* the password field after clear()
    MaxLines,        \* bound on the length of users.txt
    WriteFaults      \* TRUE if users.txt may refuse to be written

ASSUME AccountsAssumption ==
    /\ Usernames \subseteq Seq(Words) \ {<<>>}
    /\ ShortPasswords \subseteq Passwords
    /\ Empty \notin Passwords
    /\ MaxLines \in Nat
    /\ WriteFaults \in BOOLEAN

VARIABLES
    users,  \* the lines of users.txt
    stage,  \* per instance: login form shown, register_user about to append,
            \* main window open, not running
    form,   \* per instance: the two fields of the login form
    told    \* (observed) accounts reported as registered

vars == <<users, stage, form, told>>

(* SHA-256, taken to be injective.                                         *)
sha256(password) == [sha256 |-> password]

EmptyForm == [name |-> <<>>, password |-> Empty]

Init ==
    /\ users = <<>>
    /\ stage = [s \in Instances |-> "form"]
    /\ form = [s \in Instances |-> EmptyForm]
    /\ told = {}

(* line.substr(0, pos) and line.substr(pos + 1) at the first space.        *)
StoredUser(line) == <<Head(line)>>
StoredHash(line) == Tail(line)

(* login: the first line of that user decides.  Mutants: any line of the   *)
(* user will do; the hash is not compared.                                 *)
LoginAny(n, p) ==
    \E i \in DOMAIN users :
        StoredUser(users[i]) = n /\ StoredHash(users[i]) = <<sha256(p)>>

LoginUnchecked(n, p) == \E i \in DOMAIN users : StoredUser(users[i]) = n

login(n, p) ==
    \E i \in DOMAIN users :
        /\ StoredUser(users[i]) = n
        /\ \A j \in 1..(i - 1) : StoredUser(users[j]) # n
        /\ StoredHash(users[i]) = <<sha256(p)>>

Type(s, n, p) ==
    /\ stage[s] = "form"
    /\ form' = [form EXCEPT ![s] = [name |-> n, password |-> p]]
    /\ UNCHANGED <<users, stage, told>>

Filled(s) ==
    /\ stage[s] = "form"
    /\ form[s].name # <<>>
    /\ form[s].password # Empty

OnLogin(s) ==
    /\ Filled(s)
    /\ IF login(form[s].name, form[s].password)
       THEN /\ stage' = [stage EXCEPT ![s] = "main"]
            /\ UNCHANGED form
       ELSE /\ form' = [form EXCEPT ![s].password = Empty]
            /\ UNCHANGED stage
    /\ UNCHANGED <<users, told>>

(* register_user reads the whole file, closes it, and only then opens it   *)
(* for appending: another instance may append in between.  A name that is  *)
(* found, or a short password, changes nothing.                            *)
NameFree(n) == \A i \in DOMAIN users : StoredUser(users[i]) # n

(* Mutant: the fields are not looked at.                                   *)
RegisterUnvalidated(s) ==
    /\ stage[s] = "form"
    /\ form[s].name # <<>>
    /\ form[s].password \notin ShortPasswords
    /\ NameFree(form[s].name)
    /\ stage' = [stage EXCEPT ![s] = "append"]
    /\ UNCHANGED <<users, form, told>>

OnRegister(s) ==
    /\ Filled(s)
    /\ form[s].password \notin ShortPasswords
    /\ NameFree(form[s].name)
    /\ stage' = [stage EXCEPT ![s] = "append"]
    /\ UNCHANGED <<users, form, told>>

(* The stream is not looked at: success is reported in any case, and the   *)
(* password field is cleared.                                              *)
AppendUser(s) ==
    /\ stage[s] = "append"
    /\ \/ /\ Len(users) < MaxLines
          /\ users' = Append(users, form[s].name \o <<sha256(form[s].password)>>)
       \/ WriteFaults /\ UNCHANGED users
    /\ told' = told \cup {form[s]}
    /\ stage' = [stage EXCEPT ![s] = "form"]
    /\ form' = [form EXCEPT ![s].password = Empty]

(* The dialog or the main window is closed, or the program dies; it is     *)
(* started again with an empty form.                                       *)
Quit(s) ==
    /\ stage[s] # "off"
    /\ stage' = [stage EXCEPT ![s] = "off"]
    /\ form' = [form EXCEPT ![s] = EmptyForm]
    /\ UNCHANGED <<users, told>>

Start(s) ==
    /\ stage[s] = "off"
    /\ stage' = [stage EXCEPT ![s] = "form"]
    /\ UNCHANGED <<users, form, told>>

Next ==
    \E s \in Instances :
        \/ \E n \in Usernames \cup {<<>>}, p \in Passwords \cup {Empty} : Type(s, n, p)
        \/ OnLogin(s)
        \/ OnRegister(s)
        \/ AppendUser(s)
        \/ Quit(s)
        \/ Start(s)

Spec == Init /\ [][Next]_vars

-----------------------------------------------------------------------------
Lines ==
    {a.name \o <<sha256(a.password)>> : a \in [name : Usernames, password : Passwords]}

(* Lines hold words and hashes, forms what can be typed.                   *)
TypeOK ==
    /\ users \in Seq(Lines)
    /\ stage \in [Instances -> {"form", "append", "main", "off"}]
    /\ form \in [Instances -> [name : Usernames \cup {<<>>}, password : Passwords \cup {Empty}]]
    /\ told \subseteq [name : Usernames, password : Passwords \ ShortPasswords]

(* The main window is open only for someone who registered with this name  *)
(* and this password.                                                      *)
NeedsRegistration ==
    \A s \in Instances : stage[s] = "main" => form[s] \in told

(* An account that can be used stays usable with the same password, and    *)
(* with no other: a later or simultaneous registration of the same name    *)
(* neither locks its owner out nor lets someone else in.                   *)
PasswordStays ==
    [][\A n \in Usernames, p, q \in Passwords :
          login(n, p) => login(n, p)' /\ (q # p => ~login(n, q)')]_vars

(* "The account has been registered.  You can log in now."                 *)
(* (loginwindow.cpp 121): not if the name has a space in it.               *)
ToldCanLogin == \A account \in told : login(account.name, account.password)
=============================================================================
