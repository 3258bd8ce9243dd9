-------------------------- MODULE ProfileStoreProofs --------------------------
(***************************************************************************)
(* Proofs about ProfileStore, for any number of tasks, profiles and        *)
(* commands: its type correctness, that a removed profile stays removed,   *)
(* that the index settles, and that the core runs the file.                *)
(*                                                                         *)
(* First part (IInv): the steps a task still has to do follow each other   *)
(* in a fixed way (Follows), so that a task that writes the index is the   *)
(* one inside with_data_modify and what it removes is gone from the file   *)
(* before it is gone from memory.                                          *)
(*                                                                         *)
(* Second part (SInv): the lists of steps a task can have are known one    *)
(* by one (Form). As long as the index is not excused (Steady), no two     *)
(* tasks work on one profile (Apart), each task finds its own profile as   *)
(* it expects it (Mine), the copy inside with_data_modify differs from     *)
(* the memory in that task's profile alone (Holds), and a difference of    *)
(* the memory and the file has a task that removes it (OnDisk).            *)
(*                                                                         *)
(* Third part (RInv): as long as the core is not excused (Running), it     *)
(* runs the current profile as its file is (CoreOK), or a task owes it a   *)
(* reload (Owes). A task over the current profile is sure to load it, or   *)
(* to load it again after it restored the file (CoreMine), and an index    *)
(* without a current profile is empty (Heads).                             *)
(***************************************************************************)
EXTENDS ProfileStore, TLAPS

\* steps inside with_data_modify
Inside == {"write", "append", "remove", "reorder", "save", "commit"}

\* the step b may come right after the step a; a reload may come after any
Follows(a, b) ==
    \/ b = "generate"
    \/ a = "download" /\ b = "enter"
    \/ a = "enter" /\ b \in {"write", "remove", "reorder", "save"}
    \/ a = "write" /\ b \in {"append", "save"}
    \/ a \in {"append", "save"} /\ b = "commit"
    \/ a = "remove" /\ b = "save"
    \/ a = "reorder" /\ b \in {"save", "commit"}
    \/ a = "commit" /\ b \in {"enter", "again"}
    \/ a = "put" /\ b = "validate"
    \/ a = "generate" /\ b = "load"
    \/ a = "load" /\ b = "keep"
    \/ a = "keep" /\ b = "publish"

Chain(s) == s \in Seq(Steps) /\ \A i \in 1 .. Len(s) - 1 : Follows(s[i], s[i + 1])

\* a switch that edits the index
Switches(t) == t.name = "switch" /\ ~t.restoring

\* which task has which steps
Shape(t) ==
    /\ Chain(t.todo)
    /\ \A i \in 1 .. Len(t.todo) :
          /\ t.todo[i] = "append" => i <= 3 /\ t.name = "create"
          /\ t.todo[i] = "reorder" => t.name = "reorder"
          /\ t.todo[i] \in {"keep", "publish"} => Switches(t)
          /\ t.todo[i] = "publish" => i = Len(t.todo)
          /\ Switches(t) => t.todo[i] \in {"generate", "load", "keep", "publish"}
    /\ t.todo = <<>> => t = Idle
    /\ Switches(t) => t.todo[Len(t.todo)] = "publish"

Pending(t) == t.name = "create" /\ \E i \in 1 .. Len(t.todo) : t.todo[i] = "append"
At1(t, S) == t.todo # <<>> /\ t.todo[1] \in S

------------------------------------------------------------------------------
(* Chains of steps. *)

LEMMA Concatenation ==
    ASSUME NEW S, NEW s \in Seq(S), NEW t \in Seq(S)
    PROVE  /\ s \o t \in Seq(S) /\ Len(s \o t) = Len(s) + Len(t)
           /\ \A i \in 1 .. Len(s) : (s \o t)[i] = s[i]
           /\ \A i \in 1 .. Len(t) : (s \o t)[Len(s) + i] = t[i]
           /\ \A i \in Len(s) + 1 .. Len(s) + Len(t) : (s \o t)[i] = t[i - Len(s)]
OBVIOUS

LEMMA Joined ==
    ASSUME NEW s, NEW t, Chain(s), Chain(t), s # <<>>, t # <<>> => Follows(s[Len(s)], t[1])
    PROVE  Chain(s \o t)
<1> DEFINE r == s \o t
<1>1. r \in Seq(Steps) /\ Len(r) = Len(s) + Len(t) /\ Len(s) \in Nat /\ Len(t) \in Nat
  BY Concatenation DEF Chain
<1>2. /\ \A i \in 1 .. Len(s) : r[i] = s[i]
      /\ \A i \in 1 .. Len(t) : r[Len(s) + i] = t[i]
  BY Concatenation DEF Chain
<1>3. Len(s) > 0 /\ (Len(t) > 0 => t # <<>>)
  BY DEF Chain
<1> HIDE DEF r
<1>4. ASSUME NEW i \in 1 .. Len(r) - 1 PROVE Follows(r[i], r[i + 1])
  <2>1. CASE i < Len(s)
    BY <1>1, <1>2, <2>1 DEF Chain
  <2>2. CASE i = Len(s)
    <3>1. r[i] = s[Len(s)] /\ r[i + 1] = t[1] /\ t # <<>>
      BY <1>1, <1>2, <1>3, <2>2
    <3> QED BY <3>1
  <2>3. CASE i > Len(s)
    <3>1. i - Len(s) \in 1 .. Len(t) - 1
      BY <1>1, <2>3
    <3>2. r[i] = t[i - Len(s)] /\ r[i + 1] = t[i - Len(s) + 1]
      BY <1>1, <1>2, <3>1
    <3> QED BY <3>1, <3>2 DEF Chain
  <2> QED BY <1>1, <2>1, <2>2, <2>3
<1> QED BY <1>1, <1>4 DEF Chain, r

LEMMA Pieces ==
    /\ Chain(<<>>) /\ Chain(Reload) /\ Chain(<<"save", "commit">>)
    /\ \A a \in Steps : Chain(<<a>>)
    /\ Chain(<<"write", "save">>) /\ Chain(<<"write", "append">>) /\ Chain(<<"remove", "save">>)
    /\ Chain(<<"put", "validate">>) /\ Chain(<<"keep", "publish">>)
BY DEF Chain, Reload, Follows, Steps

LEMMA Modifications ==
    ASSUME NEW s, Chain(s), s # <<>>, Follows("enter", s[1]), Follows(s[Len(s)], "commit")
    PROVE  LET m == Modify(s)
           IN /\ Chain(m) /\ Len(m) = Len(s) + 2 /\ m[1] = "enter" /\ m[Len(m)] = "commit"
              /\ \A i \in 1 .. Len(s) : m[i + 1] = s[i]
              /\ \A i \in 2 .. Len(s) + 1 : m[i] = s[i - 1]
<1>1. Chain(<<"enter">>) /\ Chain(<<"commit">>) /\ <<"enter">> # <<>>
  BY Pieces DEF Steps
<1>2. <<"enter">> \in Seq(Steps) /\ <<"commit">> \in Seq(Steps) /\ s \in Seq(Steps)
  BY <1>1 DEF Chain
<1> DEFINE x == <<"enter">> \o s
<1>3. Chain(x) 
  BY <1>1, Joined
<1>4. x \in Seq(Steps) /\ Len(x) = Len(s) + 1 /\ x[1] = "enter" /\ \A i \in 1 .. Len(s) : x[i + 1] = s[i]
  BY <1>2, Concatenation
<1> HIDE DEF x
<1>5. x # <<>> /\ x[Len(x)] = s[Len(s)]
  BY <1>2, <1>4
<1>6. Chain(x \o <<"commit">>)
  BY <1>1, <1>3, <1>5, Joined
<1>7. /\ Len(x \o <<"commit">>) = Len(s) + 2
      /\ \A i \in 1 .. Len(x) : (x \o <<"commit">>)[i] = x[i]
      /\ (x \o <<"commit">>)[Len(x) + 1] = "commit"
  BY <1>2, <1>4, Concatenation
<1> DEFINE m == x \o <<"commit">>
<1>8. /\ Chain(m) /\ Len(m) = Len(s) + 2 /\ m[1] = "enter" /\ m[Len(m)] = "commit"
      /\ \A i \in 1 .. Len(s) : m[i + 1] = s[i]
  BY <1>2, <1>4, <1>6, <1>7
<1> HIDE DEF m
<1>9. ASSUME NEW i \in 2 .. Len(s) + 1 PROVE m[i] = s[i - 1]
  <2>1. i - 1 \in 1 .. Len(s) /\ (i - 1) + 1 = i
    BY <1>2
  <2> QED BY <1>8, <2>1
<1> QED BY <1>8, <1>9 DEF Modify, m, x

\* a list of steps that every task may have, and its first and last step
Special == {"append", "reorder", "keep", "publish"}
Plain(s) == Chain(s) /\ \A i \in 1 .. Len(s) : s[i] \notin Special
List(s, first, last) == Plain(s) /\ s # <<>> /\ s[1] = first /\ s[Len(s)] = last

LEMMA PlainJoined ==
    ASSUME NEW s, NEW t, NEW a, NEW b, NEW d, NEW e, List(s, a, b), List(t, d, e), Follows(b, d)
    PROVE  List(s \o t, a, e)
<1>1. Chain(s \o t)
  BY Joined DEF List, Plain
<1>2. s \in Seq(Steps) /\ t \in Seq(Steps) /\ Len(s) > 0 /\ Len(t) > 0
  BY DEF List, Plain, Chain
<1> DEFINE r == s \o t
<1>3. /\ r \in Seq(Steps) /\ Len(r) = Len(s) + Len(t)
      /\ \A i \in 1 .. Len(s) : r[i] = s[i]
      /\ \A i \in 1 .. Len(t) : r[Len(s) + i] = t[i]
  BY <1>2, Concatenation
<1> HIDE DEF r
<1>4. ASSUME NEW i \in 1 .. Len(r) PROVE r[i] \notin Special
  <2>1. CASE i <= Len(s)
    BY <1>2, <1>3, <2>1 DEF List, Plain
  <2>2. CASE i > Len(s)
    <3>1. i - Len(s) \in 1 .. Len(t)
      BY <1>2, <1>3, <2>2
    <3>2. r[i] = t[i - Len(s)]
      BY <1>2, <1>3, <3>1
    <3> QED BY <3>1, <3>2 DEF List, Plain
  <2> QED BY <1>2, <1>3, <2>1, <2>2
<1>5. r # <<>> /\ r[1] = a /\ r[Len(r)] = e
  BY <1>2, <1>3 DEF List
<1> QED BY <1>1, <1>4, <1>5 DEF List, Plain, r

LEMMA Lists ==
    /\ List(Reload, "generate", "load")
    /\ \A a \in Steps \ Special : List(<<a>>, a, a)
    /\ List(<<"write", "save">>, "write", "save") /\ List(<<"remove", "save">>, "remove", "save")
    /\ List(<<"put", "validate">>, "put", "validate")
    /\ List(<<"save", "commit">>, "save", "commit")
BY Pieces DEF List, Plain, Special, Reload

LEMMA ListModify ==
    ASSUME NEW s, NEW a, List(s, a, "save"), Follows("enter", a)
    PROVE  List(Modify(s), "enter", "commit")
<1>1. Follows("save", "commit")
  BY DEF Follows
<1>2. Chain(s) /\ s # <<>> /\ s \in Seq(Steps) /\ s[1] = a /\ s[Len(s)] = "save"
  BY DEF List, Plain, Chain
<1> DEFINE m == Modify(s)
<1>3. /\ Chain(m) /\ Len(m) = Len(s) + 2 /\ m[1] = "enter" /\ m[Len(m)] = "commit"
      /\ \A i \in 1 .. Len(s) : m[i + 1] = s[i]
  BY <1>1, <1>2, Modifications
<1> HIDE DEF m
<1>4. ASSUME NEW i \in 1 .. Len(m) PROVE m[i] \notin Special
  <2>1. CASE i = 1 \/ i = Len(m)
    BY <1>3, <2>1 DEF Special
  <2>2. CASE i # 1 /\ i # Len(m)
    <3>1. i - 1 \in 1 .. Len(s)
      BY <1>2, <1>3, <2>2
    <3>2. m[i] = s[i - 1]
      BY <1>2, <1>3, <3>1
    <3> QED BY <3>1, <3>2 DEF List, Plain
  <2> QED BY <2>1, <2>2
<1>5. m # <<>>
  BY <1>3 DEF Chain
<1> QED BY <1>3, <1>4, <1>5 DEF List, Plain, m

\* the lists of the commands and of the recoveries
LEMMA CommandLists ==
    /\ List(Modify(<<"write", "save">>), "enter", "commit")
    /\ List(Modify(<<"remove", "save">>), "enter", "commit")
    /\ List(SaveIndex, "enter", "commit")
    /\ List(Modify(<<"remove", "save">>) \o SaveIndex, "enter", "commit")
    /\ List(Modify(<<"write", "save">>) \o <<"again">>, "enter", "again")
    /\ List(SaveIndex \o Reload, "enter", "load")
    /\ List(<<"download">> \o Modify(<<"write", "save">>), "download", "commit")
    /\ List((<<"download">> \o Modify(<<"write", "save">>)) \o Reload, "download", "load")
    /\ List(<<"put", "validate">> \o Reload, "put", "load")
<1> USE DEF Follows
<1>1. List(Modify(<<"write", "save">>), "enter", "commit")
  BY Lists, ListModify
<1>2. List(Modify(<<"remove", "save">>), "enter", "commit")
  BY Lists, ListModify
<1>3. List(<<"save">>, "save", "save")
  BY Lists DEF Steps, Special
<1>4. List(SaveIndex, "enter", "commit")
  BY <1>3, ListModify DEF SaveIndex
<1>5. List(<<"again">>, "again", "again") /\ List(<<"download">>, "download", "download")
  BY Lists DEF Steps, Special
<1>6. List(Modify(<<"remove", "save">>) \o SaveIndex, "enter", "commit")
  BY <1>2, <1>4, PlainJoined
<1>7. List(Modify(<<"write", "save">>) \o <<"again">>, "enter", "again")
  BY <1>1, <1>5, PlainJoined
<1>8. List(SaveIndex \o Reload, "enter", "load")
  BY <1>4, Lists, PlainJoined
<1>9. List(<<"download">> \o Modify(<<"write", "save">>), "download", "commit")
  BY <1>1, <1>5, PlainJoined
<1>10. List((<<"download">> \o Modify(<<"write", "save">>)) \o Reload, "download", "load")
  BY <1>9, Lists, PlainJoined
<1>11. List(<<"put", "validate">> \o Reload, "put", "load")
  BY Lists, PlainJoined
<1> QED BY <1>1, <1>2, <1>4, <1>6, <1>7, <1>8, <1>9, <1>10, <1>11

LEMMA ZeroLength == ASSUME NEW S, NEW s \in Seq(S) PROVE Len(s) = 0 <=> s = <<>>
OBVIOUS

LEMMA LastTail == ASSUME NEW S, NEW s \in Seq(S), s # <<>> PROVE Tail(s) \in Seq(S) /\ (Tail(s) = <<>> <=> Len(s) = 1)
<1>1. Tail(s) \in Seq(S) /\ Len(Tail(s)) = Len(s) - 1 /\ Len(s) \in Nat
  OBVIOUS
<1> DEFINE r == Tail(s)
<1>2. r \in Seq(S) /\ Len(r) = Len(s) - 1
  BY <1>1
<1> HIDE DEF r
<1>3. Len(r) = 0 <=> r = <<>>
  BY <1>2, ZeroLength
<1>4. Len(r) = 0 <=> Len(s) = 1
  BY <1>1, <1>2
<1> QED BY <1>2, <1>3, <1>4 DEF r

LEMMA Empty == ASSUME NEW S, NEW s \in Seq(S) PROVE s \o <<>> = s /\ <<>> \o s = s
OBVIOUS

\* create: the item is appended in the third step; switch; reorder
LEMMA CreateList ==
    LET s == Modify(<<"write", "append">>) \o SaveIndex
    IN /\ Chain(s) /\ s # <<>> /\ s[1] = "enter"
       /\ \A i \in 1 .. Len(s) : s[i] \notin {"reorder", "keep", "publish"} /\ (s[i] = "append" => i <= 3)
<1> DEFINE w == <<"write", "append">>
           m == Modify(w)
<1>1. Chain(w) /\ w # <<>> /\ Len(w) = 2 /\ w[1] = "write" /\ w[2] = "append" /\ w[Len(w)] = "append"
  BY Pieces
<1>2. Follows("enter", "write") /\ Follows("append", "commit") /\ Follows("commit", "enter")
  BY DEF Follows
<1> HIDE DEF w
<1>3. /\ Chain(m) /\ Len(m) = 4 /\ m[1] = "enter" /\ m[4] = "commit" /\ m[2] = "write" /\ m[3] = "append"
  <2>1. /\ Chain(m) /\ Len(m) = Len(w) + 2 /\ m[1] = "enter" /\ m[Len(m)] = "commit"
        /\ \A i \in 2 .. Len(w) + 1 : m[i] = w[i - 1]
    BY <1>1, <1>2, Modifications
  <2> HIDE DEF m
  <2> QED BY <1>1, <2>1
<1> HIDE DEF m
<1>4. List(SaveIndex, "enter", "commit") /\ SaveIndex \in Seq(Steps) /\ Len(SaveIndex) \in Nat
  BY CommandLists DEF List, Plain, Chain
<1>5. m # <<>> /\ m[Len(m)] = "commit" /\ m \in Seq(Steps)
  BY <1>3 DEF Chain
<1> DEFINE s == m \o SaveIndex
<1>6. Chain(s)
  BY <1>2, <1>3, <1>4, <1>5, Joined DEF List, Plain
<1>7. /\ s \in Seq(Steps) /\ Len(s) = 4 + Len(SaveIndex)
      /\ \A i \in 1 .. 4 : s[i] = m[i]
      /\ \A i \in 5 .. 4 + Len(SaveIndex) : s[i] = SaveIndex[i - 4]
  <2>1. /\ s \in Seq(Steps) /\ Len(s) = Len(m) + Len(SaveIndex)
        /\ \A i \in 1 .. Len(m) : s[i] = m[i]
        /\ \A i \in Len(m) + 1 .. Len(m) + Len(SaveIndex) : s[i] = SaveIndex[i - Len(m)]
    BY <1>4, <1>5, Concatenation
  <2> HIDE DEF s
  <2> QED BY <1>3, <1>4, <2>1
<1> HIDE DEF s
<1>8. ASSUME NEW i \in 1 .. Len(s) PROVE s[i] \notin {"reorder", "keep", "publish"} /\ (s[i] = "append" => i <= 3)
  <2>1. CASE i <= 4
    <3>1. i = 1 \/ i = 2 \/ i = 3 \/ i = 4
      BY <1>7, <2>1
    <3> QED BY <1>3, <1>7, <3>1
  <2>2. CASE i > 4
    <3>1. i - 4 \in 1 .. Len(SaveIndex) /\ s[i] = SaveIndex[i - 4]
      BY <1>4, <1>7, <2>2
    <3> QED BY <1>4, <3>1 DEF List, Plain, Special
  <2> QED BY <2>1, <2>2
<1>9. s # <<>> /\ s[1] = "enter"
  BY <1>3, <1>4, <1>7
<1> QED BY <1>6, <1>8, <1>9 DEF s, m, w

LEMMA ReorderList ==
    LET s == Modify(<<"reorder">>)
    IN /\ Chain(s) /\ s # <<>> /\ s[1] = "enter"
       /\ \A i \in 1 .. Len(s) : s[i] \notin {"append", "keep", "publish"}
<1> DEFINE w == <<"reorder">>
           m == Modify(w)
<1>1. Chain(w) /\ w # <<>> /\ Len(w) = 1 /\ w[1] = "reorder" /\ w[Len(w)] = "reorder"
  BY Pieces DEF Steps
<1>2. Follows("enter", "reorder") /\ Follows("reorder", "commit")
  BY DEF Follows
<1> HIDE DEF w
<1>3. /\ Chain(m) /\ Len(m) = 3 /\ m[1] = "enter" /\ m[3] = "commit" /\ m[2] = "reorder"
  <2>1. /\ Chain(m) /\ Len(m) = Len(w) + 2 /\ m[1] = "enter" /\ m[Len(m)] = "commit"
        /\ \A i \in 2 .. Len(w) + 1 : m[i] = w[i - 1]
    BY <1>1, <1>2, Modifications
  <2> HIDE DEF m
  <2> QED BY <1>1, <2>1
<1> HIDE DEF m
<1>4. ASSUME NEW i \in 1 .. Len(m) PROVE m[i] \notin {"append", "keep", "publish"}
  <2>1. i = 1 \/ i = 2 \/ i = 3
    BY <1>3
  <2> QED BY <1>3, <2>1
<1>5. m # <<>>
  BY <1>3 DEF Chain
<1> QED BY <1>3, <1>4, <1>5 DEF m, w

LEMMA SwitchList ==
    LET s == Reload \o <<"keep", "publish">>
    IN /\ Chain(s) /\ s # <<>> /\ Len(s) = 4
       /\ s[1] = "generate" /\ s[2] = "load" /\ s[3] = "keep" /\ s[4] = "publish"
<1> DEFINE k == <<"keep", "publish">>
           s == Reload \o k
<1>1. Chain(Reload) /\ Chain(k) /\ Reload # <<>> /\ Reload[Len(Reload)] = "load" /\ k[1] = "keep"
  BY Pieces DEF Reload
<1>2. Follows("load", "keep")
  BY DEF Follows
<1>3. Chain(s)
  BY <1>1, <1>2, Joined
<1>4. Reload \in Seq(Steps) /\ Len(Reload) = 2 /\ Reload[1] = "generate" /\ Reload[2] = "load"
  BY <1>1 DEF Reload, Chain
<1>5. k \in Seq(Steps) /\ Len(k) = 2 /\ k[1] = "keep" /\ k[2] = "publish"
  BY <1>1 DEF Chain
<1> HIDE DEF k
<1>6. Len(s) = 4 /\ s[1] = "generate" /\ s[2] = "load" /\ s[3] = "keep" /\ s[4] = "publish"
  <2>0. Reload \in Seq(Steps) /\ k \in Seq(Steps)
    BY <1>4, <1>5
  <2>1. /\ Len(s) = Len(Reload) + Len(k)
        /\ \A i \in 1 .. Len(Reload) : s[i] = Reload[i]
        /\ \A i \in Len(Reload) + 1 .. Len(Reload) + Len(k) : s[i] = k[i - Len(Reload)]
    BY <2>0, Concatenation
  <2> HIDE DEF s
  <2> QED BY <1>4, <1>5, <2>1
<1> HIDE DEF s
<1>7. s # <<>>
  BY <1>3, <1>6 DEF Chain
<1> QED BY <1>3, <1>6, <1>7 DEF s, k

------------------------------------------------------------------------------
(* A step of a task. *)

TaskOK == task \in [Callers -> Tasks] /\ \A c \in Callers : Shape(task[c])

------------------------------------------------------------------------------
(* The inductive invariant. *)

StoreOK ==
    /\ memory \in Index /\ saved \in Index /\ draft \in Index \cup {None}
    /\ file \in [Uids -> Contents \cup {None}] /\ core \in Configurations
    /\ updating \in Callers \cup {None} /\ permit \in Callers \cup {None}
    /\ copy \in Index \cup {None} /\ overtaken \in BOOLEAN
    /\ permit # None => copy # None

\* who is inside with_data_modify has its permit; a configuration is loaded after it was generated
StepOK ==
    \A c \in Callers :
       /\ At1(task[c], Inside) => permit = c
       /\ At1(task[c], {"load"}) => task[c].read \in Configurations
       /\ task[c].todo # <<>> => task[c].uid \in Uids
       /\ task[c].name = "create" => task[c].uid \in created
       /\ task[c].name \in {"update", "save"} => task[c].old \in Contents \cup {None}

\* the draft is that of the one switch that is under way
SwitchOK ==
    /\ draft # None <=> \E c \in Callers : Switches(task[c])
    /\ \A c, d \in Callers : task[c].name = "switch" /\ task[d].name = "switch" => c = d

CreatedOK ==
    /\ removed \cup memory.items \cup saved.items \subseteq created /\ created \subseteq Uids
    /\ draft # None => draft.items \subseteq created
    /\ copy # None => copy.items \subseteq created

NoSwitchBeside ==
    \A c, d \in Callers : ~(task[c].name = "switch" /\ ChangesIndex(task[d]))

\* no index holds a removed profile
Gone ==
    /\ (memory.items \cup saved.items) \cap removed = {}
    /\ draft # None => draft.items \cap removed = {}
    /\ copy # None => copy.items \cap removed = {}

\* what a removal takes out of memory is gone from the file; a creation takes nothing out
GoneFromFile ==
    \A c \in Callers :
       /\ task[c].name \in {"create", "delete"} /\ At1(task[c], {"commit"}) =>
             saved.items \cap (memory.items \ copy.items) = {}
       /\ task[c].name = "create" /\ At1(task[c], {"write", "append"}) => memory.items \subseteq copy.items

\* a profile that is still to be created is in no index
Fresh ==
    /\ \A c \in Callers : Pending(task[c]) =>
          /\ task[c].uid \notin removed \cup memory.items
          /\ permit \notin {None, c} => task[c].uid \notin copy.items
    /\ \A c, d \in Callers : Pending(task[c]) /\ Pending(task[d]) /\ task[c].uid = task[d].uid => c = d

Kept == "removal" \notin excused => NoSwitchBeside /\ Gone /\ GoneFromFile /\ Fresh
IInv == StoreOK /\ TaskOK /\ StepOK /\ SwitchOK /\ CreatedOK /\ Kept

Others(c) == \A d \in Callers \ {c} : task'[d] = task[d]

\* c goes on to the next step of its list, or is done
Advances(c) ==
    /\ Others(c)
    /\ \/ task'[c] = Idle
       \/ /\ task'[c].name = task[c].name /\ task'[c].uid = task[c].uid
          /\ task'[c].restoring = task[c].restoring /\ task'[c].old = task[c].old
          /\ task'[c].todo # <<>> /\ Follows(task[c].todo[1], task'[c].todo[1])
          /\ Pending(task'[c]) => Pending(task[c])
    /\ task[c].todo[1] = "publish" => task'[c] = Idle
    /\ Switches(task[c]) /\ task'[c] = Idle => task[c].todo[1] = "publish"

LEMMA IdleOK == Idle \in Tasks /\ Shape(Idle) /\ Idle.name = "none" /\ Idle.todo = <<>> /\ ~Idle.restoring
BY Pieces DEF Idle, Tasks, Shape, Switches

LEMMA TailShape ==
    ASSUME NEW t \in Tasks, NEW u \in Tasks, Shape(t), t.todo # <<>>, u.todo = Tail(t.todo), u.todo # <<>>,
           u.name = t.name, u.restoring = t.restoring
    PROVE  Shape(u) /\ Follows(t.todo[1], u.todo[1]) /\ (Pending(u) => Pending(t))
<1>1. t.todo \in Seq(Steps) /\ Len(t.todo) > 0 /\ u.todo \in Seq(Steps)
  BY DEF Shape, Chain
<1>2. Len(u.todo) = Len(t.todo) - 1 /\ \A i \in 1 .. Len(u.todo) : u.todo[i] = t.todo[i + 1]
  BY <1>1
<1>3. Len(u.todo) > 0
  BY <1>1
<1>4. \A i \in 1 .. Len(u.todo) : i + 1 \in 1 .. Len(t.todo)
  BY <1>1, <1>2
<1>5. Chain(u.todo)
  <2>1. ASSUME NEW i \in 1 .. Len(u.todo) - 1 PROVE Follows(u.todo[i], u.todo[i + 1])
    <3>1. i + 1 \in 1 .. Len(t.todo) - 1
      BY <1>1, <1>2
    <3>2. Follows(t.todo[i + 1], t.todo[(i + 1) + 1])
      BY <3>1 DEF Shape, Chain
    <3>3. u.todo[i] = t.todo[i + 1] /\ u.todo[i + 1] = t.todo[(i + 1) + 1]
      BY <1>1, <1>2
    <3> QED BY <3>2, <3>3
  <2> QED BY <1>1, <2>1 DEF Chain
<1>6. ASSUME NEW i \in 1 .. Len(u.todo)
      PROVE  /\ u.todo[i] = "append" => i <= 3 /\ u.name = "create"
             /\ u.todo[i] = "reorder" => u.name = "reorder"
             /\ u.todo[i] \in {"keep", "publish"} => Switches(u)
             /\ u.todo[i] = "publish" => i = Len(u.todo)
             /\ Switches(u) => u.todo[i] \in {"generate", "load", "keep", "publish"}
  <2>1. i + 1 \in 1 .. Len(t.todo) /\ u.todo[i] = t.todo[i + 1] /\ (Switches(u) <=> Switches(t))
    BY <1>2, <1>4 DEF Switches
  <2> QED BY <1>2, <2>1 DEF Shape
<1>7. Follows(t.todo[1], u.todo[1])
  <2>1. 1 \in 1 .. Len(t.todo) - 1 /\ u.todo[1] = t.todo[1 + 1]
    BY <1>1, <1>2, <1>3
  <2> QED BY <2>1 DEF Shape, Chain
<1>8. Pending(u) => Pending(t)
  BY <1>2, <1>4 DEF Pending
<1>9. Switches(u) => u.todo[Len(u.todo)] = "publish"
  BY <1>1, <1>2, <1>3 DEF Shape, Switches
<1> QED BY <1>5, <1>6, <1>7, <1>8, <1>9 DEF Shape

LEMMA ReloadShape ==
    ASSUME NEW t \in Tasks, NEW u \in Tasks, Shape(t), t.todo # <<>>, u.todo = t.todo \o Reload,
           u.name = t.name, u.restoring = t.restoring, ~Switches(t)
    PROVE  Shape(u) /\ u.todo # <<>> /\ u.todo[1] = t.todo[1] /\ (Pending(u) => Pending(t))
<1>1. t.todo \in Seq(Steps) /\ Len(t.todo) > 0 /\ Chain(t.todo)
  BY DEF Shape, Chain
<1>2. List(Reload, "generate", "load") /\ Reload \in Seq(Steps) /\ Chain(Reload) /\ Reload # <<>>
  BY Lists DEF List, Plain, Chain
<1>3. Chain(u.todo)
  BY <1>1, <1>2, Joined DEF Follows, List
<1>4. /\ Len(u.todo) = Len(t.todo) + Len(Reload)
      /\ \A i \in 1 .. Len(t.todo) : u.todo[i] = t.todo[i]
      /\ \A i \in Len(t.todo) + 1 .. Len(t.todo) + Len(Reload) : u.todo[i] = Reload[i - Len(t.todo)]
  BY <1>1, <1>2, Concatenation
<1>5. ASSUME NEW i \in 1 .. Len(u.todo) PROVE (i \in 1 .. Len(t.todo) /\ u.todo[i] = t.todo[i]) \/ u.todo[i] \notin Special
  <2>1. CASE i <= Len(t.todo)
    BY <1>1, <1>4, <2>1
  <2>2. CASE i > Len(t.todo)
    <3>1. i - Len(t.todo) \in 1 .. Len(Reload) /\ u.todo[i] = Reload[i - Len(t.todo)]
      BY <1>1, <1>2, <1>4, <2>2
    <3> QED BY <1>2, <3>1 DEF List, Plain
  <2> QED BY <1>1, <2>1, <2>2
<1>6. u.todo # <<>> /\ u.todo[1] = t.todo[1]
  BY <1>1, <1>2, <1>4
<1>7. Pending(u) => Pending(t)
  BY <1>5 DEF Pending, Special
<1>8. Shape(u)
  <2>1. ~Switches(u)
    BY DEF Switches
  <2>2. \A i \in 1 .. Len(u.todo) : u.todo[i] \notin {"keep", "publish"}
    BY <1>5, <2>1 DEF Shape, Special
  <2> QED BY <1>3, <1>5, <1>6, <2>1, <2>2 DEF Shape, Special
<1> QED BY <1>6, <1>7, <1>8

LEMMA PlainShape ==
    ASSUME NEW u \in Tasks, NEW a, NEW b, List(u.todo, a, b), ~Switches(u)
    PROVE  Shape(u) /\ u.todo # <<>> /\ u.todo[1] = a /\ ~Pending(u)
BY DEF List, Plain, Shape, Special, Pending

\* what a task that goes on may do next
Next1(c, u) ==
    \/ u.todo = Tail(task[c].todo)
    \/ /\ ~Switches(task[c])
       /\ \/ u.todo = Tail(task[c].todo) \o Reload
          \/ u.todo = <<>>
          \/ \E a, b : List(u.todo, a, b) /\ Follows(task[c].todo[1], a)

LEMMA Advance ==
    ASSUME TaskOK, NEW c \in Callers, task[c].todo # <<>>, NEW u \in Tasks, Becomes(c, u), Next1(c, u),
           u.name = task[c].name, u.uid = task[c].uid, u.restoring = task[c].restoring, u.old = task[c].old
    PROVE  TaskOK' /\ Advances(c)
<1> DEFINE t == task[c]
<1>1. t \in Tasks /\ Shape(t) /\ t.todo \in Seq(Steps)
  BY DEF TaskOK, Shape, Chain
<1>2. task'[c] = IF u.todo = <<>> THEN Idle ELSE u
  BY DEF Becomes, Over, TaskOK
<1>3. Others(c) /\ task' \in [Callers -> Tasks]
  BY IdleOK DEF Becomes, Over, TaskOK, Others
<1>4. u.todo # <<>> => Shape(u) /\ Follows(t.todo[1], u.todo[1]) /\ (Pending(u) => Pending(t))
  <2>1. CASE u.todo = Tail(t.todo)
    BY <1>1, <2>1, TailShape
  <2>2. CASE u.todo = Tail(t.todo) \o Reload /\ ~Switches(t)
    <3>0. ~Switches(u)
      BY <2>2 DEF Switches
    <3>1. CASE Tail(t.todo) = <<>>
      <4>1. u.todo = Reload
        BY <2>2, <3>1, Lists, Empty DEF List, Plain, Chain
      <4>2. List(u.todo, "generate", "load")
        BY <4>1, Lists
      <4> QED BY <3>0, <4>2, PlainShape DEF Follows
    <3>2. CASE Tail(t.todo) # <<>>
      <4> DEFINE v == [t EXCEPT !.todo = Tail(t.todo)]
      <4>0. Tail(t.todo) \in Seq(Steps)
        BY <1>1
      <4>1. v \in Tasks /\ v.todo = Tail(t.todo) /\ v.name = t.name /\ v.restoring = t.restoring
        BY <1>1, <4>0 DEF Tasks
      <4>5. ~Switches(v)
        BY <2>2, <4>1 DEF Switches
      <4> HIDE DEF v
      <4>2. Shape(v) /\ Follows(t.todo[1], v.todo[1]) /\ (Pending(v) => Pending(t))
        BY <1>1, <3>2, <4>1, TailShape
      <4>3. Shape(u) /\ u.todo[1] = v.todo[1] /\ (Pending(u) => Pending(v))
        BY <2>2, <3>2, <4>1, <4>2, <4>5, ReloadShape
      <4> QED BY <4>2, <4>3
    <3> QED BY <3>1, <3>2
  <2>3. ASSUME NEW a, NEW b, List(u.todo, a, b), Follows(t.todo[1], a), ~Switches(t)
        PROVE  Shape(u) /\ Follows(t.todo[1], u.todo[1]) /\ (Pending(u) => Pending(t))
    BY <2>3, PlainShape DEF Switches
  <2> QED BY <2>1, <2>2, <2>3 DEF Next1
<1>5. Shape(task'[c])
  BY <1>2, <1>4, IdleOK
<1>6. \A d \in Callers : Shape(task'[d])
  BY <1>3, <1>5 DEF Others, TaskOK
<1>7. TaskOK'
  BY <1>3, <1>6 DEF TaskOK, Shape, Chain, Idle
<1>8. 1 \in 1 .. Len(t.todo) /\ Len(Tail(t.todo)) = Len(t.todo) - 1 /\ Tail(t.todo) \in Seq(Steps)
  BY <1>1
<1>9. ASSUME t.todo[1] = "publish" PROVE u.todo = <<>>
  <2>1. Len(t.todo) = 1 /\ Switches(t)
    BY <1>1, <1>9, <1>8 DEF Shape
  <2>2. Tail(t.todo) = <<>>
    BY <1>1, <2>1, LastTail
  <2> QED BY <2>1, <2>2 DEF Next1
<1>10. ASSUME Switches(t), u.todo = <<>> PROVE t.todo[1] = "publish"
  <2>1. Len(t.todo) = 1
    <3>1. Tail(t.todo) = <<>>
      BY <1>10 DEF Next1
    <3> QED BY <1>1, <3>1, LastTail
  <2> QED BY <1>1, <1>10, <2>1 DEF Shape
<1>11. u.todo # <<>> => task'[c] # Idle
  BY <1>2, IdleOK
<1> QED BY <1>2, <1>3, <1>4, <1>7, <1>9, <1>10, <1>11 DEF Advances

LEMMA AtHead ==
    ASSUME TaskOK, NEW c \in Callers, NEW a, At(c, a)
    PROVE  task[c].todo # <<>> /\ task[c].todo[1] = a /\ task[c] \in Tasks /\ Shape(task[c])
<1>1. task[c] \in Tasks /\ Shape(task[c]) /\ task[c].todo \in Seq(Steps) /\ task[c].todo # <<>>
  BY DEF TaskOK, Shape, Chain, At
<1>2. Head(task[c].todo) = task[c].todo[1]
  BY <1>1
<1> QED BY <1>1, <1>2 DEF At

\* who may go where
LEMMA PendingHead ==
    ASSUME NEW t, Shape(t), Pending(t)
    PROVE  t.todo # <<>> /\ t.todo[1] \in {"enter", "write", "append"} /\ t.name = "create"
<1>1. t.todo \in Seq(Steps) /\ Len(t.todo) \in Nat /\ t.name = "create"
  BY DEF Shape, Chain, Pending
<1>2. PICK i \in 1 .. Len(t.todo) : t.todo[i] = "append"
  BY DEF Pending
<1>3. i <= 3
  BY <1>2 DEF Shape
<1>4. \A j \in 1 .. Len(t.todo) - 1 : Follows(t.todo[j], t.todo[j + 1])
  BY DEF Shape, Chain
<1>5. CASE i = 1
  BY <1>1, <1>2, <1>5
<1>6. CASE i = 2
  <2>1. 1 \in 1 .. Len(t.todo) - 1 /\ t.todo[1 + 1] = "append"
    BY <1>1, <1>2, <1>6
  <2>2. Follows(t.todo[1], "append")
    BY <1>4, <2>1
  <2> QED BY <1>1, <2>1, <2>2 DEF Follows
<1>7. CASE i = 3
  <2>1. 1 \in 1 .. Len(t.todo) - 1 /\ 2 \in 1 .. Len(t.todo) - 1 /\ t.todo[2 + 1] = "append" /\ 1 + 1 = 2
    BY <1>1, <1>2, <1>7
  <2>2. Follows(t.todo[2], "append") /\ Follows(t.todo[1], t.todo[2])
    BY <1>4, <2>1
  <2>3. t.todo[2] = "write"
    BY <2>2 DEF Follows
  <2>4. t.todo[1] = "enter"
    BY <2>2, <2>3 DEF Follows
  <2> QED BY <1>1, <2>1, <2>4
<1> QED BY <1>1, <1>2, <1>3, <1>5, <1>6, <1>7

\* the permit is taken by entering and given back by the commit; the draft ends when it is published
Handover(c) ==
    /\ At1(task[c], {"enter"}) => permit = None /\ permit' = c
    /\ At1(task[c], {"commit"}) => permit' = None
    /\ ~At1(task[c], {"enter", "commit"}) => permit' = permit
    /\ draft' = IF At1(task[c], {"publish"}) THEN None ELSE draft
    /\ created' = created
    /\ At1(task'[c], {"load"}) => task'[c].read \in Configurations

LEMMA AdvanceStep ==
    ASSUME IInv, NEW c \in Callers, task[c].todo # <<>>, TaskOK', Advances(c), Handover(c)
    PROVE  StepOK' /\ SwitchOK' /\ (NoSwitchBeside => NoSwitchBeside')
<1> DEFINE t == task[c]
<1>1. /\ Others(c) /\ t.todo[1] \in Steps /\ Shape(t) /\ At1(t, {t.todo[1]})
      /\ \A d \in Callers : task[d] \in Tasks /\ task'[d] \in Tasks
  BY DEF Advances, IInv, TaskOK, Shape, Chain, At1
<1>2. At1(t, Inside) => permit = c
  BY DEF IInv, StepOK
<1>3. ASSUME NEW d \in Callers \ {c}, At1(task[d], Inside) PROVE permit' = d
  <2>1. permit = d
    BY <1>3 DEF IInv, StepOK
  <2>2. ~At1(t, Inside) /\ d # None
    BY <1>2, <2>1, ProfileAssumption
  <2> QED BY <2>1, <2>2 DEF Handover, At1, Inside
<1>4. At1(task'[c], Inside) => permit' = c
  <2>1. SUFFICES ASSUME At1(task'[c], Inside) PROVE permit' = c
    OBVIOUS
  <2>2. task'[c] # Idle
    BY <2>1, IdleOK DEF At1
  <2>3. Follows(t.todo[1], task'[c].todo[1]) /\ task'[c].todo[1] \in Inside
    BY <2>1, <2>2 DEF Advances, At1
  <2>4. t.todo[1] \in (Inside \ {"commit"}) \cup {"enter"}
    BY <2>3, <1>1 DEF Follows, Inside
  <2> QED BY <1>2, <2>4 DEF Handover, At1, Inside
<1>5. StepOK'
  <2>1. ASSUME NEW d \in Callers
        PROVE  /\ At1(task'[d], Inside) => permit' = d
               /\ At1(task'[d], {"load"}) => task'[d].read \in Configurations
               /\ task'[d].todo # <<>> => task'[d].uid \in Uids
               /\ task'[d].name = "create" => task'[d].uid \in created'
               /\ task'[d].name \in {"update", "save"} => task'[d].old \in Contents \cup {None}
    <3>1. CASE d # c
      BY <1>1, <1>3, <3>1 DEF IInv, StepOK, Others, Handover
    <3>2. CASE d = c
      <4>1. CASE task'[c] = Idle
        BY <3>2, <4>1, IdleOK DEF At1
      <4>2. CASE task'[c] # Idle
        BY <1>4, <3>2, <4>2 DEF IInv, StepOK, Advances, Handover
      <4> QED BY <4>1, <4>2
    <3> QED BY <3>1, <3>2
  <2> QED BY <2>1 DEF StepOK, At1, Configurations
<1>6. \A d \in Callers : task'[d].name \in {task[d].name, "none"}
  BY <1>1, IdleOK DEF Others, Advances
<1>7. NoSwitchBeside => NoSwitchBeside'
  BY <1>6 DEF NoSwitchBeside, ChangesIndex
<1>8. \A d, e \in Callers : task'[d].name = "switch" /\ task'[e].name = "switch" => d = e
  BY <1>6 DEF IInv, SwitchOK
<1>9. draft' # None <=> \E d \in Callers : Switches(task'[d])
  <2>1. CASE t.todo[1] = "publish"
    <3>1. Switches(t) /\ task'[c] = Idle
      BY <1>1, <2>1 DEF Shape, Advances, Chain
    <3>2. \A d \in Callers : ~Switches(task'[d])
      BY <1>1, <3>1, IdleOK DEF IInv, SwitchOK, Switches, Others
    <3> QED BY <1>1, <2>1, <3>2 DEF Handover, At1
  <2>2. CASE t.todo[1] # "publish"
    <3>1. draft' = draft
      BY <2>2 DEF Handover, At1
    <3>2. Switches(task'[c]) <=> Switches(t)
      BY <2>2, IdleOK DEF Advances, Switches
    <3> QED BY <1>1, <3>1, <3>2 DEF IInv, SwitchOK, Others
  <2> QED BY <2>1, <2>2
<1> QED BY <1>5, <1>7, <1>8, <1>9 DEF SwitchOK, Switches

\* what the step of one task has to leave alone for the others
LEMMA KeptStep ==
    ASSUME IInv, NEW c \in Callers, task[c].todo # <<>>, TaskOK', Advances(c), Handover(c),
           "removal" \notin excused,
           copy' # copy => permit \in {None, c},
           memory' # memory \/ saved' # saved => permit = c \/ task[c].name = "switch",
           removed' \subseteq removed \cup memory.items,
           Gone',
           task'[c].name \in {"create", "delete"} /\ At1(task'[c], {"commit"}) =>
               saved'.items \cap (memory'.items \ copy'.items) = {},
           task'[c].name = "create" /\ At1(task'[c], {"write", "append"}) => memory'.items \subseteq copy'.items,
           \A d \in Callers : Pending(task'[d]) =>
               /\ task[d].uid \notin memory'.items
               /\ permit' \notin {None, d} => task[d].uid \notin copy'.items
    PROVE  Kept'
<1>1. NoSwitchBeside /\ Gone /\ GoneFromFile /\ Fresh /\ Others(c) /\ c # None
  BY ProfileAssumption DEF IInv, Kept, Advances
<1>2. NoSwitchBeside'
  BY <1>1, AdvanceStep
<1>3. \A d \in Callers : Pending(task'[d]) => Pending(task[d]) /\ task'[d].uid = task[d].uid
  <2>1. Pending(task'[c]) => Pending(task[c]) /\ task'[c].uid = task[c].uid
    BY IdleOK DEF Advances, Pending
  <2> QED BY <1>1, <2>1 DEF Others
<1>4. Fresh'
  <2>1. \A d \in Callers : Pending(task'[d]) =>
          /\ task'[d].uid \notin removed' \cup memory'.items
          /\ permit' \notin {None, d} => task'[d].uid \notin copy'.items
    BY <1>1, <1>3 DEF Fresh
  <2>2. \A d, e \in Callers : Pending(task'[d]) /\ Pending(task'[e]) /\ task'[d].uid = task'[e].uid => d = e
    BY <1>1, <1>3 DEF Fresh
  <2> QED BY <2>1, <2>2 DEF Fresh, Pending
<1>5. GoneFromFile'
  <2>1. ASSUME NEW d \in Callers \ {c}, task[d].name \in {"create", "delete"}, At1(task[d], {"commit", "write", "append"})
        PROVE  memory' = memory /\ saved' = saved /\ copy' = copy
    <3>1. permit = d
      BY <2>1 DEF IInv, StepOK, At1, Inside
    <3>2. task[c].name # "switch"
      BY <1>1, <2>1 DEF NoSwitchBeside, ChangesIndex
    <3>3. d # c /\ d # None
      BY ProfileAssumption
    <3> QED BY <3>1, <3>2, <3>3
  <2>2. ASSUME NEW d \in Callers
        PROVE  /\ task'[d].name \in {"create", "delete"} /\ At1(task'[d], {"commit"}) =>
                     saved'.items \cap (memory'.items \ copy'.items) = {}
               /\ task'[d].name = "create" /\ At1(task'[d], {"write", "append"}) => memory'.items \subseteq copy'.items
    <3>1. CASE d = c
      BY <3>1
    <3>2. CASE d # c
      BY <1>1, <2>1, <3>2 DEF GoneFromFile, Others, At1
    <3> QED BY <3>1, <3>2
  <2> QED BY <2>2 DEF GoneFromFile, At1
<1> QED BY <1>2, <1>4, <1>5 DEF Kept

\* steps that leave the index, its copies and the permit alone
LEMMA QuietStep ==
    ASSUME IInv, NEW c \in Callers, task[c].todo # <<>>, TaskOK', Advances(c), Handover(c), StoreOK',
           UNCHANGED <<memory, saved, draft, permit, copy, removed>>,
           "removal" \notin excused' => "removal" \notin excused,
           ~At1(task[c], {"append", "save"}),
           "reorder" = task[c].todo[1] => task[c].name = "reorder"
    PROVE  IInv'
<1>1. StepOK' /\ SwitchOK'
  BY AdvanceStep
<1>2. CreatedOK'
  BY DEF IInv, CreatedOK, Handover
<1>3. ASSUME "removal" \notin excused PROVE Kept'
  <2>1. NoSwitchBeside /\ Gone /\ GoneFromFile /\ Fresh
    BY <1>3 DEF IInv, Kept
  <2>2. Gone'
    BY <2>1 DEF Gone
  <2>3. permit # c \/ ~At1(task[c], {"enter"})
    BY ProfileAssumption DEF Handover
  <2>4. /\ task'[c].name \in {"create", "delete"} => ~At1(task'[c], {"commit"})
        /\ At1(task'[c], {"write", "append"}) => At1(task[c], {"write"}) /\ task'[c].name = task[c].name
    <3>1. CASE task'[c] = Idle
      BY <3>1, IdleOK DEF At1
    <3>2. CASE task'[c] # Idle
      <4>1. Follows(task[c].todo[1], task'[c].todo[1]) /\ task'[c].name = task[c].name
        BY <3>2 DEF Advances
      <4>2. task[c].todo[1] \notin {"append", "save"} /\ task[c].todo[1] # "enter"
        BY <2>3 DEF Handover, At1
      <4>3. task'[c].todo[1] = "commit" => task[c].todo[1] = "reorder"
        BY <4>1, <4>2 DEF Follows
      <4>4. task'[c].todo[1] \in {"write", "append"} => task[c].todo[1] = "write"
        BY <4>1, <4>2 DEF Follows
      <4> QED BY <4>1, <4>3, <4>4 DEF At1
    <3> QED BY <3>1, <3>2
  <2>5. task'[c].name = "create" /\ At1(task'[c], {"write", "append"}) => memory'.items \subseteq copy'.items
    BY <2>1, <2>4 DEF GoneFromFile, At1
  <2>6. \A d \in Callers : Pending(task'[d]) => Pending(task[d])
    BY IdleOK DEF Advances, Others, Pending
  <2>7. \A d \in Callers : Pending(task'[d]) =>
            task[d].uid \notin memory'.items /\ (permit' \notin {None, d} => task[d].uid \notin copy'.items)
    BY <2>1, <2>6 DEF Fresh
  <2> QED BY <1>3, <2>2, <2>4, <2>5, <2>7, KeptStep
<1>4. "removal" \in excused' => Kept'
  BY DEF Kept
<1> QED BY <1>1, <1>2, <1>3, <1>4 DEF IInv

LEMMA Continues ==
    ASSUME TaskOK, NEW c \in Callers, task[c].todo # <<>>, Continue(c)
    PROVE  TaskOK' /\ Advances(c)
<1> DEFINE t == task[c]
           u == [t EXCEPT !.todo = Tail(t.todo)]
<1>1. t \in Tasks /\ t.todo \in Seq(Steps)
  BY DEF TaskOK, Shape, Chain
<1>2. Tail(t.todo) \in Seq(Steps)
  BY <1>1, LastTail
<1>3. /\ u \in Tasks /\ u.todo = Tail(t.todo)
      /\ u.name = t.name /\ u.uid = t.uid /\ u.restoring = t.restoring /\ u.old = t.old
  BY <1>1, <1>2 DEF Tasks
<1>4. Becomes(c, u)
  BY DEF Continue
<1> HIDE DEF u
<1> QED BY <1>3, <1>4, Advance DEF Next1

LEMMA NotLoaded ==
    ASSUME NEW c \in Callers, Advances(c), task[c].todo[1] # "generate"
    PROVE  ~At1(task'[c], {"load"})
BY IdleOK DEF Advances, Follows, At1

\* a step at a, and what it leaves alone
LEMMA Starts ==
    ASSUME IInv, NEW c \in Callers, NEW a, At(c, a)
    PROVE  /\ task[c].todo # <<>> /\ task[c].todo[1] = a /\ task[c] \in Tasks /\ Shape(task[c])
           /\ \A S : At1(task[c], S) <=> a \in S
           /\ a \in Inside => permit = c /\ copy \in Index
           /\ task[c].uid \in Uids /\ TaskOK /\ c # None
           /\ a \in {"keep", "publish"} => Switches(task[c]) /\ draft \in Index
           /\ a = "reorder" => task[c].name = "reorder"
           /\ a = "append" => task[c].name = "create" /\ Pending(task[c])
<1>1. TaskOK /\ c # None
  BY ProfileAssumption DEF IInv
<1>2. task[c].todo # <<>> /\ task[c].todo[1] = a /\ task[c] \in Tasks /\ Shape(task[c])
  BY <1>1, AtHead
<1>3. \A S : At1(task[c], S) <=> a \in S
  BY <1>2 DEF At1
<1>4. a \in Inside => permit = c /\ copy \in Index
  BY <1>1, <1>3 DEF IInv, StepOK, StoreOK
<1>5. 1 \in 1 .. Len(task[c].todo)
  BY <1>2 DEF Shape, Chain
<1>6. /\ a \in {"keep", "publish"} => Switches(task[c])
      /\ a = "reorder" => task[c].name = "reorder"
      /\ a = "append" => task[c].name = "create" /\ Pending(task[c])
  BY <1>2, <1>5 DEF Shape, Pending
<1>7. a \in {"keep", "publish"} => draft \in Index
  BY <1>6 DEF IInv, SwitchOK, StoreOK
<1> QED BY <1>1, <1>2, <1>3, <1>4, <1>6, <1>7 DEF IInv, StepOK

------------------------------------------------------------------------------
(* The steps that leave the index alone. *)

LEMMA DownloadStep == ASSUME IInv, NEW c \in Callers, NEW x \in Contents, Download(c, x) PROVE IInv'
<1> DEFINE t == task[c]
           u == [t EXCEPT !.todo = Tail(t.todo), !.data = x]
<1>1. /\ TaskOK /\ t \in Tasks /\ Shape(t) /\ t.todo # <<>> /\ t.todo[1] = "download"
      /\ \A S : At1(t, S) <=> "download" \in S
  BY Starts DEF Download
<1>2. Tail(t.todo) \in Seq(Steps)
  BY <1>1, LastTail DEF Shape, Chain
<1>3. /\ u \in Tasks /\ u.todo = Tail(t.todo)
      /\ u.name = t.name /\ u.uid = t.uid /\ u.restoring = t.restoring /\ u.old = t.old
  BY <1>1, <1>2 DEF Tasks
<1>4. Becomes(c, u)
  BY DEF Download
<1> HIDE DEF u
<1>5. TaskOK' /\ Advances(c)
  BY <1>1, <1>3, <1>4, Advance DEF Next1
<1>6. Handover(c)
  BY <1>1, <1>5, NotLoaded DEF Download, Handover, store, locks, Bookkeeping
<1>7. StoreOK'
  BY DEF Download, store, locks, IInv, StoreOK, Configurations
<1> QED BY <1>1, <1>5, <1>6, <1>7, QuietStep DEF Download, store, locks, Bookkeeping

LEMMA WriteStep == ASSUME IInv, NEW c \in Callers, WriteFile(c) PROVE IInv'
<1>1. /\ TaskOK /\ task[c] \in Tasks /\ task[c].todo # <<>> /\ task[c].todo[1] = "write"
      /\ \A S : At1(task[c], S) <=> "write" \in S
  BY Starts DEF WriteFile
<1>2. TaskOK' /\ Advances(c)
  BY <1>1, Continues DEF WriteFile
<1>3. Handover(c)
  BY <1>1, <1>2, NotLoaded DEF WriteFile, Handover, locks, Bookkeeping
<1>4. StoreOK'
  BY <1>1 DEF WriteFile, locks, IInv, StoreOK, Tasks, Configurations
<1> QED BY <1>1, <1>2, <1>3, <1>4, QuietStep DEF WriteFile, locks, Bookkeeping

LEMMA PutStep == ASSUME IInv, NEW c \in Callers, Put(c) PROVE IInv'
<1>1. /\ TaskOK /\ task[c] \in Tasks /\ task[c].todo # <<>> /\ task[c].todo[1] = "put"
      /\ \A S : At1(task[c], S) <=> "put" \in S
  BY Starts DEF Put
<1>2. TaskOK' /\ Advances(c)
  BY <1>1, Continues DEF Put
<1>3. Handover(c)
  BY <1>1, <1>2, NotLoaded DEF Put, Handover, locks, Bookkeeping
<1>4. StoreOK'
  BY <1>1 DEF Put, locks, IInv, StoreOK, Tasks, Configurations
<1> QED BY <1>1, <1>2, <1>3, <1>4, QuietStep DEF Put, locks, Bookkeeping

LEMMA ValidateStep == ASSUME IInv, NEW c \in Callers, Validate(c) PROVE IInv'
<1>1. /\ TaskOK /\ task[c].todo # <<>> /\ task[c].todo[1] = "validate"
      /\ \A S : At1(task[c], S) <=> "validate" \in S
  BY Starts DEF Validate
<1>2. TaskOK' /\ Advances(c)
  BY <1>1, Continues DEF Validate
<1>3. Handover(c)
  BY <1>1, <1>2, NotLoaded DEF Validate, Handover, store, locks, Bookkeeping
<1>4. StoreOK'
  BY DEF Validate, store, locks, IInv, StoreOK, Configurations
<1> QED BY <1>1, <1>2, <1>3, <1>4, QuietStep DEF Validate, store, locks, Bookkeeping

LEMMA LoadStep == ASSUME IInv, NEW c \in Callers, Load(c) PROVE IInv'
<1>1. /\ TaskOK /\ task[c].todo # <<>> /\ task[c].todo[1] = "load"
      /\ \A S : At1(task[c], S) <=> "load" \in S
  BY Starts DEF Load
<1>2. TaskOK' /\ Advances(c)
  BY <1>1, Continues DEF Load
<1>3. Handover(c)
  BY <1>1, <1>2, NotLoaded DEF Load, Handover, store, Bookkeeping
<1>4. StoreOK'
  <2>1. core' \in Configurations
    BY <1>1 DEF Load, IInv, StepOK
  <2> QED BY <2>1 DEF Load, store, IInv, StoreOK, Configurations
<1> QED BY <1>1, <1>2, <1>3, <1>4, QuietStep DEF Load, store, Bookkeeping

LEMMA AgainStep == ASSUME IInv, NEW c \in Callers, Again(c) PROVE IInv'
<1> DEFINE t == task[c]
           u == [t EXCEPT !.todo = IF Latest.current = t.uid THEN Reload ELSE <<>>]
<1>1. /\ TaskOK /\ t \in Tasks /\ Shape(t) /\ t.todo # <<>> /\ t.todo[1] = "again"
      /\ \A S : At1(t, S) <=> "again" \in S
  BY Starts DEF Again
<1>2. List(Reload, "generate", "load") /\ Reload \in Seq(Steps) /\ <<>> \in Seq(Steps)
  BY Lists DEF List, Plain, Chain
<1>3. /\ u \in Tasks /\ (u.todo = Reload \/ u.todo = <<>>)
      /\ u.name = t.name /\ u.uid = t.uid /\ u.restoring = t.restoring /\ u.old = t.old
  BY <1>1, <1>2 DEF Tasks
<1>4. Becomes(c, u)
  BY DEF Again
<1> HIDE DEF u
<1>5. ~Switches(t)
  <2>1. 1 \in 1 .. Len(t.todo)
    BY <1>1 DEF Shape, Chain
  <2> QED BY <1>1, <2>1 DEF Shape
<1>6. Next1(c, u)
  BY <1>1, <1>2, <1>3, <1>5 DEF Next1, Follows
<1>7. TaskOK' /\ Advances(c)
  BY <1>1, <1>3, <1>4, <1>6, Advance
<1>8. Handover(c)
  BY <1>1, <1>7, NotLoaded DEF Again, Handover, store, locks, Bookkeeping
<1>9. StoreOK'
  BY DEF Again, store, locks, IInv, StoreOK, Configurations
<1> QED BY <1>1, <1>7, <1>8, <1>9, QuietStep DEF Again, store, locks, Bookkeeping

LEMMA GenerateStep == ASSUME IInv, NEW c \in Callers, Generate(c) PROVE IInv'
<1> DEFINE t == task[c]
           v == Latest.current
           r == IF v = None THEN NoProfile ELSE Configuration(v)
           u == [t EXCEPT !.todo = Tail(t.todo), !.read = r]
<1>1. /\ TaskOK /\ t \in Tasks /\ Shape(t) /\ t.todo # <<>> /\ t.todo[1] = "generate"
      /\ \A S : At1(t, S) <=> "generate" \in S
  BY Starts DEF Generate
<1>2. Tail(t.todo) \in Seq(Steps)
  BY <1>1, LastTail DEF Shape, Chain
<1>3. r \in Configurations
  <2>1. Latest \in Index
    BY DEF Latest, IInv, StoreOK
  <2>2. v \in Uids \cup {None}
    BY <2>1 DEF Index
  <2>3. v # None => file[v] \in Contents
    BY <2>2 DEF Generate, IInv, StoreOK
  <2> QED BY <2>2, <2>3 DEF Configurations, Configuration
<1> HIDE DEF r
<1>4. /\ u \in Tasks /\ u.todo = Tail(t.todo) /\ u.read = r
      /\ u.name = t.name /\ u.uid = t.uid /\ u.restoring = t.restoring /\ u.old = t.old
  BY <1>1, <1>2, <1>3 DEF Tasks
<1>5. Becomes(c, u)
  BY DEF Generate, r
<1> HIDE DEF u
<1>6. TaskOK' /\ Advances(c)
  BY <1>1, <1>4, <1>5, Advance DEF Next1
<1>7. task'[c] \in {Idle, u}
  BY <1>1, <1>5 DEF Becomes, Over, TaskOK
<1>8. At1(task'[c], {"load"}) => task'[c].read \in Configurations
  BY <1>3, <1>4, <1>7, IdleOK DEF At1
<1>9. Handover(c)
  BY <1>1, <1>8 DEF Generate, Handover, store, Bookkeeping
<1>10. StoreOK'
  BY DEF Generate, store, IInv, StoreOK, Configurations
<1> QED BY <1>1, <1>6, <1>9, <1>10, QuietStep DEF Generate, store, Bookkeeping

------------------------------------------------------------------------------
(* The steps that change the index, its copies or the permit. *)

LEMMA AfterStep ==
    ASSUME NEW c \in Callers, Advances(c)
    PROVE  /\ \A d \in Callers : Pending(task'[d]) => Pending(task[d]) /\ task'[d].uid = task[d].uid
           /\ \A S : At1(task'[c], S) => /\ task'[c].todo[1] \in S /\ task'[c].name = task[c].name
                                         /\ Follows(task[c].todo[1], task'[c].todo[1])
BY IdleOK DEF Advances, Others, Pending, At1

LEMMA EnterStep == ASSUME IInv, NEW c \in Callers, Enter(c) PROVE IInv'
<1>1. /\ TaskOK /\ c # None /\ task[c].todo # <<>> /\ task[c].todo[1] = "enter"
      /\ \A S : At1(task[c], S) <=> "enter" \in S
  BY Starts DEF Enter
<1>2. TaskOK' /\ Advances(c)
  BY <1>1, Continues DEF Enter
<1>3. Handover(c)
  BY <1>1, <1>2, NotLoaded DEF Enter, Handover, store, Bookkeeping
<1>4. StoreOK'
  <2>1. memory \in Index /\ memory # None
    BY ProfileAssumption DEF IInv, StoreOK
  <2> QED BY <1>1, <2>1 DEF Enter, store, IInv, StoreOK, Configurations
<1>5. CreatedOK'
  BY DEF IInv, CreatedOK, Enter, store, Bookkeeping
<1>6. StepOK' /\ SwitchOK'
  BY <1>1, <1>2, <1>3, AdvanceStep
<1>7. ASSUME "removal" \notin excused PROVE Kept'
  <2>1. NoSwitchBeside /\ Gone /\ GoneFromFile /\ Fresh
    BY <1>7 DEF IInv, Kept
  <2>2. Gone'
    BY <2>1 DEF Gone, Enter, store
  <2>3. memory'.items \ copy'.items = {} /\ memory'.items \subseteq copy'.items
    BY DEF Enter, store
  <2>4. \A d \in Callers : Pending(task'[d]) =>
            task[d].uid \notin memory'.items /\ (permit' \notin {None, d} => task[d].uid \notin copy'.items)
    BY <1>2, <2>1, AfterStep DEF Fresh, Enter, store
  <2>5. permit = None /\ memory' = memory /\ saved' = saved /\ removed' = removed
    BY DEF Enter, store
  <2> QED BY <1>1, <1>2, <1>3, <1>7, <2>2, <2>3, <2>4, <2>5, KeptStep
<1>8. "removal" \in excused => Kept'
  BY DEF Kept, Enter, Bookkeeping
<1> QED BY <1>2, <1>4, <1>5, <1>6, <1>7, <1>8 DEF IInv

LEMMA AppendStep == ASSUME IInv, NEW c \in Callers, AppendItem(c) PROVE IInv'
<1>1. /\ TaskOK /\ c # None /\ task[c].todo # <<>> /\ task[c].todo[1] = "append"
      /\ \A S : At1(task[c], S) <=> "append" \in S
      /\ permit = c /\ copy \in Index /\ task[c].uid \in Uids
      /\ task[c].name = "create" /\ Pending(task[c])
  BY Starts DEF AppendItem, Inside
<1>2. TaskOK' /\ Advances(c)
  BY <1>1, Continues DEF AppendItem
<1>3. Handover(c)
  BY <1>1, <1>2, NotLoaded DEF AppendItem, Handover, store, Bookkeeping
<1>4. copy' \in Index /\ copy' # None /\ copy'.items = copy.items \cup {task[c].uid}
  <2>1. copy' \in Index /\ copy'.items = copy.items \cup {task[c].uid}
    BY <1>1 DEF AppendItem, Index
  <2> QED BY <2>1, ProfileAssumption
<1>5. StoreOK'
  BY <1>4 DEF AppendItem, store, IInv, StoreOK, Configurations
<1>6. CreatedOK'
  <2>1. task[c].uid \in created /\ copy # None
    BY <1>1 DEF IInv, StepOK, StoreOK
  <2> QED BY <1>4, <2>1 DEF IInv, CreatedOK, AppendItem, store, Bookkeeping
<1>7. StepOK' /\ SwitchOK'
  BY <1>1, <1>2, <1>3, AdvanceStep
<1>8. ASSUME "removal" \notin excused PROVE Kept'
  <2>1. NoSwitchBeside /\ Gone /\ GoneFromFile /\ Fresh /\ copy # None
    BY <1>1, <1>8 DEF IInv, Kept, StoreOK
  <2>2. Gone'
    BY <1>1, <1>4, <2>1 DEF Gone, Fresh, AppendItem, store
  <2>3. memory'.items \subseteq copy'.items
    BY <1>1, <1>4, <2>1 DEF GoneFromFile, AppendItem, store, At1
  <2>4. ~Pending(task'[c])
    <3>1. ASSUME Pending(task'[c]) PROVE FALSE
      <4>1. task'[c].todo # <<>> /\ task'[c].todo[1] \in {"enter", "write", "append"}
        BY <1>2, <3>1, PendingHead DEF TaskOK
      <4>2. Follows("append", task'[c].todo[1])
        BY <1>1, <1>2, <4>1, AfterStep DEF At1
      <4> QED BY <4>1, <4>2 DEF Follows
    <3> QED BY <3>1
  <2>5. \A d \in Callers : Pending(task'[d]) =>
            task[d].uid \notin memory'.items /\ (permit' \notin {None, d} => task[d].uid \notin copy'.items)
    <3>1. ASSUME NEW d \in Callers, Pending(task'[d]) PROVE d # c /\ Pending(task[d]) /\ d # permit
      BY <1>1, <1>2, <2>4, <3>1, AfterStep
    <3> QED BY <1>1, <1>4, <2>1, <3>1 DEF Fresh, AppendItem, store
  <2>6. saved'.items \cap (memory'.items \ copy'.items) = {}
    BY <2>3
  <2>7. permit = c /\ memory' = memory /\ saved' = saved /\ removed' = removed
    BY <1>1 DEF AppendItem, store
  <2> QED BY <1>1, <1>2, <1>3, <1>8, <2>2, <2>3, <2>5, <2>6, <2>7, KeptStep
<1>9. "removal" \in excused => Kept'
  BY DEF Kept, AppendItem, Bookkeeping
<1> QED BY <1>2, <1>5, <1>6, <1>7, <1>8, <1>9 DEF IInv

\* steps that only take items out of the copy: a removal, and a reordering that lost its items
LEMMA ShrinkStep ==
    ASSUME IInv, NEW c \in Callers, NEW a \in {"remove", "reorder"}, At(c, a), TaskOK', Advances(c), StoreOK',
           UNCHANGED <<memory, saved, draft, permit, removed, created>>,
           copy' # None, copy'.items \subseteq copy.items, excused \subseteq excused'
    PROVE  IInv'
<1>1. /\ TaskOK /\ c # None /\ task[c].todo # <<>> /\ task[c].todo[1] = a
      /\ \A S : At1(task[c], S) <=> a \in S
      /\ permit = c /\ copy \in Index
      /\ a = "reorder" => task[c].name = "reorder"
  BY Starts DEF Inside
<1>2. Handover(c)
  BY <1>1, NotLoaded DEF Handover
<1>3. copy # None
  BY <1>1 DEF IInv, StoreOK
<1>4. CreatedOK'
  BY <1>3 DEF IInv, CreatedOK
<1>5. StepOK' /\ SwitchOK'
  BY <1>1, <1>2, AdvanceStep
<1>6. ASSUME "removal" \notin excused PROVE Kept'
  <2>1. NoSwitchBeside /\ Gone /\ GoneFromFile /\ Fresh
    BY <1>6 DEF IInv, Kept
  <2>2. Gone'
    BY <1>3, <2>1 DEF Gone
  <2>3. /\ At1(task'[c], {"commit"}) => task'[c].name = "reorder"
        /\ ~At1(task'[c], {"write", "append"})
    <3>1. \A S : At1(task'[c], S) => task'[c].todo[1] \in S /\ task'[c].name = task[c].name /\ Follows(a, task'[c].todo[1])
      BY <1>1, AfterStep
    <3> QED BY <1>1, <3>1 DEF Follows
  <2>4. \A d \in Callers : Pending(task'[d]) =>
            task[d].uid \notin memory'.items /\ (permit' \notin {None, d} => task[d].uid \notin copy'.items)
    BY <2>1, AfterStep DEF Fresh
  <2> QED BY <1>1, <1>2, <1>6, <2>2, <2>3, <2>4, KeptStep
<1>7. "removal" \in excused => Kept'
  BY DEF Kept
<1> QED BY <1>4, <1>5, <1>6, <1>7 DEF IInv

LEMMA DeleteStep == ASSUME IInv, NEW c \in Callers, DeleteItem(c) PROVE IInv'
<1> DEFINE t == task[c]
           more == copy.current \in {t.uid, None} /\ t.name = "delete"
           u == [t EXCEPT !.todo = Tail(t.todo) \o (IF more THEN Reload ELSE <<>>)]
<1>1. /\ TaskOK /\ t \in Tasks /\ Shape(t) /\ t.todo # <<>> /\ t.todo[1] = "remove" /\ copy \in Index /\ t.uid \in Uids
  BY Starts DEF DeleteItem, Inside
<1>2. Tail(t.todo) \in Seq(Steps) /\ Tail(t.todo) \o <<>> = Tail(t.todo)
  BY <1>1, LastTail, Empty DEF Shape, Chain
<1>3. Reload \in Seq(Steps)
  BY Lists DEF List, Plain, Chain
<1>4. Tail(t.todo) \o Reload \in Seq(Steps)
  BY <1>2, <1>3, Concatenation
<1>5. /\ u \in Tasks /\ u.todo \in {Tail(t.todo), Tail(t.todo) \o Reload}
      /\ u.name = t.name /\ u.uid = t.uid /\ u.restoring = t.restoring /\ u.old = t.old
  <2>1. (Tail(t.todo) \o (IF more THEN Reload ELSE <<>>)) \in {Tail(t.todo), Tail(t.todo) \o Reload}
    BY <1>2
  <2> QED BY <1>1, <1>2, <1>4, <2>1 DEF Tasks
<1>6. Becomes(c, u)
  BY DEF DeleteItem
<1> HIDE DEF u
<1>7. ~Switches(t)
  <2>1. 1 \in 1 .. Len(t.todo)
    BY <1>1 DEF Shape, Chain
  <2> QED BY <1>1, <2>1 DEF Shape
<1>8. TaskOK' /\ Advances(c)
  BY <1>1, <1>5, <1>6, <1>7, Advance DEF Next1
<1>9. copy' \in Index /\ copy' # None /\ copy'.items \subseteq copy.items
  <2>1. copy' \in Index /\ copy'.items \subseteq copy.items
    BY <1>1 DEF DeleteItem, Index
  <2> QED BY <2>1, ProfileAssumption
<1>10. StoreOK'
  BY <1>1, <1>9 DEF DeleteItem, IInv, StoreOK, Configurations
<1> QED BY <1>8, <1>9, <1>10, ShrinkStep DEF DeleteItem

LEMMA ReorderStep == ASSUME IInv, NEW c \in Callers, Reorder(c) PROVE IInv'
<1> DEFINE t == task[c]
           u == [t EXCEPT !.todo = <<"save", "commit">>]
<1>1. /\ TaskOK /\ t \in Tasks /\ Shape(t) /\ t.todo # <<>> /\ t.todo[1] = "reorder" /\ copy \in Index
      /\ t.name = "reorder" /\ \A S : At1(t, S) <=> "reorder" \in S
  BY Starts DEF Reorder, Inside
<1>2. CASE t.uid \in copy.items
  <2>1. List(<<"save", "commit">>, "save", "commit") /\ <<"save", "commit">> \in Seq(Steps)
    BY Lists DEF List, Plain, Chain
  <2>2. /\ u \in Tasks /\ u.todo = <<"save", "commit">>
        /\ u.name = t.name /\ u.uid = t.uid /\ u.restoring = t.restoring /\ u.old = t.old
    BY <1>1, <2>1 DEF Tasks
  <2>3. Becomes(c, u) /\ UNCHANGED <<copy, excused>>
    BY <1>2 DEF Reorder
  <2> HIDE DEF u
  <2>4. ~Switches(t)
    BY <1>1 DEF Switches
  <2>5. Next1(c, u)
    BY <1>1, <2>1, <2>2, <2>4 DEF Next1, Follows
  <2>6. TaskOK' /\ Advances(c)
    BY <1>1, <2>2, <2>3, <2>5, Advance
  <2>7. Handover(c)
    BY <1>1, <2>6, NotLoaded DEF Reorder, Handover, store
  <2>8. StoreOK'
    BY <2>3 DEF Reorder, store, IInv, StoreOK, Configurations
  <2> QED BY <1>1, <2>3, <2>6, <2>7, <2>8, QuietStep DEF Reorder, store
<1>3. CASE t.uid \notin copy.items
  <2>1. /\ copy' = [copy EXCEPT !.items = {}] /\ Continue(c) /\ excused \subseteq excused'
    BY <1>3 DEF Reorder
  <2>2. TaskOK' /\ Advances(c)
    BY <1>1, <2>1, Continues
  <2>3. copy' \in Index /\ copy' # None /\ copy'.items \subseteq copy.items
    <3>1. copy' \in Index /\ copy'.items = {}
      BY <1>1, <2>1 DEF Index
    <3> QED BY <3>1, ProfileAssumption
  <2>4. StoreOK'
    BY <2>3 DEF Reorder, store, IInv, StoreOK, Configurations
  <2> QED BY <2>1, <2>2, <2>3, <2>4, ShrinkStep DEF Reorder, store
<1> QED BY <1>2, <1>3

LEMMA SaveStep == ASSUME IInv, NEW c \in Callers, SaveFile(c) PROVE IInv'
<1>1. /\ TaskOK /\ c # None /\ task[c].todo # <<>> /\ task[c].todo[1] = "save"
      /\ \A S : At1(task[c], S) <=> "save" \in S
      /\ permit = c /\ copy \in Index
  BY Starts DEF SaveFile, Inside
<1>2. TaskOK' /\ Advances(c)
  BY <1>1, Continues DEF SaveFile
<1>3. Handover(c)
  BY <1>1, <1>2, NotLoaded DEF SaveFile, Handover, locks, Bookkeeping
<1>4. StoreOK'
  BY <1>1 DEF SaveFile, locks, IInv, StoreOK, Configurations
<1>5. copy # None
  BY <1>1 DEF IInv, StoreOK
<1>6. CreatedOK'
  BY <1>5 DEF IInv, CreatedOK, SaveFile, locks, Bookkeeping
<1>7. StepOK' /\ SwitchOK'
  BY <1>1, <1>2, <1>3, AdvanceStep
<1>8. ASSUME "removal" \notin excused PROVE Kept'
  <2>1. NoSwitchBeside /\ Gone /\ GoneFromFile /\ Fresh
    BY <1>8 DEF IInv, Kept
  <2>2. Gone'
    BY <1>5, <2>1 DEF Gone, SaveFile, locks
  <2>3. saved'.items \cap (memory'.items \ copy'.items) = {}
    BY DEF SaveFile, locks
  <2>4. ~At1(task'[c], {"write", "append"})
    <3>1. \A S : At1(task'[c], S) => task'[c].todo[1] \in S /\ Follows("save", task'[c].todo[1])
      BY <1>1, <1>2, AfterStep
    <3> QED BY <3>1 DEF Follows
  <2>5. \A d \in Callers : Pending(task'[d]) =>
            task[d].uid \notin memory'.items /\ (permit' \notin {None, d} => task[d].uid \notin copy'.items)
    BY <1>2, <2>1, AfterStep DEF Fresh, SaveFile, locks
  <2>6. permit = c /\ memory' = memory /\ copy' = copy /\ removed' = removed
    BY <1>1 DEF SaveFile, locks
  <2> QED BY <1>1, <1>2, <1>3, <1>8, <2>2, <2>3, <2>4, <2>5, <2>6, KeptStep
<1>9. "removal" \in excused => Kept'
  BY DEF Kept, SaveFile, Bookkeeping
<1> QED BY <1>2, <1>4, <1>6, <1>7, <1>8, <1>9 DEF IInv

LEMMA CommitStep == ASSUME IInv, NEW c \in Callers, Commit(c) PROVE IInv'
<1>1. /\ TaskOK /\ c # None /\ task[c].todo # <<>> /\ task[c].todo[1] = "commit" /\ Shape(task[c])
      /\ \A S : At1(task[c], S) <=> "commit" \in S
      /\ permit = c /\ copy \in Index
  BY Starts DEF Commit, Inside
<1>2. TaskOK' /\ Advances(c)
  BY <1>1, Continues DEF Commit
<1>3. Handover(c)
  BY <1>1, <1>2, NotLoaded DEF Commit, Handover, Bookkeeping
<1>4. StoreOK'
  BY <1>1 DEF Commit, IInv, StoreOK, Configurations
<1>5. copy # None
  BY <1>1 DEF IInv, StoreOK
<1>6. CreatedOK'
  <2>1. removed' \subseteq removed \cup memory.items
    BY DEF Commit
  <2> QED BY <1>5, <2>1 DEF IInv, CreatedOK, Commit, Bookkeeping
<1>7. StepOK' /\ SwitchOK'
  BY <1>1, <1>2, <1>3, AdvanceStep
<1>8. ASSUME "removal" \notin excused PROVE Kept'
  <2>1. NoSwitchBeside /\ Gone /\ GoneFromFile /\ Fresh
    BY <1>8 DEF IInv, Kept
  <2>2. Gone'
    <3>1. CASE task[c].name \in {"delete", "create"}
      <4>1. draft = None
        BY <2>1, <3>1 DEF IInv, SwitchOK, Switches, NoSwitchBeside, ChangesIndex
      <4>2. saved.items \cap (memory.items \ copy.items) = {}
        BY <1>1, <2>1, <3>1 DEF GoneFromFile
      <4>3. removed' = removed \cup (memory.items \ copy.items)
        BY <3>1 DEF Commit
      <4> QED BY <1>5, <2>1, <4>1, <4>2, <4>3 DEF Gone, Commit
    <3>2. CASE task[c].name \notin {"delete", "create"}
      <4>1. removed' = removed
        BY <3>2 DEF Commit
      <4> QED BY <1>5, <2>1, <4>1 DEF Gone, Commit
    <3> QED BY <3>1, <3>2
  <2>3. ~At1(task'[c], {"commit"}) /\ ~At1(task'[c], {"write", "append"})
    <3>1. \A S : At1(task'[c], S) => task'[c].todo[1] \in S /\ Follows("commit", task'[c].todo[1])
      BY <1>1, <1>2, AfterStep
    <3> QED BY <3>1 DEF Follows
  <2>4. \A d \in Callers : Pending(task'[d]) =>
            task[d].uid \notin memory'.items /\ (permit' \notin {None, d} => task[d].uid \notin copy'.items)
    <3>1. ASSUME NEW d \in Callers, Pending(task'[d]) PROVE d # c /\ Pending(task[d])
      <4>1. Pending(task[d])
        BY <1>2, <3>1, AfterStep
      <4>2. ~Pending(task[c])
        BY <1>1, PendingHead
      <4> QED BY <4>1, <4>2
    <3> QED BY <1>1, <2>1, <3>1 DEF Fresh, Commit
  <2>5. permit = c /\ copy' = copy /\ saved' = saved /\ removed' \subseteq removed \cup memory.items
    BY <1>1 DEF Commit
  <2> QED BY <1>1, <1>2, <1>3, <1>8, <2>2, <2>3, <2>4, <2>5, KeptStep
<1>9. "removal" \in excused => Kept'
  BY DEF Kept, Commit, Bookkeeping
<1> QED BY <1>2, <1>4, <1>6, <1>7, <1>8, <1>9 DEF IInv

LEMMA KeepStep == ASSUME IInv, NEW c \in Callers, Keep(c) PROVE IInv'
<1>1. /\ TaskOK /\ c # None /\ task[c].todo # <<>> /\ task[c].todo[1] = "keep"
      /\ \A S : At1(task[c], S) <=> "keep" \in S
      /\ Switches(task[c]) /\ draft \in Index /\ draft # None
  BY Starts, ProfileAssumption DEF Keep
<1>2. TaskOK' /\ Advances(c)
  BY <1>1, Continues DEF Keep
<1>3. Handover(c)
  BY <1>1, <1>2, NotLoaded DEF Keep, Handover, locks, Bookkeeping
<1>4. StoreOK'
  BY <1>1 DEF Keep, locks, IInv, StoreOK, Configurations
<1>5. CreatedOK'
  BY <1>1 DEF IInv, CreatedOK, Keep, locks, Bookkeeping
<1>6. StepOK' /\ SwitchOK'
  BY <1>1, <1>2, <1>3, AdvanceStep
<1>7. ASSUME "removal" \notin excused PROVE Kept'
  <2>1. NoSwitchBeside /\ Gone /\ GoneFromFile /\ Fresh
    BY <1>7 DEF IInv, Kept
  <2>2. Gone'
    BY <1>1, <2>1 DEF Gone, Keep, locks
  <2>3. task'[c].name \notin {"create", "delete"}
    BY <1>1, <1>2, IdleOK DEF Advances, Switches
  <2>4. \A d \in Callers : Pending(task'[d]) =>
            task[d].uid \notin memory'.items /\ (permit' \notin {None, d} => task[d].uid \notin copy'.items)
    BY <1>2, <2>1, AfterStep DEF Fresh, Keep, locks
  <2>5. task[c].name = "switch" /\ copy' = copy /\ removed' = removed
    BY <1>1 DEF Keep, locks, Switches
  <2> QED BY <1>1, <1>2, <1>3, <1>7, <2>2, <2>3, <2>4, <2>5, KeptStep
<1>8. "removal" \in excused => Kept'
  BY DEF Kept, Keep, Bookkeeping
<1> QED BY <1>2, <1>4, <1>5, <1>6, <1>7, <1>8 DEF IInv

LEMMA PublishStep == ASSUME IInv, NEW c \in Callers, Publish(c) PROVE IInv'
<1>1. /\ TaskOK /\ c # None /\ task[c].todo # <<>> /\ task[c].todo[1] = "publish"
      /\ \A S : At1(task[c], S) <=> "publish" \in S
      /\ Switches(task[c]) /\ draft \in Index /\ draft # None
  BY Starts, ProfileAssumption DEF Publish
<1>2. TaskOK' /\ Advances(c)
  BY <1>1, Continues DEF Publish
<1>3. Handover(c)
  BY <1>1, <1>2, NotLoaded DEF Publish, Handover, Bookkeeping
<1>4. StoreOK'
  BY <1>1 DEF Publish, IInv, StoreOK, Configurations
<1>5. CreatedOK'
  BY <1>1 DEF IInv, CreatedOK, Publish, Bookkeeping
<1>6. StepOK' /\ SwitchOK'
  BY <1>1, <1>2, <1>3, AdvanceStep
<1>7. ASSUME "removal" \notin excused PROVE Kept'
  <2>1. NoSwitchBeside /\ Gone /\ GoneFromFile /\ Fresh
    BY <1>7 DEF IInv, Kept
  <2>2. Gone'
    BY <1>1, <2>1 DEF Gone, Publish
  <2>3. task'[c].name \notin {"create", "delete"}
    BY <1>1, <1>2, IdleOK DEF Advances, Switches
  <2>4. \A d \in Callers : ~Pending(task'[d])
    <3>1. \A d \in Callers : task[d].name # "create"
      BY <1>1, <2>1 DEF NoSwitchBeside, ChangesIndex, Switches
    <3> QED BY <1>2, <3>1, AfterStep DEF Pending
  <2>5. task[c].name = "switch" /\ copy' = copy /\ removed' = removed
    BY <1>1 DEF Publish, Switches
  <2> QED BY <1>1, <1>2, <1>3, <1>7, <2>2, <2>3, <2>4, <2>5, KeptStep
<1>8. "removal" \in excused => Kept'
  BY DEF Kept, Publish, Bookkeeping
<1> QED BY <1>2, <1>4, <1>5, <1>6, <1>7, <1>8 DEF IInv

------------------------------------------------------------------------------
(* Failures and the timeout of an update. *)

\* c gives up what it was doing, for nothing or for its recovery
Stops(c) ==
    /\ Others(c)
    /\ \/ task'[c] = Idle
       \/ /\ task'[c].name = task[c].name /\ task'[c].uid = task[c].uid /\ task'[c].old = task[c].old
          /\ task[c].todo # <<>> /\ task'[c].restoring
          /\ task'[c].todo[1] \in {"enter", "put", "generate"} /\ ~Pending(task'[c])
    /\ permit' = IF permit = c THEN None ELSE permit
    /\ memory'.items = memory.items
    /\ draft' = IF Switches(task[c]) THEN None ELSE draft
    /\ saved' \in {saved, NoIndex}
    /\ UNCHANGED <<copy, created, removed>> /\ excused \subseteq excused'

LEMMA StopStep ==
    ASSUME IInv, NEW c \in Callers, TaskOK', StoreOK', Stops(c)
    PROVE  IInv'
<1>1. /\ Others(c) /\ \A d \in Callers : task[d] \in Tasks /\ Shape(task[d]) /\ task'[d] \in Tasks
      /\ c # None
  BY ProfileAssumption DEF Stops, IInv, TaskOK
<1>2. /\ task'[c].name \in {task[c].name, "none"} /\ ~Switches(task'[c]) /\ ~Pending(task'[c])
      /\ ~At1(task'[c], Inside) /\ ~At1(task'[c], {"load"})
      /\ ~At1(task'[c], {"commit"}) /\ ~At1(task'[c], {"write", "append"})
  BY IdleOK DEF Stops, Switches, Pending, At1, Inside
<1>3. StepOK'
  <2>1. ASSUME NEW d \in Callers
        PROVE  /\ At1(task'[d], Inside) => permit' = d
               /\ At1(task'[d], {"load"}) => task'[d].read \in Configurations
               /\ task'[d].todo # <<>> => task'[d].uid \in Uids
               /\ task'[d].name = "create" => task'[d].uid \in created'
               /\ task'[d].name \in {"update", "save"} => task'[d].old \in Contents \cup {None}
    <3>1. CASE d # c
      BY <1>1, <3>1 DEF IInv, StepOK, Others, Stops
    <3>2. CASE d = c
      BY <1>2, <3>2, IdleOK DEF IInv, StepOK, Stops
    <3> QED BY <3>1, <3>2
  <2> QED BY <2>1 DEF StepOK, At1, Configurations
<1>4. SwitchOK'
  <2>1. \A d \in Callers : task'[d].name \in {task[d].name, "none"}
    BY <1>1, <1>2 DEF Others
  <2>2. \A d, e \in Callers : task'[d].name = "switch" /\ task'[e].name = "switch" => d = e
    BY <2>1 DEF IInv, SwitchOK
  <2>3. draft' # None <=> \E d \in Callers : Switches(task'[d])
    <3>1. CASE Switches(task[c])
      <4>1. \A d \in Callers : ~Switches(task'[d])
        BY <1>1, <1>2, <3>1 DEF IInv, SwitchOK, Switches, Others
      <4> QED BY <3>1, <4>1 DEF Stops
    <3>2. CASE ~Switches(task[c])
      BY <1>1, <1>2, <3>2 DEF IInv, SwitchOK, Others, Stops
    <3> QED BY <3>1, <3>2
  <2> QED BY <2>2, <2>3 DEF SwitchOK, Switches
<1>8. saved'.items \subseteq saved.items
  BY DEF Stops, NoIndex
<1>5. CreatedOK'
  <2>1. /\ removed \cup memory.items \cup saved.items \subseteq created /\ created \subseteq Uids
        /\ draft # None => draft.items \subseteq created
        /\ copy # None => copy.items \subseteq created
    BY DEF IInv, CreatedOK
  <2>2. UNCHANGED <<copy, created, removed>> /\ memory'.items = memory.items /\ draft' \in {draft, None}
    BY DEF Stops
  <2> QED BY <1>8, <2>1, <2>2 DEF CreatedOK
<1>6. ASSUME "removal" \notin excused' PROVE Kept'
  <2>1. NoSwitchBeside /\ Gone /\ GoneFromFile /\ Fresh
    BY <1>6 DEF IInv, Kept, Stops
  <2>2. NoSwitchBeside'
    <3>1. \A d \in Callers : task'[d].name \in {task[d].name, "none"}
      BY <1>1, <1>2 DEF Others
    <3> QED BY <2>1, <3>1 DEF NoSwitchBeside, ChangesIndex
  <2>3. Gone'
    BY <1>8, <2>1 DEF Gone, Stops
  <2>4. GoneFromFile'
    <3>1. ASSUME NEW d \in Callers
          PROVE  /\ task'[d].name \in {"create", "delete"} /\ At1(task'[d], {"commit"}) =>
                       saved'.items \cap (memory'.items \ copy'.items) = {}
                 /\ task'[d].name = "create" /\ At1(task'[d], {"write", "append"}) => memory'.items \subseteq copy'.items
      BY <1>1, <1>2, <1>8, <2>1 DEF GoneFromFile, Others, Stops
    <3> QED BY <3>1 DEF GoneFromFile, At1
  <2>5. Fresh'
    <3>1. \A d \in Callers : Pending(task'[d]) => d # c /\ task'[d] = task[d]
      BY <1>1, <1>2 DEF Others
    <3>2. permit' \in {permit, None}
      BY DEF Stops
    <3>3. \A d \in Callers : Pending(task'[d]) =>
            /\ task'[d].uid \notin removed' \cup memory'.items
            /\ permit' \notin {None, d} => task'[d].uid \notin copy'.items
      BY <2>1, <3>1, <3>2 DEF Fresh, Stops
    <3>4. \A d, e \in Callers : Pending(task'[d]) /\ Pending(task'[e]) /\ task'[d].uid = task'[e].uid => d = e
      BY <2>1, <3>1 DEF Fresh
    <3> QED BY <3>3, <3>4 DEF Fresh, Pending
  <2> QED BY <2>2, <2>3, <2>4, <2>5 DEF Kept
<1>7. "removal" \in excused' => Kept'
  BY DEF Kept
<1> QED BY <1>3, <1>4, <1>5, <1>6, <1>7 DEF IInv

LEMMA RecoveryOK ==
    ASSUME IInv, NEW c \in Callers, task[c].todo # <<>>
    PROVE  LET t == task[c]
               r == Recovery(t)
           IN \/ r = Idle
              \/ /\ r \in Tasks /\ r.name = t.name /\ r.uid = t.uid /\ r.old = t.old /\ r.restoring
                 /\ \E a \in {"enter", "put", "generate"}, b \in Steps : List(r.todo, a, b)
<1> DEFINE t == task[c]
           r == Recovery(t)
<1>1. t \in Tasks /\ (t.name \in {"update", "save"} => t.old \in Contents \cup {None})
  BY DEF IInv, TaskOK, StepOK
<1>2. \A s, a, b : List(s, a, b) => s \in Seq(Steps)
  BY DEF List, Plain, Chain
<1>3. List(<<"put">>, "put", "put") /\ List(Reload, "generate", "load")
  BY Lists DEF Steps, Special
<1>4. {"again", "put", "commit", "load"} \subseteq Steps
  BY DEF Steps
<1>5. CASE t.restoring
  <2>1. CASE t.name = "switch" /\ t.reloads
    <3>1. r = [t EXCEPT !.todo = Reload, !.reloads = FALSE]
      BY <1>5, <2>1 DEF Recovery
    <3>2. /\ r \in Tasks /\ r.name = t.name /\ r.uid = t.uid /\ r.old = t.old /\ r.restoring /\ r.todo = Reload
      BY <1>1, <1>2, <1>3, <1>5, <3>1 DEF Tasks
    <3> QED BY <1>3, <1>4, <3>2
  <2>2. CASE ~(t.name = "switch" /\ t.reloads)
    BY <1>5, <2>2 DEF Recovery
  <2> QED BY <2>1, <2>2
<1>6. CASE ~t.restoring /\ t.name = "update"
  <2> DEFINE s == Modify(<<"write", "save">>) \o <<"again">>
  <2>1. List(s, "enter", "again") /\ s \in Seq(Steps)
    BY <1>2, CommandLists
  <2>2. r = [t EXCEPT !.restoring = TRUE, !.data = t.old, !.todo = s]
    <3>1. ~Saved(t) /\ ~Appended(t)
      BY <1>6 DEF Saved, Appended
    <3> QED BY <1>6, <3>1 DEF Recovery
  <2> HIDE DEF s
  <2>3. /\ r \in Tasks /\ r.name = t.name /\ r.uid = t.uid /\ r.old = t.old /\ r.restoring /\ r.todo = s
    BY <1>1, <1>6, <2>1, <2>2 DEF Tasks
  <2> QED BY <1>4, <2>1, <2>3
<1>7. CASE ~t.restoring /\ t.name # "update" /\ Saved(t)
  <2> DEFINE s == <<"put">>
  <2>1. t.name = "save" /\ ~Appended(t)
    BY <1>7 DEF Saved, Appended
  <2>2. List(s, "put", "put") /\ s \in Seq(Steps)
    BY <1>2, <1>3
  <2>3. r = [t EXCEPT !.restoring = TRUE, !.data = t.old, !.todo = s]
    BY <1>7, <2>1 DEF Recovery
  <2> HIDE DEF s
  <2>4. /\ r \in Tasks /\ r.name = t.name /\ r.uid = t.uid /\ r.old = t.old /\ r.restoring /\ r.todo = s
    BY <1>1, <2>1, <2>2, <2>3 DEF Tasks
  <2> QED BY <1>4, <2>2, <2>4
<1>8. CASE ~t.restoring /\ t.name # "update" /\ ~Saved(t) /\ Appended(t)
  <2> DEFINE s == Modify(<<"remove", "save">>)
  <2>1. List(s, "enter", "commit") /\ s \in Seq(Steps)
    BY <1>2, CommandLists
  <2>2. r = [t EXCEPT !.restoring = TRUE, !.todo = s]
    <3>1. t.name = "create"
      BY <1>8 DEF Appended
    <3> QED BY <1>8, <3>1 DEF Recovery
  <2> HIDE DEF s
  <2>3. /\ r \in Tasks /\ r.name = t.name /\ r.uid = t.uid /\ r.old = t.old /\ r.restoring /\ r.todo = s
    BY <1>1, <2>1, <2>2 DEF Tasks
  <2> QED BY <1>4, <2>1, <2>3
<1>9. CASE ~t.restoring /\ t.name # "update" /\ ~Saved(t) /\ ~Appended(t) /\ t.name = "switch"
  <2> DEFINE s == SaveIndex \o (IF SwitchSaves(t) THEN Reload ELSE <<>>)
  <2>1. \E b \in {"commit", "load"} : List(s, "enter", b)
    <3>1. CASE SwitchSaves(t)
      BY <3>1, CommandLists
    <3>2. CASE ~SwitchSaves(t)
      <4>1. SaveIndex \o <<>> = SaveIndex
        BY <1>2, CommandLists, Empty
      <4> QED BY <3>2, <4>1, CommandLists
    <3> QED BY <3>1, <3>2
  <2>2. s \in Seq(Steps)
    BY <1>2, <2>1
  <2>3. r = [t EXCEPT !.restoring = TRUE, !.reloads = SwitchSaves(t), !.todo = s]
    BY <1>9 DEF Recovery
  <2>4. SwitchSaves(t) \in BOOLEAN
    BY DEF SwitchSaves
  <2> HIDE DEF s
  <2>5. /\ r \in Tasks /\ r.name = t.name /\ r.uid = t.uid /\ r.old = t.old /\ r.restoring /\ r.todo = s
    BY <1>1, <2>2, <2>3, <2>4 DEF Tasks
  <2> QED BY <1>4, <2>1, <2>5
<1>10. CASE ~t.restoring /\ t.name # "update" /\ ~Saved(t) /\ ~Appended(t) /\ t.name # "switch"
  BY <1>10 DEF Recovery
<1> QED BY <1>5, <1>6, <1>7, <1>8, <1>9, <1>10

\* a step that fails, and what it may leave of what it was writing
Breaks(c) == StepFails(c) \/ WriteTears(c) \/ SaveTears(c)
Torn(c) == At1(task[c], {"write"}) /\ task[c].name = "update" /\ task[c].uid \in copy.items
           /\ \E x \in Contents : file' = [file EXCEPT ![task[c].uid] = x]

LEMMA Breaking ==
    ASSUME IInv, NEW c \in Callers, Breaks(c)
    PROVE  /\ task[c].todo # <<>> /\ task[c] \in Tasks /\ TaskOK
           /\ task[c].todo[1] \notin {"append", "publish", "enter"} /\ (At1(task[c], {"commit"}) => overtaken)
           /\ task[c].todo[1] \in Inside => permit = c
           /\ \E reported \in {{}, {"core", "index"}} : GivesUp(c, reported)
           /\ file' \in [Uids -> Contents \cup {None}] /\ saved' \in {saved, NoIndex}
           /\ \/ "index" \in excused' /\ "core" \in excused'
              \/ saved' = saved /\ (file' = file \/ Torn(c))
<1>1. file \in [Uids -> Contents \cup {None}]
  BY DEF IInv, StoreOK
<1>2. CASE StepFails(c)
  <2>1. PICK a : At(c, a) /\ a \notin {"append", "publish", "enter"} /\ (a = "commit" => overtaken)
    BY <1>2 DEF StepFails, MayFail
  <2>2. /\ task[c].todo # <<>> /\ task[c].todo[1] = a /\ task[c] \in Tasks /\ TaskOK
        /\ \A S : At1(task[c], S) <=> a \in S
        /\ a \in Inside => permit = c
    BY <2>1, Starts
  <2>3. GivesUp(c, {}) /\ UNCHANGED <<saved, file>>
    BY <1>2 DEF StepFails, Fail
  <2> QED BY <1>1, <2>1, <2>2, <2>3
<1>3. CASE WriteTears(c)
  <2>1. PICK a \in {"put", "write"} : At(c, a) /\ (a = "write" => task[c].name = "create" \/ task[c].uid \in copy.items)
    BY <1>3 DEF WriteTears
  <2>2. /\ task[c].todo # <<>> /\ task[c].todo[1] = a /\ task[c] \in Tasks /\ TaskOK
        /\ \A S : At1(task[c], S) <=> a \in S
        /\ a \in Inside => permit = c
        /\ task[c].uid \in Uids
    BY <2>1, Starts
  <2>3. PICK x \in Contents : file' = [file EXCEPT ![task[c].uid] = x]
    BY <1>3 DEF WriteTears
  <2>4. saved' = saved /\ \E reported \in {{}, {"core", "index"}} : GivesUp(c, reported)
    BY <1>3 DEF WriteTears
  <2>5. file' \in [Uids -> Contents \cup {None}]
    BY <1>1, <2>2, <2>3
  <2>6. a \notin {"append", "publish", "enter"} /\ ~At1(task[c], {"commit"})
    BY <2>1, <2>2
  <2>7. Torn(c) \/ ("index" \in excused' /\ "core" \in excused')
    <3>1. a = "write" /\ task[c].name = "update" => Torn(c)
      BY <2>1, <2>2, <2>3 DEF Torn
    <3>2. ~(a = "write" /\ task[c].name = "update") => "index" \in excused' /\ "core" \in excused'
      <4>1. SUFFICES ASSUME ~(a = "write" /\ task[c].name = "update") PROVE "index" \in excused' /\ "core" \in excused'
        OBVIOUS
      <4>2. ~(At(c, "write") /\ task[c].name = "update")
        BY <2>1, <4>1 DEF At
      <4>3. GivesUp(c, {"core", "index"})
        BY <1>3, <4>2 DEF WriteTears
      <4> QED BY <4>3 DEF GivesUp
    <3> QED BY <3>1, <3>2
  <2> QED BY <2>2, <2>4, <2>5, <2>6, <2>7
<1>4. CASE SaveTears(c)
  <2>1. PICK a \in {"save", "keep"} : At(c, a)
    BY <1>4 DEF SaveTears
  <2>2. /\ task[c].todo # <<>> /\ task[c].todo[1] = a /\ task[c] \in Tasks /\ TaskOK
        /\ \A S : At1(task[c], S) <=> a \in S
        /\ a \in Inside => permit = c
    BY <2>1, Starts
  <2>3. GivesUp(c, {"core", "index"}) /\ saved' = NoIndex /\ file' = file
    BY <1>4 DEF SaveTears
  <2>4. "index" \in excused' /\ "core" \in excused'
    BY <2>3 DEF GivesUp
  <2> QED BY <1>1, <2>1, <2>2, <2>3, <2>4
<1> QED BY <1>2, <1>3, <1>4 DEF Breaks

LEMMA FailStep == ASSUME IInv, NEW c \in Callers, Breaks(c) PROVE IInv'
<1> DEFINE t == task[c]
           r == Recovery(t)
<1>1. t.todo # <<>> /\ t \in Tasks /\ TaskOK /\ file' \in [Uids -> Contents \cup {None}] /\ saved' \in {saved, NoIndex}
  BY Breaking
<1>0. PICK reported \in {{}, {"core", "index"}} : GivesUp(c, reported)
  BY Breaking
<1>2. \/ r = Idle
      \/ /\ r \in Tasks /\ r.name = t.name /\ r.uid = t.uid /\ r.old = t.old /\ r.restoring
         /\ \E a \in {"enter", "put", "generate"}, b \in Steps : List(r.todo, a, b)
  BY <1>1, RecoveryOK
<1> HIDE DEF r
<1>3. r # Idle => Shape(r) /\ r.todo # <<>> /\ r.todo[1] \in {"enter", "put", "generate"} /\ ~Pending(r)
  <2>1. SUFFICES ASSUME r # Idle, NEW a \in {"enter", "put", "generate"}, NEW b \in Steps, List(r.todo, a, b)
                 PROVE  Shape(r) /\ r.todo # <<>> /\ r.todo[1] \in {"enter", "put", "generate"} /\ ~Pending(r)
    BY <1>2
  <2>2. r \in Tasks /\ ~Switches(r)
    BY <1>2, <2>1 DEF Switches
  <2> QED BY <2>1, <2>2, PlainShape
<1>4. task' = [task EXCEPT ![c] = r]
  BY <1>0 DEF GivesUp, r
<1>5. task'[c] = r /\ Others(c) /\ task' \in [Callers -> Tasks]
  BY <1>1, <1>2, <1>4, IdleOK DEF TaskOK, Others
<1>6. TaskOK'
  <2>1. \A d \in Callers : Shape(task'[d])
    BY <1>1, <1>3, <1>5, IdleOK DEF Others, TaskOK
  <2> QED BY <1>5, <2>1 DEF TaskOK, Shape, Chain, Idle
<1>7. memory' \in Index /\ memory'.items = memory.items /\ draft' = (IF Switches(t) THEN None ELSE draft)
  <2>1. memory \in Index
    BY DEF IInv, StoreOK
  <2>2. CASE DropsDraft(t)
    <3>1. memory' \in {memory, [memory EXCEPT !.current = t.old]} /\ (memory' # memory => t.old \in memory.items)
      BY <1>0, <2>2 DEF GivesUp, Restored
    <3>2. draft' = None
      BY <1>0, <2>2 DEF GivesUp
    <3> QED BY <2>1, <2>2, <3>1, <3>2 DEF Index, DropsDraft, Switches
  <2>3. CASE ~DropsDraft(t)
    <3>1. UNCHANGED <<draft, memory>>
      BY <1>0, <2>3 DEF GivesUp
    <3> QED BY <2>1, <2>3, <3>1 DEF DropsDraft, Switches
  <2> QED BY <2>2, <2>3
<1>8. overtaken' \in BOOLEAN
  <2>1. overtaken \in BOOLEAN
    BY DEF IInv, StoreOK
  <2> QED BY <1>0, <2>1 DEF GivesUp
<1>9. StoreOK'
  <2>1. saved' \in Index
    BY <1>1 DEF IInv, StoreOK, Index, NoIndex
  <2> QED BY <1>0, <1>1, <1>7, <1>8, <2>1 DEF GivesUp, IInv, StoreOK, Configurations
<1>10. Stops(c)
  BY <1>0, <1>1, <1>2, <1>3, <1>5, <1>7 DEF Stops, GivesUp
<1> QED BY <1>6, <1>9, <1>10, StopStep

LEMMA TimeOutStep == ASSUME IInv, NEW c \in Callers, TimeOut(c) PROVE IInv'
<1>1. task'[c] = Idle /\ Others(c) /\ task' \in [Callers -> Tasks] /\ TaskOK
  BY IdleOK DEF TimeOut, IInv, TaskOK, Others
<1>2. TaskOK'
  <2>1. \A d \in Callers : Shape(task'[d])
    BY <1>1, IdleOK DEF Others, TaskOK
  <2> QED BY <1>1, <2>1 DEF TaskOK, Shape, Chain, Idle
<1>3. StoreOK'
  BY DEF TimeOut, store, IInv, StoreOK, Configurations
<1>4. ~Switches(task[c])
  BY DEF TimeOut, Switches
<1>5. Stops(c)
  BY <1>1, <1>4 DEF Stops, TimeOut, store
<1> QED BY <1>2, <1>3, <1>5, StopStep

------------------------------------------------------------------------------
(* The commands. *)

\* what a command may begin with
Startable(t) ==
    /\ t \in Tasks /\ Shape(t) /\ t.todo # <<>> /\ t.todo[1] \in {"download", "enter", "put", "generate"}
    /\ t.uid \in Uids /\ ~t.restoring
    /\ t.name \in {"update", "save"} => t.old \in Contents \cup {None}

LEMMA BeginStep ==
    ASSUME IInv, NEW c \in Callers, NEW t, Startable(t), Begin(c, t), UNCHANGED <<memory, saved, file, core, locks, removed>>,
           created' = created \cup (IF t.name = "create" THEN {t.uid} ELSE {}),
           t.name = "create" => t.uid \notin created,
           t.name # "switch" => draft' = draft,
           t.name = "switch" => /\ draft = None /\ draft' \in Index /\ draft'.items = memory.items
                                /\ \A d \in Callers : task[d].name # "switch"
    PROVE  IInv'
<1>1. /\ task \in [Callers -> Tasks] /\ \A d \in Callers : Shape(task[d])
      /\ task[c] = Idle /\ task' = [task EXCEPT ![c] = t] /\ c # None
  BY ProfileAssumption DEF IInv, TaskOK, Begin
<1>2. task'[c] = t /\ Others(c) /\ task' \in [Callers -> Tasks]
  BY <1>1 DEF Others, Startable
<1>3. UNCHANGED <<memory, saved, file, core, updating, permit, copy, overtaken, removed>>
  BY DEF locks
<1>4. TaskOK'
  <2>1. \A d \in Callers : Shape(task'[d])
    BY <1>1, <1>2 DEF Others, Startable
  <2> QED BY <1>2, <2>1 DEF TaskOK, Shape, Chain, Idle
<1>5. StoreOK'
  BY <1>3 DEF IInv, StoreOK, Configurations
<1>6. StepOK'
  <2>1. ASSUME NEW d \in Callers
        PROVE  /\ At1(task'[d], Inside) => permit' = d
               /\ At1(task'[d], {"load"}) => task'[d].read \in Configurations
               /\ task'[d].todo # <<>> => task'[d].uid \in Uids
               /\ task'[d].name = "create" => task'[d].uid \in created'
               /\ task'[d].name \in {"update", "save"} => task'[d].old \in Contents \cup {None}
    <3>1. CASE d # c
      BY <1>2, <1>3, <3>1 DEF IInv, StepOK, Others
    <3>2. CASE d = c
      BY <1>2, <3>2 DEF Startable, At1, Inside
    <3> QED BY <3>1, <3>2
  <2> QED BY <2>1 DEF StepOK, At1, Configurations
<1>7. SwitchOK'
  <2>1. CASE t.name = "switch"
    <3>1. Switches(task'[c]) /\ draft' # None
      BY <1>2, <2>1, ProfileAssumption DEF Switches, Startable
    <3>2. \A d, e \in Callers : task'[d].name = "switch" /\ task'[e].name = "switch" => d = e
      BY <1>2, <2>1 DEF Others
    <3> QED BY <3>1, <3>2 DEF SwitchOK, Switches
  <2>2. CASE t.name # "switch"
    <3>1. ~Switches(task'[c]) /\ ~Switches(task[c]) /\ task'[c].name # "switch"
      BY <1>1, <1>2, <2>2, IdleOK DEF Switches
    <3>2. draft' # None <=> \E d \in Callers : Switches(task'[d])
      BY <1>2, <2>2, <3>1 DEF IInv, SwitchOK, Others
    <3>3. \A d, e \in Callers : task'[d].name = "switch" /\ task'[e].name = "switch" => d = e
      BY <1>2, <3>1 DEF IInv, SwitchOK, Others
    <3> QED BY <3>2, <3>3 DEF SwitchOK, Switches
  <2> QED BY <2>1, <2>2
<1>8. CreatedOK'
  <2>1. created \subseteq created' /\ created' \subseteq Uids
    BY DEF IInv, CreatedOK, Startable
  <2>2. draft' # None => draft'.items \subseteq created'
    <3>1. CASE t.name = "switch"
      BY <2>1, <3>1 DEF IInv, CreatedOK
    <3>2. CASE t.name # "switch"
      BY <2>1, <3>2 DEF IInv, CreatedOK
    <3> QED BY <3>1, <3>2
  <2> QED BY <1>3, <2>1, <2>2 DEF IInv, CreatedOK
<1>9. ASSUME "removal" \notin excused' PROVE Kept'
  <2>1. "removal" \notin excused /\ \A d \in Callers \ {c} : task[d] # Idle => "removal" \notin Excuses(t, task[d]) \cup Excuses(task[d], t)
    <3>1. excused' = excused \cup UNION {Excuses(t, task[d]) \cup Excuses(task[d], t) : d \in {d \in Callers \ {c} : task[d] # Idle}}
      BY DEF Begin
    <3>2. ASSUME NEW d \in Callers \ {c}, task[d] # Idle
          PROVE  Excuses(t, task[d]) \cup Excuses(task[d], t) \subseteq excused'
      BY <3>1, <3>2
    <3> QED BY <1>9, <3>1, <3>2
  <2>2. NoSwitchBeside /\ Gone /\ GoneFromFile /\ Fresh
    BY <2>1 DEF IInv, Kept
  <2>3. NoSwitchBeside'
    <3>1. ASSUME NEW d \in Callers \ {c}
          PROVE  ~(t.name = "switch" /\ ChangesIndex(task[d])) /\ ~(task[d].name = "switch" /\ ChangesIndex(t))
      <4>1. CASE task[d] = Idle
        BY <4>1, IdleOK DEF ChangesIndex
      <4>2. CASE task[d] # Idle
        BY <2>1, <4>2 DEF Excuses
      <4> QED BY <4>1, <4>2
    <3>2. ~(t.name = "switch" /\ ChangesIndex(t))
      BY DEF ChangesIndex
    <3>3. ASSUME NEW d \in Callers, NEW e \in Callers PROVE ~(task'[d].name = "switch" /\ ChangesIndex(task'[e]))
      BY <1>2, <2>2, <3>1, <3>2 DEF NoSwitchBeside, Others
    <3> QED BY <3>3 DEF NoSwitchBeside, ChangesIndex
  <2>4. Gone'
    <3>1. draft' # None => draft'.items \cap removed' = {}
      <4>1. CASE t.name = "switch"
        BY <1>3, <2>2, <4>1 DEF Gone
      <4>2. CASE t.name # "switch"
        BY <1>3, <2>2, <4>2 DEF Gone
      <4> QED BY <4>1, <4>2
    <3> QED BY <1>3, <2>2, <3>1 DEF Gone
  <2>5. GoneFromFile'
    <3>1. ASSUME NEW d \in Callers
          PROVE  /\ task'[d].name \in {"create", "delete"} /\ At1(task'[d], {"commit"}) =>
                       saved'.items \cap (memory'.items \ copy'.items) = {}
                 /\ task'[d].name = "create" /\ At1(task'[d], {"write", "append"}) => memory'.items \subseteq copy'.items
      <4>1. CASE d = c
        BY <1>2, <4>1 DEF Startable, At1
      <4>2. CASE d # c
        BY <1>2, <1>3, <2>2, <4>2 DEF GoneFromFile, Others
      <4> QED BY <4>1, <4>2
    <3> QED BY <3>1 DEF GoneFromFile, At1
  <2>6. Fresh'
    <3>1. t.name = "create" => t.uid \notin created
      OBVIOUS
    <3>2. Pending(t) => t.name = "create"
      BY DEF Pending
    <3>3. \A d \in Callers \ {c} : Pending(task'[d]) => Pending(task[d]) /\ task'[d].uid = task[d].uid /\ task[d].uid \in created
      BY <1>2 DEF Others, IInv, StepOK, Pending
    <3>4. permit \notin {None, c} => copy # None
      BY DEF IInv, StoreOK
    <3>5. ASSUME NEW d \in Callers, Pending(task'[d])
          PROVE  /\ task'[d].uid \notin removed' \cup memory'.items
                 /\ permit' \notin {None, d} => task'[d].uid \notin copy'.items
      <4>1. CASE d = c
        BY <1>2, <1>3, <3>1, <3>2, <3>4, <3>5, <4>1 DEF IInv, CreatedOK
      <4>2. CASE d # c
        BY <1>3, <2>2, <3>3, <3>5, <4>2 DEF Fresh
      <4> QED BY <4>1, <4>2
    <3>6. \A d, e \in Callers : Pending(task'[d]) /\ Pending(task'[e]) /\ task'[d].uid = task'[e].uid => d = e
      BY <1>2, <2>2, <3>1, <3>2, <3>3 DEF Fresh
    <3> QED BY <3>5, <3>6 DEF Fresh, Pending
  <2> QED BY <2>3, <2>4, <2>5, <2>6 DEF Kept
<1>10. "removal" \in excused' => Kept'
  BY DEF Kept
<1> QED BY <1>4, <1>5, <1>6, <1>7, <1>8, <1>9, <1>10 DEF IInv

LEMMA PlainTask ==
    ASSUME NEW name, NEW s, NEW u, NEW data, NEW old, NEW a, NEW b,
           name \in {"update", "save", "delete", "touch"}, u \in Uids,
           data \in Contents \cup {None}, old \in Contents \cup {None},
           a \in {"download", "enter", "put"}, List(s, a, b)
    PROVE  Startable(Task(name, s, u, data, old)) /\ Task(name, s, u, data, old).name = name
<1> DEFINE t == Task(name, s, u, data, old)
<1>1. s \in Seq(Steps)
  BY DEF List, Plain, Chain
<1>2. /\ t \in Tasks /\ t.name = name /\ t.todo = s /\ t.uid = u /\ t.old = old /\ ~t.restoring
  BY <1>1 DEF Task, Idle, Tasks
<1> HIDE DEF t
<1>3. Shape(t) /\ t.todo # <<>> /\ t.todo[1] = a
  BY <1>2, PlainShape DEF Switches
<1> QED BY <1>2, <1>3 DEF Startable, t

LEMMA CommandStep == ASSUME IInv, NEW c \in Callers, Command(c) PROVE IInv'
<1>0. /\ memory \in Index /\ Latest \in Index /\ file \in [Uids -> Contents \cup {None}]
  BY DEF IInv, StoreOK, Latest
<1>1. ASSUME NEW u \in Uids, UpdateProfile(c, u) PROVE IInv'
  <2> DEFINE s == <<"download">> \o Modify(<<"write", "save">>) \o (IF u = Latest.current THEN Reload ELSE <<>>)
             t == Task("update", s, u, None, file[u])
  <2>1. \E b : List(s, "download", b)
    <3>1. CASE u = Latest.current
      BY <3>1, CommandLists
    <3>2. CASE u # Latest.current
      <4>1. List(<<"download">> \o Modify(<<"write", "save">>), "download", "commit")
        BY CommandLists
      <4>2. <<"download">> \o Modify(<<"write", "save">>) \in Seq(Steps)
        BY <4>1 DEF List, Plain, Chain
      <4>3. s = <<"download">> \o Modify(<<"write", "save">>)
        BY <3>2, <4>2, Empty
      <4> QED BY <4>1, <4>3
    <3> QED BY <3>1, <3>2
  <2>2. Begin(c, t) /\ UNCHANGED <<memory, draft, saved, file, core, locks, removed, created>>
    BY <1>1 DEF UpdateProfile, store
  <2> HIDE DEF s
  <2>3. Startable(t) /\ t.name = "update"
    <3>1. PICK b : List(s, "download", b)
      BY <2>1
    <3> DEFINE old == file[u]
    <3>2. old \in Contents \cup {None} /\ None \in Contents \cup {None}
      BY <1>0
    <3> HIDE DEF old
    <3>3. Startable(Task("update", s, u, None, old)) /\ Task("update", s, u, None, old).name = "update"
      BY <3>1, <3>2, PlainTask
    <3> QED BY <3>3 DEF old
  <2> HIDE DEF t
  <2> QED BY <2>2, <2>3, BeginStep
<1>2. ASSUME NEW u \in Uids, NEW x \in Contents, SaveProfileFile(c, u, x) PROVE IInv'
  <2> DEFINE s == <<"put", "validate">> \o (IF u = Latest.current THEN Reload ELSE <<>>)
             t == Task("save", s, u, x, file[u])
  <2>1. \E b : List(s, "put", b)
    <3>1. CASE u = Latest.current
      BY <3>1, CommandLists
    <3>2. CASE u # Latest.current
      <4>1. List(<<"put", "validate">>, "put", "validate")
        BY Lists
      <4>2. <<"put", "validate">> \in Seq(Steps)
        BY <4>1 DEF List, Plain, Chain
      <4>3. s = <<"put", "validate">>
        BY <3>2, <4>2, Empty
      <4> QED BY <4>1, <4>3
    <3> QED BY <3>1, <3>2
  <2>2. Begin(c, t) /\ UNCHANGED <<memory, draft, saved, file, core, locks, removed, created>>
    BY <1>2 DEF SaveProfileFile, store
  <2> HIDE DEF s
  <2>3. Startable(t) /\ t.name = "save"
    <3>1. PICK b : List(s, "put", b)
      BY <2>1
    <3> DEFINE old == file[u]
    <3>2. old \in Contents \cup {None} /\ x \in Contents \cup {None}
      BY <1>0
    <3> HIDE DEF old
    <3>3. Startable(Task("save", s, u, x, old)) /\ Task("save", s, u, x, old).name = "save"
      BY <3>1, <3>2, PlainTask
    <3> QED BY <3>3 DEF old
  <2> HIDE DEF t
  <2> QED BY <2>2, <2>3, BeginStep
<1>3. ASSUME NEW u \in Uids, NEW x \in Contents, CreateProfile(c, u, x) PROVE IInv'
  <2> DEFINE s == Modify(<<"write", "append">>) \o SaveIndex
             t == Task("create", s, u, x, None)
  <2>1. /\ Chain(s) /\ s # <<>> /\ s[1] = "enter"
        /\ \A i \in 1 .. Len(s) : s[i] \notin {"reorder", "keep", "publish"} /\ (s[i] = "append" => i <= 3)
    BY CreateList
  <2>2. /\ Begin(c, t) /\ UNCHANGED <<memory, draft, saved, file, core, locks, removed>>
        /\ u \notin created /\ created' = created \cup {u}
    BY <1>3 DEF CreateProfile, store
  <2> HIDE DEF s
  <2>3. s \in Seq(Steps)
    BY <2>1 DEF Chain
  <2>4. t \in Tasks /\ t.name = "create" /\ t.todo = s /\ t.uid = u /\ t.old = None /\ ~t.restoring
    BY <2>3 DEF Task, Idle, Tasks
  <2> HIDE DEF t
  <2>5. ~Switches(t)
    BY <2>4 DEF Switches
  <2>6. Shape(t)
    BY <2>1, <2>4, <2>5 DEF Shape
  <2>7. Startable(t)
    BY <2>1, <2>4, <2>6 DEF Startable
  <2> QED BY <2>2, <2>4, <2>7, BeginStep
<1>4. ASSUME NEW u \in Uids, DeleteProfile(c, u) PROVE IInv'
  <2> DEFINE s == Modify(<<"remove", "save">>) \o SaveIndex
             t == Task("delete", s, u, None, None)
  <2>1. List(s, "enter", "commit")
    BY CommandLists
  <2>2. Begin(c, t) /\ UNCHANGED <<memory, draft, saved, file, core, locks, removed, created>>
    BY <1>4 DEF DeleteProfile, store
  <2> HIDE DEF s
  <2>3. Startable(t) /\ t.name = "delete"
    BY <2>1, PlainTask
  <2> HIDE DEF t
  <2> QED BY <2>2, <2>3, BeginStep
<1>5. ASSUME NEW u \in Uids, PatchProfile(c, u) PROVE IInv'
  <2> DEFINE t == Task("touch", SaveIndex, u, None, None)
  <2>1. List(SaveIndex, "enter", "commit")
    BY CommandLists
  <2>2. Begin(c, t) /\ UNCHANGED <<memory, draft, saved, file, core, locks, removed, created>>
    BY <1>5 DEF PatchProfile, store
  <2>3. Startable(t) /\ t.name = "touch"
    BY <2>1, PlainTask
  <2> HIDE DEF t
  <2> QED BY <2>2, <2>3, BeginStep
<1>6. ASSUME NEW u \in Uids, ReorderProfile(c, u) PROVE IInv'
  <2> DEFINE s == Modify(<<"reorder">>)
             t == Task("reorder", s, u, None, None)
  <2>1. Chain(s) /\ s # <<>> /\ s[1] = "enter" /\ \A i \in 1 .. Len(s) : s[i] \notin {"append", "keep", "publish"}
    BY ReorderList
  <2>2. Begin(c, t) /\ UNCHANGED <<memory, draft, saved, file, core, locks, removed, created>>
    BY <1>6 DEF ReorderProfile, store
  <2> HIDE DEF s
  <2>3. s \in Seq(Steps)
    BY <2>1 DEF Chain
  <2>4. t \in Tasks /\ t.name = "reorder" /\ t.todo = s /\ t.uid = u /\ ~t.restoring
    BY <2>3 DEF Task, Idle, Tasks
  <2> HIDE DEF t
  <2>5. ~Switches(t)
    BY <2>4 DEF Switches
  <2>6. Shape(t)
    BY <2>1, <2>4, <2>5 DEF Shape
  <2>7. Startable(t)
    BY <2>1, <2>4, <2>6 DEF Startable
  <2> QED BY <2>2, <2>4, <2>7, BeginStep
<1>7. ASSUME NEW u \in Uids, PatchProfilesConfig(c, u) PROVE IInv'
  <2> DEFINE s == Reload \o <<"keep", "publish">>
             t == Task("switch", s, u, None, memory.current)
  <2>1. /\ Chain(s) /\ s # <<>> /\ s[1] = "generate" /\ Len(s) = 4
        /\ s[1] = "generate" /\ s[2] = "load" /\ s[3] = "keep" /\ s[4] = "publish"
    BY SwitchList
  <2>2. /\ Begin(c, t) /\ UNCHANGED <<memory, saved, file, core, locks, removed, created>>
        /\ draft = None /\ draft' = [memory EXCEPT !.current = u] /\ \A d \in Callers : task[d].name # "switch"
    BY <1>7 DEF PatchProfilesConfig
  <2> HIDE DEF s
  <2>3. s \in Seq(Steps) /\ memory.current \in Uids \cup {None}
    BY <1>0, <2>1 DEF Chain, Index
  <2>4. t \in Tasks /\ t.name = "switch" /\ t.todo = s /\ t.uid = u /\ ~t.restoring
    BY <2>3 DEF Task, Idle, Tasks
  <2> HIDE DEF t
  <2>5. \A i \in 1 .. Len(s) : i \in 1 .. 4 /\ s[i] \in {"generate", "load", "keep", "publish"} /\ (s[i] = "publish" => i = 4)
    <3>1. SUFFICES ASSUME NEW i \in 1 .. 4
                   PROVE  s[i] \in {"generate", "load", "keep", "publish"} /\ (s[i] = "publish" => i = 4)
      BY <2>1
    <3>2. i = 1 \/ i = 2 \/ i = 3 \/ i = 4
      OBVIOUS
    <3> QED BY <2>1, <3>2
  <2>6. Shape(t)
    BY <2>1, <2>4, <2>5 DEF Shape, Switches
  <2>7. Startable(t)
    BY <2>1, <2>4, <2>6 DEF Startable
  <2>8. draft' \in Index /\ draft'.items = memory.items
    BY <1>0, <2>2 DEF Index
  <2> QED BY <2>2, <2>4, <2>7, <2>8, BeginStep
<1> QED BY <1>1, <1>2, <1>3, <1>4, <1>5, <1>6, <1>7 DEF Command

------------------------------------------------------------------------------
(* The theorems. *)

LEMMA RestartStep == ASSUME IInv, Restart PROVE IInv'
<1> USE IdleOK
<1>1. PICK index \in {saved} \cup {NoIndex : c \in {d \in Callers : At(d, "save") \/ At(d, "keep")}} :
         /\ memory' = index /\ saved' = index
         /\ file' = [u \in Uids |-> IF u \in index.items THEN file[u] ELSE None]
         /\ core' = IF index.current = None \/ file[index.current] = None THEN NoProfile
                    ELSE Configuration(index.current)
         /\ excused' = (excused \cap {"removal"})
                       \cup (IF \E u \in index.items \cup ({index.current} \ {None}) : file'[u] = None THEN {"core", "index"} ELSE {})
  BY DEF Restart
<1>2. index \in Index /\ index.items \subseteq saved.items
  BY <1>1 DEF IInv, StoreOK, Index, NoIndex
<1>3. /\ draft' = None /\ updating' = None /\ permit' = None /\ copy' = None /\ overtaken' = FALSE
      /\ task' = [c \in Callers |-> Idle] /\ UNCHANGED <<created, removed>>
  BY DEF Restart
<1>4. StoreOK'
  <2>1. file' \in [Uids -> Contents \cup {None}]
    BY <1>1 DEF IInv, StoreOK
  <2>2. core' \in Configurations
    <3>1. index.current \in Uids \cup {None} /\ file \in [Uids -> Contents \cup {None}]
      BY <1>2 DEF IInv, StoreOK, Index
    <3> QED BY <1>1, <3>1 DEF Configurations, Configuration
  <2> QED BY <1>1, <1>2, <1>3, <2>1, <2>2 DEF StoreOK, Configurations
<1>5. TaskOK'
  <2>1. \A c \in Callers : task'[c] = Idle
    BY <1>3
  <2> QED BY <1>3, <2>1 DEF TaskOK, Shape, Chain, Idle
<1>6. StepOK'
  BY <1>3 DEF StepOK, At1, Configurations
<1>7. SwitchOK'
  BY <1>3 DEF SwitchOK, Switches
<1>8. CreatedOK'
  BY <1>1, <1>2, <1>3 DEF IInv, CreatedOK
<1>9. ASSUME "removal" \notin excused' PROVE Kept'
  <2>1. "removal" \notin excused
    BY <1>1, <1>9
  <2>2. Gone
    BY <2>1 DEF IInv, Kept
  <2>3. Gone'
    BY <1>1, <1>2, <1>3, <2>2 DEF Gone
  <2>4. NoSwitchBeside' /\ GoneFromFile'
    BY <1>3 DEF NoSwitchBeside, GoneFromFile, ChangesIndex, At1
  <2>5. Fresh'
    BY <1>3 DEF Fresh, Pending
  <2> QED BY <2>3, <2>4, <2>5 DEF Kept
<1>10. "removal" \in excused' => Kept'
  BY DEF Kept
<1> QED BY <1>4, <1>5, <1>6, <1>7, <1>8, <1>9, <1>10 DEF IInv

LEMMA Initially == ASSUME Init PROVE IInv
<1> USE IdleOK
<1>1. PICK items \in (SUBSET Uids) \ {{}} : \E u \in items, content \in [items -> Contents] :
         /\ memory = [items |-> items, current |-> u] /\ created = items
         /\ file = [v \in Uids |-> IF v \in items THEN content[v] ELSE None]
         /\ core = [uid |-> u, content |-> content[u]]
  BY DEF Init
<1>2. PICK u \in items, content \in [items -> Contents] :
         /\ memory = [items |-> items, current |-> u] /\ created = items
         /\ file = [v \in Uids |-> IF v \in items THEN content[v] ELSE None]
         /\ core = [uid |-> u, content |-> content[u]]
  BY <1>1
<1>3. /\ saved = memory /\ draft = None
      /\ updating = None /\ permit = None /\ copy = None /\ overtaken = FALSE
      /\ task = [c \in Callers |-> Idle] /\ removed = {}
  BY DEF Init
<1>4. StoreOK
  BY <1>2, <1>3 DEF StoreOK, Index, Configurations
<1>5. TaskOK /\ StepOK /\ SwitchOK
  <2>1. \A c \in Callers : task[c] = Idle
    BY <1>3
  <2> QED BY <1>3, <2>1 DEF TaskOK, StepOK, SwitchOK, At1, Switches
<1>6. CreatedOK
  BY <1>2, <1>3 DEF CreatedOK
<1>7. Kept
  BY <1>3 DEF Kept, NoSwitchBeside, Gone, GoneFromFile, Fresh, ChangesIndex, At1, Pending
<1> QED BY <1>4, <1>5, <1>6, <1>7 DEF IInv

LEMMA Unchanged == ASSUME IInv, UNCHANGED vars PROVE IInv'
<1>1. /\ UNCHANGED <<memory, draft, saved, file, core, updating, permit, copy, overtaken>>
      /\ UNCHANGED <<task, created, removed, excused>>
  BY DEF vars, store, locks, history
<1>2. StoreOK' /\ SwitchOK' /\ CreatedOK'
  BY <1>1 DEF IInv, StoreOK, SwitchOK, CreatedOK, Switches, Configurations
<1>3. TaskOK'
  BY <1>1 DEF IInv, TaskOK, Shape, Chain, Switches, Idle
<1>4. StepOK'
  BY <1>1 DEF IInv, StepOK, At1, Configurations
<1>5. Kept'
  BY <1>1 DEF IInv, Kept, NoSwitchBeside, Gone, GoneFromFile, Fresh, ChangesIndex, At1, Pending
<1> QED BY <1>2, <1>3, <1>4, <1>5 DEF IInv

LEMMA StepKeeps == ASSUME IInv, NEW c \in Callers, Step(c) PROVE IInv'
<1>1. CASE \E x \in Contents : Download(c, x)
  BY <1>1, DownloadStep
<1>2. CASE Enter(c) \/ WriteFile(c) \/ AppendItem(c) \/ DeleteItem(c) \/ Reorder(c) \/ SaveFile(c) \/ Commit(c)
  BY <1>2, EnterStep, WriteStep, AppendStep, DeleteStep, ReorderStep, SaveStep, CommitStep
<1>3. CASE Put(c) \/ Validate(c) \/ Generate(c) \/ Load(c) \/ Again(c) \/ Keep(c) \/ Publish(c) \/ Breaks(c)
  BY <1>3, PutStep, ValidateStep, GenerateStep, LoadStep, AgainStep, KeepStep, PublishStep, FailStep
<1> QED BY <1>1, <1>2, <1>3 DEF Step, Breaks

\* The inductive invariant holds in every reachable state.
THEOREM Invariance == Spec => []IInv
<1>1. Init => IInv
  BY Initially
<1>2. IInv /\ [Next]_vars => IInv'
  <2>1. ASSUME IInv, Next PROVE IInv'
    <3>1. CASE Restart
      BY <2>1, <3>1, RestartStep
    <3>2. ASSUME NEW c \in Callers, Command(c) \/ Step(c) \/ TimeOut(c) PROVE IInv'
      BY <2>1, <3>2, CommandStep, StepKeeps, TimeOutStep
    <3> QED BY <2>1, <3>1, <3>2 DEF Next
  <2> QED BY <2>1, Unchanged
<1> QED BY <1>1, <1>2, PTL DEF Spec

\* The index in memory, its copies, the files and the tasks are always well
\* formed: no failure, timeout, crossing of two tasks or restart leaves another.
THEOREM TypeCorrect == Spec => []TypeOK
<1>1. IInv => TypeOK
  BY DEF IInv, StoreOK, TaskOK, TypeOK
<1> QED BY <1>1, Invariance, PTL

\* A profile whose removal was committed never comes back into the index, for
\* any number of tasks, profiles and commands, unless a switch was under way
\* with another change of the index.
THEOREM RemovedForGood == Spec => []RemovedStaysRemoved
<1>1. IInv => RemovedStaysRemoved
  BY DEF IInv, Kept, Gone, RemovedStaysRemoved
<1> QED BY <1>1, Invariance, PTL

------------------------------------------------------------------------------
(* What each task still has to do, list by list: r is what comes after.      *)

CommitThen(r) == <<"commit">> \o r
SaveThen(r) == <<"save">> \o CommitThen(r)
EnterThen(r) == <<"enter">> \o SaveThen(r)
WriteThen(r) == <<"write">> \o SaveThen(r)
UpdateThen(r) == <<"enter">> \o WriteThen(r)
DownloadThen(r) == <<"download">> \o UpdateThen(r)
RemoveThen(r) == <<"remove">> \o SaveThen(r)
DeleteThen(r) == <<"enter">> \o RemoveThen(r)
ValidateThen(r) == <<"validate">> \o r
PutThen(r) == <<"put">> \o ValidateThen(r)
AppendNew == <<"append">> \o CommitThen(EnterThen(<<>>))
WriteNew == <<"write">> \o AppendNew
CreateNew == <<"enter">> \o WriteNew
ReorderNow == <<"reorder">> \o CommitThen(<<>>)
ReorderAll == <<"enter">> \o ReorderNow
PublishLast == <<"publish">>
KeepLast == <<"keep">> \o PublishLast
LoadKeep == <<"load">> \o KeepLast
SwitchAll == <<"generate">> \o LoadKeep
LoadLast == <<"load">>
AgainLast == <<"again">>
PutLast == <<"put">>
Ends == {<<>>, Reload}

Has(s, a) == \E i \in 1 .. Len(s) : s[i] = a
Then(s, a, r) ==
    /\ s \in Seq(Steps) /\ s # <<>> /\ s[1] = a /\ Head(s) = a /\ Tail(s) = r /\ r \in Seq(Steps)
    /\ \A b \in Steps : Has(s, b) <=> b = a \/ Has(r, b)

LEMMA OneMore == ASSUME NEW a \in Steps, NEW r \in Seq(Steps) PROVE Then(<<a>> \o r, a, r)
<1> DEFINE s == <<a>> \o r
<1>1. s \in Seq(Steps) /\ s # <<>> /\ Len(s) = Len(r) + 1 /\ s[1] = a /\ Head(s) = a /\ Tail(s) = r /\ Len(r) \in Nat
  OBVIOUS
<1>2. \A i \in 1 .. Len(r) : s[i + 1] = r[i]
  OBVIOUS
<1> HIDE DEF s
<1>3. ASSUME NEW b \in Steps PROVE Has(s, b) <=> b = a \/ Has(r, b)
  <2>1. ASSUME Has(s, b), b # a PROVE Has(r, b)
    <3>1. PICK i \in 1 .. Len(s) : s[i] = b
      BY <2>1 DEF Has
    <3>2. i # 1 /\ i - 1 \in 1 .. Len(r) /\ (i - 1) + 1 = i
      BY <1>1, <2>1, <3>1
    <3> QED BY <1>2, <3>1, <3>2 DEF Has
  <2>2. ASSUME b = a PROVE Has(s, b)
    BY <1>1, <2>2 DEF Has
  <2>3. ASSUME Has(r, b) PROVE Has(s, b)
    <3>1. PICK i \in 1 .. Len(r) : r[i] = b
      BY <2>3 DEF Has
    <3>2. i + 1 \in 1 .. Len(s) /\ s[i + 1] = b
      BY <1>1, <1>2, <3>1
    <3> QED BY <3>2 DEF Has
  <2> QED BY <2>1, <2>2, <2>3
<1> QED BY <1>1, <1>3 DEF Then, s

LEMMA Only == ASSUME NEW a \in Steps PROVE Then(<<a>>, a, <<>>)
<1>1. <<a>> = <<a>> \o <<>> /\ <<>> \in Seq(Steps)
  OBVIOUS
<1> QED BY <1>1, OneMore

LEMMA Thens ==
    /\ \A r \in Seq(Steps) :
          /\ Then(CommitThen(r), "commit", r)
          /\ Then(SaveThen(r), "save", CommitThen(r))
          /\ Then(EnterThen(r), "enter", SaveThen(r))
          /\ Then(WriteThen(r), "write", SaveThen(r))
          /\ Then(UpdateThen(r), "enter", WriteThen(r))
          /\ Then(DownloadThen(r), "download", UpdateThen(r))
          /\ Then(RemoveThen(r), "remove", SaveThen(r))
          /\ Then(DeleteThen(r), "enter", RemoveThen(r))
          /\ Then(ValidateThen(r), "validate", r)
          /\ Then(PutThen(r), "put", ValidateThen(r))
    /\ <<>> \in Seq(Steps) /\ (\A b \in Steps : ~Has(<<>>, b))
    /\ Then(AppendNew, "append", CommitThen(EnterThen(<<>>)))
    /\ Then(WriteNew, "write", AppendNew)
    /\ Then(CreateNew, "enter", WriteNew)
    /\ Then(ReorderNow, "reorder", CommitThen(<<>>))
    /\ Then(ReorderAll, "enter", ReorderNow)
    /\ Then(PublishLast, "publish", <<>>)
    /\ Then(KeepLast, "keep", PublishLast)
    /\ Then(LoadKeep, "load", KeepLast)
    /\ Then(SwitchAll, "generate", LoadKeep)
    /\ Then(LoadLast, "load", <<>>)
    /\ Then(Reload, "generate", LoadLast)
    /\ Then(AgainLast, "again", <<>>)
    /\ Then(PutLast, "put", <<>>)
<1> USE DEF Steps
<1>0. \A s, a, r : Then(s, a, r) => s \in Seq(Steps)
  BY DEF Then
<1>1. ASSUME NEW r \in Seq(Steps)
      PROVE  /\ Then(CommitThen(r), "commit", r)
             /\ Then(SaveThen(r), "save", CommitThen(r))
             /\ Then(EnterThen(r), "enter", SaveThen(r))
             /\ Then(WriteThen(r), "write", SaveThen(r))
             /\ Then(UpdateThen(r), "enter", WriteThen(r))
             /\ Then(DownloadThen(r), "download", UpdateThen(r))
             /\ Then(RemoveThen(r), "remove", SaveThen(r))
             /\ Then(DeleteThen(r), "enter", RemoveThen(r))
             /\ Then(ValidateThen(r), "validate", r)
             /\ Then(PutThen(r), "put", ValidateThen(r))
  <2>1. Then(CommitThen(r), "commit", r)
    BY OneMore DEF CommitThen
  <2>2. Then(SaveThen(r), "save", CommitThen(r))
    BY <1>0, <2>1, OneMore DEF SaveThen
  <2>3. Then(EnterThen(r), "enter", SaveThen(r)) /\ Then(WriteThen(r), "write", SaveThen(r)) /\ Then(RemoveThen(r), "remove", SaveThen(r))
    BY <1>0, <2>2, OneMore DEF EnterThen, WriteThen, RemoveThen
  <2>4. Then(UpdateThen(r), "enter", WriteThen(r)) /\ Then(DeleteThen(r), "enter", RemoveThen(r))
    BY <1>0, <2>3, OneMore DEF UpdateThen, DeleteThen
  <2>5. Then(DownloadThen(r), "download", UpdateThen(r)) /\ Then(ValidateThen(r), "validate", r)
    BY <1>0, <2>4, OneMore DEF DownloadThen, ValidateThen
  <2>6. Then(PutThen(r), "put", ValidateThen(r))
    BY <1>0, <2>5, OneMore DEF PutThen
  <2> QED BY <2>1, <2>2, <2>3, <2>4, <2>5, <2>6
<1>2. <<>> \in Seq(Steps) /\ (\A b \in Steps : ~Has(<<>>, b))
  BY DEF Has
<1>3. CommitThen(<<>>) \in Seq(Steps) /\ CommitThen(EnterThen(<<>>)) \in Seq(Steps)
  BY <1>0, <1>1, <1>2
<1>4. Then(AppendNew, "append", CommitThen(EnterThen(<<>>)))
  BY <1>3, OneMore DEF AppendNew
<1>5. Then(WriteNew, "write", AppendNew)
  BY <1>0, <1>4, OneMore DEF WriteNew
<1>6. Then(CreateNew, "enter", WriteNew)
  BY <1>0, <1>5, OneMore DEF CreateNew
<1>7. Then(ReorderNow, "reorder", CommitThen(<<>>))
  BY <1>3, OneMore DEF ReorderNow
<1>8. Then(ReorderAll, "enter", ReorderNow)
  BY <1>0, <1>7, OneMore DEF ReorderAll
<1>9. /\ Then(PublishLast, "publish", <<>>) /\ Then(LoadLast, "load", <<>>)
      /\ Then(AgainLast, "again", <<>>) /\ Then(PutLast, "put", <<>>)
  BY Only DEF PublishLast, LoadLast, AgainLast, PutLast
<1>10. Then(KeepLast, "keep", PublishLast)
  BY <1>0, <1>9, OneMore DEF KeepLast
<1>11. Then(LoadKeep, "load", KeepLast)
  BY <1>0, <1>10, OneMore DEF LoadKeep
<1>12. Then(SwitchAll, "generate", LoadKeep)
  BY <1>0, <1>11, OneMore DEF SwitchAll
<1>13. Then(Reload, "generate", LoadLast)
  <2>1. Reload = <<"generate">> \o LoadLast
    BY DEF Reload, LoadLast
  <2> QED BY <1>0, <1>9, <2>1, OneMore
<1> QED BY <1>1, <1>2, <1>4, <1>5, <1>6, <1>7, <1>8, <1>9, <1>10, <1>11, <1>12, <1>13

LEMMA Regroup ==
    ASSUME NEW r \in Seq(Steps), NEW s \in Seq(Steps), NEW t \in Seq(Steps)
    PROVE  (r \o s) \o t = r \o (s \o t) /\ s \o t \in Seq(Steps)
OBVIOUS

LEMMA Same ==
    ASSUME NEW S, NEW s \in Seq(S), NEW t \in Seq(S), Len(s) = Len(t), \A i \in 1 .. Len(s) : s[i] = t[i]
    PROVE  s = t
OBVIOUS

LEMMA Pair == ASSUME NEW a \in Steps, NEW b \in Steps PROVE <<a, b>> = <<a>> \o <<b>>
<1> DEFINE s == <<a, b>>
           t == <<a>> \o <<b>>
<1>1. s \in Seq(Steps) /\ Len(s) = 2 /\ s[1] = a /\ s[2] = b
  OBVIOUS
<1>2. t \in Seq(Steps) /\ Len(t) = 2 /\ t[1] = a /\ t[2] = b
  OBVIOUS
<1>3. \A i \in 1 .. 2 : i = 1 \/ i = 2
  OBVIOUS
<1> HIDE DEF s, t
<1>4. s = t
  BY <1>1, <1>2, <1>3, Same
<1> QED BY <1>4 DEF s, t

LEMMA PairThen ==
    ASSUME NEW a \in Steps, NEW b \in Steps, NEW r \in Seq(Steps)
    PROVE  <<a, b>> \o r = <<a>> \o (<<b>> \o r)
<1>1. <<a, b>> = <<a>> \o <<b>> /\ <<a>> \in Seq(Steps) /\ <<b>> \in Seq(Steps)
  BY Pair
<1> QED BY <1>1, Regroup

Concat(s, t) == s \o t

LEMMA Concats ==
    /\ \A s, t \in Seq(Steps) : Concat(s, t) \in Seq(Steps)
    /\ \A r, s, t \in Seq(Steps) : Concat(Concat(r, s), t) = Concat(r, Concat(s, t))
<1>1. ASSUME NEW s \in Seq(Steps), NEW t \in Seq(Steps) PROVE Concat(s, t) \in Seq(Steps)
  BY DEF Concat
<1>2. ASSUME NEW r \in Seq(Steps), NEW s \in Seq(Steps), NEW t \in Seq(Steps)
      PROVE  Concat(Concat(r, s), t) = Concat(r, Concat(s, t))
  BY Regroup DEF Concat
<1> QED BY <1>1, <1>2

LEMMA ModifyThen ==
    ASSUME NEW s \in Seq(Steps), NEW r \in Seq(Steps)
    PROVE  Modify(s) \in Seq(Steps) /\ Modify(s) \o r = <<"enter">> \o (s \o (<<"commit">> \o r))
<1> DEFINE e == <<"enter">>
           k == <<"commit">>
<1>1. e \in Seq(Steps) /\ k \in Seq(Steps)
  BY DEF Steps
<1>2. Modify(s) = Concat(Concat(e, s), k)
  BY DEF Modify, Concat
<1> HIDE DEF e, k
<1>3. Modify(s) \in Seq(Steps)
  BY <1>1, <1>2, Concats
<1>4. Concat(Modify(s), r) = Concat(e, Concat(s, Concat(k, r)))
  <2>1. Concat(Concat(Concat(e, s), k), r) = Concat(Concat(e, s), Concat(k, r))
    BY <1>1, Concats
  <2>2. Concat(Concat(e, s), Concat(k, r)) = Concat(e, Concat(s, Concat(k, r)))
    BY <1>1, Concats
  <2> QED BY <1>2, <2>1, <2>2
<1> QED BY <1>3, <1>4 DEF e, k, Concat

LEMMA AloneEmpty == ASSUME NEW s \in Seq(Steps) PROVE s \o <<>> = s /\ <<>> \o s = s
OBVIOUS

LEMMA SaveThenMore == ASSUME NEW q \in Seq(Steps), NEW r \in Seq(Steps) PROVE SaveThen(q) \o r = SaveThen(q \o r)
<1> DEFINE v == <<"save">>
           k == <<"commit">>
<1>1. v \in Seq(Steps) /\ k \in Seq(Steps)
  BY DEF Steps
<1> HIDE DEF v, k
<1>2. Concat(Concat(k, q), r) = Concat(k, Concat(q, r)) /\ Concat(k, q) \in Seq(Steps)
  BY <1>1, Concats
<1>3. Concat(Concat(v, Concat(k, q)), r) = Concat(v, Concat(Concat(k, q), r))
  BY <1>1, <1>2, Concats
<1>4. Concat(Concat(v, Concat(k, q)), r) = Concat(v, Concat(k, Concat(q, r)))
  BY <1>2, <1>3
<1> QED BY <1>4 DEF v, k, SaveThen, CommitThen, Concat

\* the lists the commands and the recoveries begin with, in these terms
LEMMA Beginnings ==
    /\ Modify(<<"write", "save">>) = UpdateThen(<<>>)
    /\ Modify(<<"remove", "save">>) = DeleteThen(<<>>)
    /\ SaveIndex = EnterThen(<<>>)
    /\ Modify(<<"reorder">>) = ReorderAll
    /\ Modify(<<"write", "append">>) \o SaveIndex = CreateNew
    /\ \A r \in Seq(Steps) :
          /\ Modify(<<"write", "save">>) \o r = UpdateThen(r)
          /\ Modify(<<"remove", "save">>) \o r = DeleteThen(r)
          /\ (<<"download">> \o Modify(<<"write", "save">>)) \o r = DownloadThen(r)
          /\ SaveIndex \o r = EnterThen(r)
          /\ <<"put", "validate">> \o r = PutThen(r)
          /\ SaveThen(EnterThen(<<>>)) \o r = SaveThen(EnterThen(r))
    /\ Reload \o <<"keep", "publish">> = SwitchAll
    /\ <<"save", "commit">> = SaveThen(<<>>)
<1>1. /\ {"write", "save", "append", "remove", "enter", "commit", "download", "put",
          "validate", "reorder", "generate", "load", "keep", "publish"} \subseteq Steps
      /\ <<>> \in Seq(Steps)
  BY DEF Steps
<1>2. \A a \in Steps, b \in Steps : <<a>> \in Seq(Steps) /\ <<a, b>> \in Seq(Steps)
  OBVIOUS
<1>3. ASSUME NEW a \in Steps, NEW b \in Steps, NEW r \in Seq(Steps)
      PROVE  Modify(<<a, b>>) \o r = <<"enter">> \o (<<a>> \o (<<b>> \o (<<"commit">> \o r)))
  <2> DEFINE q == <<"commit">> \o r
             p == <<a, b>>
  <2>1. q \in Seq(Steps) /\ p \in Seq(Steps)
    BY <1>1, <1>2
  <2>2. Modify(p) \o r = <<"enter">> \o (p \o q)
    BY <2>1, ModifyThen
  <2> HIDE DEF q
  <2>3. p \o q = <<a>> \o (<<b>> \o q)
    BY <2>1, PairThen
  <2> QED BY <2>2, <2>3 DEF q
<1>4. ASSUME NEW r \in Seq(Steps)
      PROVE  /\ Modify(<<"write", "save">>) \o r = UpdateThen(r)
             /\ Modify(<<"remove", "save">>) \o r = DeleteThen(r)
             /\ SaveIndex \o r = EnterThen(r)
             /\ <<"put", "validate">> \o r = PutThen(r)
  <2>1. <<"save">> \in Seq(Steps)
    BY <1>1, <1>2
  <2>2. SaveIndex \o r = EnterThen(r)
    BY <2>1, ModifyThen DEF SaveIndex, EnterThen, SaveThen, CommitThen
  <2>3. <<"put", "validate">> \o r = PutThen(r)
    BY <1>1, PairThen DEF PutThen, ValidateThen
  <2>4. Modify(<<"write", "save">>) \o r = UpdateThen(r)
    <3>1. "write" \in Steps /\ "save" \in Steps
      BY <1>1
    <3>2. Modify(<<"write", "save">>) \o r = <<"enter">> \o (<<"write">> \o (<<"save">> \o (<<"commit">> \o r)))
      BY <3>1, <1>3
    <3> QED BY <3>2 DEF UpdateThen, WriteThen, SaveThen, CommitThen
  <2>5. Modify(<<"remove", "save">>) \o r = DeleteThen(r)
    <3>1. "remove" \in Steps /\ "save" \in Steps
      BY <1>1
    <3>2. Modify(<<"remove", "save">>) \o r = <<"enter">> \o (<<"remove">> \o (<<"save">> \o (<<"commit">> \o r)))
      BY <3>1, <1>3
    <3> QED BY <3>2 DEF DeleteThen, RemoveThen, SaveThen, CommitThen
  <2> QED BY <2>2, <2>3, <2>4, <2>5
<1>5. /\ Modify(<<"write", "save">>) \in Seq(Steps) /\ Modify(<<"remove", "save">>) \in Seq(Steps)
      /\ SaveIndex \in Seq(Steps) /\ Modify(<<"reorder">>) \in Seq(Steps)
  BY <1>1, <1>2, ModifyThen DEF SaveIndex
<1>6. /\ Modify(<<"write", "save">>) = UpdateThen(<<>>)
      /\ Modify(<<"remove", "save">>) = DeleteThen(<<>>)
      /\ SaveIndex = EnterThen(<<>>)
  BY <1>1, <1>4, <1>5, AloneEmpty
<1>7. Modify(<<"reorder">>) = ReorderAll
  <2>1. <<"reorder">> \in Seq(Steps)
    BY <1>1, <1>2
  <2>2. Modify(<<"reorder">>) \o <<>> = ReorderAll
    BY <1>1, <2>1, ModifyThen DEF ReorderAll, ReorderNow, CommitThen
  <2> QED BY <1>5, <2>2, AloneEmpty
<1>8. Modify(<<"write", "append">>) \o SaveIndex = CreateNew
  <2>1. "write" \in Steps /\ "append" \in Steps
    BY <1>1
  <2>2. \A r \in Seq(Steps) :
           Modify(<<"write", "append">>) \o r = <<"enter">> \o (<<"write">> \o (<<"append">> \o (<<"commit">> \o r)))
    BY <2>1, <1>3
  <2> QED BY <1>5, <1>6, <2>2 DEF CreateNew, WriteNew, AppendNew, CommitThen
<1>9. ASSUME NEW r \in Seq(Steps) PROVE (<<"download">> \o Modify(<<"write", "save">>)) \o r = DownloadThen(r)
  <2>1. <<"download">> \in Seq(Steps)
    BY <1>1, <1>2
  <2>2. (<<"download">> \o Modify(<<"write", "save">>)) \o r = <<"download">> \o (Modify(<<"write", "save">>) \o r)
    BY <1>5, <2>1, Regroup
  <2> QED BY <1>4, <2>2 DEF DownloadThen
<1>10. ASSUME NEW r \in Seq(Steps) PROVE SaveThen(EnterThen(<<>>)) \o r = SaveThen(EnterThen(r))
  BY <1>4, <1>5, <1>6, SaveThenMore
<1>11. Reload \o <<"keep", "publish">> = SwitchAll
  <2> DEFINE k == <<"keep", "publish">>
  <2>1. k \in Seq(Steps) /\ k = KeepLast
    BY <1>1, <1>2, Pair DEF KeepLast, PublishLast
  <2> HIDE DEF k
  <2>2. Reload \o k = <<"generate">> \o (<<"load">> \o k)
    BY <1>1, <2>1, PairThen DEF Reload
  <2> QED BY <2>1, <2>2 DEF SwitchAll, LoadKeep, k
<1>12. <<"save", "commit">> = SaveThen(<<>>)
  <2>1. <<"save", "commit">> = <<"save">> \o <<"commit">> /\ <<"commit">> \o <<>> = <<"commit">>
    BY <1>1, <1>2, Pair, AloneEmpty
  <2> QED BY <2>1 DEF SaveThen, CommitThen
<1> QED BY <1>4, <1>6, <1>7, <1>8, <1>9, <1>10, <1>11, <1>12

\* what each task may still have to do
Form(t) ==
    \/ t = Idle
    \/ t.name = "update" /\ ~t.restoring
          /\ \E r \in Ends : t.todo \in {DownloadThen(r), UpdateThen(r), WriteThen(r), SaveThen(r), CommitThen(r)}
    \/ t.name = "update" /\ t.restoring
          /\ \E r \in {AgainLast} : t.todo \in {UpdateThen(r), WriteThen(r), SaveThen(r), CommitThen(r), r}
    \/ t.name = "update" /\ t.todo \in {Reload, LoadLast}
    \/ t.name = "save" /\ ~t.restoring /\ \E r \in Ends : t.todo \in {PutThen(r), ValidateThen(r), Reload, LoadLast}
    \/ t.name = "save" /\ t.restoring /\ t.todo = PutLast
    \/ t.name = "create" /\ ~t.restoring
          /\ t.todo \in {CreateNew, WriteNew, AppendNew, CommitThen(EnterThen(<<>>)),
                         EnterThen(<<>>), SaveThen(<<>>), CommitThen(<<>>)}
    \/ t.name = "create" /\ t.restoring
          /\ t.todo \in {DeleteThen(<<>>), RemoveThen(<<>>), SaveThen(<<>>), CommitThen(<<>>)}
    \/ t.name = "delete" /\ ~t.restoring /\ t.todo \in {DeleteThen(EnterThen(<<>>)), RemoveThen(EnterThen(<<>>))}
    \/ t.name = "delete" /\ ~t.restoring
          /\ \E r \in Ends : t.todo \in {SaveThen(EnterThen(r)), CommitThen(EnterThen(r)), EnterThen(r),
                                         SaveThen(r), CommitThen(r), Reload, LoadLast}
    \/ t.name = "touch" /\ ~t.restoring /\ t.todo \in {EnterThen(<<>>), SaveThen(<<>>), CommitThen(<<>>)}
    \/ t.name = "reorder" /\ ~t.restoring /\ t.todo \in {ReorderAll, ReorderNow, SaveThen(<<>>), CommitThen(<<>>)}
    \/ t.name = "switch" /\ ~t.restoring /\ t.todo \in {SwitchAll, LoadKeep, KeepLast, PublishLast}
    \/ t.name = "switch" /\ t.restoring
          /\ \E r \in Ends : t.todo \in {EnterThen(r), SaveThen(r), CommitThen(r), Reload, LoadLast}

\* the commit of a profile that was just appended
First(t) == t.name = "create" /\ t.todo = CommitThen(EnterThen(<<>>))
Loads(t) == Has(t.todo, "load")

\* what a task that is at the step a does, and what it does next as u, if anything
Turn(t, a, u) ==
    /\ a = "download" => t.name = "update" /\ ~t.restoring /\ At1(u, {"enter"})
    /\ a = "enter" => t.name # "save" /\ At1(u, {"write", "remove", "reorder", "save"})
    /\ a = "write" => \/ t.name = "create" /\ ~t.restoring /\ Pending(t) /\ At1(u, {"append"})
                      \/ t.name = "update" /\ At1(u, {"save"})
    /\ a = "append" => t.name = "create" /\ ~t.restoring /\ First(u)
    /\ a = "remove" => t.name \in {"create", "delete"} /\ At1(u, {"save"}) /\ (t.name = "create" => t.restoring)
    /\ a = "reorder" => t.name = "reorder" /\ At1(u, {"commit"})
    /\ a = "save" => At1(u, {"commit"}) /\ ~First(u)
    /\ a = "commit" => u.todo = <<>> \/ At1(u, {"enter", "again", "generate"})
    /\ a = "put" => t.name = "save" /\ (u.todo = <<>> \/ At1(u, {"validate"}))
    /\ a = "validate" => t.name = "save" /\ ~t.restoring /\ (u.todo = <<>> \/ At1(u, {"generate"}))
    /\ a = "generate" => At1(u, {"load"})
    /\ a = "load" => u.todo = <<>> \/ (At1(u, {"keep"}) /\ Switches(t))
    /\ a = "again" => t.name = "update" /\ t.restoring
    /\ a = "keep" => At1(u, {"publish"}) /\ Switches(t)
    /\ a = "publish" => u.todo = <<>> /\ Switches(t)
    /\ First(u) => a = "append"
    /\ a \in Inside => t.name # "save" /\ ~Switches(t)
    /\ Switches(t) => a \in {"generate", "load", "keep", "publish"}
    /\ t.name = "create" => a \in Inside \cup {"enter"}
    /\ a # "append" => (Pending(u) <=> Pending(t))
    /\ Pending(u) => Pending(t)
    /\ a # "load" => (Loads(u) <=> Loads(t))

LEMMA Split == ASSUME NEW s \in Seq(Steps), s # <<>> PROVE Then(s, s[1], Tail(s))
<1>1. /\ Len(s) \in Nat \ {0} /\ s[1] \in Steps /\ Head(s) = s[1] /\ Tail(s) \in Seq(Steps) /\ Len(Tail(s)) = Len(s) - 1
      /\ \A i \in 1 .. Len(s) - 1 : Tail(s)[i] = s[i + 1]
  OBVIOUS
<1> DEFINE r == Tail(s)
<1>2. r \in Seq(Steps) /\ Len(r) = Len(s) - 1 /\ \A i \in 1 .. Len(s) - 1 : r[i] = s[i + 1]
  BY <1>1
<1>3. Tail(s) = r
  OBVIOUS
<1> HIDE DEF r
<1>4. ASSUME NEW b \in Steps PROVE Has(s, b) <=> b = s[1] \/ Has(r, b)
  <2>1. ASSUME Has(s, b), b # s[1] PROVE Has(r, b)
    <3>1. PICK i \in 1 .. Len(s) : s[i] = b
      BY <2>1 DEF Has
    <3>2. i # 1 /\ i - 1 \in 1 .. Len(s) - 1 /\ (i - 1) + 1 = i
      BY <1>1, <2>1, <3>1
    <3> QED BY <1>2, <3>1, <3>2 DEF Has
  <2>2. ASSUME b = s[1] PROVE Has(s, b)
    BY <1>1, <2>2 DEF Has
  <2>3. ASSUME Has(r, b) PROVE Has(s, b)
    <3>1. PICK i \in 1 .. Len(r) : r[i] = b
      BY <2>3 DEF Has
    <3>2. i + 1 \in 1 .. Len(s) /\ s[i + 1] = b
      BY <1>1, <1>2, <3>1
    <3> QED BY <3>2 DEF Has
  <2> QED BY <2>1, <2>2, <2>3
<1> QED BY <1>1, <1>3, <1>4 DEF Then

Rests == {<<>>, Reload, AgainLast, EnterThen(<<>>), EnterThen(Reload)}

LEMMA ThensHere ==
    /\ \A r \in Rests :
          /\ Then(CommitThen(r), "commit", r)
          /\ Then(SaveThen(r), "save", CommitThen(r))
          /\ Then(EnterThen(r), "enter", SaveThen(r))
          /\ Then(WriteThen(r), "write", SaveThen(r))
          /\ Then(UpdateThen(r), "enter", WriteThen(r))
          /\ Then(DownloadThen(r), "download", UpdateThen(r))
          /\ Then(RemoveThen(r), "remove", SaveThen(r))
          /\ Then(DeleteThen(r), "enter", RemoveThen(r))
          /\ Then(ValidateThen(r), "validate", r)
          /\ Then(PutThen(r), "put", ValidateThen(r))
    /\ Then(AppendNew, "append", CommitThen(EnterThen(<<>>)))
    /\ Then(WriteNew, "write", AppendNew)
    /\ Then(CreateNew, "enter", WriteNew)
    /\ Then(ReorderNow, "reorder", CommitThen(<<>>))
    /\ Then(ReorderAll, "enter", ReorderNow)
    /\ Then(PublishLast, "publish", <<>>)
    /\ Then(KeepLast, "keep", PublishLast)
    /\ Then(LoadKeep, "load", KeepLast)
    /\ Then(SwitchAll, "generate", LoadKeep)
    /\ Then(LoadLast, "load", <<>>)
    /\ Then(Reload, "generate", LoadLast)
    /\ Then(AgainLast, "again", <<>>)
    /\ Then(PutLast, "put", <<>>)
    /\ <<>> \in Rests /\ Reload \in Rests /\ AgainLast \in Rests /\ \A r \in Ends : EnterThen(r) \in Rests /\ r \in Rests
<1>1. Rests \subseteq Seq(Steps)
  <2>1. <<>> \in Seq(Steps) /\ Then(Reload, "generate", LoadLast) /\ Then(AgainLast, "again", <<>>)
    BY Thens
  <2>2. Reload \in Seq(Steps) /\ AgainLast \in Seq(Steps)
    BY <2>1 DEF Then
  <2>3. Then(EnterThen(<<>>), "enter", SaveThen(<<>>)) /\ Then(EnterThen(Reload), "enter", SaveThen(Reload))
    BY <2>1, <2>2, Thens
  <2>4. EnterThen(<<>>) \in Seq(Steps) /\ EnterThen(Reload) \in Seq(Steps)
    BY <2>3 DEF Then
  <2> QED BY <2>1, <2>2, <2>4 DEF Rests, Ends
<1>2. <<>> \in Rests /\ Reload \in Rests /\ AgainLast \in Rests /\ \A r \in Ends : EnterThen(r) \in Rests /\ r \in Rests
  BY DEF Rests, Ends
<1> QED BY <1>1, <1>2, Thens

LEMMA PendingLists ==
    /\ Has(CreateNew, "append") /\ Has(WriteNew, "append") /\ Has(AppendNew, "append")
    /\ ~Has(CommitThen(EnterThen(<<>>)), "append")
<1>1. "append" \in Steps
  BY DEF Steps
<1>2. \A s, a, r : Then(s, a, r) => (Has(s, "append") <=> "append" = a \/ Has(r, "append")) /\ s \in Seq(Steps)
  BY <1>1 DEF Then
<1>3. Then(AppendNew, "append", CommitThen(EnterThen(<<>>))) /\ Then(WriteNew, "write", AppendNew) /\ Then(CreateNew, "enter", WriteNew)
  BY Thens
<1>4. Then(CommitThen(<<>>), "commit", <<>>) /\ Then(SaveThen(<<>>), "save", CommitThen(<<>>)) /\ Then(EnterThen(<<>>), "enter", SaveThen(<<>>))
  BY Thens
<1>5. EnterThen(<<>>) \in Seq(Steps)
  BY <1>2, <1>4
<1>6. Then(CommitThen(EnterThen(<<>>)), "commit", EnterThen(<<>>)) /\ ~Has(<<>>, "append")
  BY <1>1, <1>5, Thens
<1>7. Has(AppendNew, "append") /\ Has(WriteNew, "append") /\ Has(CreateNew, "append")
  BY <1>2, <1>3
<1>8. ~Has(EnterThen(<<>>), "append")
  BY <1>2, <1>4, <1>6
<1>9. ~Has(CommitThen(EnterThen(<<>>)), "append")
  BY <1>2, <1>6, <1>8
<1> QED BY <1>7, <1>9

LEMMA Turns ==
    ASSUME NEW t \in Tasks, NEW u, Form(t), t.todo # <<>>, u.name = t.name, u.restoring = t.restoring, u.todo = Tail(t.todo)
    PROVE  (u.todo # <<>> => Form(u)) /\ Turn(t, t.todo[1], u)
<1> DEFINE a == t.todo[1]
<1>1. t.todo \in Seq(Steps) /\ a \in Steps
  <2>1. t.todo \in Seq(Steps)
    BY DEF Tasks
  <2> QED BY <2>1
<1>2. Then(t.todo, a, u.todo) /\ t # Idle
  BY <1>1, Split DEF Idle
<1> HIDE DEF a
<1>3. a # "append" => (Pending(u) <=> Pending(t))
  BY <1>2 DEF Then, Pending, Has, Steps
<1>4. a # "load" => (Loads(u) <=> Loads(t))
  BY <1>2 DEF Then, Loads, Steps
<1>5. a = "append" /\ First(u) => ~Pending(u)
  BY PendingLists DEF Pending, First, Has
<1> DEFINE Local(b) ==
    /\ b = "download" => t.name = "update" /\ ~t.restoring /\ At1(u, {"enter"})
    /\ b = "enter" => t.name # "save" /\ At1(u, {"write", "remove", "reorder", "save"})
    /\ b = "write" => \/ t.name = "create" /\ ~t.restoring /\ Pending(t) /\ At1(u, {"append"})
                      \/ t.name = "update" /\ At1(u, {"save"})
    /\ b = "append" => t.name = "create" /\ ~t.restoring /\ First(u)
    /\ b = "remove" => t.name \in {"create", "delete"} /\ At1(u, {"save"}) /\ (t.name = "create" => t.restoring)
    /\ b = "reorder" => t.name = "reorder" /\ At1(u, {"commit"})
    /\ b = "save" => At1(u, {"commit"}) /\ ~First(u)
    /\ b = "commit" => u.todo = <<>> \/ At1(u, {"enter", "again", "generate"})
    /\ b = "put" => t.name = "save" /\ (u.todo = <<>> \/ At1(u, {"validate"}))
    /\ b = "validate" => t.name = "save" /\ ~t.restoring /\ (u.todo = <<>> \/ At1(u, {"generate"}))
    /\ b = "generate" => At1(u, {"load"})
    /\ b = "load" => u.todo = <<>> \/ (At1(u, {"keep"}) /\ Switches(t))
    /\ b = "again" => t.name = "update" /\ t.restoring
    /\ b = "keep" => At1(u, {"publish"}) /\ Switches(t)
    /\ b = "publish" => u.todo = <<>> /\ Switches(t)
    /\ First(u) => b = "append"
    /\ b \in Inside => t.name # "save" /\ ~Switches(t)
    /\ Switches(t) => b \in {"generate", "load", "keep", "publish"}
    /\ t.name = "create" => b \in Inside \cup {"enter"}
    /\ u.todo # <<>> => Form(u)
<1>7. /\ CommitThen(EnterThen(<<>>))[1] = "commit" /\ Tail(CommitThen(EnterThen(<<>>))) # <<>>
      /\ \A b \in {"enter", "write", "append", "remove", "save"} : At1(u, {b}) => ~First(u)
      /\ First(u) => u.todo # <<>>
  <2>1. Then(CommitThen(EnterThen(<<>>)), "commit", EnterThen(<<>>)) /\ Then(EnterThen(<<>>), "enter", SaveThen(<<>>))
    BY ThensHere DEF Ends
  <2> QED BY <2>1 DEF Then, First, At1
<1>8. \A b, r : (Then(t.todo, b, r) => a = b /\ u.todo = r) /\ (Then(u.todo, b, r) => At1(u, {b}))
  BY DEF Then, At1, a
<1>11. \A s, b, r : Then(s, b, r) => /\ s # <<>> /\ (t.todo = s => a = b /\ u.todo = r)
                                     /\ u.todo = s => At1(u, {b})
  BY DEF Then, At1, a
<1>9. t.name = "create" /\ t.todo \in {CreateNew, WriteNew, AppendNew} => Pending(t)
  BY PendingLists DEF Pending, Has
<1>10. u.todo = CommitThen(<<>>) => ~First(u)
  <2>1. Then(CommitThen(<<>>), "commit", <<>>)
    BY ThensHere
  <2> QED BY <1>7, <2>1 DEF Then, First
<1>6. Local(a)
  <2> USE DEF Switches, Inside
  <2>0. /\ <<>> \in Ends /\ Reload \in Ends /\ (\A r \in Ends : r \in {<<>>, Reload})
        /\ \A r \in Ends : r \in Rests /\ EnterThen(r) \in Rests
    BY DEF Ends, Rests
  <2>1. CASE /\ t.name = "update" /\ ~t.restoring
             /\ \E r \in Ends : t.todo \in {DownloadThen(r), UpdateThen(r), WriteThen(r), SaveThen(r), CommitThen(r)}
    <3>0. PICK r \in Ends : t.todo \in {DownloadThen(r), UpdateThen(r), WriteThen(r), SaveThen(r), CommitThen(r)}
      BY <2>1
    <3>4. /\ Then(DownloadThen(r), "download", UpdateThen(r))
          /\ Then(UpdateThen(r), "enter", WriteThen(r))
          /\ Then(WriteThen(r), "write", SaveThen(r))
          /\ Then(SaveThen(r), "save", CommitThen(r))
          /\ Then(CommitThen(r), "commit", r)
          /\ Then(Reload, "generate", LoadLast)
      BY <2>0, <3>0, ThensHere
    <3>1. \/ a = "download" /\ u.todo = UpdateThen(r) /\ At1(u, {"enter"})
          \/ a = "enter" /\ u.todo = WriteThen(r) /\ At1(u, {"write"})
          \/ a = "write" /\ u.todo = SaveThen(r) /\ At1(u, {"save"})
          \/ a = "save" /\ u.todo = CommitThen(r) /\ At1(u, {"commit"})
          \/ a = "commit" /\ (u.todo = <<>> \/ (u.todo = Reload /\ At1(u, {"generate"})))
      BY <2>0, <3>0, <3>4, <1>8
    <3>2. u.todo # <<>> => Form(u)
      BY <2>0, <2>1, <3>1 DEF Form
    <3> QED BY <2>1, <3>1, <3>2 DEF At1, First
  <2>2. CASE /\ t.name = "update" /\ t.restoring
             /\ \E r \in {AgainLast} : t.todo \in {UpdateThen(r), WriteThen(r), SaveThen(r), CommitThen(r), r}
    <3>0. PICK r \in {AgainLast} : t.todo \in {UpdateThen(r), WriteThen(r), SaveThen(r), CommitThen(r), r}
      BY <2>2
    <3>4. /\ Then(UpdateThen(r), "enter", WriteThen(r))
          /\ Then(WriteThen(r), "write", SaveThen(r))
          /\ Then(SaveThen(r), "save", CommitThen(r))
          /\ Then(CommitThen(r), "commit", r)
          /\ Then(r, "again", <<>>)
      BY <3>0, ThensHere
    <3>1. \/ a = "enter" /\ u.todo = WriteThen(r) /\ At1(u, {"write"})
          \/ a = "write" /\ u.todo = SaveThen(r) /\ At1(u, {"save"})
          \/ a = "save" /\ u.todo = CommitThen(r) /\ At1(u, {"commit"})
          \/ a = "commit" /\ u.todo = r /\ At1(u, {"again"})
          \/ a = "again" /\ u.todo = <<>>
      BY <3>0, <3>4, <1>8
    <3>2. u.todo # <<>> => Form(u)
      BY <2>0, <2>2, <3>1 DEF Form
    <3> QED BY <2>2, <3>1, <3>2 DEF At1, First
  <2>3. CASE t.name = "update" /\ t.todo \in {Reload, LoadLast}
    <3>1. \/ a = "generate" /\ u.todo = LoadLast /\ At1(u, {"load"})
          \/ a = "load" /\ u.todo = <<>>
      BY <1>2, <2>0, <2>3, ThensHere, <1>11
    <3>2. u.todo # <<>> => Form(u)
      BY <2>0, <2>3, <3>1 DEF Form
    <3> QED BY <2>3, <3>1, <3>2 DEF At1, First
  <2>4. CASE t.name = "save" /\ ~t.restoring /\ \E r \in Ends : t.todo \in {PutThen(r), ValidateThen(r), Reload, LoadLast}
    <3>0. PICK r \in Ends : t.todo \in {PutThen(r), ValidateThen(r), Reload, LoadLast}
      BY <2>4
    <3>4. /\ Then(PutThen(r), "put", ValidateThen(r))
          /\ Then(ValidateThen(r), "validate", r)
          /\ Then(Reload, "generate", LoadLast)
          /\ Then(LoadLast, "load", <<>>)
      BY <2>0, <3>0, ThensHere
    <3>1. \/ a = "put" /\ u.todo = ValidateThen(r) /\ At1(u, {"validate"})
          \/ a = "validate" /\ (u.todo = <<>> \/ (u.todo = Reload /\ At1(u, {"generate"})))
          \/ a = "generate" /\ u.todo = LoadLast /\ At1(u, {"load"})
          \/ a = "load" /\ u.todo = <<>>
      BY <2>0, <3>0, <3>4, <1>8
    <3>2. u.todo # <<>> => Form(u)
      BY <2>0, <2>4, <3>1 DEF Form
    <3> QED BY <2>4, <3>1, <3>2 DEF At1, First
  <2>5. CASE t.name = "save" /\ t.restoring /\ t.todo = PutLast
    <3>1. a = "put" /\ u.todo = <<>>
      BY <1>2, <2>0, <2>5, ThensHere, <1>11
    <3>2. u.todo # <<>> => Form(u)
      BY <2>0, <2>5, <3>1 DEF Form
    <3> QED BY <2>5, <3>1, <3>2 DEF At1, First
  <2>6. CASE /\ t.name = "create" /\ ~t.restoring
             /\ t.todo \in {CreateNew, WriteNew, AppendNew, CommitThen(EnterThen(<<>>)),
                            EnterThen(<<>>), SaveThen(<<>>), CommitThen(<<>>)}
    <3>4. /\ Then(CreateNew, "enter", WriteNew)
          /\ Then(WriteNew, "write", AppendNew)
          /\ Then(AppendNew, "append", CommitThen(EnterThen(<<>>)))
          /\ Then(CommitThen(EnterThen(<<>>)), "commit", EnterThen(<<>>))
          /\ Then(EnterThen(<<>>), "enter", SaveThen(<<>>))
          /\ Then(SaveThen(<<>>), "save", CommitThen(<<>>))
          /\ Then(CommitThen(<<>>), "commit", <<>>)
      BY <2>0, ThensHere
    <3>1. \/ a = "enter" /\ u.todo = WriteNew /\ At1(u, {"write"})
          \/ a = "write" /\ u.todo = AppendNew /\ At1(u, {"append"}) /\ Pending(t)
          \/ a = "append" /\ u.todo = CommitThen(EnterThen(<<>>)) /\ At1(u, {"commit"})
          \/ a = "commit" /\ u.todo = EnterThen(<<>>) /\ At1(u, {"enter"})
          \/ a = "enter" /\ u.todo = SaveThen(<<>>) /\ At1(u, {"save"})
          \/ a = "save" /\ u.todo = CommitThen(<<>>) /\ At1(u, {"commit"})
          \/ a = "commit" /\ u.todo = <<>>
      BY <2>6, <3>4, <1>8, <1>9
    <3>2. u.todo # <<>> => Form(u)
      BY <2>0, <2>6, <3>1 DEF Form
    <3>3. ASSUME First(u) PROVE a = "append"
      <4>1. ~At1(u, {"enter"}) /\ ~At1(u, {"write"}) /\ ~At1(u, {"append"}) /\ ~At1(u, {"save"})
        BY <1>7, <3>3
      <4>2. u.todo # <<>> /\ u.todo # CommitThen(<<>>)
        BY <1>7, <1>10, <3>3
      <4> QED BY <3>1, <4>1, <4>2
    <3>5. a = "append" => First(u)
      BY <2>6, <3>1 DEF First
    <3> QED BY <2>6, <3>1, <3>2, <3>3, <3>5 DEF At1
  <2>7. CASE /\ t.name = "create" /\ t.restoring
             /\ t.todo \in {DeleteThen(<<>>), RemoveThen(<<>>), SaveThen(<<>>), CommitThen(<<>>)}
    <3>4. /\ Then(DeleteThen(<<>>), "enter", RemoveThen(<<>>))
          /\ Then(RemoveThen(<<>>), "remove", SaveThen(<<>>))
          /\ Then(SaveThen(<<>>), "save", CommitThen(<<>>))
          /\ Then(CommitThen(<<>>), "commit", <<>>)
      BY <2>0, ThensHere
    <3>1. \/ a = "enter" /\ u.todo = RemoveThen(<<>>) /\ At1(u, {"remove"})
          \/ a = "remove" /\ u.todo = SaveThen(<<>>) /\ At1(u, {"save"})
          \/ a = "save" /\ u.todo = CommitThen(<<>>) /\ At1(u, {"commit"})
          \/ a = "commit" /\ u.todo = <<>>
      BY <2>7, <3>4, <1>8
    <3>2. u.todo # <<>> => Form(u)
      BY <2>0, <2>7, <3>1 DEF Form
    <3>3. ~First(u)
      <4>1. ASSUME First(u) PROVE FALSE
        <5>1. ~At1(u, {"remove"}) /\ ~At1(u, {"save"}) /\ u.todo # <<>> /\ u.todo # CommitThen(<<>>)
          BY <1>7, <1>10, <4>1
        <5> QED BY <3>1, <5>1
      <4> QED BY <4>1
    <3> QED BY <2>7, <3>1, <3>2, <3>3 DEF At1
  <2>8. CASE t.name = "delete" /\ ~t.restoring /\ t.todo \in {DeleteThen(EnterThen(<<>>)), RemoveThen(EnterThen(<<>>))}
    <3>4. /\ Then(DeleteThen(EnterThen(<<>>)), "enter", RemoveThen(EnterThen(<<>>)))
          /\ Then(RemoveThen(EnterThen(<<>>)), "remove", SaveThen(EnterThen(<<>>)))
          /\ Then(SaveThen(EnterThen(<<>>)), "save", CommitThen(EnterThen(<<>>)))
      BY <2>0, ThensHere
    <3>1. \/ a = "enter" /\ u.todo = RemoveThen(EnterThen(<<>>)) /\ At1(u, {"remove"})
          \/ a = "remove" /\ u.todo = SaveThen(EnterThen(<<>>)) /\ At1(u, {"save"})
      BY <2>8, <3>4, <1>8
    <3>2. u.todo # <<>> => Form(u)
      BY <2>0, <2>8, <3>1 DEF Form
    <3> QED BY <2>8, <3>1, <3>2 DEF At1, First
  <2>9. CASE /\ t.name = "delete" /\ ~t.restoring
             /\ \E r \in Ends : t.todo \in {SaveThen(EnterThen(r)), CommitThen(EnterThen(r)), EnterThen(r),
                                            SaveThen(r), CommitThen(r), Reload, LoadLast}
    <3>0. PICK r \in Ends : t.todo \in {SaveThen(EnterThen(r)), CommitThen(EnterThen(r)), EnterThen(r),
                                       SaveThen(r), CommitThen(r), Reload, LoadLast}
      BY <2>9
    <3>4. /\ Then(SaveThen(EnterThen(r)), "save", CommitThen(EnterThen(r)))
          /\ Then(CommitThen(EnterThen(r)), "commit", EnterThen(r))
          /\ Then(EnterThen(r), "enter", SaveThen(r))
          /\ Then(SaveThen(r), "save", CommitThen(r))
          /\ Then(CommitThen(r), "commit", r)
          /\ Then(Reload, "generate", LoadLast)
          /\ Then(LoadLast, "load", <<>>)
      BY <2>0, <3>0, ThensHere
    <3>1. \/ a = "save" /\ u.todo = CommitThen(EnterThen(r)) /\ At1(u, {"commit"})
          \/ a = "commit" /\ u.todo = EnterThen(r) /\ At1(u, {"enter"})
          \/ a = "enter" /\ u.todo = SaveThen(r) /\ At1(u, {"save"})
          \/ a = "save" /\ u.todo = CommitThen(r) /\ At1(u, {"commit"})
          \/ a = "commit" /\ (u.todo = <<>> \/ (u.todo = Reload /\ At1(u, {"generate"})))
          \/ a = "generate" /\ u.todo = LoadLast /\ At1(u, {"load"})
          \/ a = "load" /\ u.todo = <<>>
      BY <2>0, <3>0, <3>4, <1>8
    <3>2. u.todo # <<>> => Form(u)
      BY <2>0, <2>9, <3>1 DEF Form
    <3> QED BY <2>9, <3>1, <3>2 DEF At1, First
  <2>10. CASE t.name = "touch" /\ ~t.restoring /\ t.todo \in {EnterThen(<<>>), SaveThen(<<>>), CommitThen(<<>>)}
    <3>1. \/ a = "enter" /\ u.todo = SaveThen(<<>>) /\ At1(u, {"save"})
          \/ a = "save" /\ u.todo = CommitThen(<<>>) /\ At1(u, {"commit"})
          \/ a = "commit" /\ u.todo = <<>>
      BY <1>2, <2>0, <2>10, ThensHere, <1>11
    <3>2. u.todo # <<>> => Form(u)
      BY <2>0, <2>10, <3>1 DEF Form
    <3> QED BY <2>10, <3>1, <3>2 DEF At1, First
  <2>11. CASE t.name = "reorder" /\ ~t.restoring /\ t.todo \in {ReorderAll, ReorderNow, SaveThen(<<>>), CommitThen(<<>>)}
    <3>1. \/ a = "enter" /\ u.todo = ReorderNow /\ At1(u, {"reorder"})
          \/ a = "reorder" /\ u.todo = CommitThen(<<>>) /\ At1(u, {"commit"})
          \/ a = "save" /\ u.todo = CommitThen(<<>>) /\ At1(u, {"commit"})
          \/ a = "commit" /\ u.todo = <<>>
      BY <1>2, <2>0, <2>11, ThensHere, <1>11
    <3>2. u.todo # <<>> => Form(u)
      BY <2>0, <2>11, <3>1 DEF Form
    <3> QED BY <2>11, <3>1, <3>2 DEF At1, First
  <2>12. CASE t.name = "switch" /\ ~t.restoring /\ t.todo \in {SwitchAll, LoadKeep, KeepLast, PublishLast}
    <3>1. \/ a = "generate" /\ u.todo = LoadKeep /\ At1(u, {"load"})
          \/ a = "load" /\ u.todo = KeepLast /\ At1(u, {"keep"})
          \/ a = "keep" /\ u.todo = PublishLast /\ At1(u, {"publish"})
          \/ a = "publish" /\ u.todo = <<>>
      BY <1>2, <2>0, <2>12, ThensHere, <1>11
    <3>2. u.todo # <<>> => Form(u)
      BY <2>0, <2>12, <3>1 DEF Form
    <3> QED BY <2>12, <3>1, <3>2 DEF At1, First
  <2>13. CASE /\ t.name = "switch" /\ t.restoring
              /\ \E r \in Ends : t.todo \in {EnterThen(r), SaveThen(r), CommitThen(r), Reload, LoadLast}
    <3>0. PICK r \in Ends : t.todo \in {EnterThen(r), SaveThen(r), CommitThen(r), Reload, LoadLast}
      BY <2>13
    <3>4. /\ Then(EnterThen(r), "enter", SaveThen(r))
          /\ Then(SaveThen(r), "save", CommitThen(r))
          /\ Then(CommitThen(r), "commit", r)
          /\ Then(Reload, "generate", LoadLast)
          /\ Then(LoadLast, "load", <<>>)
      BY <2>0, <3>0, ThensHere
    <3>1. \/ a = "enter" /\ u.todo = SaveThen(r) /\ At1(u, {"save"})
          \/ a = "save" /\ u.todo = CommitThen(r) /\ At1(u, {"commit"})
          \/ a = "commit" /\ (u.todo = <<>> \/ (u.todo = Reload /\ At1(u, {"generate"})))
          \/ a = "generate" /\ u.todo = LoadLast /\ At1(u, {"load"})
          \/ a = "load" /\ u.todo = <<>>
      BY <2>0, <3>0, <3>4, <1>8
    <3>2. u.todo # <<>> => Form(u)
      BY <2>0, <2>13, <3>1 DEF Form
    <3> QED BY <2>13, <3>1, <3>2 DEF At1, First
  <2> QED BY <1>2, <2>1, <2>2, <2>3, <2>4, <2>5, <2>6, <2>7, <2>8, <2>9, <2>10, <2>11, <2>12, <2>13 DEF Form
<1> QED BY <1>3, <1>4, <1>5, <1>6 DEF Turn, a

------------------------------------------------------------------------------
(* The index settles: the inductive invariant. *)

Formed ==
    /\ \A c \in Callers : Form(task[c])
    /\ permit # None => At1(task[permit], Inside)
    /\ "index" \in excused => "core" \in excused

\* exactly the profiles of an index have a file; its current profile is one of them
Whole(ix) == \A v \in Uids : v \in ix.items <=> file[v] # None
Rooted(ix) == ix.current \in ix.items \cup {None}

\* no two tasks over one profile, no change of the index beside a switch
Apart ==
    \A c, d \in Callers : c # d /\ task[c] # Idle /\ task[d] # Idle =>
        task[c].uid # task[d].uid /\ ~(task[c].name = "switch" /\ ChangesIndex(task[d]))

\* what a task relies on about its own profile
Mine(t) ==
    /\ t.name = "save" => file[t.uid] # None /\ t.data # None /\ t.old # None
    /\ t.name = "update" => t.old # None /\ (~At1(t, {"download"}) => t.data # None)
    /\ t.name = "create" => t.data # None
    /\ Pending(t) => t.uid \notin memory.items
    /\ t.name = "create" /\ ~Pending(t) => First(t) \/ t.restoring \/ t.uid \in memory.items
    /\ Switches(t) => /\ draft = [memory EXCEPT !.current = t.uid] /\ t.old = memory.current /\ t.uid \in memory.items
                      /\ At1(t, {"publish"}) => saved = draft

\* what the task inside with_data_modify made of its copy so far
Holds(t) ==
    /\ \A v \in Uids \ {t.uid} : v \in copy.items <=> v \in memory.items
    /\ Rooted(copy)
    /\ At1(t, {"write", "remove", "reorder"}) => copy = memory /\ Whole(memory)
    /\ At1(t, {"append"}) => /\ copy = memory /\ file[t.uid] # None
                             /\ \A v \in Uids \ {t.uid} : v \in memory.items <=> file[v] # None
    /\ At1(t, {"save", "commit"}) => /\ Whole(copy)
                                     /\ copy = memory \/ t.name = "delete" \/ First(t) \/ (t.name = "create" /\ t.restoring)
    /\ At1(t, {"commit"}) => saved = copy \/ First(t)
    /\ First(t) => t.uid \in copy.items

\* a creation that is in memory and not yet saved
Unsaved(t) == t.name = "create" /\ ~Pending(t)

\* the index in memory is the one on disk, or somebody is going to see to it
OnDisk ==
    \/ saved = memory
    \/ permit # None /\ At1(task[permit], {"commit"}) /\ saved = copy
    \/ \E c \in Callers : Unsaved(task[c]) \/ At1(task[c], {"publish"})

Steady ==
    "index" \notin excused =>
        /\ Apart /\ Rooted(memory) /\ OnDisk
        /\ permit = None => Whole(memory)
        /\ permit # None => ~overtaken /\ Holds(task[permit])
        /\ \A c \in Callers : Mine(task[c])

SInv == IInv /\ Formed /\ Steady

------------------------------------------------------------------------------
(* A step of one task, and what it leaves alone for the others. *)

LEMMA FormIdle == Form(Idle)
BY DEF Form

LEMMA Passed ==
    ASSUME IInv, Formed, NEW c \in Callers, NEW a, At(c, a), NEW u, Becomes(c, u), u.todo = Tail(task[c].todo),
           u.name = task[c].name, u.uid = task[c].uid, u.restoring = task[c].restoring
    PROVE  /\ Others(c) /\ task'[c] = (IF u.todo = <<>> THEN Idle ELSE u) /\ Form(task'[c]) /\ Turn(task[c], a, u)
           /\ task[c].todo # <<>> /\ task[c].todo[1] = a /\ task[c] # Idle /\ task[c].uid \in Uids /\ c # None
           /\ a \in Inside <=> permit = c
           /\ permit = c => copy \in Index
           /\ \A S : At1(task[c], S) <=> a \in S
<1>1. /\ task[c].todo # <<>> /\ task[c].todo[1] = a /\ task[c] \in Tasks /\ TaskOK /\ c # None
      /\ \A S : At1(task[c], S) <=> a \in S
      /\ a \in Inside => permit = c /\ copy \in Index
      /\ task[c].uid \in Uids
  BY Starts
<1>2. Others(c) /\ task'[c] = (IF u.todo = <<>> THEN Idle ELSE u)
  BY <1>1 DEF Becomes, Over, TaskOK, Others
<1>3. (u.todo # <<>> => Form(u)) /\ Turn(task[c], task[c].todo[1], u)
  BY <1>1, Turns DEF Formed
<1>4. Form(task'[c])
  <2>1. CASE u.todo = <<>>
    BY <1>2, <2>1, FormIdle
  <2>2. CASE u.todo # <<>>
    BY <1>2, <1>3, <2>2
  <2> QED BY <2>1, <2>2
<1>5. permit = c => a \in Inside
  BY <1>1 DEF Formed
<1>6. task[c] # Idle
  BY <1>1 DEF Idle
<1>7. a \in Inside <=> permit = c
  BY <1>1, <1>5
<1>8. permit = c => copy \in Index
  BY <1>1, <1>5
<1>9. Turn(task[c], a, u)
  BY <1>1, <1>3
<1> QED BY <1>1, <1>2, <1>4, <1>6, <1>7, <1>8, <1>9

LEMMA FormedStep ==
    ASSUME IInv, Formed, NEW c \in Callers, Others(c), Form(task'[c]),
           permit' \in {permit, c, None}, permit' = c => At1(task'[c], Inside),
           "index" \in excused' => "core" \in excused' 
    PROVE  Formed'
<1>1. \A d \in Callers : Form(task'[d])
  BY DEF Formed, Others
<1>2. permit' # None => At1(task'[permit'], Inside)
  <2>1. permit \in Callers \cup {None}
    BY DEF IInv, StoreOK
  <2> QED BY <2>1 DEF Formed, Others
<1> QED BY <1>1, <1>2 DEF Formed, Form, At1, Idle

LEMMA NotIdle == ASSUME IInv, NEW d \in Callers, task[d] # Idle PROVE task[d].todo # <<>> /\ task[d].uid \in Uids
BY DEF IInv, TaskOK, Shape, StepOK

LEMMA SteadyStep ==
    ASSUME IInv, Formed, Steady, NEW c \in Callers, Others(c), task[c] # Idle,
           task'[c] = Idle \/ (task'[c].name = task[c].name /\ task'[c].uid = task[c].uid),
           "index" \notin excused' => "index" \notin excused,
           "index" \notin excused' =>
              /\ \A v \in Uids \ {task[c].uid} : /\ file'[v] # None <=> file[v] # None
                                                 /\ v \in memory'.items <=> v \in memory.items
              /\ memory' # memory \/ draft' # draft \/ saved' # saved => \A d \in Callers \ {c} : ~Switches(task[d])
              /\ Rooted(memory)' /\ OnDisk'
              /\ permit' = None => Whole(memory)'
              /\ permit' = c => ~overtaken' /\ Holds(task[c])'
              /\ permit' \notin {None, c} => /\ UNCHANGED <<permit, overtaken, memory, saved, copy>>
                                             /\ \A v \in Uids : file'[v] # None <=> file[v] # None
              /\ Mine(task[c])'
    PROVE  Steady'
<1> SUFFICES ASSUME "index" \notin excused' PROVE Steady'
  BY DEF Steady
<1>1. /\ Apart /\ \A d \in Callers : Mine(task[d])
      /\ permit # None => ~overtaken /\ Holds(task[permit])
  BY DEF Steady
<1>2. Apart'
  <2>1. \A d \in Callers \ {c} : task'[d] = task[d]
    BY DEF Others
  <2>2. task'[c] # Idle => task'[c].name = task[c].name /\ task'[c].uid = task[c].uid
    OBVIOUS
  <2>3. ASSUME NEW d \in Callers, NEW e \in Callers, d # e, task'[d] # Idle, task'[e] # Idle
        PROVE  task'[d].uid # task'[e].uid /\ ~(task'[d].name = "switch" /\ ChangesIndex(task'[e]))
    <3>1. task[d] # Idle /\ task[e] # Idle
      BY <2>1, <2>3
    <3>2. task'[d].uid = task[d].uid /\ task'[d].name = task[d].name /\ task'[e].uid = task[e].uid /\ task'[e].name = task[e].name
      BY <2>1, <2>2, <2>3
    <3> QED BY <1>1, <2>3, <3>1, <3>2 DEF Apart, ChangesIndex
  <2> QED BY <2>3 DEF Apart, ChangesIndex, Idle
<1>3. ASSUME NEW d \in Callers PROVE Mine(task[d])'
  <2>1. CASE d = c
    BY <2>1
  <2>2. CASE d # c /\ task[d] = Idle
    BY <2>2, IdleOK DEF Others, Mine, Pending, Switches
  <2>3. CASE d # c /\ task[d] # Idle
    <3> DEFINE t == task[d]
    <3>1. t.uid \in Uids \ {task[c].uid} /\ task'[d] = t
      BY <1>1, <2>3, NotIdle DEF Apart, Others
    <3>2. file'[t.uid] # None <=> file[t.uid] # None
      BY <3>1
    <3>3. t.uid \in memory'.items <=> t.uid \in memory.items
      BY <3>1
    <3>4. Switches(t) => memory' = memory /\ draft' = draft /\ saved' = saved
      BY <2>3
    <3>5. Mine(t)
      BY <1>1
    <3> QED BY <3>1, <3>2, <3>3, <3>4, <3>5 DEF Mine, At1, Pending, Switches, First
  <2> QED BY <2>1, <2>2, <2>3
<1>4. ASSUME permit' # None PROVE ~overtaken' /\ Holds(task[permit])'
  <2>1. CASE permit' = c
    BY <2>1
  <2>2. CASE permit' # c
    <3>1. /\ permit' = permit /\ overtaken' = overtaken /\ memory' = memory /\ saved' = saved /\ copy' = copy
          /\ \A v \in Uids : file'[v] # None <=> file[v] # None
      BY <1>4, <2>2
    <3>2. permit \in Callers \ {c} /\ task'[permit] = task[permit]
      BY <1>4, <2>2, <3>1 DEF IInv, StoreOK, Others
    <3>3. task[permit] # Idle
      BY <1>4, <3>1, IdleOK DEF Formed, At1
    <3>4. Holds(task[permit]) /\ task[permit].uid \in Uids /\ task[permit].todo # <<>>
      BY <1>1, <1>4, <3>1, <3>2, <3>3, NotIdle
    <3> DEFINE t == task[permit]
    <3>5. Holds(t)'
      <4>1. Whole(copy)' <=> Whole(copy)
        BY <3>1 DEF Whole
      <4>2. Whole(memory)' <=> Whole(memory)
        BY <3>1 DEF Whole
      <4>3. Rooted(copy)' <=> Rooted(copy)
        BY <3>1 DEF Rooted
      <4>4. task'[permit'] = t
        BY <3>1, <3>2
      <4> QED BY <3>1, <3>4, <4>1, <4>2, <4>3, <4>4 DEF Holds, At1, First
    <3> QED BY <1>1, <1>4, <3>1, <3>5
  <2> QED BY <2>1, <2>2
<1> QED BY <1>2, <1>3, <1>4 DEF Steady

LEMMA OnDiskStays ==
    ASSUME IInv, OnDisk, NEW c \in Callers, Others(c), UNCHANGED <<memory, saved>>,
           permit \notin {None, c} => UNCHANGED <<permit, copy>>,
           ~At1(task[c], {"publish"}), permit = c => ~At1(task[c], {"commit"}) \/ copy = memory,
           Unsaved(task[c]) => Unsaved(task[c])'
    PROVE  OnDisk'
<1>1. CASE saved = memory
  BY <1>1 DEF OnDisk
<1>2. CASE permit # None /\ At1(task[permit], {"commit"}) /\ saved = copy
  <2>1. CASE permit = c
    BY <1>2, <2>1 DEF OnDisk
  <2>2. CASE permit # c
    <3>1. permit \in Callers \ {c}
      BY <1>2, <2>2 DEF IInv, StoreOK
    <3>2. permit' = permit /\ copy' = copy /\ task'[permit] = task[permit]
      BY <1>2, <2>2, <3>1 DEF Others
    <3> QED BY <1>2, <3>2 DEF OnDisk, At1
  <2> QED BY <2>1, <2>2
<1>3. ASSUME NEW d \in Callers, Unsaved(task[d]) \/ At1(task[d], {"publish"}) PROVE OnDisk'
  <2>1. CASE d = c
    BY <1>3, <2>1 DEF OnDisk
  <2>2. CASE d # c
    <3>1. task'[d] = task[d]
      BY <2>2 DEF Others
    <3>2. Unsaved(task[d])' \/ At1(task[d], {"publish"})'
      BY <1>3, <3>1 DEF Unsaved, Pending, At1
    <3> QED BY <3>2 DEF OnDisk
  <2> QED BY <2>1, <2>2
<1> QED BY <1>1, <1>2, <1>3 DEF OnDisk

LEMMA Named == ASSUME NEW t \in Tasks, Form(t), t # Idle PROVE t.name \in {"update", "save", "create", "delete", "touch", "reorder", "switch"}
BY DEF Form

LEMMA NoSwitchNow ==
    ASSUME IInv, Formed, Apart, NEW c \in Callers, task[c] # Idle, task[c].name # "save"
    PROVE  \A d \in Callers \ {c} : ~Switches(task[d])
<1>1. task[c] \in Tasks /\ Form(task[c])
  BY DEF IInv, TaskOK, Formed
<1>2. task[c].name = "switch" \/ ChangesIndex(task[c])
  BY <1>1, Named DEF ChangesIndex
<1>3. \A d \in Callers : Switches(task[d]) => task[d].name = "switch" /\ task[d] # Idle
  BY IdleOK DEF Switches
<1> QED BY <1>2, <1>3 DEF Apart, IInv, SwitchOK

LEMMA TurnOf ==
    ASSUME IInv, Formed, NEW c \in Callers, task[c].todo # <<>>
    PROVE  Turn(task[c], task[c].todo[1], [task[c] EXCEPT !.todo = Tail(task[c].todo)])
<1> DEFINE t == task[c]
           u == [t EXCEPT !.todo = Tail(t.todo)]
<1>1. t \in Tasks /\ Form(t)
  BY DEF IInv, TaskOK, Formed
<1>2. u.name = t.name /\ u.restoring = t.restoring /\ u.todo = Tail(t.todo)
  BY <1>1 DEF Tasks
<1> HIDE DEF u
<1>3. Turn(t, t.todo[1], u)
  BY <1>1, <1>2, Turns
<1> QED BY <1>3 DEF u

LEMMA AloneInside ==
    ASSUME IInv, Formed, Apart, NEW c \in Callers, Switches(task[c]), permit # c
    PROVE  permit = None
<1>1. ASSUME permit # None PROVE FALSE
  <2>1. permit \in Callers /\ At1(task[permit], Inside)
    BY <1>1 DEF IInv, StoreOK, Formed
  <2>2. task[permit].todo # <<>> /\ task[permit].todo[1] \in Inside
    BY <2>1 DEF At1
  <2>3. task[permit].name # "save" /\ ~Switches(task[permit])
    BY <2>1, <2>2, TurnOf DEF Turn
  <2>4. task[permit] # Idle
    BY <2>2, IdleOK
  <2>5. \A d \in Callers \ {permit} : ~Switches(task[d])
    BY <2>1, <2>3, <2>4, NoSwitchNow
  <2> QED BY <2>1, <2>5
<1> QED BY <1>1

LEMMA FirstHead == ASSUME NEW t, First(t) PROVE t.todo # <<>> /\ t.todo[1] = "commit" /\ Tail(t.todo) # <<>> /\ ~Pending(t) /\ t.name = "create"
<1>1. Then(CommitThen(EnterThen(<<>>)), "commit", EnterThen(<<>>)) /\ Then(EnterThen(<<>>), "enter", SaveThen(<<>>))
  BY ThensHere DEF Ends
<1> QED BY <1>1, PendingLists DEF Then, First, Pending, Has

LEMMA IdleMine == Mine(Idle)' /\ Mine(Idle)
BY IdleOK DEF Mine, Pending, Switches, Idle

\* what a task relies on stays when it goes on
LEMMA MineStays ==
    ASSUME NEW t, NEW u, u.name = t.name, u.uid = t.uid, u.restoring = t.restoring, u.old = t.old, Mine(t), Pending(u) => Pending(t),
           t.name \in {"save", "update", "create"} => u.data # None,
           t.name = "save" => file'[t.uid] # None,
           Pending(t) => Pending(u) /\ t.uid \notin memory'.items,
           t.name = "create" /\ ~Pending(t) /\ ~t.restoring => t.uid \in memory'.items,
           Switches(t) => memory' = memory /\ draft' = draft /\ (At1(u, {"publish"}) => saved' = draft)
    PROVE  Mine(u)'
BY DEF Mine, Pending, Switches, At1

------------------------------------------------------------------------------
(* The steps outside with_data_modify. *)

\* a step that leaves the index alone
LEMMA QuietSettles ==
    ASSUME SInv, NEW c \in Callers, NEW a, At(c, a), a \notin Inside \cup {"enter", "keep", "publish"}, NEW u, Becomes(c, u),
           u.todo = Tail(task[c].todo), u.name = task[c].name, u.uid = task[c].uid, u.restoring = task[c].restoring,
           u.old = task[c].old,
           UNCHANGED <<memory, draft, saved, permit, copy, overtaken, excused>>,
           "index" \notin excused => /\ \A v \in Uids : file'[v] # None <=> file[v] # None
                                     /\ task[c].name \in {"save", "update", "create"} => u.data # None
    PROVE  Formed' /\ Steady'
<1> DEFINE t == task[c]
<1>1. /\ Others(c) /\ task'[c] = (IF u.todo = <<>> THEN Idle ELSE u) /\ Form(task'[c]) /\ Turn(t, a, u)
      /\ t.todo # <<>> /\ t.todo[1] = a /\ t # Idle /\ t.uid \in Uids /\ c # None
      /\ (a \in Inside <=> permit = c)
      /\ \A S : At1(t, S) <=> a \in S
  BY Passed DEF SInv
<1>2. permit # c
  BY <1>1
<1>3. Formed'
  BY <1>1, <1>2, FormedStep DEF SInv, Formed
<1>4. ASSUME "index" \notin excused'
      PROVE  /\ "index" \notin excused
             /\ \A v \in Uids \ {t.uid} : /\ file'[v] # None <=> file[v] # None
                                          /\ v \in memory'.items <=> v \in memory.items
             /\ Rooted(memory)' /\ OnDisk'
             /\ permit' = None => Whole(memory)'
             /\ permit' \notin {None, c} => /\ UNCHANGED <<permit, overtaken, memory, saved, copy>>
                                            /\ \A v \in Uids : file'[v] # None <=> file[v] # None
             /\ Mine(t)'
  <2>1. "index" \notin excused
    BY <1>4
  <2>2. /\ Rooted(memory) /\ OnDisk /\ Mine(t)
        /\ permit = None => Whole(memory)
        /\ \A v \in Uids : file'[v] # None <=> file[v] # None
        /\ t.name \in {"save", "update", "create"} => u.data # None
    BY <2>1 DEF SInv, Steady
  <2>3. t.name # "create"
    BY <1>1 DEF Turn
  <2>4. OnDisk'
    BY <1>1, <1>2, <2>2, <2>3, OnDiskStays DEF SInv, Unsaved
  <2>5. Mine(u)'
    <3>1. /\ t.name = "save" => file'[t.uid] # None
          /\ ~Pending(t) /\ ~Pending(u)
          /\ Switches(t) => ~At1(u, {"publish"})
      <4>1. t.name = "save" => file'[t.uid] # None
        BY <1>1, <2>2 DEF Mine
      <4>2. Switches(t) => ~At1(u, {"publish"})
        BY <1>1 DEF Turn, At1
      <4> QED BY <2>3, <4>1, <4>2 DEF Pending
    <3> QED BY <1>1, <2>2, <2>3, <3>1, MineStays
  <2>6. Mine(t)'
    BY <1>1, <2>5, IdleMine
  <2> QED BY <2>1, <2>2, <2>4, <2>6 DEF Rooted, Whole
<1>5. task'[c] = Idle \/ (task'[c].name = t.name /\ task'[c].uid = t.uid)
  BY <1>1
<1>6. Steady'
  BY <1>1, <1>2, <1>4, <1>5, SteadyStep DEF SInv
<1> QED BY <1>3, <1>6

LEMMA DownloadSettles == ASSUME SInv, NEW c \in Callers, NEW x \in Contents, Download(c, x) PROVE Formed' /\ Steady'
<1> DEFINE t == task[c]
           u == [t EXCEPT !.todo = Tail(t.todo), !.data = x]
<1>1. t \in Tasks /\ x # None
  BY ProfileAssumption DEF SInv, IInv, TaskOK
<1>2. /\ u.todo = Tail(t.todo) /\ u.name = t.name /\ u.uid = t.uid /\ u.restoring = t.restoring /\ u.old = t.old /\ u.data = x
  BY <1>1 DEF Tasks
<1>3. Becomes(c, u) /\ At(c, "download")
  BY DEF Download
<1> HIDE DEF u
<1> QED BY <1>1, <1>2, <1>3, QuietSettles DEF Download, store, locks, Bookkeeping, Inside

\* c goes on as it is
LEMMA ContinueSettles ==
    ASSUME SInv, NEW c \in Callers, NEW a, At(c, a), a \notin Inside \cup {"enter", "keep", "publish", "download"}, Continue(c),
           UNCHANGED <<memory, draft, saved, permit, copy, overtaken, excused>>,
           "index" \notin excused => \A v \in Uids : file'[v] # None <=> file[v] # None
    PROVE  Formed' /\ Steady'
<1> DEFINE t == task[c]
           u == [t EXCEPT !.todo = Tail(t.todo)]
<1>1. t \in Tasks /\ t.todo # <<>> /\ t.todo[1] = a
  BY AtHead DEF SInv, IInv, TaskOK
<1>2. /\ u.todo = Tail(t.todo) /\ u.name = t.name /\ u.uid = t.uid /\ u.restoring = t.restoring /\ u.old = t.old /\ u.data = t.data
  BY <1>1 DEF Tasks
<1>3. Becomes(c, u)
  BY DEF Continue
<1> HIDE DEF u
<1>4. "index" \notin excused => (t.name \in {"save", "update", "create"} => u.data # None)
  BY <1>1, <1>2 DEF SInv, Steady, Mine, At1
<1> QED BY <1>2, <1>3, <1>4, QuietSettles

LEMMA ValidateSettles == ASSUME SInv, NEW c \in Callers, Validate(c) PROVE Formed' /\ Steady'
BY ContinueSettles DEF Validate, store, locks, Bookkeeping, Inside

LEMMA LoadSettles == ASSUME SInv, NEW c \in Callers, Load(c) PROVE Formed' /\ Steady'
BY ContinueSettles DEF Load, store, Bookkeeping, Inside

LEMMA PutSettles == ASSUME SInv, NEW c \in Callers, Put(c) PROVE Formed' /\ Steady'
<1>1. At(c, "put") /\ Continue(c) /\ file' = [file EXCEPT ![task[c].uid] = task[c].data]
  BY DEF Put
<1>2. task[c].todo # <<>> /\ task[c].todo[1] = "put" /\ task[c].uid \in Uids
  BY <1>1, Starts DEF SInv
<1>3. ASSUME "index" \notin excused PROVE \A v \in Uids : file'[v] # None <=> file[v] # None
  <2>1. task[c].name = "save"
    BY <1>2, TurnOf DEF Turn, SInv
  <2>2. Mine(task[c]) /\ file \in [Uids -> Contents \cup {None}]
    BY <1>3 DEF SInv, Steady, IInv, StoreOK
  <2>3. task[c].data # None /\ file[task[c].uid] # None
    BY <2>1, <2>2 DEF Mine
  <2> QED BY <1>1, <1>2, <2>2, <2>3
<1> QED BY <1>1, <1>3, ContinueSettles DEF Put, locks, Bookkeeping, Inside

LEMMA GenerateSettles == ASSUME SInv, NEW c \in Callers, Generate(c) PROVE Formed' /\ Steady'
<1> DEFINE t == task[c]
           r == IF Latest.current = None THEN NoProfile ELSE Configuration(Latest.current)
           u == [t EXCEPT !.todo = Tail(t.todo), !.read = r]
<1>1. t \in Tasks /\ At(c, "generate")
  BY DEF SInv, IInv, TaskOK, Generate
<1>2. t.todo # <<>> /\ t.todo[1] = "generate"
  BY <1>1, AtHead DEF SInv, IInv
<1>3. /\ u.todo = Tail(t.todo) /\ u.name = t.name /\ u.uid = t.uid /\ u.restoring = t.restoring /\ u.old = t.old /\ u.data = t.data
  BY <1>1 DEF Tasks
<1>4. Becomes(c, u)
  BY DEF Generate
<1> HIDE DEF u
<1>5. "index" \notin excused => (t.name \in {"save", "update", "create"} => u.data # None)
  BY <1>2, <1>3 DEF SInv, Steady, Mine, At1
<1> QED BY <1>1, <1>3, <1>4, <1>5, QuietSettles DEF Generate, store, Bookkeeping, Inside

LEMMA EndSettles ==
    ASSUME SInv, NEW c \in Callers, At(c, "again"), NEW u, Becomes(c, u), u.todo \in {Reload, <<>>}, u.name = task[c].name,
           u.uid = task[c].uid, u.restoring = task[c].restoring, u.old = task[c].old, u.data = task[c].data,
           UNCHANGED <<memory, draft, saved, file, permit, copy, overtaken, excused>>
    PROVE  Formed' /\ Steady'
<1> DEFINE t == task[c]
<1>1. /\ t.todo # <<>> /\ t.todo[1] = "again" /\ t \in Tasks /\ t.uid \in Uids
      /\ \A S : At1(t, S) <=> "again" \in S
  BY Starts DEF SInv
<1>2. t.name = "update" /\ t.restoring /\ t # Idle
  BY <1>1, TurnOf, IdleOK DEF Turn, SInv
<1>4. task \in [Callers -> Tasks]
  BY DEF SInv, IInv, TaskOK
<1>5. task'[c] = (IF u.todo = <<>> THEN Idle ELSE u) /\ Others(c)
  BY <1>4 DEF Becomes, Over, Others
<1>6. Form(task'[c])
  BY <1>2, <1>5 DEF Form
<1>7. permit # c
  BY <1>1, ProfileAssumption DEF SInv, Formed, Inside
<1>8. Formed'
  BY <1>5, <1>6, <1>7, FormedStep DEF SInv, Formed
<1>9. ASSUME "index" \notin excused' PROVE OnDisk' /\ Mine(task[c])'
  <2>1. OnDisk /\ Mine(t)
    BY <1>9 DEF SInv, Steady
  <2>2. OnDisk'
    BY <1>1, <1>2, <1>5, <1>7, <2>1, OnDiskStays DEF SInv, Unsaved
  <2>3. t.data # None /\ ~Pending(t) /\ ~Pending(u) /\ ~Switches(t)
    BY <1>1, <1>2, <2>1 DEF Mine, Pending, Switches
  <2>4. Mine(u)'
    BY <1>2, <2>1, <2>3, MineStays
  <2> QED BY <1>5, <2>2, <2>4, IdleMine
<1>10. Steady'
  <2>1. "index" \notin excused' => /\ Rooted(memory)' /\ (permit' = None => Whole(memory)')
    BY DEF SInv, Steady, Rooted, Whole
  <2> QED BY <1>2, <1>5, <1>7, <1>9, <2>1, SteadyStep DEF SInv
<1> QED BY <1>8, <1>10

LEMMA AgainSettles == ASSUME SInv, NEW c \in Callers, Again(c) PROVE Formed' /\ Steady'
<1> DEFINE t == task[c]
           u == [t EXCEPT !.todo = IF Latest.current = t.uid THEN Reload ELSE <<>>]
<1>1. t \in Tasks
  BY DEF SInv, IInv, TaskOK
<1>2. /\ u.todo \in {Reload, <<>>} /\ u.name = t.name /\ u.uid = t.uid /\ u.restoring = t.restoring /\ u.old = t.old /\ u.data = t.data
  BY <1>1 DEF Tasks
<1>3. Becomes(c, u) /\ At(c, "again") /\ UNCHANGED <<memory, draft, saved, file, permit, copy, overtaken, excused>>
  BY DEF Again, store, locks, Bookkeeping
<1> HIDE DEF u
<1> QED BY <1>2, <1>3, EndSettles

------------------------------------------------------------------------------
(* The steps inside with_data_modify. *)

LEMMA InsideTask ==
    ASSUME SInv, NEW c \in Callers, NEW a \in Inside, At(c, a)
    PROVE  LET t == task[c]
           IN /\ permit = c /\ copy \in Index /\ t \in Tasks /\ t # Idle /\ t.todo # <<>> /\ t.todo[1] = a /\ t.uid \in Uids /\ c # None
              /\ \A S : At1(t, S) <=> a \in S
              /\ Turn(t, a, [t EXCEPT !.todo = Tail(t.todo)]) /\ Form(t)
              /\ "index" \notin excused => /\ Apart /\ ~overtaken /\ Holds(t) /\ Mine(t) /\ Rooted(memory) /\ OnDisk
                                           /\ \A d \in Callers \ {c} : ~Switches(task[d])
<1> DEFINE t == task[c]
<1>1. /\ permit = c /\ copy \in Index /\ t \in Tasks /\ t.todo # <<>> /\ t.todo[1] = a /\ t.uid \in Uids /\ c # None
      /\ \A S : At1(t, S) <=> a \in S
  BY Starts DEF SInv
<1>2. Turn(t, a, [t EXCEPT !.todo = Tail(t.todo)]) /\ Form(t) /\ t # Idle
  BY <1>1, TurnOf, IdleOK DEF SInv, Formed
<1>3. t.name # "save"
  BY <1>2 DEF Turn
<1>4. "index" \notin excused => \A d \in Callers \ {c} : ~Switches(task[d])
  BY <1>2, <1>3, NoSwitchNow DEF SInv, Steady
<1> QED BY <1>1, <1>2, <1>4 DEF SInv, Steady

LEMMA InsideSettles ==
    ASSUME SInv, NEW c \in Callers, NEW a \in Inside \ {"commit"}, At(c, a), NEW u, Becomes(c, u), Form(u), At1(u, Inside),
           u.name = task[c].name, u.uid = task[c].uid, u.restoring = task[c].restoring, u.old = task[c].old, u.data = task[c].data,
           UNCHANGED <<memory, draft, permit, overtaken>>, "index" \in excused' => "core" \in excused',
           "index" \notin excused' =>
              /\ "index" \notin excused
              /\ \A v \in Uids \ {task[c].uid} : file'[v] # None <=> file[v] # None
              /\ OnDisk' /\ Holds(u)'
              /\ Pending(u) => Pending(task[c])
              /\ task[c].name = "create" /\ ~Pending(u) => First(u) \/ ~Pending(task[c])
    PROVE  Formed' /\ Steady'
<1> DEFINE t == task[c]
<1>1. /\ permit = c /\ t # Idle /\ t.todo # <<>> /\ t.todo[1] = a /\ t.uid \in Uids /\ c # None
      /\ \A S : At1(t, S) <=> a \in S
      /\ Turn(t, a, [t EXCEPT !.todo = Tail(t.todo)])
  BY InsideTask
<1>2. task'[c] = u /\ Others(c)
  BY DEF Becomes, Over, Others, At1, SInv, IInv, TaskOK
<1>3. Formed'
  BY <1>1, <1>2, FormedStep DEF SInv
<1>4. ASSUME "index" \notin excused' PROVE Mine(task[c])' /\ Holds(task[c])'
  <2>1. Mine(t) /\ ~First(t) /\ t.name # "save" /\ ~Switches(t)
    BY <1>1, <1>4, InsideTask, FirstHead DEF Turn
  <2>2. (t.name \in {"update", "create"} => t.data # None) /\ (Pending(t) => t.uid \notin memory.items)
    BY <1>1, <2>1 DEF Mine, Inside
  <2>3. t.name = "create" /\ ~Pending(t) => t.restoring \/ t.uid \in memory.items
    BY <2>1 DEF Mine
  <2>4. ~Switches(u)
    BY <2>1 DEF Switches
  <2>5. Mine(u)'
    BY <1>4, <2>1, <2>2, <2>3, <2>4 DEF Mine, Pending, Switches, First
  <2>6. Holds(u)'
    BY <1>4
  <2> QED BY <1>2, <2>5, <2>6
<1>5. Steady'
  <2>1. "index" \notin excused' => Rooted(memory)' /\ ~overtaken'
    BY InsideTask, <1>1 DEF SInv, Steady, Rooted
  <2>2. "index" \notin excused' => \A d \in Callers \ {c} : ~Switches(task[d])
    BY InsideTask
  <2> QED BY <1>1, <1>2, <1>4, <2>1, <2>2, SteadyStep DEF SInv
<1> QED BY <1>3, <1>5

\* where Continue leads
LEMMA Onward ==
    ASSUME SInv, NEW c \in Callers, task[c].todo # <<>>, Continue(c)
    PROVE  \E u : /\ Becomes(c, u) /\ u.todo = Tail(task[c].todo) /\ u.name = task[c].name /\ u.uid = task[c].uid
                  /\ u.restoring = task[c].restoring /\ u.old = task[c].old /\ u.data = task[c].data
                  /\ Turn(task[c], task[c].todo[1], u) /\ (u.todo # <<>> => Form(u))
<1> DEFINE t == task[c]
           u == [t EXCEPT !.todo = Tail(t.todo)]
<1>1. t \in Tasks /\ Form(t)
  BY DEF SInv, IInv, TaskOK, Formed
<1>2. u.todo = Tail(t.todo) /\ u.name = t.name /\ u.uid = t.uid /\ u.restoring = t.restoring /\ u.old = t.old /\ u.data = t.data
  BY <1>1 DEF Tasks
<1>3. Becomes(c, u)
  BY DEF Continue
<1> HIDE DEF u
<1>4. Turn(t, t.todo[1], u) /\ (u.todo # <<>> => Form(u))
  BY <1>1, <1>2, Turns
<1> QED BY <1>2, <1>3, <1>4

LEMMA EnterSettles == ASSUME SInv, NEW c \in Callers, Enter(c) PROVE Formed' /\ Steady'
<1> DEFINE t == task[c]
<1>1. /\ t.todo # <<>> /\ t.todo[1] = "enter" /\ t \in Tasks /\ t.uid \in Uids /\ c # None
      /\ \A S : At1(t, S) <=> "enter" \in S
  BY Starts DEF SInv, Enter
<1>2. PICK u : /\ Becomes(c, u) /\ u.name = t.name /\ u.uid = t.uid /\ u.restoring = t.restoring /\ u.old = t.old /\ u.data = t.data
               /\ Turn(t, "enter", u) /\ (u.todo # <<>> => Form(u))
  BY <1>1, Onward DEF Enter
<1>3. At1(u, {"write", "remove", "reorder", "save"}) /\ t.name # "save" /\ ~Switches(t) /\ (Pending(u) <=> Pending(t)) /\ ~First(u) /\ t # Idle
  BY <1>1, <1>2, IdleOK DEF Turn
<1>4. task'[c] = u /\ Others(c)
  BY <1>2, <1>3 DEF Becomes, Over, Others, At1, SInv, IInv, TaskOK
<1>5. /\ permit = None /\ permit' = c /\ copy' = memory /\ overtaken' = FALSE
      /\ UNCHANGED <<memory, draft, saved, file, excused>>
  BY DEF Enter, store, Bookkeeping
<1>6. Form(u) /\ At1(u, Inside)
  BY <1>2, <1>3 DEF At1, Inside
<1>7. Formed'
  BY <1>4, <1>5, <1>6, FormedStep DEF SInv, Formed
<1>8. ASSUME "index" \notin excused'
      PROVE  Rooted(memory)' /\ OnDisk' /\ Holds(task[c])' /\ Mine(task[c])'
  <2>1. Rooted(memory) /\ OnDisk /\ Whole(memory) /\ Mine(t)
    BY <1>5, <1>8 DEF SInv, Steady
  <2>2. Rooted(memory)' /\ Whole(memory)' /\ Rooted(copy)' /\ Whole(copy)'
    BY <1>5, <2>1 DEF Rooted, Whole
  <2>3. OnDisk'
    <3>1. Unsaved(t) => Unsaved(t)'
      BY <1>2, <1>3, <1>4 DEF Unsaved, Pending
    <3> QED BY <1>1, <1>4, <1>5, <2>1, <3>1, OnDiskStays DEF SInv
  <2>4. Holds(u)'
    BY <1>3, <1>5, <2>2 DEF Holds, At1, First
  <2>5. Mine(u)'
    <3>1. ~First(t)
      BY <1>1, FirstHead
    <3>2. t.name \in {"save", "update", "create"} => u.data # None
      BY <1>1, <1>2, <1>3, <2>1 DEF Mine
    <3>3. /\ Pending(t) => t.uid \notin memory'.items
          /\ t.name = "create" /\ ~Pending(t) /\ ~t.restoring => t.uid \in memory'.items
      BY <1>5, <2>1, <3>1 DEF Mine
    <3> QED BY <1>2, <1>3, <2>1, <3>2, <3>3, MineStays
  <2> QED BY <1>4, <2>2, <2>3, <2>4, <2>5
<1>9. Steady'
  <2>1. "index" \notin excused' => "index" \notin excused
    BY <1>5
  <2>2. permit' # None /\ permit' = c
    BY <1>1, <1>5
  <2> QED BY <1>2, <1>3, <1>4, <1>5, <1>8, <2>1, <2>2, SteadyStep DEF SInv
<1> QED BY <1>7, <1>9

LEMMA WriteSettles == ASSUME SInv, NEW c \in Callers, WriteFile(c) PROVE Formed' /\ Steady'
<1> DEFINE t == task[c]
<1>0. "write" \in Inside \ {"commit"} /\ At(c, "write")
  BY DEF Inside, WriteFile
<1>1. /\ permit = c /\ copy \in Index /\ t # Idle /\ t.todo # <<>> /\ t.todo[1] = "write" /\ t.uid \in Uids
      /\ \A S : At1(t, S) <=> "write" \in S
      /\ "index" \notin excused => Holds(t) /\ Mine(t) /\ Rooted(memory) /\ OnDisk
  BY <1>0, InsideTask
<1>2. PICK u : /\ Becomes(c, u) /\ u.name = t.name /\ u.uid = t.uid /\ u.restoring = t.restoring /\ u.old = t.old /\ u.data = t.data
               /\ Turn(t, "write", u) /\ (u.todo # <<>> => Form(u))
  BY <1>1, Onward DEF WriteFile
<1>3. /\ \/ t.name = "create" /\ ~t.restoring /\ Pending(t) /\ At1(u, {"append"})
         \/ t.name = "update" /\ At1(u, {"save"})
      /\ (Pending(u) <=> Pending(t)) /\ ~First(u)
  BY <1>2 DEF Turn
<1>4. Form(u) /\ At1(u, Inside)
  BY <1>2, <1>3 DEF At1, Inside
<1>5. /\ file' = [file EXCEPT ![t.uid] = t.data] /\ file \in [Uids -> Contents \cup {None}]
      /\ UNCHANGED <<memory, draft, saved, permit, copy, overtaken, excused>>
      /\ t.name = "create" \/ t.uid \in copy.items
  BY DEF WriteFile, locks, Bookkeeping, SInv, IInv, StoreOK
<1>6. ASSUME "index" \notin excused'
      PROVE  /\ \A v \in Uids \ {t.uid} : file'[v] # None <=> file[v] # None
             /\ OnDisk' /\ Holds(u)'
  <2>1. Holds(t) /\ Mine(t) /\ OnDisk
    BY <1>1, <1>5, <1>6
  <2>2. copy = memory /\ Whole(memory) /\ Rooted(copy) /\ t.data # None
    BY <1>1, <1>3, <2>1 DEF Holds, Mine
  <2>3. file'[t.uid] # None /\ \A v \in Uids \ {t.uid} : file'[v] = file[v]
    BY <1>1, <1>5, <2>2
  <2>4. t.uid \in copy.items => Whole(copy)'
    BY <1>1, <1>5, <2>2, <2>3 DEF Whole
  <2>5. Holds(u)'
    <3>1. Rooted(copy)'
      BY <1>5, <2>2 DEF Rooted
    <3>2. At1(u, {"save"}) => Whole(copy)'
      BY <1>3, <1>5, <2>4 DEF At1
    <3>3. \A v \in Uids \ {t.uid} : v \in memory'.items <=> file'[v] # None
      BY <1>5, <2>2, <2>3 DEF Whole
    <3> QED BY <1>2, <1>3, <1>5, <2>2, <2>3, <3>1, <3>2, <3>3 DEF Holds, At1
  <2>6. OnDisk'
    <3>1. task'[c] = u /\ Others(c)
      BY <1>2, <1>4 DEF Becomes, Over, Others, At1, SInv, IInv, TaskOK
    <3>2. Unsaved(t) => Unsaved(t)'
      BY <1>2, <1>3, <3>1 DEF Unsaved, Pending
    <3> QED BY <1>1, <1>5, <2>1, <3>1, <3>2, OnDiskStays DEF SInv
  <2> QED BY <2>3, <2>5, <2>6
<1>7. "index" \in excused' => "core" \in excused'
  BY <1>5 DEF SInv, Formed
<1> QED BY <1>0, <1>2, <1>3, <1>4, <1>5, <1>6, <1>7, InsideSettles

LEMMA AppendSettles == ASSUME SInv, NEW c \in Callers, AppendItem(c) PROVE Formed' /\ Steady'
<1> DEFINE t == task[c]
<1>0. "append" \in Inside \ {"commit"} /\ At(c, "append")
  BY DEF Inside, AppendItem
<1>1. /\ permit = c /\ copy \in Index /\ t # Idle /\ t.todo # <<>> /\ t.todo[1] = "append" /\ t.uid \in Uids
      /\ \A S : At1(t, S) <=> "append" \in S
      /\ "index" \notin excused => Holds(t) /\ Mine(t) /\ Rooted(memory) /\ OnDisk
  BY <1>0, InsideTask
<1>2. PICK u : /\ Becomes(c, u) /\ u.name = t.name /\ u.uid = t.uid /\ u.restoring = t.restoring /\ u.old = t.old /\ u.data = t.data
               /\ Turn(t, "append", u) /\ (u.todo # <<>> => Form(u))
  BY <1>1, Onward DEF AppendItem
<1>3. First(u) /\ ~Pending(u) /\ u.name = "create" /\ u.todo # <<>> /\ u.todo[1] = "commit"
  BY <1>2, FirstHead DEF Turn
<1>4. Form(u) /\ At1(u, Inside)
  BY <1>2, <1>3 DEF At1, Inside
<1>5. /\ copy' = [items |-> copy.items \cup {t.uid}, current |-> IF copy.current = None THEN t.uid ELSE copy.current]
      /\ UNCHANGED <<memory, draft, saved, file, permit, overtaken, excused>>
  BY DEF AppendItem, store, Bookkeeping
<1>6. ASSUME "index" \notin excused' PROVE OnDisk' /\ Holds(u)'
  <2>1. copy = memory /\ file[t.uid] # None /\ Rooted(copy)
        /\ \A v \in Uids \ {t.uid} : v \in memory.items <=> file[v] # None
    BY <1>1, <1>5, <1>6 DEF Holds
  <2>2. Whole(copy)' /\ Rooted(copy)'
    BY <1>1, <1>5, <2>1 DEF Whole, Rooted
  <2>3. Holds(u)'
    BY <1>1, <1>2, <1>3, <1>5, <2>1, <2>2 DEF Holds, At1, First
  <2>4. task'[c] = u
    BY <1>2, <1>3 DEF Becomes, Over, SInv, IInv, TaskOK
  <2>5. OnDisk'
    BY <1>3, <2>4 DEF OnDisk, Unsaved, Pending
  <2> QED BY <2>3, <2>5
<1>7. "index" \in excused' => "core" \in excused'
  BY <1>5 DEF SInv, Formed
<1> QED BY <1>0, <1>2, <1>3, <1>4, <1>5, <1>6, <1>7, InsideSettles

LEMMA SaveSettles == ASSUME SInv, NEW c \in Callers, SaveFile(c) PROVE Formed' /\ Steady'
<1> DEFINE t == task[c]
<1>0. "save" \in Inside \ {"commit"} /\ At(c, "save")
  BY DEF Inside, SaveFile
<1>1. /\ permit = c /\ copy \in Index /\ t # Idle /\ t.todo # <<>> /\ t.todo[1] = "save" /\ t.uid \in Uids /\ c # None
      /\ \A S : At1(t, S) <=> "save" \in S
      /\ "index" \notin excused => Holds(t) /\ Mine(t)
  BY <1>0, InsideTask
<1>2. PICK u : /\ Becomes(c, u) /\ u.name = t.name /\ u.uid = t.uid /\ u.restoring = t.restoring /\ u.old = t.old /\ u.data = t.data
               /\ Turn(t, "save", u) /\ (u.todo # <<>> => Form(u))
  BY <1>1, Onward DEF SaveFile
<1>3. At1(u, {"commit"}) /\ ~First(u) /\ (Pending(u) <=> Pending(t))
  BY <1>2 DEF Turn
<1>4. Form(u) /\ At1(u, Inside) /\ ~First(t)
  BY <1>1, <1>2, <1>3, FirstHead DEF At1, Inside
<1>5. saved' = copy /\ UNCHANGED <<memory, draft, file, permit, copy, overtaken, excused>>
  BY DEF SaveFile, locks, Bookkeeping
<1>6. ASSUME "index" \notin excused' PROVE OnDisk' /\ Holds(u)'
  <2>1. Holds(t)
    BY <1>1, <1>5, <1>6
  <2>2. Whole(copy)' /\ Rooted(copy)'
    BY <1>1, <1>5, <2>1 DEF Holds, Whole, Rooted
  <2>3. copy = memory \/ t.name = "delete" \/ (t.name = "create" /\ t.restoring)
    BY <1>1, <1>4, <2>1 DEF Holds
  <2>4. \A v \in Uids \ {t.uid} : v \in copy.items <=> v \in memory.items
    BY <2>1 DEF Holds
  <2>5. Holds(u)'
    BY <1>2, <1>3, <1>5, <2>2, <2>3, <2>4 DEF Holds, At1
  <2>6. task'[c] = u
    BY <1>2, <1>3 DEF Becomes, Over, At1, SInv, IInv, TaskOK
  <2>7. OnDisk'
    BY <1>1, <1>3, <1>5, <2>6 DEF OnDisk, At1
  <2> QED BY <2>5, <2>7
<1>7. "index" \in excused' => "core" \in excused'
  BY <1>5 DEF SInv, Formed
<1> QED BY <1>0, <1>2, <1>3, <1>4, <1>5, <1>6, <1>7, InsideSettles

LEMMA CommitSettles == ASSUME SInv, NEW c \in Callers, Commit(c) PROVE Formed' /\ Steady'
<1> DEFINE t == task[c]
<1>0. "commit" \in Inside /\ At(c, "commit")
  BY DEF Inside, Commit
<1>1. /\ permit = c /\ copy \in Index /\ t # Idle /\ t.todo # <<>> /\ t.todo[1] = "commit" /\ t.uid \in Uids /\ c # None /\ t \in Tasks
      /\ \A S : At1(t, S) <=> "commit" \in S
      /\ "index" \notin excused => Holds(t) /\ Mine(t) /\ \A d \in Callers \ {c} : ~Switches(task[d])
  BY <1>0, InsideTask
<1>2. PICK u : /\ Becomes(c, u) /\ u.todo = Tail(t.todo) /\ u.name = t.name /\ u.uid = t.uid /\ u.restoring = t.restoring
               /\ u.old = t.old /\ u.data = t.data /\ Turn(t, "commit", u) /\ (u.todo # <<>> => Form(u))
  BY <1>1, Onward DEF Commit
<1>3. /\ task'[c] = (IF u.todo = <<>> THEN Idle ELSE u) /\ Others(c) /\ Form(task'[c])
  BY <1>2 DEF Becomes, Over, Others, SInv, IInv, TaskOK, Form
<1>4. memory' = copy /\ permit' = None /\ UNCHANGED <<draft, saved, file, copy, overtaken, excused>>
  BY DEF Commit, Bookkeeping
<1>5. ~Pending(t) /\ ~Pending(u) /\ t.name # "save" /\ ~Switches(t)
  <2>1. ~Pending(t)
    BY <1>1, PendingHead DEF SInv, IInv, TaskOK
  <2> QED BY <1>0, <1>2, <2>1 DEF Turn
<1>6. Formed'
  BY <1>1, <1>3, <1>4, FormedStep DEF SInv, Formed
<1>7. ASSUME "index" \notin excused'
      PROVE  /\ \A v \in Uids \ {t.uid} : v \in memory'.items <=> v \in memory.items
             /\ Rooted(memory)' /\ OnDisk' /\ Whole(memory)' /\ Mine(t)'
  <2>1. Holds(t) /\ Mine(t)
    BY <1>1, <1>4, <1>7
  <2>2. /\ Whole(copy) /\ Rooted(copy) /\ (saved = copy \/ First(t)) /\ (First(t) => t.uid \in copy.items)
        /\ copy = memory \/ t.name = "delete" \/ First(t) \/ (t.name = "create" /\ t.restoring)
        /\ \A v \in Uids \ {t.uid} : v \in copy.items <=> v \in memory.items
    BY <1>1, <2>1 DEF Holds
  <2>3. Rooted(memory)' /\ Whole(memory)'
    BY <1>4, <2>2 DEF Rooted, Whole
  <2>4. OnDisk'
    <3>1. CASE saved = copy
      BY <1>4, <3>1 DEF OnDisk
    <3>2. CASE First(t)
      <4>1. task'[c] = u /\ u.name = "create"
        BY <1>2, <1>3, <3>2, FirstHead
      <4>2. Unsaved(t)'
        BY <1>5, <4>1 DEF Unsaved, Pending
      <4> QED BY <4>2 DEF OnDisk
    <3> QED BY <2>2, <3>1, <3>2
  <2>5. Mine(u)'
    <3>1. t.name = "create" /\ ~t.restoring => t.uid \in memory'.items
      BY <1>4, <1>5, <2>1, <2>2 DEF Mine
    <3>2. t.name \in {"update", "create"} => u.data # None
      BY <1>1, <1>2, <2>1 DEF Mine
    <3> QED BY <1>2, <1>5, <2>1, <3>1, <3>2, MineStays
  <2>6. Mine(t)'
    BY <1>3, <2>5, IdleMine
  <2> QED BY <1>4, <2>2, <2>3, <2>4, <2>6
<1>8. Steady'
  <2>1. permit' # c /\ ~(permit' \notin {None, c})
    BY <1>1, <1>4
  <2>2. task'[c] = Idle \/ (task'[c].name = t.name /\ task'[c].uid = t.uid)
    BY <1>2, <1>3
  <2> QED BY <1>1, <1>3, <1>4, <1>7, <2>1, <2>2, SteadyStep DEF SInv
<1> QED BY <1>6, <1>8

LEMMA RemoveLists ==
    ASSUME NEW t \in Tasks, Form(t), t.todo # <<>>, t.todo[1] = "remove"
    PROVE  /\ Tail(t.todo) \in Seq(Steps)
           /\ t.name = "delete" => t.todo = RemoveThen(EnterThen(<<>>)) /\ ~t.restoring
           /\ t.name = "delete" => Tail(t.todo) \o Reload = SaveThen(EnterThen(Reload))
           /\ Then(SaveThen(EnterThen(Reload)), "save", CommitThen(EnterThen(Reload)))
<1>1. t.todo \in Seq(Steps)
  BY DEF Tasks
<1>2. Tail(t.todo) \in Seq(Steps)
  BY <1>1, LastTail
<1>3. t # Idle
  BY IdleOK
<1>4. ASSUME t.name = "delete" PROVE t.todo = RemoveThen(EnterThen(<<>>)) /\ ~t.restoring
  <2>1. \A r \in Ends : r \in {<<>>, Reload} /\ r \in Rests /\ EnterThen(r) \in Rests
    BY DEF Ends, Rests
  <2>2. ASSUME NEW r \in Ends, t.todo \in {SaveThen(EnterThen(r)), CommitThen(EnterThen(r)), EnterThen(r),
                                           SaveThen(r), CommitThen(r), Reload, LoadLast}
        PROVE  FALSE
    <3>1. /\ Then(SaveThen(EnterThen(r)), "save", CommitThen(EnterThen(r)))
          /\ Then(CommitThen(EnterThen(r)), "commit", EnterThen(r))
          /\ Then(EnterThen(r), "enter", SaveThen(r))
          /\ Then(SaveThen(r), "save", CommitThen(r))
          /\ Then(CommitThen(r), "commit", r)
          /\ Then(Reload, "generate", LoadLast)
          /\ Then(LoadLast, "load", <<>>)
      BY <2>1, ThensHere
    <3> QED BY <2>2, <3>1 DEF Then
  <2>3. t.todo # DeleteThen(EnterThen(<<>>))
    <3>1. Then(DeleteThen(EnterThen(<<>>)), "enter", RemoveThen(EnterThen(<<>>)))
      BY <2>1, ThensHere DEF Ends
    <3> QED BY <3>1 DEF Then
  <2> QED BY <1>3, <1>4, <2>2, <2>3 DEF Form
<1>5. Then(SaveThen(EnterThen(Reload)), "save", CommitThen(EnterThen(Reload))) /\ Reload \in Seq(Steps)
  BY ThensHere DEF Ends, Rests, Then
<1>6. t.name = "delete" => Tail(t.todo) = SaveThen(EnterThen(<<>>))
  <2>1. Then(RemoveThen(EnterThen(<<>>)), "remove", SaveThen(EnterThen(<<>>)))
    BY ThensHere DEF Ends
  <2> QED BY <1>4, <2>1 DEF Then
<1>7. t.name = "delete" => Tail(t.todo) \o Reload = SaveThen(EnterThen(Reload))
  BY <1>5, <1>6, Beginnings
<1> QED BY <1>2, <1>4, <1>5, <1>7

\* the step of a removal, with what is left to do as u
LEMMA RemovalSettles ==
    ASSUME SInv, NEW c \in Callers, At(c, "remove"), task[c].uid \in copy.items, NEW u, Becomes(c, u),
           u.name = task[c].name, u.uid = task[c].uid, u.restoring = task[c].restoring, u.old = task[c].old, u.data = task[c].data,
           At1(u, {"save"}), Form(u), ~First(u), Pending(u) => Pending(task[c]),
           file' = [file EXCEPT ![task[c].uid] = None],
           copy'.items = copy.items \ {task[c].uid},
           copy'.current \in copy'.items \cup {None} \/ (copy'.current = copy.current /\ copy.current \notin {task[c].uid, None}),
           UNCHANGED <<memory, draft, saved, permit, overtaken>>, excused \subseteq excused', excused' \subseteq excused \cup {"core"}
    PROVE  Formed' /\ Steady'
<1> DEFINE t == task[c]
<1>0. "remove" \in Inside \ {"commit"}
  BY DEF Inside
<1>1. /\ permit = c /\ copy \in Index /\ t # Idle /\ t.todo # <<>> /\ t.todo[1] = "remove" /\ t.uid \in Uids
      /\ \A S : At1(t, S) <=> "remove" \in S
      /\ Turn(t, "remove", [t EXCEPT !.todo = Tail(t.todo)])
      /\ "index" \notin excused => Holds(t) /\ Mine(t) /\ OnDisk
  BY <1>0, InsideTask
<1>2. t.name \in {"create", "delete"} /\ (t.name = "create" => t.restoring)
  BY <1>1 DEF Turn
<1>3. At1(u, Inside) /\ ~At1(u, {"commit"})
  BY DEF At1, Inside
<1>4. task'[c] = u /\ Others(c)
  BY DEF Becomes, Over, Others, At1, SInv, IInv, TaskOK
<1>5. ASSUME "index" \notin excused'
      PROVE  /\ \A v \in Uids \ {t.uid} : file'[v] # None <=> file[v] # None
             /\ OnDisk' /\ Holds(u)'
             /\ t.name = "create" /\ ~Pending(u) => First(u) \/ ~Pending(t)
  <2>1. Holds(t) /\ Mine(t) /\ OnDisk
    BY <1>1, <1>5
  <2>2. copy = memory /\ Whole(memory) /\ Rooted(copy)
    BY <1>1, <2>1 DEF Holds
  <2>3. file'[t.uid] = None /\ \A v \in Uids \ {t.uid} : file'[v] = file[v]
    BY <1>1 DEF SInv, IInv, StoreOK
  <2>4. Whole(copy)'
    BY <1>1, <2>2, <2>3 DEF Whole
  <2>5. Rooted(copy)'
    BY <2>2 DEF Rooted
  <2>6. \A v \in Uids \ {t.uid} : v \in copy'.items <=> v \in memory'.items
    BY <2>2
  <2>7. Holds(u)'
    BY <1>2, <1>3, <2>4, <2>5, <2>6 DEF Holds, At1
  <2>8. ~Pending(t)
    BY <2>1, <2>2 DEF Mine
  <2>9. Unsaved(t) => Unsaved(t)'
    BY <1>4, <2>8 DEF Unsaved, Pending
  <2>10. OnDisk'
    BY <1>1, <1>4, <2>1, <2>9, OnDiskStays DEF SInv
  <2> QED BY <2>3, <2>7, <2>8, <2>10
<1>6. "index" \in excused' => "core" \in excused'
  BY DEF SInv, Formed
<1> QED BY <1>0, <1>3, <1>5, <1>6, InsideSettles

LEMMA DeleteSettles == ASSUME SInv, NEW c \in Callers, DeleteItem(c) PROVE Formed' /\ Steady'
<1> DEFINE t == task[c]
           wasCurrent == copy.current \in {t.uid, None}
           more == wasCurrent /\ t.name = "delete"
           u == [t EXCEPT !.todo = Tail(t.todo) \o (IF more THEN Reload ELSE <<>>)]
           u0 == [t EXCEPT !.todo = Tail(t.todo)]
<1>0. "remove" \in Inside /\ At(c, "remove")
  BY DEF Inside, DeleteItem
<1>1. /\ permit = c /\ copy \in Index /\ t \in Tasks /\ t.todo # <<>> /\ t.todo[1] = "remove" /\ t.uid \in Uids
      /\ Turn(t, "remove", u0) /\ Form(t)
  BY <1>0, InsideTask
<1>2. /\ Tail(t.todo) \in Seq(Steps) /\ Tail(t.todo) \o <<>> = Tail(t.todo)
      /\ t.name = "delete" => ~t.restoring /\ Tail(t.todo) \o Reload = SaveThen(EnterThen(Reload))
      /\ Then(SaveThen(EnterThen(Reload)), "save", CommitThen(EnterThen(Reload)))
  BY <1>1, RemoveLists, AloneEmpty
<1>3. u.name = t.name /\ u.uid = t.uid /\ u.restoring = t.restoring /\ u.old = t.old /\ u.data = t.data
      /\ u.todo = Tail(t.todo) \o (IF more THEN Reload ELSE <<>>)
  BY <1>1 DEF Tasks
<1>4. u0.name = t.name /\ u0.restoring = t.restoring /\ u0.todo = Tail(t.todo)
  BY <1>1 DEF Tasks
<1>5. Becomes(c, u)
  BY DEF DeleteItem
<1> HIDE DEF u, u0
<1>6. At1(u0, {"save"}) /\ Form(u0) /\ ~First(u0) /\ (Pending(u0) => Pending(t))
  BY <1>1, <1>4, Turns DEF Turn, At1
<1>7. At1(u, {"save"}) /\ Form(u) /\ ~First(u) /\ (Pending(u) => Pending(t))
  <2>1. CASE more
    <3>1. u.todo = SaveThen(EnterThen(Reload)) /\ u.name = "delete" /\ ~u.restoring
      BY <1>2, <1>3, <2>1
    <3> QED BY <1>2, <3>1 DEF At1, Then, Form, Ends, First, Pending
  <2>2. CASE ~more
    <3>1. u.todo = u0.todo /\ u.name = u0.name /\ u.restoring = u0.restoring
      BY <1>2, <1>3, <1>4, <2>2
    <3>2. u0 # Idle
      BY <1>6, IdleOK DEF At1
    <3> QED BY <1>6, <3>1, <3>2 DEF At1, Form, First, Pending
  <2> QED BY <2>1, <2>2
<1>8. /\ t.uid \in copy.items /\ file' = [file EXCEPT ![t.uid] = None]
      /\ copy'.items = copy.items \ {t.uid}
      /\ copy'.current \in copy'.items \cup {None} \/ (copy'.current = copy.current /\ copy.current \notin {t.uid, None})
  BY DEF DeleteItem
<1>9. /\ UNCHANGED <<memory, draft, saved, permit, overtaken>>
      /\ excused \subseteq excused' /\ excused' \subseteq excused \cup {"core"}
  BY DEF DeleteItem
<1> QED BY <1>0, <1>3, <1>5, <1>7, <1>8, <1>9, RemovalSettles

\* the step of a reordering that puts the items back, with what is left to do as u
LEMMA OrderSettles ==
    ASSUME SInv, NEW c \in Callers, At(c, "reorder"), NEW u, Becomes(c, u), u.todo = SaveThen(<<>>),
           u.name = task[c].name, u.uid = task[c].uid, u.restoring = task[c].restoring, u.old = task[c].old, u.data = task[c].data,
           UNCHANGED <<memory, draft, saved, file, copy, permit, overtaken, excused>>
    PROVE  Formed' /\ Steady'
<1> DEFINE t == task[c]
<1>0. "reorder" \in Inside \ {"commit"}
  BY DEF Inside
<1>1. /\ permit = c /\ t # Idle /\ t.todo # <<>> /\ t.todo[1] = "reorder" /\ t.uid \in Uids
      /\ \A S : At1(t, S) <=> "reorder" \in S
      /\ Turn(t, "reorder", [t EXCEPT !.todo = Tail(t.todo)]) /\ Form(t)
      /\ "index" \notin excused => Holds(t) /\ Mine(t) /\ OnDisk
  BY <1>0, InsideTask
<1>2. t.name = "reorder" /\ ~t.restoring
  BY <1>1 DEF Turn, Form
<1>3. Then(SaveThen(<<>>), "save", CommitThen(<<>>))
  BY ThensHere
<1>4. Form(u) /\ At1(u, Inside) /\ ~First(u) /\ ~Pending(u) /\ ~At1(u, {"write", "append", "remove", "reorder", "commit"})
  BY <1>2, <1>3 DEF Form, At1, Then, Inside, First, Pending
<1>5. task'[c] = u /\ Others(c)
  BY <1>4 DEF Becomes, Over, Others, At1, SInv, IInv, TaskOK
<1>6. ASSUME "index" \notin excused' PROVE OnDisk' /\ Holds(u)'
  <2>1. copy = memory /\ Whole(memory) /\ Rooted(copy) /\ OnDisk
    BY <1>1, <1>6 DEF Holds
  <2>2. Whole(copy)' /\ Rooted(copy)'
    BY <2>1 DEF Whole, Rooted
  <2>3. Holds(u)'
    BY <1>4, <2>1, <2>2 DEF Holds, At1
  <2>4. OnDisk'
    BY <1>1, <1>2, <1>5, <2>1, OnDiskStays DEF SInv, Unsaved
  <2> QED BY <2>3, <2>4
<1>7. "index" \in excused' => "core" \in excused'
  BY DEF SInv, Formed
<1> QED BY <1>0, <1>2, <1>4, <1>6, <1>7, InsideSettles

LEMMA ReorderSettles == ASSUME SInv, NEW c \in Callers, Reorder(c) PROVE Formed' /\ Steady'
<1> DEFINE t == task[c]
           u == [t EXCEPT !.todo = <<"save", "commit">>]
<1>0. "reorder" \in Inside /\ At(c, "reorder")
  BY DEF Inside, Reorder
<1>1. t \in Tasks /\ t.todo # <<>> /\ t.todo[1] = "reorder" /\ permit = c /\ c # None
  BY <1>0, InsideTask
<1>2. CASE t.uid \in copy.items
  <2>1. u.todo = SaveThen(<<>>) /\ u.name = t.name /\ u.uid = t.uid /\ u.restoring = t.restoring /\ u.old = t.old /\ u.data = t.data
    BY <1>1, Beginnings DEF Tasks
  <2>2. Becomes(c, u) /\ UNCHANGED <<memory, draft, saved, file, copy, permit, overtaken, excused>>
    BY <1>2 DEF Reorder, store
  <2> HIDE DEF u
  <2> QED BY <1>0, <2>1, <2>2, OrderSettles
<1>3. CASE t.uid \notin copy.items
  <2>1. Continue(c) /\ excused' = excused \cup {"core", "index"} /\ permit' = permit
    BY <1>3 DEF Reorder
  <2>2. PICK u1 : /\ Becomes(c, u1) /\ u1.todo = Tail(t.todo) /\ Turn(t, "reorder", u1) /\ (u1.todo # <<>> => Form(u1))
    BY <1>1, <2>1, Onward
  <2>3. At1(u1, Inside)
    BY <2>2 DEF Turn, At1, Inside
  <2>4. task'[c] = u1 /\ Others(c) /\ Form(u1)
    BY <2>2, <2>3 DEF Becomes, Over, Others, At1, SInv, IInv, TaskOK
  <2>5. Formed'
    BY <1>1, <2>1, <2>3, <2>4, FormedStep DEF SInv
  <2>6. Steady'
    BY <2>1 DEF Steady
  <2> QED BY <2>5, <2>6
<1> QED BY <1>2, <1>3

------------------------------------------------------------------------------
(* The end of a switch, failures, timeouts. *)

LEMMA KeepSettles == ASSUME SInv, NEW c \in Callers, Keep(c) PROVE Formed' /\ Steady'
<1> DEFINE t == task[c]
<1>1. /\ t.todo # <<>> /\ t.todo[1] = "keep" /\ t \in Tasks /\ t.uid \in Uids /\ c # None /\ Switches(t) /\ t # Idle
      /\ \A S : At1(t, S) <=> "keep" \in S
  BY Starts, IdleOK DEF SInv, Keep
<1>2. PICK u : /\ Becomes(c, u) /\ u.name = t.name /\ u.uid = t.uid /\ u.restoring = t.restoring /\ u.old = t.old /\ u.data = t.data
               /\ Turn(t, "keep", u) /\ (u.todo # <<>> => Form(u))
  BY <1>1, Onward DEF Keep
<1>3. At1(u, {"publish"}) /\ t.name = "switch" /\ ~Pending(t) /\ ~Pending(u)
  BY <1>1, <1>2 DEF Turn, Switches, Pending
<1>4. task'[c] = u /\ Others(c) /\ Form(u)
  BY <1>2, <1>3 DEF Becomes, Over, Others, At1, SInv, IInv, TaskOK
<1>5. saved' = draft /\ UNCHANGED <<memory, draft, file, permit, copy, overtaken, excused>>
  BY DEF Keep, locks, Bookkeeping
<1>6. permit # c
  BY <1>1 DEF SInv, Formed, Inside
<1>7. Formed'
  BY <1>4, <1>5, <1>6, FormedStep DEF SInv, Formed
<1>8. ASSUME "index" \notin excused'
      PROVE  permit' = None /\ Rooted(memory)' /\ OnDisk' /\ Whole(memory)' /\ Mine(task[c])'
  <2>1. Apart /\ Rooted(memory) /\ Mine(t) /\ (permit = None => Whole(memory))
    BY <1>5, <1>8 DEF SInv, Steady
  <2>2. permit = None
    BY <1>1, <1>6, <2>1, AloneInside DEF SInv
  <2>3. OnDisk'
    BY <1>3, <1>4 DEF OnDisk
  <2>4. Mine(u)'
    BY <1>2, <1>3, <1>5, <2>1, MineStays
  <2> QED BY <1>4, <1>5, <2>1, <2>2, <2>3, <2>4 DEF Rooted, Whole
<1>9. \A d \in Callers \ {c} : ~Switches(task[d])
  BY <1>1 DEF SInv, IInv, SwitchOK, Switches
<1>10. Steady'
  BY <1>1, <1>2, <1>4, <1>5, <1>8, <1>9, SteadyStep DEF SInv
<1> QED BY <1>7, <1>10

LEMMA PublishSettles == ASSUME SInv, NEW c \in Callers, Publish(c) PROVE Formed' /\ Steady'
<1> DEFINE t == task[c]
<1>1. /\ t.todo # <<>> /\ t.todo[1] = "publish" /\ t \in Tasks /\ t.uid \in Uids /\ c # None /\ Switches(t) /\ t # Idle
      /\ \A S : At1(t, S) <=> "publish" \in S
  BY Starts, IdleOK DEF SInv, Publish
<1>2. PICK u : Becomes(c, u) /\ Turn(t, "publish", u)
  BY <1>1, Onward DEF Publish
<1>3. u.todo = <<>>
  BY <1>2 DEF Turn
<1>4. task'[c] = Idle /\ Others(c)
  BY <1>2, <1>3 DEF Becomes, Over, Others, SInv, IInv, TaskOK
<1>5. memory' = draft /\ draft' = None /\ UNCHANGED <<saved, file, permit, copy, excused>>
  BY DEF Publish, Bookkeeping
<1>6. permit # c
  BY <1>1 DEF SInv, Formed, Inside
<1>7. Formed'
  BY <1>4, <1>5, <1>6, FormedStep DEF SInv, Formed, Form
<1>8. ASSUME "index" \notin excused'
      PROVE  /\ permit' = None /\ Rooted(memory)' /\ OnDisk' /\ Whole(memory)' /\ Mine(task[c])'
             /\ memory'.items = memory.items
  <2>1. Apart /\ Rooted(memory) /\ Mine(t) /\ (permit = None => Whole(memory)) /\ memory \in Index
    BY <1>5, <1>8 DEF SInv, Steady, IInv, StoreOK
  <2>2. permit = None
    BY <1>1, <1>6, <2>1, AloneInside DEF SInv
  <2>3. draft = [memory EXCEPT !.current = t.uid] /\ t.uid \in memory.items /\ saved = draft
    BY <1>1, <2>1 DEF Mine
  <2>4. memory'.items = memory.items /\ memory'.current = t.uid
    BY <1>5, <2>1, <2>3 DEF Index
  <2>5. OnDisk'
    BY <1>5, <2>3 DEF OnDisk
  <2>6. Rooted(memory)'
    BY <2>3, <2>4 DEF Rooted
  <2>7. Whole(memory)'
    BY <1>5, <2>1, <2>2, <2>4 DEF Whole
  <2> QED BY <1>4, <1>5, <2>2, <2>4, <2>5, <2>6, <2>7, IdleMine
<1>9. \A d \in Callers \ {c} : ~Switches(task[d])
  BY <1>1 DEF SInv, IInv, SwitchOK, Switches
<1>10. Steady'
  BY <1>1, <1>4, <1>5, <1>8, <1>9, SteadyStep DEF SInv
<1> QED BY <1>7, <1>10

\* what a task that is inside leaves behind when it stops there
LEMMA LeftWhole ==
    ASSUME SInv, NEW c \in Callers, "index" \notin excused, permit = c, ~First(task[c]),
           task[c].name # "delete", ~task[c].restoring \/ task[c].name = "update", ~At1(task[c], {"append"})
    PROVE  Whole(memory) /\ (At1(task[c], {"commit"}) => copy = memory) /\ ~overtaken
<1> DEFINE t == task[c]
<1>1. c # None
  BY ProfileAssumption
<1>2. At1(t, Inside) /\ Holds(t) /\ ~overtaken
  BY <1>1 DEF SInv, Formed, Steady
<1>3. t.todo # <<>> /\ t.todo[1] \in {"write", "remove", "reorder", "save", "commit"}
  BY <1>2 DEF At1, Inside
<1>4. At1(t, {"write", "remove", "reorder"}) => Whole(memory)
  BY <1>2 DEF Holds
<1>5. At1(t, {"save", "commit"}) => Whole(copy) /\ copy = memory
  BY <1>2 DEF Holds
<1> QED BY <1>2, <1>3, <1>4, <1>5 DEF At1

LEMMA TimeOutSettles == ASSUME SInv, NEW c \in Callers, TimeOut(c) PROVE Formed' /\ Steady'
<1> DEFINE t == task[c]
<1>1. t.name = "update" /\ t \in Tasks /\ c # None /\ t # Idle /\ ~First(t) /\ ~Unsaved(t) /\ ~Switches(t)
  BY ProfileAssumption, IdleOK DEF TimeOut, SInv, IInv, TaskOK, First, Unsaved, Switches
<1>2. t.todo # <<>>
  BY <1>1, NotIdle DEF SInv
<1>3. /\ task'[c] = Idle /\ Others(c) /\ excused' = excused \cup {"core"} /\ permit' = (IF permit = c THEN None ELSE permit)
      /\ UNCHANGED <<memory, draft, saved, file, copy, overtaken>>
  BY DEF TimeOut, store, SInv, IInv, TaskOK, Others
<1>4. ~At1(t, {"append"}) /\ ~At1(t, {"publish"})
  <2>1. Turn(t, t.todo[1], [t EXCEPT !.todo = Tail(t.todo)])
    BY <1>2, TurnOf DEF SInv
  <2> QED BY <1>1, <2>1 DEF Turn, At1
<1>5. Formed'
  BY <1>1, <1>3, FormedStep DEF SInv, Form
<1>6. ASSUME "index" \notin excused'
      PROVE  "index" \notin excused /\ Rooted(memory)' /\ OnDisk' /\ (permit' = None => Whole(memory)') /\ Mine(task[c])'
  <2>1. /\ "index" \notin excused /\ Apart /\ Rooted(memory) /\ OnDisk /\ Mine(t)
        /\ permit = None => Whole(memory)
    BY <1>3, <1>6 DEF SInv, Steady
  <2>2. permit = c => Whole(memory) /\ (At1(t, {"commit"}) => copy = memory)
    BY <1>1, <1>4, <2>1, LeftWhole
  <2>3. OnDisk'
    BY <1>1, <1>3, <1>4, <2>1, <2>2, OnDiskStays DEF SInv
  <2>4. permit' = None => Whole(memory)'
    BY <1>3, <2>1, <2>2 DEF Whole
  <2> QED BY <1>3, <2>1, <2>3, <2>4, IdleMine DEF Rooted
<1>7. Steady'
  <2>1. permit' # c
    BY <1>1, <1>3
  <2> QED BY <1>1, <1>3, <1>6, <2>1, SteadyStep DEF SInv
<1> QED BY <1>5, <1>7

\* what a task does in its error branches, list by list
LEMMA RecoveryForm ==
    ASSUME NEW t \in Tasks, t.todo # <<>>
    PROVE  LET r == Recovery(t)
           IN /\ Form(r) /\ ~At1(r, Inside) /\ ~Pending(r) /\ ~Switches(r)
              /\ r = Idle \/ (r.name = t.name /\ r.uid = t.uid /\ r.restoring /\ r.old = t.old)
              /\ r # Idle /\ t.name \in {"update", "save"} => r.data = t.old
              /\ r # Idle /\ t.name = "create" => r.data = t.data
              /\ ~t.restoring /\ t.name = "update" => r # Idle
              /\ ~t.restoring /\ t.name = "create" /\ t.uid \in memory.items => r # Idle
<1> DEFINE r == Recovery(t)
<1>1. /\ Then(UpdateThen(AgainLast), "enter", WriteThen(AgainLast)) /\ Then(PutLast, "put", <<>>)
      /\ Then(DeleteThen(<<>>), "enter", RemoveThen(<<>>)) /\ Then(Reload, "generate", LoadLast)
      /\ Then(RemoveThen(<<>>), "remove", SaveThen(<<>>))
      /\ Then(SaveThen(<<>>), "save", CommitThen(<<>>)) /\ Then(CommitThen(<<>>), "commit", <<>>)
      /\ \A q \in Ends : Then(EnterThen(q), "enter", SaveThen(q))
      /\ <<>> \in Ends /\ Reload \in Ends /\ AgainLast \in Seq(Steps) /\ Reload \in Seq(Steps)
  <2>1. <<>> \in Ends /\ Reload \in Ends /\ \A q \in Ends : q \in Rests
    BY DEF Ends, Rests
  <2>2. Then(AgainLast, "again", <<>>) /\ Then(Reload, "generate", LoadLast)
    BY ThensHere
  <2>3. \A q \in Ends : Then(EnterThen(q), "enter", SaveThen(q))
    BY <2>1, ThensHere
  <2>4. AgainLast \in Seq(Steps) /\ Reload \in Seq(Steps)
    BY <2>2 DEF Then
  <2>5. <<>> \in Rests /\ AgainLast \in Rests
    BY DEF Rests
  <2> QED BY <2>1, <2>2, <2>3, <2>4, <2>5, ThensHere
<1>2. /\ Modify(<<"write", "save">>) \o <<"again">> = UpdateThen(AgainLast)
      /\ Modify(<<"remove", "save">>) = DeleteThen(<<>>)
      /\ SaveIndex \o Reload = EnterThen(Reload) /\ SaveIndex \o <<>> = EnterThen(<<>>)
  <2>1. <<>> \in Seq(Steps)
    OBVIOUS
  <2> QED BY <1>1, <2>1, Beginnings DEF AgainLast
<1>3. CASE t.restoring
  <2>1. CASE t.name = "switch" /\ t.reloads
    <3>1. r = [t EXCEPT !.todo = Reload, !.reloads = FALSE]
      BY <1>3, <2>1 DEF Recovery
    <3> HIDE DEF r
    <3>2. r.name = "switch" /\ r.uid = t.uid /\ r.old = t.old /\ r.restoring /\ r.todo = Reload
      BY <1>3, <2>1, <3>1 DEF Tasks
    <3>3. Form(r)
      BY <1>1, <3>2 DEF Form
    <3> QED BY <1>1, <1>3, <2>1, <3>2, <3>3 DEF Then, At1, Inside, Pending, Switches, r
  <2>2. CASE ~(t.name = "switch" /\ t.reloads)
    BY <1>3, <2>2, IdleOK DEF Recovery, Form, At1, Pending, Switches, Idle
  <2> QED BY <2>1, <2>2
<1>4. CASE ~t.restoring /\ t.name = "update"
  <2>1. r = [t EXCEPT !.restoring = TRUE, !.data = t.old, !.todo = UpdateThen(AgainLast)]
    BY <1>2, <1>4 DEF Recovery, Saved, Appended
  <2> HIDE DEF r
  <2>2. r.name = "update" /\ r.uid = t.uid /\ r.old = t.old /\ r.restoring /\ r.todo = UpdateThen(AgainLast) /\ r.data = t.old
    BY <1>4, <2>1 DEF Tasks
  <2>3. Form(r)
    BY <2>2 DEF Form
  <2>4. r # Idle
    BY <2>2, IdleOK
  <2> QED BY <1>1, <1>4, <2>2, <2>3, <2>4 DEF Then, At1, Inside, Pending, Switches, r
<1>5. CASE ~t.restoring /\ t.name # "update" /\ Saved(t)
  <2>1. t.name = "save" /\ r = [t EXCEPT !.restoring = TRUE, !.data = t.old, !.todo = PutLast]
    BY <1>5 DEF Recovery, Saved, Appended, PutLast
  <2> HIDE DEF r
  <2>2. r.name = "save" /\ r.uid = t.uid /\ r.old = t.old /\ r.restoring /\ r.todo = PutLast /\ r.data = t.old
    BY <2>1 DEF Tasks
  <2>3. Form(r)
    BY <2>2 DEF Form
  <2>4. r # Idle
    BY <2>2, IdleOK
  <2> QED BY <1>1, <1>5, <2>1, <2>2, <2>3, <2>4 DEF Then, At1, Inside, Pending, Switches, r
<1>6. CASE ~t.restoring /\ t.name # "update" /\ ~Saved(t) /\ Appended(t)
  <2>1. t.name = "create" /\ r = [t EXCEPT !.restoring = TRUE, !.todo = DeleteThen(<<>>)]
    BY <1>2, <1>6 DEF Recovery, Appended
  <2> HIDE DEF r
  <2>2. r.name = "create" /\ r.uid = t.uid /\ r.old = t.old /\ r.restoring /\ r.todo = DeleteThen(<<>>) /\ r.data = t.data
    BY <2>1 DEF Tasks
  <2>3. Form(r)
    BY <2>2 DEF Form
  <2>4. r # Idle
    BY <2>2, IdleOK
  <2>5. ~Pending(r)
    <3>1. "append" \in Steps /\ ~Has(<<>>, "append")
      BY DEF Steps, Has
    <3>2. ~Has(DeleteThen(<<>>), "append")
      BY <1>1, <3>1 DEF Then
    <3> QED BY <2>2, <3>2 DEF Pending, Has
  <2> QED BY <1>1, <1>6, <2>1, <2>2, <2>3, <2>4, <2>5 DEF Then, At1, Inside, Switches, r
<1>7. CASE ~t.restoring /\ t.name # "update" /\ ~Saved(t) /\ ~Appended(t) /\ t.name = "switch"
  <2>1. PICK q \in Ends : r = [t EXCEPT !.restoring = TRUE, !.reloads = SwitchSaves(t), !.todo = EnterThen(q)]
    BY <1>1, <1>2, <1>7 DEF Recovery
  <2> HIDE DEF r
  <2>2. r.name = "switch" /\ r.uid = t.uid /\ r.old = t.old /\ r.restoring /\ r.todo = EnterThen(q)
    BY <1>7, <2>1 DEF Tasks
  <2>3. Form(r)
    BY <2>2 DEF Form
  <2> QED BY <1>1, <1>7, <2>2, <2>3 DEF Then, At1, Inside, Pending, Switches, r
<1>8. CASE ~t.restoring /\ t.name # "update" /\ ~Saved(t) /\ ~Appended(t) /\ t.name # "switch"
  <2>1. r = Idle
    BY <1>8 DEF Recovery
  <2> QED BY <1>8, <2>1, IdleOK DEF Form, At1, Pending, Switches, Idle, Appended
<1> QED BY <1>3, <1>4, <1>5, <1>6, <1>7, <1>8

LEMMA FailSettles == ASSUME SInv, NEW c \in Callers, Breaks(c) PROVE Formed' /\ Steady'
<1> DEFINE t == task[c]
           r == Recovery(t)
<1>1. t.todo # <<>> /\ t \in Tasks /\ t # Idle /\ c # None /\ t.uid \in Uids
  <2>1. t.todo # <<>>
    BY Breaking DEF SInv
  <2> QED BY <2>1, IdleOK, ProfileAssumption DEF SInv, IInv, TaskOK, StepOK
<1>2. /\ t.todo[1] \notin {"append", "publish", "enter"} /\ (At1(t, {"commit"}) => overtaken)
      /\ t.todo[1] \in Inside => permit = c
  BY Breaking DEF SInv
<1>3. /\ Form(r) /\ ~At1(r, Inside) /\ ~Pending(r) /\ ~Switches(r)
      /\ r = Idle \/ (r.name = t.name /\ r.uid = t.uid /\ r.restoring /\ r.old = t.old)
      /\ r # Idle /\ t.name \in {"update", "save"} => r.data = t.old
      /\ r # Idle /\ t.name = "create" => r.data = t.data
      /\ ~t.restoring /\ t.name = "create" /\ t.uid \in memory.items => r # Idle
  BY <1>1, RecoveryForm
<1>4. /\ task'[c] = r /\ Others(c)
      /\ excused \subseteq excused' /\ (t.restoring \/ t.name = "delete" => "index" \in excused')
      /\ "index" \in excused' => "core" \in excused'
      /\ permit' = (IF permit = c THEN None ELSE permit)
      /\ IF DropsDraft(t)
         THEN draft' = None /\ memory' = Restored(t) /\ overtaken' = (overtaken \/ ~SwitchSaves(t))
         ELSE UNCHANGED <<draft, memory, overtaken>>
      /\ copy' = copy
  <2>1. PICK reported \in {{}, {"core", "index"}} : GivesUp(c, reported)
    BY Breaking DEF SInv
  <2>2. "index" \in excused' => "core" \in excused'
    BY Breaking, <2>1 DEF SInv, Formed, GivesUp
  <2> QED BY <2>1, <2>2 DEF GivesUp, SInv, IInv, TaskOK, Others
<1> HIDE DEF r
<1>5. Formed'
  BY <1>1, <1>3, <1>4, FormedStep DEF SInv, Formed
<1>6. ASSUME "index" \notin excused'
      PROVE  /\ "index" \notin excused /\ memory' = memory /\ Rooted(memory)' /\ OnDisk'
             /\ permit' = None => Whole(memory)'
             /\ permit' \notin {None, c} => /\ UNCHANGED <<permit, overtaken, memory, saved, copy>>
                                            /\ \A v \in Uids : file'[v] # None <=> file[v] # None
             /\ saved' = saved /\ \A v \in Uids : file'[v] # None <=> file[v] # None
             /\ Mine(task[c])'
  <2>1. "index" \notin excused /\ ~t.restoring /\ t.name # "delete"
    BY <1>4, <1>6
  <2>2. /\ Apart /\ Rooted(memory) /\ OnDisk /\ Mine(t)
        /\ permit = None => Whole(memory)
        /\ permit # None => ~overtaken
    BY <2>1 DEF SInv, Steady
  <2>0. saved' = saved /\ (file' = file \/ Torn(c))
    BY <1>6, Breaking DEF SInv
  <2>13. \A v \in Uids : file'[v] # None <=> file[v] # None
    <3>1. CASE Torn(c)
      <4>1. PICK x \in Contents : file' = [file EXCEPT ![t.uid] = x]
        BY <3>1 DEF Torn
      <4>2. At1(t, {"write"}) /\ t.uid \in copy.items /\ permit = c
        BY <1>1, <1>2, <3>1 DEF Torn, At1, Inside
      <4>3. copy = memory /\ Whole(memory)
        BY <1>1, <2>1, <4>2 DEF SInv, Steady, Holds, At1
      <4>4. file[t.uid] # None /\ x # None /\ file \in [Uids -> Contents \cup {None}]
        BY <1>1, <4>2, <4>3, ProfileAssumption DEF Whole, SInv, IInv, StoreOK
      <4> QED BY <1>1, <4>1, <4>4
    <3> QED BY <2>0, <3>1
  <2>3. ~At1(t, {"commit"})
    BY <1>1, <1>2, <2>2 DEF At1, Inside
  <2>4. ~First(t) /\ ~At1(t, {"append"}) /\ ~At1(t, {"publish"})
    BY <1>1, <1>2, <2>3, FirstHead DEF At1
  <2>5. permit = c => Whole(memory)
    BY <2>1, <2>4, LeftWhole
  <2>6. DropsDraft(t) <=> Switches(t)
    BY DEF DropsDraft, Switches
  <2>7. memory' = memory
    <3>1. ASSUME Switches(t) PROVE Restored(t) = memory
      <4>1. t.old = memory.current /\ memory \in Index
        BY <2>2, <3>1 DEF Mine, SInv, IInv, StoreOK
      <4>2. [memory EXCEPT !.current = memory.current] = memory
        BY <4>1 DEF Index
      <4> QED BY <4>1, <4>2 DEF Restored
    <3> QED BY <1>4, <2>6, <3>1
  <2>8. Switches(t) => permit = None
    <3>1. ASSUME Switches(t) PROVE permit # c
      <4>1. Turn(t, t.todo[1], [t EXCEPT !.todo = Tail(t.todo)])
        BY <1>1, TurnOf DEF SInv
      <4>2. ~At1(t, Inside)
        BY <3>1, <4>1 DEF Turn, At1
      <4> QED BY <1>1, <4>2 DEF SInv, Formed
    <3> QED BY <2>2, <3>1, AloneInside DEF SInv
  <2>9. Unsaved(t) => Unsaved(t)'
    <3>1. Unsaved(t) => t.uid \in memory.items
      BY <2>1, <2>2, <2>4 DEF Unsaved, Mine
    <3> QED BY <1>3, <1>4, <2>1, <3>1 DEF Unsaved, Pending
  <2>10. OnDisk'
    BY <1>4, <2>0, <2>2, <2>3, <2>4, <2>7, <2>9, OnDiskStays DEF SInv
  <2>11. Mine(task[c])'
    <3>1. CASE r = Idle
      BY <1>4, <3>1, IdleMine
    <3>2. CASE r # Idle
      <4>1. r.name = t.name /\ r.uid = t.uid /\ r.restoring /\ r.old = t.old /\ ~Pending(r) /\ ~Switches(r)
        BY <1>3, <3>2
      <4>2. /\ t.name = "save" => file[t.uid] # None /\ r.data # None /\ t.old # None
            /\ t.name = "update" => t.old # None /\ r.data # None
            /\ t.name = "create" => r.data # None
        BY <1>3, <2>2, <3>2 DEF Mine
      <4> QED BY <1>1, <1>4, <2>13, <4>1, <4>2 DEF Mine, Pending, Switches
    <3> QED BY <3>1, <3>2
  <2>12. permit' \notin {None, c} => UNCHANGED <<permit, overtaken, memory, saved, copy>>
    BY <1>4, <2>0, <2>6, <2>7, <2>8
  <2> QED BY <1>4, <2>0, <2>13, <2>1, <2>2, <2>5, <2>7, <2>10, <2>11, <2>12 DEF Rooted, Whole
<1>7. draft' # draft => \A d \in Callers \ {c} : ~Switches(task[d])
  BY <1>4 DEF SInv, IInv, SwitchOK, Switches, DropsDraft
<1>8. Steady'
  <2>1. permit' # c
    BY <1>1, <1>4
  <2>2. task'[c] = Idle \/ (task'[c].name = t.name /\ task'[c].uid = t.uid)
    BY <1>3, <1>4
  <2> QED BY <1>1, <1>4, <1>6, <1>7, <2>1, <2>2, SteadyStep DEF SInv
<1> QED BY <1>5, <1>8

------------------------------------------------------------------------------
(* Commands, restarts, and the theorem. *)

LEMMA RestartSettles == ASSUME SInv, Restart PROVE Formed' /\ Steady'
<1>1. PICK index \in {saved} \cup {NoIndex : c \in {d \in Callers : At(d, "save") \/ At(d, "keep")}} :
         /\ memory' = index /\ saved' = index
         /\ file' = [u \in Uids |-> IF u \in index.items THEN file[u] ELSE None]
         /\ excused' = (excused \cap {"removal"})
                       \cup (IF \E u \in index.items \cup ({index.current} \ {None}) : file'[u] = None THEN {"core", "index"} ELSE {})
  BY DEF Restart
<1>2. index \in Index
  BY <1>1 DEF SInv, IInv, StoreOK, Index, NoIndex
<1>3. permit' = None /\ \A c \in Callers : task'[c] = Idle
  BY DEF Restart
<1>4. Formed'
  BY <1>1, <1>3 DEF Formed, Form
<1>5. ASSUME "index" \notin excused' PROVE Apart' /\ Rooted(memory)' /\ OnDisk' /\ Whole(memory)' /\ \A c \in Callers : Mine(task[c])'
  <2>1. \A u \in index.items \cup ({index.current} \ {None}) : file'[u] # None
    BY <1>1, <1>5
  <2>2. index.items \subseteq Uids /\ index.current \in Uids \cup {None}
    BY <1>2 DEF Index
  <2>3. \A v \in Uids : v \in index.items <=> file'[v] # None
    BY <1>1, <2>1, <2>2
  <2>4. index.current \in index.items \cup {None}
    BY <2>1, <2>2, <2>3
  <2> QED BY <1>1, <1>3, <2>3, <2>4, IdleMine DEF Apart, Rooted, OnDisk, Whole
<1>6. Steady'
  BY <1>3, <1>5 DEF Steady
<1> QED BY <1>4, <1>6

LEMMA BeginSettles ==
    ASSUME SInv, NEW c \in Callers, NEW t \in Tasks, Begin(c, t), Form(t), ~t.restoring,
           t.todo # <<>>, t.todo[1] \notin Inside \cup {"publish"},
           UNCHANGED <<memory, saved, file, permit, copy, overtaken>>,
           draft' # draft => \A d \in Callers \ {c} : ~Switches(task[d]),
           t.name = "create" => Pending(t),
           "index" \notin excused' => Mine(t)'
    PROVE  Formed' /\ Steady'
<1>1. /\ task[c] = Idle /\ task'[c] = t /\ Others(c)
      /\ excused' = excused \cup UNION {Excuses(t, task[d]) \cup Excuses(task[d], t) : d \in {d \in Callers \ {c} : task[d] # Idle}}
  BY DEF Begin, Others, SInv, IInv, TaskOK
<1>2. permit # c
  BY <1>1, IdleOK, ProfileAssumption DEF SInv, Formed, At1
<1>3. \A s1, s2 : "index" \in Excuses(s1, s2) => "core" \in Excuses(s1, s2)
  BY DEF Excuses
<1>4. Formed'
  <2>1. "index" \in excused' => "core" \in excused'
    <3>1. ASSUME NEW d \in Callers \ {c}, task[d] # Idle, "index" \in Excuses(t, task[d]) \cup Excuses(task[d], t)
          PROVE  "core" \in excused'
      <4>1. "core" \in Excuses(t, task[d]) \cup Excuses(task[d], t)
        BY <1>3, <3>1
      <4> QED BY <1>1, <3>1, <4>1
    <3> QED BY <1>1, <3>1 DEF SInv, Formed
  <2> QED BY <1>1, <1>2, <2>1, FormedStep DEF SInv, Formed
<1>5. ASSUME "index" \notin excused' PROVE Steady'
  <2>1. /\ "index" \notin excused
        /\ \A d \in Callers \ {c} : task[d] # Idle => "index" \notin Excuses(t, task[d]) /\ "index" \notin Excuses(task[d], t)
    BY <1>1, <1>5
  <2>2. \A d \in Callers \ {c} : task[d] # Idle =>
            /\ t.uid # task[d].uid
            /\ ~(t.name = "switch" /\ ChangesIndex(task[d])) /\ ~(task[d].name = "switch" /\ ChangesIndex(t))
    BY <2>1 DEF Excuses
  <2>3. /\ Apart /\ Rooted(memory) /\ OnDisk /\ (permit = None => Whole(memory))
        /\ permit # None => ~overtaken /\ Holds(task[permit])
        /\ \A d \in Callers : Mine(task[d])
    BY <2>1 DEF SInv, Steady
  <2>4. Apart'
    <3>1. ASSUME NEW d \in Callers, NEW e \in Callers, d # e, task'[d] # Idle, task'[e] # Idle
          PROVE  task'[d].uid # task'[e].uid /\ ~(task'[d].name = "switch" /\ ChangesIndex(task'[e]))
      <4>1. CASE d = c
        <5>1. task'[e] = task[e]
          BY <3>1, <4>1, <1>1 DEF Others
        <5> QED BY <1>1, <2>2, <3>1, <4>1, <5>1
      <4>2. CASE e = c
        <5>1. task'[d] = task[d]
          BY <3>1, <4>2, <1>1 DEF Others
        <5> QED BY <1>1, <2>2, <3>1, <4>2, <5>1
      <4>3. CASE d # c /\ e # c
        <5>1. task'[d] = task[d] /\ task'[e] = task[e]
          BY <4>3, <1>1 DEF Others
        <5> QED BY <2>3, <3>1, <5>1 DEF Apart
      <4> QED BY <4>1, <4>2, <4>3
    <3> QED BY <3>1 DEF Apart, ChangesIndex, Idle
  <2>5. OnDisk'
    <3>1. ~At1(task[c], {"publish"}) /\ ~Unsaved(task[c])
      BY <1>1, IdleOK DEF At1, Unsaved
    <3> QED BY <1>1, <1>2, <2>3, <3>1, OnDiskStays DEF SInv
  <2>6. permit' # None => ~overtaken' /\ Holds(task[permit])'
    <3>1. ASSUME permit # None PROVE Holds(task[permit])'
      <4>1. permit \in Callers \ {c} /\ task'[permit] = task[permit]
        BY <1>1, <1>2, <3>1 DEF Others, SInv, IInv, StoreOK
      <4>2. task'[permit'] = task[permit] /\ Holds(task[permit])
        BY <2>3, <3>1, <4>1
      <4> QED BY <4>2 DEF Holds, At1, First, Rooted, Whole
    <3> QED BY <2>3, <3>1
  <2>7. ASSUME NEW d \in Callers PROVE Mine(task[d])'
    <3>1. CASE d = c
      BY <1>1, <1>5, <3>1
    <3>2. CASE d # c
      <4>1. task'[d] = task[d] /\ Mine(task[d])
        BY <1>1, <2>3, <3>2 DEF Others
      <4>2. Switches(task[d]) => draft' = draft
        BY <3>2
      <4> QED BY <4>1, <4>2 DEF Mine, At1, Pending, Switches, First
    <3> QED BY <3>1, <3>2
  <2> QED BY <2>3, <2>4, <2>5, <2>6, <2>7 DEF Steady, Rooted, Whole
<1> QED BY <1>4, <1>5 DEF Steady

\* the lists the commands begin with, list by list
LEMMA FirstLists ==
    /\ \A q \in Ends : /\ Then(DownloadThen(q), "download", UpdateThen(q)) /\ Then(PutThen(q), "put", ValidateThen(q))
                       /\ (<<"download">> \o Modify(<<"write", "save">>)) \o q = DownloadThen(q)
                       /\ <<"put", "validate">> \o q = PutThen(q)
    /\ <<>> \in Ends /\ Reload \in Ends
    /\ Then(CreateNew, "enter", WriteNew) /\ Modify(<<"write", "append">>) \o SaveIndex = CreateNew
    /\ Then(DeleteThen(EnterThen(<<>>)), "enter", RemoveThen(EnterThen(<<>>)))
    /\ Modify(<<"remove", "save">>) \o SaveIndex = DeleteThen(EnterThen(<<>>))
    /\ Then(EnterThen(<<>>), "enter", SaveThen(<<>>)) /\ SaveIndex = EnterThen(<<>>)
    /\ Then(ReorderAll, "enter", ReorderNow) /\ Modify(<<"reorder">>) = ReorderAll
    /\ Then(SwitchAll, "generate", LoadKeep) /\ Reload \o <<"keep", "publish">> = SwitchAll
<1>1. <<>> \in Ends /\ Reload \in Ends /\ (\A q \in Ends : q \in Rests /\ q \in {<<>>, Reload}) /\ EnterThen(<<>>) \in Rests
  BY DEF Ends, Rests
<1>2. \A q \in Ends : Then(DownloadThen(q), "download", UpdateThen(q)) /\ Then(PutThen(q), "put", ValidateThen(q))
  BY <1>1, ThensHere
<1>3. /\ Then(CreateNew, "enter", WriteNew) /\ Then(ReorderAll, "enter", ReorderNow) /\ Then(SwitchAll, "generate", LoadKeep)
      /\ Then(DeleteThen(EnterThen(<<>>)), "enter", RemoveThen(EnterThen(<<>>)))
      /\ Then(EnterThen(<<>>), "enter", SaveThen(<<>>)) /\ Then(Reload, "generate", LoadLast)
  BY <1>1, ThensHere
<1>4. EnterThen(<<>>) \in Seq(Steps) /\ Reload \in Seq(Steps) /\ <<>> \in Seq(Steps)
  BY <1>3 DEF Then
<1>5. \A q \in Ends : /\ (<<"download">> \o Modify(<<"write", "save">>)) \o q = DownloadThen(q)
                      /\ <<"put", "validate">> \o q = PutThen(q)
  BY <1>1, <1>4, Beginnings
<1>6. /\ SaveIndex = EnterThen(<<>>) /\ Modify(<<"reorder">>) = ReorderAll
      /\ Modify(<<"write", "append">>) \o SaveIndex = CreateNew /\ Reload \o <<"keep", "publish">> = SwitchAll
  BY Beginnings
<1>7. Modify(<<"remove", "save">>) \o SaveIndex = DeleteThen(EnterThen(<<>>))
  BY <1>4, <1>6, Beginnings
<1> QED BY <1>1, <1>2, <1>3, <1>5, <1>6, <1>7

LEMMA Fields ==
    ASSUME NEW name \in {"update", "save", "create", "delete", "touch", "reorder", "switch"}, NEW s \in Seq(Steps), NEW u \in Uids,
           NEW data \in Contents \cup {None}, NEW old \in Contents \cup Uids \cup {None}
    PROVE  LET t == Task(name, s, u, data, old)
           IN t \in Tasks /\ t.name = name /\ t.todo = s /\ t.uid = u /\ t.data = data /\ t.old = old /\ ~t.restoring
BY DEF Task, Idle, Tasks

\* a command, by the list it begins with
LEMMA CommandBegins ==
    ASSUME SInv, NEW c \in Callers, NEW t \in Tasks, Begin(c, t), Form(t), ~t.restoring, NEW a, NEW q,
           Then(t.todo, a, q), a \in {"download", "put", "enter"}, t.name # "switch",
           UNCHANGED <<memory, draft, saved, file, permit, copy, overtaken>>,
           t.name \in {"save", "update"} => file[t.uid] # None /\ t.old # None,
           t.name \in {"save", "create"} => t.data # None,
           t.name = "update" => a = "download",
           t.name = "create" => Pending(t) /\ t.uid \notin memory.items
    PROVE  Formed' /\ Steady'
<1>1. t.todo # <<>> /\ t.todo[1] = a
  BY DEF Then
<1>2. Mine(t)'
  BY <1>1 DEF Mine, Pending, Switches, At1
<1> QED BY <1>1, <1>2, BeginSettles DEF Inside

LEMMA SwitchBegins ==
    ASSUME SInv, NEW c \in Callers, NEW t \in Tasks, Begin(c, t), Form(t), ~t.restoring, t.todo # <<>>, t.todo[1] = "generate",
           t.name = "switch", draft' = [memory EXCEPT !.current = t.uid], t.old = memory.current, t.uid \in memory.items,
           UNCHANGED <<memory, saved, file, permit, copy, overtaken>>, \A d \in Callers : task[d].name # "switch"
    PROVE  Formed' /\ Steady'
<1>1. Mine(t)'
  BY DEF Mine, Pending, At1
<1> QED BY <1>1, BeginSettles DEF Switches, Inside

LEMMA CommandSettles == ASSUME SInv, NEW c \in Callers, Command(c) PROVE Formed' /\ Steady'
<1>0. /\ memory \in Index /\ file \in [Uids -> Contents \cup {None}] /\ memory.items \subseteq created /\ memory.current \in Uids \cup {None}
      /\ \A s, a, r : Then(s, a, r) => s \in Seq(Steps)
  BY DEF SInv, IInv, StoreOK, CreatedOK, Then, Index
<1>1. ASSUME NEW u \in Uids, UpdateProfile(c, u) PROVE Formed' /\ Steady'
  <2> DEFINE q == IF u = Latest.current THEN Reload ELSE <<>>
             old == file[u]
  <2>1. /\ q \in Ends /\ Then(DownloadThen(q), "download", UpdateThen(q))
        /\ (<<"download">> \o Modify(<<"write", "save">>)) \o q = DownloadThen(q)
    BY FirstLists
  <2>2. old # None /\ old \in Contents
    BY <1>0, <1>1 DEF UpdateProfile
  <2>3. Begin(c, Task("update", (<<"download">> \o Modify(<<"write", "save">>)) \o q, u, None, old))
    BY <1>1 DEF UpdateProfile
  <2>4. UNCHANGED <<memory, draft, saved, file, permit, copy, overtaken>> /\ file[u] = old
    BY <1>1 DEF UpdateProfile, store, locks
  <2> HIDE DEF q, old
  <2> DEFINE t == Task("update", DownloadThen(q), u, None, old)
  <2>5. t \in Tasks /\ t.name = "update" /\ t.todo = DownloadThen(q) /\ t.uid = u /\ t.old = old /\ ~t.restoring
    <3>1. DownloadThen(q) \in Seq(Steps)
      BY <1>0, <2>1
    <3> QED BY <2>2, <3>1, Fields
  <2>6. Begin(c, t)
    BY <2>1, <2>3
  <2> HIDE DEF t
  <2>7. Form(t)
    BY <2>1, <2>5 DEF Form
  <2> QED BY <2>1, <2>2, <2>4, <2>5, <2>6, <2>7, CommandBegins
<1>2. ASSUME NEW u \in Uids, NEW x \in Contents, SaveProfileFile(c, u, x) PROVE Formed' /\ Steady'
  <2> DEFINE q == IF u = Latest.current THEN Reload ELSE <<>>
             old == file[u]
  <2>1. q \in Ends /\ Then(PutThen(q), "put", ValidateThen(q)) /\ <<"put", "validate">> \o q = PutThen(q)
    BY FirstLists
  <2>2. old # None /\ old \in Contents /\ x # None
    BY <1>0, <1>2, ProfileAssumption DEF SaveProfileFile
  <2>3. Begin(c, Task("save", <<"put", "validate">> \o q, u, x, old))
    BY <1>2 DEF SaveProfileFile
  <2>4. UNCHANGED <<memory, draft, saved, file, permit, copy, overtaken>> /\ file[u] = old
    BY <1>2 DEF SaveProfileFile, store, locks
  <2> HIDE DEF q, old
  <2> DEFINE t == Task("save", PutThen(q), u, x, old)
  <2>5. t \in Tasks /\ t.name = "save" /\ t.todo = PutThen(q) /\ t.uid = u /\ t.data = x /\ t.old = old /\ ~t.restoring
    BY <1>0, <2>1, <2>2, Fields
  <2>6. Begin(c, t)
    BY <2>1, <2>3
  <2> HIDE DEF t
  <2>7. Form(t)
    BY <2>1, <2>5 DEF Form
  <2> QED BY <2>1, <2>2, <2>4, <2>5, <2>6, <2>7, CommandBegins
<1>3. ASSUME NEW u \in Uids, NEW x \in Contents, CreateProfile(c, u, x) PROVE Formed' /\ Steady'
  <2> DEFINE t == Task("create", CreateNew, u, x, None)
  <2>1. Then(CreateNew, "enter", WriteNew) /\ Modify(<<"write", "append">>) \o SaveIndex = CreateNew
    BY FirstLists
  <2>2. t \in Tasks /\ t.name = "create" /\ t.todo = CreateNew /\ t.uid = u /\ t.data = x /\ ~t.restoring
    <3>1. CreateNew \in Seq(Steps)
      BY <1>0, <2>1
    <3> QED BY <3>1, Fields
  <2>3. Begin(c, t) /\ UNCHANGED <<memory, draft, saved, file, permit, copy, overtaken>> /\ u \notin memory.items /\ x # None
    BY <1>0, <1>3, <2>1, ProfileAssumption DEF CreateProfile, store, locks
  <2> HIDE DEF t
  <2>4. Form(t) /\ Pending(t)
    BY <2>2, PendingLists DEF Form, Pending, Has
  <2> QED BY <2>1, <2>2, <2>3, <2>4, CommandBegins
<1>4. ASSUME NEW u \in Uids, DeleteProfile(c, u) PROVE Formed' /\ Steady'
  <2> DEFINE t == Task("delete", DeleteThen(EnterThen(<<>>)), u, None, None)
  <2>1. /\ Then(DeleteThen(EnterThen(<<>>)), "enter", RemoveThen(EnterThen(<<>>)))
        /\ Modify(<<"remove", "save">>) \o SaveIndex = DeleteThen(EnterThen(<<>>))
    BY FirstLists
  <2>2. t \in Tasks /\ t.name = "delete" /\ t.todo = DeleteThen(EnterThen(<<>>)) /\ t.uid = u /\ ~t.restoring
    <3>1. DeleteThen(EnterThen(<<>>)) \in Seq(Steps)
      BY <1>0, <2>1
    <3> QED BY <3>1, Fields
  <2>3. Begin(c, t) /\ UNCHANGED <<memory, draft, saved, file, permit, copy, overtaken>>
    BY <1>4, <2>1 DEF DeleteProfile, store, locks
  <2> HIDE DEF t
  <2>4. Form(t)
    BY <2>2 DEF Form
  <2> QED BY <2>1, <2>2, <2>3, <2>4, CommandBegins
<1>5. ASSUME NEW u \in Uids, PatchProfile(c, u) PROVE Formed' /\ Steady'
  <2> DEFINE t == Task("touch", EnterThen(<<>>), u, None, None)
  <2>1. Then(EnterThen(<<>>), "enter", SaveThen(<<>>)) /\ SaveIndex = EnterThen(<<>>)
    BY FirstLists
  <2>2. t \in Tasks /\ t.name = "touch" /\ t.todo = EnterThen(<<>>) /\ t.uid = u /\ ~t.restoring
    <3>1. EnterThen(<<>>) \in Seq(Steps)
      BY <1>0, <2>1
    <3> QED BY <3>1 DEF Task, Idle, Tasks
  <2>3. Begin(c, t) /\ UNCHANGED <<memory, draft, saved, file, permit, copy, overtaken>>
    BY <1>5, <2>1 DEF PatchProfile, store, locks
  <2> HIDE DEF t
  <2>4. Form(t)
    BY <2>2 DEF Form
  <2> QED BY <2>1, <2>2, <2>3, <2>4, CommandBegins
<1>6. ASSUME NEW u \in Uids, ReorderProfile(c, u) PROVE Formed' /\ Steady'
  <2> DEFINE t == Task("reorder", ReorderAll, u, None, None)
  <2>1. Then(ReorderAll, "enter", ReorderNow) /\ Modify(<<"reorder">>) = ReorderAll
    BY FirstLists
  <2>2. t \in Tasks /\ t.name = "reorder" /\ t.todo = ReorderAll /\ t.uid = u /\ ~t.restoring
    <3>1. ReorderAll \in Seq(Steps)
      BY <1>0, <2>1
    <3> QED BY <3>1, Fields
  <2>3. Begin(c, t) /\ UNCHANGED <<memory, draft, saved, file, permit, copy, overtaken>>
    BY <1>6, <2>1 DEF ReorderProfile, store, locks
  <2> HIDE DEF t
  <2>4. Form(t)
    BY <2>2 DEF Form
  <2> QED BY <2>1, <2>2, <2>3, <2>4, CommandBegins
<1>7. ASSUME NEW u \in Uids, PatchProfilesConfig(c, u) PROVE Formed' /\ Steady'
  <2> DEFINE old == memory.current
  <2>1. Then(SwitchAll, "generate", LoadKeep) /\ Reload \o <<"keep", "publish">> = SwitchAll /\ old \in Contents \cup Uids \cup {None}
    BY <1>0, FirstLists
  <2>2. /\ Begin(c, Task("switch", SwitchAll, u, None, old)) /\ u \in memory.items
        /\ draft' = [memory EXCEPT !.current = u] /\ \A d \in Callers : task[d].name # "switch"
        /\ UNCHANGED <<memory, saved, file, permit, copy, overtaken>> /\ old = memory.current
    BY <1>7, <2>1 DEF PatchProfilesConfig, locks
  <2> HIDE DEF old
  <2> DEFINE t == Task("switch", SwitchAll, u, None, old)
  <2>3. t \in Tasks /\ t.name = "switch" /\ t.todo = SwitchAll /\ t.uid = u /\ t.old = old /\ ~t.restoring
    <3>1. SwitchAll \in Seq(Steps)
      BY <1>0, <2>1
    <3> QED BY <2>1, <3>1, Fields
  <2>4. Begin(c, t)
    BY <2>2
  <2> HIDE DEF t
  <2>5. Form(t) /\ t.todo # <<>> /\ t.todo[1] = "generate"
    BY <2>1, <2>3 DEF Form, Then
  <2> QED BY <2>2, <2>3, <2>4, <2>5, SwitchBegins
<1> QED BY <1>1, <1>2, <1>3, <1>4, <1>5, <1>6, <1>7 DEF Command

LEMMA InitiallySettled == ASSUME Init PROVE SInv
<1>1. IInv
  BY Initially
<1>2. PICK items \in (SUBSET Uids) \ {{}} : \E u \in items, content \in [items -> Contents] :
         /\ memory = [items |-> items, current |-> u]
         /\ file = [v \in Uids |-> IF v \in items THEN content[v] ELSE None]
  BY DEF Init
<1>3. PICK u \in items, content \in [items -> Contents] :
         /\ memory = [items |-> items, current |-> u]
         /\ file = [v \in Uids |-> IF v \in items THEN content[v] ELSE None]
  BY <1>2
<1>4. saved = memory /\ permit = None /\ excused = {} /\ \A c \in Callers : task[c] = Idle
  BY DEF Init
<1>5. Whole(memory) /\ Rooted(memory)
  BY <1>3, ProfileAssumption DEF Whole, Rooted
<1>6. Formed /\ Steady
  BY <1>4, <1>5, IdleMine DEF Formed, Form, Steady, Apart, OnDisk
<1> QED BY <1>1, <1>6 DEF SInv

LEMMA UnchangedSettled == ASSUME SInv, UNCHANGED vars PROVE Formed' /\ Steady'
<1>1. /\ UNCHANGED <<memory, draft, saved, file, permit, copy, overtaken, task, excused>>
  BY DEF vars, store, locks, history
<1>2. Formed'
  <2>1. \A c \in Callers : task'[c] = task[c]
    BY <1>1
  <2>2. permit # None => At1(task[permit], Inside)'
    BY <1>1 DEF SInv, Formed, At1
  <2> QED BY <1>1, <2>1, <2>2 DEF SInv, Formed
<1>3. (Apart <=> Apart') /\ (Rooted(memory) <=> Rooted(memory)') /\ (OnDisk <=> OnDisk') /\ (Whole(memory) <=> Whole(memory)')
  BY <1>1 DEF Apart, Rooted, OnDisk, Whole, ChangesIndex, Unsaved, Pending, At1, Idle
<1>4. permit # None => (Holds(task[permit]) <=> Holds(task[permit])')
  BY <1>1 DEF Holds, At1, First, Rooted, Whole
<1>5. \A c \in Callers : Mine(task[c]) <=> Mine(task[c])'
  BY <1>1 DEF Mine, At1, Pending, Switches, First
<1> QED BY <1>1, <1>2, <1>3, <1>4, <1>5 DEF SInv, Steady

LEMMA StepSettles == ASSUME SInv, NEW c \in Callers, Step(c) PROVE Formed' /\ Steady'
<1>1. CASE \E x \in Contents : Download(c, x)
  BY <1>1, DownloadSettles
<1>2. CASE Enter(c) \/ WriteFile(c) \/ AppendItem(c) \/ DeleteItem(c) \/ Reorder(c) \/ SaveFile(c) \/ Commit(c)
  BY <1>2, EnterSettles, WriteSettles, AppendSettles, DeleteSettles, ReorderSettles, SaveSettles, CommitSettles
<1>3. CASE Put(c) \/ Validate(c) \/ Generate(c) \/ Load(c) \/ Again(c) \/ Keep(c) \/ Publish(c) \/ Breaks(c)
  BY <1>3, PutSettles, ValidateSettles, GenerateSettles, LoadSettles, AgainSettles, KeepSettles, PublishSettles, FailSettles
<1> QED BY <1>1, <1>2, <1>3 DEF Step, Breaks

\* The second inductive invariant holds in every reachable state.
THEOREM Settling == Spec => []SInv
<1>1. Init => SInv
  BY InitiallySettled
<1>2. SInv /\ [Next]_vars => SInv'
  <2>1. ASSUME SInv, Next PROVE SInv'
    <3>0. IInv
      BY <2>1 DEF SInv
    <3>1. CASE Restart
      BY <2>1, <3>0, <3>1, RestartStep, RestartSettles DEF SInv
    <3>2. ASSUME NEW c \in Callers, Command(c) \/ Step(c) \/ TimeOut(c) PROVE SInv'
      <4>1. IInv'
        BY <3>0, <3>2, CommandStep, StepKeeps, TimeOutStep
      <4>2. Formed' /\ Steady'
        BY <2>1, <3>2, CommandSettles, StepSettles, TimeOutSettles
      <4> QED BY <4>1, <4>2 DEF SInv
    <3> QED BY <2>1, <3>1, <3>2 DEF Next
  <2>2. ASSUME SInv, UNCHANGED vars PROVE SInv'
    BY <2>2, Unchanged, UnchangedSettled DEF SInv
  <2> QED BY <2>1, <2>2
<1> QED BY <1>1, <1>2, PTL DEF Spec

\* Whenever no task is under way, the index on disk is the one in memory, no
\* switch left its draft behind, and exactly the profiles of the index have a
\* file, whatever failed, timed out or was restarted before and in whatever
\* order the tasks crossed, unless one of the crossings of the code that the
\* model excuses (a change beside a switch, two tasks over one profile, a
\* reader whose copy was overtaken, a recovery that failed too) came first.
THEOREM Settled == Spec => []IndexSettles
<1>1. SInv => IndexSettles
  <2>1. ASSUME SInv, Quiet, "index" \notin excused PROVE saved = memory /\ draft = None /\ Whole(memory)
    <3>1. \A c \in Callers : task[c] = Idle
      BY <2>1 DEF Quiet
    <3>2. permit = None
      BY <2>1, <3>1, IdleOK DEF SInv, Formed, IInv, StoreOK, At1
    <3>3. draft = None
      BY <2>1, <3>1, IdleOK DEF SInv, IInv, SwitchOK, Switches
    <3>4. OnDisk /\ Whole(memory)
      BY <2>1, <3>2 DEF SInv, Steady
    <3>5. saved = memory
      BY <3>1, <3>2, <3>4, IdleOK DEF OnDisk, Unsaved, At1
    <3> QED BY <3>3, <3>4, <3>5
  <2> QED BY <2>1 DEF IndexSettles, Whole
<1> QED BY <1>1, Settling, PTL

------------------------------------------------------------------------------
(* The core runs the file: the inductive invariant.                          *)

\* an index without a current profile is empty
Headed(ix) == ix.current = None => ix.items = {}
Heads == Headed(memory) /\ Headed(saved) /\ (draft # None => Headed(draft)) /\ (copy # None => Headed(copy))

\* a switch or a removal runs beside no other task
Lone(t) == t.name \in {"switch", "delete"}
Alone == \A c, d \in Callers : c # d /\ task[c] # Idle /\ task[d] # Idle => ~Lone(task[c])

\* what a generation finds, and whether the core runs what it should
Wanted == IF Latest.current = None THEN NoProfile ELSE Configuration(Latest.current)
CoreOK == core = NoProfile \/ (memory.current # None /\ core = Configuration(memory.current))

\* a task over the current profile loads it before it ends, or restores what the core runs
Sure(t) == Loads(t) \/ Has(t.todo, "again") \/ (t.name = "save" /\ t.restoring)

\* what a task relies on about the core
CoreMine(t) ==
    /\ t.name \in {"update", "save"} => /\ t.uid \in memory.items
                                        /\ Loads(t) => t.uid = memory.current
                                        /\ t.uid = memory.current => Sure(t)
    /\ t.name = "save" /\ t.uid = memory.current => core \in {NoProfile, [uid |-> t.uid, content |-> t.old]}
    /\ t.name = "save" /\ t.restoring => t.data = t.old
    /\ t.name = "save" /\ ~t.restoring /\ At1(t, {"put"}) => file[t.uid] = t.old
    /\ At1(t, {"load"}) => t.read = Wanted
    /\ At1(t, {"keep", "publish"}) => core = Configuration(t.uid)

\* a task that makes the core run the current profile again
Owes(t) ==
    \/ t.name \in {"update", "save"} /\ t.uid = memory.current
    \/ t.name = "delete" /\ Loads(t)
    \/ t.name = "switch" /\ t.restoring /\ Loads(t)
    \/ At1(t, {"keep", "publish"})

\* the copy has another current profile only if the task reloads, or the first one
CoreHeld(t) == copy.current = memory.current \/ (t.name = "delete" /\ Loads(t)) \/ (t.name = "create" /\ memory.current = None)

Running ==
    "core" \notin excused =>
        /\ Alone /\ \A c \in Callers : CoreMine(task[c])
        /\ permit # None => CoreHeld(task[permit])
        /\ CoreOK \/ \E c \in Callers : Owes(task[c])

RInv == SInv /\ Heads /\ Running

\* which lists load
LEMMA LoadLists ==
    /\ \A s, a, r : Then(s, a, r) => /\ Has(s, "load") <=> a = "load" \/ Has(r, "load")
                                     /\ Has(s, "again") <=> a = "again" \/ Has(r, "again")
    /\ ~Has(<<>>, "load") /\ ~Has(<<>>, "again")
    /\ Has(LoadLast, "load") /\ Has(Reload, "load") /\ ~Has(AgainLast, "load") /\ Has(AgainLast, "again") /\ ~Has(PutLast, "load")
    /\ ~Has(EnterThen(<<>>), "load") /\ Has(EnterThen(Reload), "load")
    /\ Has(SwitchAll, "load") /\ Has(LoadKeep, "load") /\ ~Has(KeepLast, "load") /\ ~Has(PublishLast, "load")
<1>1. "load" \in Steps /\ "again" \in Steps
  BY DEF Steps
<1>2. \A s, a, r : Then(s, a, r) => /\ Has(s, "load") <=> a = "load" \/ Has(r, "load")
                                    /\ Has(s, "again") <=> a = "again" \/ Has(r, "again")
  <2>1. \A s, a, r : Then(s, a, r) => Has(s, "load") <=> a = "load" \/ Has(r, "load")
    BY <1>1 DEF Then
  <2>2. \A s, a, r : Then(s, a, r) => Has(s, "again") <=> a = "again" \/ Has(r, "again")
    BY <1>1 DEF Then
  <2> QED BY <2>1, <2>2
<1>3. ~Has(<<>>, "load") /\ ~Has(<<>>, "again")
  BY DEF Has
<1>4. /\ Then(LoadLast, "load", <<>>) /\ Then(Reload, "generate", LoadLast) /\ Then(AgainLast, "again", <<>>)
      /\ Then(PutLast, "put", <<>>) /\ Then(SwitchAll, "generate", LoadKeep) /\ Then(LoadKeep, "load", KeepLast)
      /\ Then(KeepLast, "keep", PublishLast) /\ Then(PublishLast, "publish", <<>>)
  BY ThensHere
<1>5. \A r \in {<<>>, Reload} : /\ Then(EnterThen(r), "enter", SaveThen(r)) /\ Then(SaveThen(r), "save", CommitThen(r))
                               /\ Then(CommitThen(r), "commit", r)
  BY ThensHere
<1>6. /\ Has(LoadLast, "load") /\ Has(Reload, "load") /\ ~Has(AgainLast, "load") /\ Has(AgainLast, "again") /\ ~Has(PutLast, "load")
  BY <1>2, <1>3, <1>4
<1>7. Has(SwitchAll, "load") /\ Has(LoadKeep, "load") /\ ~Has(KeepLast, "load") /\ ~Has(PublishLast, "load")
  BY <1>2, <1>3, <1>4
<1>8. \A r \in {<<>>, Reload} : Has(EnterThen(r), "load") <=> Has(r, "load")
  BY <1>2, <1>5
<1> QED BY <1>2, <1>3, <1>6, <1>7, <1>8

\* who loads
LEMMA Loaders ==
    ASSUME NEW t \in Tasks, Form(t), t.todo # <<>>
    PROVE  /\ t.name = "touch" \/ t.name = "reorder" => ~Loads(t)
           /\ t.name = "create" => ~Loads(t)
           /\ At1(t, {"load", "generate"}) => Loads(t)
           /\ At1(t, {"load", "keep", "publish"}) => t.name \in {"update", "save", "delete", "switch"}
           /\ At1(t, {"keep", "publish"}) => t.name = "switch"
           /\ t.name = "save" /\ t.restoring => t.todo = PutLast
<1> DEFINE a == t.todo[1]
           u == [t EXCEPT !.todo = Tail(t.todo)]
<1>1. t.todo \in Seq(Steps) /\ u.name = t.name /\ u.restoring = t.restoring /\ u.todo = Tail(t.todo)
  BY DEF Tasks
<1>2. Then(t.todo, a, u.todo)
  BY <1>1, Split
<1> HIDE DEF u
<1>3. Turn(t, a, u)
  BY <1>1, Turns
<1>4. a = "generate" => Loads(u)
  <2>1. ASSUME At1(u, {"load"}), u.todo \in Seq(Steps) PROVE Loads(u)
    <3>1. 1 \in 1 .. Len(u.todo) /\ u.todo[1] = "load"
      BY <2>1 DEF At1
    <3> QED BY <3>1 DEF Loads, Has
  <2> QED BY <1>1, <1>3, <2>1 DEF Turn
<1>5. At1(t, {"load", "generate"}) => Loads(t)
  BY <1>2, <1>4, LoadLists DEF At1, Loads
<1>6. At1(t, {"keep", "publish"}) => t.name = "switch"
  BY <1>3 DEF Turn, At1, Switches
<1>7. t.name = "create" => ~Loads(t)
  <2>1. SUFFICES ASSUME t.name = "create" PROVE ~Loads(t)
    OBVIOUS
  <2>2. t.todo \in {CreateNew, WriteNew, AppendNew, CommitThen(EnterThen(<<>>)), EnterThen(<<>>), SaveThen(<<>>), CommitThen(<<>>),
                    DeleteThen(<<>>), RemoveThen(<<>>)}
    BY <2>1, IdleOK DEF Form
  <2>3. /\ Then(CreateNew, "enter", WriteNew) /\ Then(WriteNew, "write", AppendNew)
        /\ Then(AppendNew, "append", CommitThen(EnterThen(<<>>)))
        /\ Then(CommitThen(EnterThen(<<>>)), "commit", EnterThen(<<>>)) /\ Then(EnterThen(<<>>), "enter", SaveThen(<<>>))
        /\ Then(SaveThen(<<>>), "save", CommitThen(<<>>)) /\ Then(CommitThen(<<>>), "commit", <<>>)
        /\ Then(DeleteThen(<<>>), "enter", RemoveThen(<<>>)) /\ Then(RemoveThen(<<>>), "remove", SaveThen(<<>>))
    BY ThensHere DEF Rests
  <2>4. /\ ~Has(CommitThen(<<>>), "load") /\ ~Has(SaveThen(<<>>), "load") /\ ~Has(EnterThen(<<>>), "load")
        /\ ~Has(CommitThen(EnterThen(<<>>)), "load")
    BY <2>3, LoadLists
  <2>5. /\ ~Has(AppendNew, "load") /\ ~Has(WriteNew, "load") /\ ~Has(CreateNew, "load")
        /\ ~Has(RemoveThen(<<>>), "load") /\ ~Has(DeleteThen(<<>>), "load")
    BY <2>3, <2>4, LoadLists
  <2> QED BY <2>2, <2>4, <2>5 DEF Loads
<1>8. t.name = "touch" \/ t.name = "reorder" => ~Loads(t)
  <2>1. SUFFICES ASSUME t.name = "touch" \/ t.name = "reorder" PROVE ~Loads(t)
    OBVIOUS
  <2>2. t.todo \in {EnterThen(<<>>), SaveThen(<<>>), CommitThen(<<>>), ReorderAll, ReorderNow}
    BY <2>1, IdleOK DEF Form
  <2>3. /\ Then(EnterThen(<<>>), "enter", SaveThen(<<>>))
        /\ Then(SaveThen(<<>>), "save", CommitThen(<<>>)) /\ Then(CommitThen(<<>>), "commit", <<>>)
        /\ Then(ReorderAll, "enter", ReorderNow) /\ Then(ReorderNow, "reorder", CommitThen(<<>>))
    BY ThensHere
  <2>4. ~Has(CommitThen(<<>>), "load") /\ ~Has(SaveThen(<<>>), "load") /\ ~Has(EnterThen(<<>>), "load")
    BY <2>3, LoadLists
  <2>5. ~Has(ReorderNow, "load") /\ ~Has(ReorderAll, "load")
    BY <2>3, <2>4, LoadLists
  <2> QED BY <2>2, <2>4, <2>5 DEF Loads
<1>9. At1(t, {"load", "keep", "publish"}) => t.name \in {"update", "save", "delete", "switch"}
  BY <1>5, <1>6, <1>7, <1>8, Named, IdleOK DEF At1
<1>10. t.name = "save" /\ t.restoring => t.todo = PutLast
  BY IdleOK DEF Form
<1> QED BY <1>5, <1>6, <1>7, <1>8, <1>9, <1>10

------------------------------------------------------------------------------
(* A step of one task, and what the others rely on about the core.           *)

LEMMA IdleRuns == CoreMine(Idle)' /\ ~Owes(Idle)' /\ ~Owes(Idle) /\ ~Lone(Idle)
BY DEF CoreMine, Owes, Lone, Idle, At1

LEMMA OtherRuns ==
    ASSUME NEW d \in Callers, task'[d] = task[d], CoreMine(task[d]), file'[task[d].uid] = file[task[d].uid],
           task[d].uid \in memory'.items <=> task[d].uid \in memory.items,
           task[d].name \in {"update", "save"} => memory'.current = memory.current /\ (task[d].uid = memory.current => core' = core),
           ~At1(task[d], {"keep", "publish"}), At1(task[d], {"load"}) => task[d].read = Wanted'
    PROVE  CoreMine(task[d])'
<1>1. /\ (Loads(task[d]) <=> Loads(task[d])') /\ (Sure(task[d]) <=> Sure(task[d])')
      /\ \A S : At1(task[d], S) <=> At1(task'[d], S)
  BY DEF Sure, Loads, At1
<1> QED BY <1>1 DEF CoreMine, At1

LEMMA RunningStep ==
    ASSUME SInv, Running, NEW c \in Callers, Others(c), task[c] # Idle,
           task'[c] = Idle \/ (task'[c].name = task[c].name /\ task'[c].uid = task[c].uid),
           "core" \notin excused' =>
              /\ "core" \notin excused
              /\ \A v \in Uids \ {task[c].uid} : file'[v] = file[v] /\ (v \in memory'.items <=> v \in memory.items)
              /\ memory'.current = memory.current \/ memory.items = {} \/ Lone(task[c])
              /\ draft' = draft \/ Lone(task[c])
              /\ core' = core \/ At1(task[c], {"load"})
              /\ permit' \notin {None, c} => UNCHANGED <<permit, copy, memory>>
              /\ CoreMine(task[c])'
              /\ permit' = c => CoreHeld(task[c])'
              /\ CoreOK \/ Owes(task[c]) => CoreOK' \/ Owes(task[c])'
    PROVE  Running'
<1> SUFFICES ASSUME "core" \notin excused' PROVE Running'
  BY DEF Running
<1>1. /\ Alone /\ \A d \in Callers : CoreMine(task[d])
      /\ permit # None => CoreHeld(task[permit])
      /\ CoreOK \/ \E d \in Callers : Owes(task[d])
  BY DEF Running
<1>2. "index" \notin excused
  BY DEF SInv, Formed
<1>3. Apart /\ Rooted(memory)
  BY <1>2 DEF SInv, Steady
<1>4. Alone'
  <2>1. \A d \in Callers \ {c} : task'[d] = task[d]
    BY DEF Others
  <2>2. ASSUME NEW d \in Callers, NEW e \in Callers, d # e, task'[d] # Idle, task'[e] # Idle PROVE ~Lone(task'[d])
    <3>1. task[d] # Idle /\ task[e] # Idle /\ task'[d].name = task[d].name
      BY <2>1, <2>2
    <3> QED BY <1>1, <2>2, <3>1 DEF Alone, Lone
  <2> QED BY <2>2 DEF Alone, Lone, Idle
<1>5. ASSUME NEW d \in Callers \ {c}, task[d] # Idle
      PROVE  /\ task'[d] = task[d] /\ ~Lone(task[c]) /\ ~Lone(task[d]) /\ draft = None /\ draft' = None
             /\ task[d].todo # <<>> /\ task[d] \in Tasks /\ Form(task[d]) /\ task[d].uid \in Uids \ {task[c].uid}
             /\ CoreMine(task[d])
             /\ task[d].name \in {"update", "save"} => /\ memory'.current = memory.current
                                                       /\ task[d].uid = memory.current => core' = core
  <2>1. task'[d] = task[d] /\ ~Lone(task[c]) /\ ~Lone(task[d]) /\ task[d].uid # task[c].uid
    BY <1>1, <1>3, <1>5 DEF Others, Alone, Apart
  <2>2. draft = None
    <3>1. ASSUME draft # None PROVE FALSE
      <4>1. PICK e \in Callers : Switches(task[e])
        BY <3>1 DEF SInv, IInv, SwitchOK
      <4>2. Lone(task[e]) /\ task[e] # Idle
        BY <4>1, IdleOK DEF Switches, Lone
      <4> QED BY <1>1, <1>5, <2>1, <4>2 DEF Alone
    <3> QED BY <3>1
  <2>3. task[d].todo # <<>> /\ task[d] \in Tasks /\ Form(task[d]) /\ task[d].uid \in Uids /\ CoreMine(task[d])
    BY <1>1, <1>5, NotIdle DEF SInv, Formed, IInv, TaskOK
  <2>4. ASSUME task[d].name \in {"update", "save"}
        PROVE  memory'.current = memory.current /\ (task[d].uid = memory.current => core' = core)
    <3>1. task[d].uid \in memory.items
      BY <2>3, <2>4 DEF CoreMine
    <3>2. memory'.current = memory.current
      BY <2>1, <3>1
    <3>3. ASSUME At1(task[c], {"load"}) PROVE task[c].uid = memory.current
      <4>1. task[c].todo # <<>> /\ task[c] \in Tasks /\ Form(task[c]) /\ CoreMine(task[c])
        BY <1>1, NotIdle DEF SInv, Formed, IInv, TaskOK
      <4>2. Loads(task[c]) /\ task[c].name \in {"update", "save", "delete", "switch"}
        BY <3>3, <4>1, Loaders DEF At1
      <4> QED BY <2>1, <4>1, <4>2 DEF CoreMine, Lone
    <3> QED BY <2>1, <3>2, <3>3
  <2> QED BY <2>1, <2>2, <2>3, <2>4
<1>6. ASSUME NEW d \in Callers PROVE CoreMine(task[d])'
  <2>1. CASE d = c
    BY <2>1
  <2>2. CASE d # c /\ task[d] = Idle
    BY <2>2, IdleRuns DEF Others
  <2>3. CASE d # c /\ task[d] # Idle
    <3> DEFINE t == task[d]
    <3>1. /\ task'[d] = t /\ ~Lone(t) /\ draft = None /\ draft' = None /\ t.todo # <<>> /\ t \in Tasks /\ Form(t)
          /\ t.uid \in Uids \ {task[c].uid} /\ CoreMine(t)
          /\ t.name \in {"update", "save"} => memory'.current = memory.current /\ (t.uid = memory.current => core' = core)
      BY <1>5, <2>3
    <3>2. file'[t.uid] = file[t.uid] /\ (t.uid \in memory'.items <=> t.uid \in memory.items)
      BY <3>1
    <3>3. ~At1(t, {"keep", "publish"}) /\ (At1(t, {"load"}) => t.name \in {"update", "save"} /\ Loads(t))
      BY <3>1, Loaders DEF Lone, At1
    <3>4. At1(t, {"load"}) => t.uid = memory.current /\ t.read = Wanted'
      <4>1. SUFFICES ASSUME At1(t, {"load"}) PROVE t.uid = memory.current /\ t.read = Wanted'
        OBVIOUS
      <4>2. t.uid = memory.current /\ memory'.current = memory.current /\ t.read = Wanted
        BY <3>1, <3>3, <4>1 DEF CoreMine
      <4> QED BY <3>1, <3>2, <4>2 DEF Wanted, Latest, Configuration
    <3> QED BY <3>1, <3>2, <3>3, <3>4, OtherRuns
  <2> QED BY <2>1, <2>2, <2>3
<1>7. ASSUME permit' # None PROVE CoreHeld(task[permit])'
  <2>1. CASE permit' = c
    BY <2>1
  <2>2. CASE permit' # c
    <3>1. permit' = permit /\ copy' = copy /\ memory' = memory
      BY <1>7, <2>2
    <3>2. permit \in Callers \ {c} /\ task'[permit] = task[permit] /\ CoreHeld(task[permit])
      BY <1>1, <1>7, <2>2, <3>1 DEF SInv, IInv, StoreOK, Others
    <3> QED BY <3>1, <3>2 DEF CoreHeld, Loads
  <2> QED BY <2>1, <2>2
<1>8. CoreOK' \/ \E d \in Callers : Owes(task[d])'
  <2>1. CASE CoreOK \/ Owes(task[c])
    BY <2>1
  <2>2. ASSUME NEW d \in Callers \ {c}, Owes(task[d]) PROVE Owes(task[d])'
    <3>1. task[d] # Idle
      BY <2>2, IdleRuns
    <3>2. /\ task'[d] = task[d] /\ ~Lone(task[d]) /\ task[d].todo # <<>> /\ task[d] \in Tasks /\ Form(task[d])
          /\ task[d].name \in {"update", "save"} => memory'.current = memory.current
      BY <1>5, <3>1
    <3>3. ~At1(task[d], {"keep", "publish"})
      BY <3>2, Loaders DEF Lone, At1
    <3> QED BY <2>2, <3>2, <3>3 DEF Owes, Lone
  <2> QED BY <1>1, <2>1, <2>2
<1> QED BY <1>4, <1>6, <1>7, <1>8 DEF Running

\* a task goes on to its next step u
LEMMA Going ==
    ASSUME SInv, NEW c \in Callers, NEW a, At(c, a), NEW u, Becomes(c, u), u.todo = Tail(task[c].todo),
           u.name = task[c].name, u.uid = task[c].uid, u.restoring = task[c].restoring
    PROVE  LET t == task[c]
           IN /\ Others(c) /\ task'[c] = (IF u.todo = <<>> THEN Idle ELSE u) /\ Turn(t, a, u)
              /\ t.todo # <<>> /\ t.todo[1] = a /\ t # Idle /\ t.uid \in Uids /\ c # None /\ t \in Tasks /\ Form(t)
              /\ a \in Inside <=> permit = c
              /\ \A S : At1(t, S) <=> a \in S
              /\ a # "load" => (Loads(u) <=> Loads(t))
              /\ a # "again" => (Has(u.todo, "again") <=> Has(t.todo, "again"))
              /\ u.todo = <<>> => ~Loads(u) /\ ~Has(u.todo, "again")
<1> DEFINE t == task[c]
<1>1. /\ Others(c) /\ task'[c] = (IF u.todo = <<>> THEN Idle ELSE u) /\ Turn(t, a, u)
      /\ t.todo # <<>> /\ t.todo[1] = a /\ t # Idle /\ t.uid \in Uids /\ c # None
      /\ (a \in Inside <=> permit = c) /\ \A S : At1(t, S) <=> a \in S
  BY Passed DEF SInv
<1>2. t \in Tasks /\ Form(t)
  BY DEF SInv, IInv, TaskOK, Formed
<1>3. Then(t.todo, a, u.todo)
  <2>1. t.todo \in Seq(Steps)
    BY <1>2 DEF Tasks
  <2> QED BY <1>1, <2>1, Split
<1>4. a # "load" => (Loads(u) <=> Loads(t))
  BY <1>3, LoadLists DEF Loads
<1>5. a # "again" => (Has(u.todo, "again") <=> Has(t.todo, "again"))
  BY <1>3, LoadLists
<1>6. u.todo = <<>> => ~Loads(u) /\ ~Has(u.todo, "again")
  BY LoadLists DEF Loads
<1> QED BY <1>1, <1>2, <1>4, <1>5, <1>6

LEMMA CoreStays ==
    ASSUME SInv, CoreOK, memory'.current = memory.current, core' = core,
           memory.current # None => file'[memory.current] = file[memory.current]
    PROVE  CoreOK'
BY DEF CoreOK, Configuration

LEMMA GoesOn ==
    ASSUME SInv, Running, NEW c \in Callers, NEW a \in {"download", "enter", "write", "append", "save", "put", "validate", "generate", "keep"},
           At(c, a), NEW u, Becomes(c, u), u.todo = Tail(task[c].todo),
           u.name = task[c].name, u.uid = task[c].uid, u.restoring = task[c].restoring, u.old = task[c].old,
           u.name = "save" => u.data = task[c].data,
           UNCHANGED <<memory, draft, core, excused>>,
           "core" \notin excused =>
              /\ \A v \in Uids \ {task[c].uid} : file'[v] = file[v]
              /\ permit' \notin {None, c} => UNCHANGED <<permit, copy>>
              /\ permit' = c => CoreHeld(u)' /\ u.todo # <<>>
              /\ file'[task[c].uid] = file[task[c].uid] \/ task[c].uid # memory.current \/ task[c].name \in {"update", "save"}
              /\ a = "put" /\ task[c].restoring => file'[task[c].uid] = task[c].data
              /\ a = "keep" => file' = file
              /\ a = "generate" => u.read = Wanted'
    PROVE  Running'
<1> DEFINE t == task[c]
<1>1. /\ Others(c) /\ task'[c] = (IF u.todo = <<>> THEN Idle ELSE u) /\ Turn(t, a, u)
      /\ t.todo # <<>> /\ t.todo[1] = a /\ t # Idle /\ t.uid \in Uids /\ c # None /\ t \in Tasks /\ Form(t)
      /\ \A S : At1(t, S) <=> a \in S
      /\ Loads(u) <=> Loads(t)
      /\ Has(u.todo, "again") <=> Has(t.todo, "again")
      /\ u.todo = <<>> => ~Loads(u) /\ ~Has(u.todo, "again")
  BY Going
<1>2. ASSUME "core" \notin excused'
      PROVE  CoreMine(task[c])' /\ (CoreOK \/ Owes(task[c]) => CoreOK' \/ Owes(task[c])')
  <2>1. /\ CoreMine(t) /\ memory \in Index
        /\ \A v \in Uids \ {t.uid} : file'[v] = file[v]
        /\ file'[t.uid] = file[t.uid] \/ t.uid # memory.current \/ t.name \in {"update", "save"}
        /\ a = "put" /\ t.restoring => file'[t.uid] = t.data
        /\ a = "keep" => file' = file
        /\ a = "generate" => u.read = Wanted'
    BY <1>2 DEF Running, SInv, IInv, StoreOK
  <2>2. ~At1(u, {"put"}) /\ (At1(u, {"load"}) => u.read = Wanted') /\ (At1(u, {"keep", "publish"}) => a = "keep")
    BY <1>1, <2>1, FirstHead DEF Turn, At1
  <2>3. Sure(u) <=> Sure(t)
    BY <1>1 DEF Sure
  <2>4. CoreMine(u)'
    <3>1. Sure(u)' <=> Sure(t)
      BY <2>3 DEF Sure, Loads
    <3>2. Loads(u)' <=> Loads(t)
      BY <1>1 DEF Loads
    <3>3. At1(u, {"keep", "publish"}) => core' = Configuration(u.uid)'
      BY <1>1, <2>1, <2>2 DEF CoreMine, Configuration
    <3> QED BY <1>1, <2>1, <2>2, <3>1, <3>2, <3>3 DEF CoreMine, At1
  <2>5. CoreMine(task[c])'
    BY <1>1, <2>4, IdleRuns
  <2>6. ASSUME u.todo # <<>>, Owes(u)' PROVE Owes(task[c])'
    BY <1>1, <2>6 DEF Owes, Loads, At1
  <2>7. CASE Owes(t)
    <3>1. CASE t.name \in {"update", "save"} /\ t.uid = memory.current
      <4>1. CASE u.todo # <<>>
        <5>1. Owes(u)'
          BY <3>1 DEF Owes
        <5> QED BY <2>5, <2>6, <4>1, <5>1
      <4>2. CASE u.todo = <<>>
        <5>1. t.name = "save" /\ t.restoring
          BY <1>1, <2>1, <3>1, <4>2 DEF CoreMine, Sure
        <5>2. a = "put"
          <6>1. t.todo = PutLast
            BY <1>1, <5>1, Loaders
          <6>2. Then(PutLast, "put", <<>>)
            BY ThensHere
          <6> QED BY <1>1, <6>1, <6>2 DEF Then
        <5>3. file'[t.uid] = t.old /\ core \in {NoProfile, [uid |-> t.uid, content |-> t.old]}
          BY <2>1, <3>1, <5>1, <5>2 DEF CoreMine
        <5>4. memory.current # None
          BY <1>1, <3>1, ProfileAssumption
        <5> QED BY <2>5, <3>1, <5>3, <5>4 DEF CoreOK, Configuration
      <4> QED BY <4>1, <4>2
    <3>2. CASE (t.name = "delete" \/ (t.name = "switch" /\ t.restoring)) /\ Loads(t)
      <4>1. Owes(u)' /\ u.todo # <<>>
        BY <1>1, <3>2 DEF Owes, Loads
      <4> QED BY <2>5, <2>6, <4>1
    <3>3. CASE At1(t, {"keep", "publish"})
      <4>1. At1(u, {"publish"})
        BY <1>1, <3>3 DEF Turn
      <4>2. Owes(u)' /\ u.todo # <<>>
        BY <4>1 DEF Owes, At1
      <4> QED BY <2>5, <2>6, <4>2
    <3> QED BY <2>7, <3>1, <3>2, <3>3 DEF Owes
  <2>8. CASE CoreOK /\ ~Owes(t)
    <3>1. memory.current # None => file'[memory.current] = file[memory.current]
      BY <2>1, <2>8 DEF Owes, Index
    <3> QED BY <2>5, <2>8, <3>1, CoreStays
  <2> QED BY <2>5, <2>7, <2>8
<1>3. ASSUME permit' = c, "core" \notin excused' PROVE CoreHeld(task[c])'
  BY <1>1, <1>3 DEF CoreHeld, Loads
<1>4. task'[c] = Idle \/ (task'[c].name = t.name /\ task'[c].uid = t.uid)
  BY <1>1
<1> QED BY <1>1, <1>2, <1>3, <1>4, RunningStep

------------------------------------------------------------------------------
(* The steps that leave the core and the index in memory.                    *)

LEMMA OnwardAt ==
    ASSUME SInv, NEW c \in Callers, NEW a, At(c, a), Continue(c)
    PROVE  /\ task[c].todo # <<>> /\ task[c].todo[1] = a
           /\ \E u : /\ Becomes(c, u) /\ u.todo = Tail(task[c].todo) /\ u.name = task[c].name /\ u.uid = task[c].uid
                     /\ u.restoring = task[c].restoring /\ u.old = task[c].old /\ u.data = task[c].data
BY Starts, Onward DEF SInv

LEMMA DownloadRuns == ASSUME SInv, Running, NEW c \in Callers, NEW x \in Contents, Download(c, x) PROVE Running'
<1> DEFINE t == task[c]
           u == [t EXCEPT !.todo = Tail(t.todo), !.data = x]
<1>1. u.todo = Tail(t.todo) /\ u.name = t.name /\ u.uid = t.uid /\ u.restoring = t.restoring /\ u.old = t.old
  BY DEF SInv, IInv, TaskOK, Tasks
<1>2. Becomes(c, u) /\ At(c, "download")
  BY DEF Download
<1> HIDE DEF u
<1>3. t.name = "update" /\ permit # c
  <2>1. Turn(t, "download", u) /\ ("download" \in Inside <=> permit = c)
    BY <1>1, <1>2, Going
  <2> QED BY <2>1 DEF Turn, Inside
<1> QED BY <1>1, <1>2, <1>3, GoesOn DEF Download, store, locks, Bookkeeping

LEMMA EnterRuns == ASSUME SInv, Running, NEW c \in Callers, Enter(c) PROVE Running'
<1>0. At(c, "enter")
  BY DEF Enter
<1>1. PICK u : /\ Becomes(c, u) /\ u.todo = Tail(task[c].todo) /\ u.name = task[c].name /\ u.uid = task[c].uid
               /\ u.restoring = task[c].restoring /\ u.old = task[c].old /\ u.data = task[c].data
  BY <1>0, OnwardAt DEF Enter
<1>2. u.todo # <<>> /\ c # None
  <2>1. c # None /\ Turn(task[c], "enter", u)
    BY <1>0, <1>1, Going
  <2> QED BY <2>1 DEF Turn, At1
<1>3. permit' = c /\ UNCHANGED <<memory, draft, core, excused, file>> /\ CoreHeld(u)'
  BY DEF Enter, store, Bookkeeping, CoreHeld
<1> QED BY <1>0, <1>1, <1>2, <1>3, GoesOn

\* the copy's current profile stays, and what the task still has to do
LEMMA HeldStays ==
    ASSUME SInv, Running, "core" \notin excused, NEW c \in Callers, NEW a \in Inside, At(c, a), NEW u, Becomes(c, u),
           u.todo = Tail(task[c].todo), u.name = task[c].name, u.uid = task[c].uid, u.restoring = task[c].restoring,
           copy' = copy, memory' = memory
    PROVE  CoreHeld(u)'
<1>1. permit = c /\ c # None /\ (Loads(u) <=> Loads(task[c]))
  BY Going DEF Inside
<1>2. CoreHeld(task[c])
  BY <1>1 DEF Running
<1>3. Loads(u)' <=> Loads(u)
  BY DEF Loads
<1> QED BY <1>1, <1>2, <1>3 DEF CoreHeld

LEMMA WriteRuns == ASSUME SInv, Running, NEW c \in Callers, WriteFile(c) PROVE Running'
<1>0. At(c, "write") /\ "write" \in Inside
  BY DEF WriteFile, Inside
<1>1. PICK u : /\ Becomes(c, u) /\ u.todo = Tail(task[c].todo) /\ u.name = task[c].name /\ u.uid = task[c].uid
               /\ u.restoring = task[c].restoring /\ u.old = task[c].old /\ u.data = task[c].data
  BY <1>0, OnwardAt DEF WriteFile
<1>2. u.todo # <<>> /\ c # None /\ permit = c /\ Turn(task[c], "write", u) /\ task[c].uid \in Uids
  <2>1. c # None /\ permit = c /\ Turn(task[c], "write", u) /\ task[c].uid \in Uids
    BY <1>0, <1>1, Going
  <2> QED BY <2>1 DEF Turn, At1
<1>3. /\ UNCHANGED <<memory, draft, core, excused, permit, copy>>
      /\ \A v \in Uids \ {task[c].uid} : file'[v] = file[v]
  BY DEF WriteFile, locks, Bookkeeping, SInv, IInv, StoreOK
<1>4. "core" \notin excused => CoreHeld(u)'
  BY <1>0, <1>1, <1>3, HeldStays
<1>5. "core" \notin excused => task[c].uid # memory.current \/ task[c].name = "update"
  <2>1. SUFFICES ASSUME "core" \notin excused, task[c].name # "update" PROVE task[c].uid # memory.current
    OBVIOUS
  <2>2. Pending(task[c]) /\ Mine(task[c]) /\ Rooted(memory)
    BY <1>2, <2>1 DEF Turn, SInv, Formed, Steady
  <2> QED BY <1>2, <2>2, ProfileAssumption DEF Mine, Rooted
<1> QED BY <1>0, <1>1, <1>2, <1>3, <1>4, <1>5, GoesOn

LEMMA AppendRuns == ASSUME SInv, Running, NEW c \in Callers, AppendItem(c) PROVE Running'
<1>0. At(c, "append") /\ "append" \in Inside
  BY DEF AppendItem, Inside
<1>1. PICK u : /\ Becomes(c, u) /\ u.todo = Tail(task[c].todo) /\ u.name = task[c].name /\ u.uid = task[c].uid
               /\ u.restoring = task[c].restoring /\ u.old = task[c].old /\ u.data = task[c].data
  BY <1>0, OnwardAt DEF AppendItem
<1>2. u.todo # <<>> /\ c # None /\ permit = c /\ Turn(task[c], "append", u) /\ At1(task[c], {"append"})
  <2>1. c # None /\ permit = c /\ Turn(task[c], "append", u) /\ At1(task[c], {"append"})
    BY <1>0, <1>1, Going
  <2>2. First(u)
    BY <2>1 DEF Turn
  <2> QED BY <2>1, <2>2, FirstHead
<1>3. UNCHANGED <<memory, draft, core, excused, permit, file>>
  BY DEF AppendItem, store, Bookkeeping
<1>4. ASSUME "core" \notin excused PROVE CoreHeld(u)'
  <2>1. copy = memory
    BY <1>2, <1>4 DEF SInv, Formed, Steady, Holds
  <2>2. copy'.current = IF memory.current = None THEN task[c].uid ELSE memory.current
    BY <2>1 DEF AppendItem
  <2>3. u.name = "create"
    BY <1>1, <1>2 DEF Turn
  <2> QED BY <1>3, <2>2, <2>3 DEF CoreHeld
<1> QED BY <1>0, <1>1, <1>2, <1>3, <1>4, GoesOn

LEMMA SaveRuns == ASSUME SInv, Running, NEW c \in Callers, SaveFile(c) PROVE Running'
<1>0. At(c, "save") /\ "save" \in Inside
  BY DEF SaveFile, Inside
<1>1. PICK u : /\ Becomes(c, u) /\ u.todo = Tail(task[c].todo) /\ u.name = task[c].name /\ u.uid = task[c].uid
               /\ u.restoring = task[c].restoring /\ u.old = task[c].old /\ u.data = task[c].data
  BY <1>0, OnwardAt DEF SaveFile
<1>2. u.todo # <<>> /\ c # None /\ permit = c
  <2>1. c # None /\ permit = c /\ Turn(task[c], "save", u)
    BY <1>0, <1>1, Going
  <2> QED BY <2>1 DEF Turn, At1
<1>3. UNCHANGED <<memory, draft, core, excused, permit, copy, file>>
  BY DEF SaveFile, locks, Bookkeeping
<1>4. "core" \notin excused => CoreHeld(u)'
  BY <1>0, <1>1, <1>3, HeldStays
<1> QED BY <1>0, <1>1, <1>2, <1>3, <1>4, GoesOn

LEMMA PutRuns == ASSUME SInv, Running, NEW c \in Callers, Put(c) PROVE Running'
<1>0. At(c, "put") /\ "put" \notin Inside
  BY DEF Put, Inside
<1>1. PICK u : /\ Becomes(c, u) /\ u.todo = Tail(task[c].todo) /\ u.name = task[c].name /\ u.uid = task[c].uid
               /\ u.restoring = task[c].restoring /\ u.old = task[c].old /\ u.data = task[c].data
  BY <1>0, OnwardAt DEF Put
<1>2. c # None /\ permit # c /\ task[c].name = "save" /\ task[c].uid \in Uids
  <2>1. c # None /\ permit # c /\ task[c].uid \in Uids /\ Turn(task[c], "put", u)
    BY <1>0, <1>1, Going
  <2> QED BY <2>1 DEF Turn
<1>3. /\ UNCHANGED <<memory, draft, core, excused, permit, copy>>
      /\ \A v \in Uids \ {task[c].uid} : file'[v] = file[v]
      /\ file'[task[c].uid] = task[c].data
  BY <1>2 DEF Put, locks, Bookkeeping, SInv, IInv, StoreOK
<1> QED BY <1>0, <1>1, <1>2, <1>3, GoesOn

LEMMA ValidateRuns == ASSUME SInv, Running, NEW c \in Callers, Validate(c) PROVE Running'
<1>0. At(c, "validate") /\ "validate" \notin Inside
  BY DEF Validate, Inside
<1>1. PICK u : /\ Becomes(c, u) /\ u.todo = Tail(task[c].todo) /\ u.name = task[c].name /\ u.uid = task[c].uid
               /\ u.restoring = task[c].restoring /\ u.old = task[c].old /\ u.data = task[c].data
  BY <1>0, OnwardAt DEF Validate
<1>2. c # None /\ permit # c
  BY <1>0, <1>1, Going
<1>3. UNCHANGED <<memory, draft, core, excused, permit, copy, file>>
  BY DEF Validate, store, locks, Bookkeeping
<1> QED BY <1>0, <1>1, <1>2, <1>3, GoesOn

LEMMA KeepRuns == ASSUME SInv, Running, NEW c \in Callers, Keep(c) PROVE Running'
<1>0. At(c, "keep") /\ "keep" \notin Inside
  BY DEF Keep, Inside
<1>1. PICK u : /\ Becomes(c, u) /\ u.todo = Tail(task[c].todo) /\ u.name = task[c].name /\ u.uid = task[c].uid
               /\ u.restoring = task[c].restoring /\ u.old = task[c].old /\ u.data = task[c].data
  BY <1>0, OnwardAt DEF Keep
<1>2. c # None /\ permit # c
  BY <1>0, <1>1, Going
<1>3. UNCHANGED <<memory, draft, core, excused, permit, copy, file>>
  BY DEF Keep, locks, Bookkeeping
<1> QED BY <1>0, <1>1, <1>2, <1>3, GoesOn

LEMMA GenerateRuns == ASSUME SInv, Running, NEW c \in Callers, Generate(c) PROVE Running'
<1> DEFINE t == task[c]
           u == [t EXCEPT !.todo = Tail(t.todo), !.read = Wanted]
<1>1. u.todo = Tail(t.todo) /\ u.name = t.name /\ u.uid = t.uid /\ u.restoring = t.restoring /\ u.old = t.old /\ u.data = t.data /\ u.read = Wanted
  BY DEF SInv, IInv, TaskOK, Tasks
<1>2. Becomes(c, u) /\ At(c, "generate") /\ "generate" \notin Inside
  BY DEF Generate, Wanted, Inside
<1>3. UNCHANGED <<memory, draft, core, excused, permit, copy, file>>
  BY DEF Generate, store, Bookkeeping
<1>4. Wanted' = Wanted
  BY <1>3 DEF Wanted, Latest, Configuration
<1> HIDE DEF u
<1>5. c # None /\ permit # c
  BY <1>1, <1>2, Going
<1> QED BY <1>1, <1>2, <1>3, <1>4, <1>5, GoesOn

------------------------------------------------------------------------------
(* The steps that change the core or the index in memory.                    *)

\* what is known of a task at work
LEMMA Working ==
    ASSUME SInv, Running, "core" \notin excused, NEW c \in Callers, task[c] # Idle
    PROVE  /\ task[c] \in Tasks /\ Form(task[c]) /\ task[c].todo # <<>> /\ task[c].uid \in Uids /\ c # None
           /\ Mine(task[c]) /\ CoreMine(task[c]) /\ memory \in Index
           /\ "index" \notin excused
           /\ permit = c => copy \in Index /\ Holds(task[c]) /\ CoreHeld(task[c])
           /\ ~Switches(task[c]) => draft = None
           /\ Switches(task[c]) => draft # None
           /\ Lone(task[c]) => \A d \in Callers \ {c} : task[d] = Idle
<1>1. "index" \notin excused /\ Alone /\ CoreMine(task[c]) /\ (permit # None => CoreHeld(task[permit]))
  BY DEF SInv, Formed, Running
<1>2. task[c] \in Tasks /\ Form(task[c]) /\ task[c].todo # <<>> /\ task[c].uid \in Uids /\ memory \in Index
  BY NotIdle DEF SInv, Formed, IInv, TaskOK, StoreOK
<1>3. Mine(task[c]) /\ (permit # None => Holds(task[permit]))
  BY <1>1 DEF SInv, Steady
<1>4. c # None /\ (permit = c => copy \in Index)
  BY ProfileAssumption DEF SInv, IInv, StoreOK
<1>5. Switches(task[c]) => draft # None
  BY DEF SInv, IInv, SwitchOK
<1>6. ASSUME ~Switches(task[c]) PROVE draft = None
  <2>1. ASSUME draft # None PROVE FALSE
    <3>1. PICK e \in Callers : Switches(task[e])
      BY <2>1 DEF SInv, IInv, SwitchOK
    <3>2. Lone(task[e]) /\ task[e] # Idle /\ e # c
      BY <1>6, <3>1, IdleOK DEF Switches, Lone
    <3> QED BY <1>1, <3>2 DEF Alone
  <2> QED BY <2>1
<1>7. Lone(task[c]) => \A d \in Callers \ {c} : task[d] = Idle
  BY <1>1 DEF Alone
<1> QED BY <1>1, <1>2, <1>3, <1>4, <1>5, <1>6, <1>7

LEMMA LoadRuns == ASSUME SInv, Running, NEW c \in Callers, Load(c) PROVE Running'
<1> DEFINE t == task[c]
<1>0. At(c, "load") /\ "load" \notin Inside
  BY DEF Load, Inside
<1>1. PICK u : /\ Becomes(c, u) /\ u.todo = Tail(t.todo) /\ u.name = t.name /\ u.uid = t.uid
               /\ u.restoring = t.restoring /\ u.old = t.old /\ u.data = t.data
  BY <1>0, OnwardAt DEF Load
<1>2. /\ Others(c) /\ task'[c] = (IF u.todo = <<>> THEN Idle ELSE u) /\ Turn(t, "load", u)
      /\ t # Idle /\ permit # c /\ At1(t, {"load"}) /\ c # None /\ t.todo[1] = "load" /\ t.todo # <<>>
  BY <1>0, <1>1, Going
<1>3. UNCHANGED <<memory, draft, excused, permit, copy, file>> /\ core' = t.read
  BY DEF Load, store, Bookkeeping
<1>4. u.todo = <<>> \/ (At1(u, {"keep"}) /\ Switches(t))
  BY <1>2 DEF Turn
<1>5. ASSUME "core" \notin excused'
      PROVE  CoreMine(task[c])' /\ (CoreOK' \/ Owes(task[c])')
  <2>1. /\ t \in Tasks /\ Mine(t) /\ CoreMine(t) /\ (~Switches(t) => draft = None) /\ (Switches(t) => draft # None)
        /\ memory \in Index /\ t.uid \in Uids
    BY <1>2, <1>3, <1>5, Working
  <2>2. core' = Wanted
    BY <1>2, <1>3, <2>1 DEF CoreMine
  <2>3. CASE u.todo = <<>>
    <3>1. ~Switches(t)
      <4>1. t.todo \in Seq(Steps) /\ (Switches(t) => t.todo[Len(t.todo)] = "publish")
        BY <1>2, <2>1, IdleOK DEF Tasks, SInv, IInv, TaskOK, Shape
      <4>2. Len(t.todo) = 1
        BY <1>1, <1>2, <2>3, <4>1, LastTail
      <4> QED BY <1>2, <4>1, <4>2
    <3>2. Wanted = IF memory.current = None THEN NoProfile ELSE Configuration(memory.current)
      BY <2>1, <3>1 DEF Wanted, Latest
    <3>3. CoreOK'
      BY <1>3, <2>2, <3>2 DEF CoreOK, Configuration
    <3> QED BY <1>2, <2>3, <3>3, IdleRuns
  <2>4. CASE u.todo # <<>>
    <3>1. At1(u, {"keep"}) /\ ~At1(u, {"load"}) /\ Switches(t) /\ task'[c] = u
      BY <1>2, <1>4, <2>4 DEF At1
    <3>2. Latest.current = t.uid /\ t.uid # None
      BY <2>1, <3>1, ProfileAssumption DEF Mine, Latest, Index
    <3>3. core' = Configuration(t.uid)
      BY <2>2, <3>2 DEF Wanted
    <3>4. u.name = "switch" /\ At1(u, {"keep", "publish"}) /\ core' = Configuration(u.uid)'
      BY <1>1, <1>3, <3>1, <3>3 DEF Switches, At1, Configuration
    <3>5. CoreMine(u)' /\ Owes(u)'
      BY <3>1, <3>4 DEF CoreMine, Owes, At1
    <3> QED BY <3>1, <3>5
  <2> QED BY <2>3, <2>4
<1>6. task'[c] = Idle \/ (task'[c].name = t.name /\ task'[c].uid = t.uid)
  BY <1>1, <1>2
<1> QED BY <1>2, <1>3, <1>5, <1>6, RunningStep

LEMMA AgainRuns == ASSUME SInv, Running, NEW c \in Callers, Again(c) PROVE Running'
<1> DEFINE t == task[c]
           w == [t EXCEPT !.todo = IF Latest.current = t.uid THEN Reload ELSE <<>>]
<1>1. /\ t.todo # <<>> /\ t.todo[1] = "again" /\ t \in Tasks /\ t.uid \in Uids /\ t # Idle
      /\ \A S : At1(t, S) <=> "again" \in S
  BY Starts, IdleOK DEF SInv, Again
<1>2. t.name = "update" /\ t.restoring
  <2>1. Turn(t, "again", [t EXCEPT !.todo = Tail(t.todo)])
    BY <1>1, TurnOf DEF SInv
  <2> QED BY <2>1 DEF Turn
<1>3. PICK u : /\ u.name = t.name /\ u.uid = t.uid /\ u.todo = (IF Latest.current = t.uid THEN Reload ELSE <<>>)
               /\ Becomes(c, u)
  <2>1. w.name = t.name /\ w.uid = t.uid /\ w.todo = (IF Latest.current = t.uid THEN Reload ELSE <<>>)
    BY <1>1 DEF Tasks
  <2>2. Becomes(c, w)
    BY DEF Again
  <2> HIDE DEF w
  <2> QED BY <2>1, <2>2
<1>4. UNCHANGED <<memory, draft, core, excused, permit, copy, file>>
  BY DEF Again, store, locks, Bookkeeping
<1>5. Others(c) /\ task'[c] = (IF u.todo = <<>> THEN Idle ELSE u)
  BY <1>3 DEF Becomes, Over, Others, SInv, IInv, TaskOK
<1>6. permit # c
  <2>1. ~At1(t, Inside) /\ c # None
    BY <1>1, ProfileAssumption DEF Inside
  <2> QED BY <2>1 DEF SInv, Formed
<1>7. ASSUME "core" \notin excused'
      PROVE  CoreMine(task[c])' /\ (CoreOK \/ Owes(task[c]) => CoreOK' \/ Owes(task[c])')
  <2>1. CoreMine(t) /\ draft = None
    BY <1>1, <1>2, <1>4, <1>7, Working DEF Switches
  <2>2. Latest = memory /\ t.uid \in memory.items
    BY <1>2, <2>1 DEF Latest, CoreMine
  <2>3. CASE t.uid = memory.current
    <3>1. u.todo = Reload
      BY <1>3, <2>2, <2>3
    <3>2. Then(Reload, "generate", LoadLast) /\ Has(Reload, "load")
      BY ThensHere, LoadLists
    <3>3. Loads(u)' /\ Sure(u)' /\ ~At1(u, {"load", "put", "keep", "publish"}) /\ u.todo # <<>>
      BY <3>1, <3>2 DEF Loads, Sure, At1, Then
    <3>4. CoreMine(u)' /\ Owes(u)'
      BY <1>2, <1>3, <1>4, <2>2, <2>3, <3>3 DEF CoreMine, Owes, At1
    <3> QED BY <1>5, <3>3, <3>4
  <2>4. CASE t.uid # memory.current
    <3>1. task'[c] = Idle
      BY <1>3, <1>5, <2>2, <2>4
    <3>2. ~Owes(t)
      BY <1>1, <1>2, <2>4 DEF Owes
    <3>3. CoreOK => CoreOK'
      BY <1>4, CoreStays
    <3> QED BY <3>1, <3>2, <3>3, IdleRuns
  <2> QED BY <2>3, <2>4
<1>8. task'[c] = Idle \/ (task'[c].name = t.name /\ task'[c].uid = t.uid)
  BY <1>3, <1>5
<1> QED BY <1>1, <1>4, <1>5, <1>6, <1>7, <1>8, RunningStep

LEMMA CommitRuns == ASSUME SInv, Heads, Running, NEW c \in Callers, Commit(c) PROVE Running'
<1> DEFINE t == task[c]
<1>0. At(c, "commit") /\ "commit" \in Inside
  BY DEF Commit, Inside
<1>1. PICK u : /\ Becomes(c, u) /\ u.todo = Tail(t.todo) /\ u.name = t.name /\ u.uid = t.uid
               /\ u.restoring = t.restoring /\ u.old = t.old /\ u.data = t.data
  BY <1>0, OnwardAt DEF Commit
<1>2. /\ Others(c) /\ task'[c] = (IF u.todo = <<>> THEN Idle ELSE u) /\ Turn(t, "commit", u)
      /\ t # Idle /\ permit = c /\ c # None
      /\ At1(t, {"commit"}) /\ At1(t, {"save", "commit"}) /\ ~At1(t, {"keep", "publish"})
      /\ Loads(u) <=> Loads(t)
      /\ Has(u.todo, "again") <=> Has(t.todo, "again")
      /\ u.todo = <<>> => ~Loads(u) /\ ~Has(u.todo, "again")
  <2>1. /\ Others(c) /\ task'[c] = (IF u.todo = <<>> THEN Idle ELSE u) /\ Turn(t, "commit", u)
        /\ t # Idle /\ permit = c /\ c # None
    BY <1>0, <1>1, Going
  <2>2. \A S : At1(t, S) <=> "commit" \in S
    BY <1>0, <1>1, Going
  <2>3. /\ Loads(u) <=> Loads(t)
        /\ Has(u.todo, "again") <=> Has(t.todo, "again")
        /\ u.todo = <<>> => ~Loads(u) /\ ~Has(u.todo, "again")
    <3>1. "commit" # "load" => (Loads(u) <=> Loads(t))
      BY <1>0, <1>1, Going
    <3>2. "commit" # "again" => (Has(u.todo, "again") <=> Has(t.todo, "again"))
      BY <1>0, <1>1, Going
    <3>3. u.todo = <<>> => ~Loads(u) /\ ~Has(u.todo, "again")
      BY <1>0, <1>1, Going
    <3> QED BY <3>1, <3>2, <3>3
  <2>4. At1(t, {"commit"}) /\ At1(t, {"save", "commit"}) /\ ~At1(t, {"keep", "publish"})
    BY <2>2
  <2> QED BY <2>1, <2>3, <2>4
<1>3. memory' = copy /\ permit' = None /\ UNCHANGED <<draft, core, excused, file>>
  BY DEF Commit, Bookkeeping
<1>4. ~At1(u, {"load", "put", "keep", "publish"}) /\ t.name # "save" /\ ~Switches(t)
  BY <1>0, <1>2 DEF Turn, At1
<1>5. ASSUME "core" \notin excused'
      PROVE  /\ \A v \in Uids \ {t.uid} : v \in memory'.items <=> v \in memory.items
             /\ memory'.current = memory.current \/ memory.items = {} \/ Lone(t)
             /\ CoreMine(task[c])' /\ (CoreOK \/ Owes(task[c]) => CoreOK' \/ Owes(task[c])')
  <2>1. t \in Tasks /\ CoreMine(t) /\ Holds(t) /\ CoreHeld(t)
    BY <1>2, <1>3, <1>5, Working
  <2>2. /\ \A v \in Uids \ {t.uid} : v \in copy.items <=> v \in memory.items
        /\ t.name \in {"update", "touch", "reorder", "switch"} => copy = memory
    <3>1. At1(t, {"save", "commit"})
      BY <1>2
    <3> QED BY <2>1, <3>1 DEF Holds, First
  <2>3. memory'.current = memory.current \/ (t.name = "delete" /\ Loads(t)) \/ (t.name = "create" /\ memory.current = None)
    BY <1>3, <2>1 DEF CoreHeld
  <2>4. memory'.current = memory.current \/ memory.items = {} \/ Lone(t)
    BY <2>3 DEF Heads, Headed, Lone
  <2>5. Sure(u)' <=> Sure(t)
    BY <1>1, <1>2 DEF Sure, Loads
  <2>6. CoreMine(u)'
    <3>1. Loads(u)' <=> Loads(t)
      BY <1>2 DEF Loads
    <3> QED BY <1>1, <1>3, <1>4, <2>1, <2>2, <2>5, <3>1 DEF CoreMine, At1
  <2>7. CoreMine(task[c])'
    BY <1>2, <2>6, IdleRuns
  <2>8. CASE Owes(t)
    <3>1. t.name = "update" => memory' = memory /\ Sure(t) /\ t.uid = memory.current
      BY <1>2, <1>3, <2>1, <2>2, <2>8 DEF Owes, CoreMine
    <3>2. u.todo # <<>>
      BY <1>1, <1>2, <1>4, <2>8, <3>1 DEF Owes, Sure
    <3>3. Loads(u)' <=> Loads(t)
      BY <1>2 DEF Loads
    <3>4. Owes(u)'
      BY <1>1, <1>2, <1>4, <2>8, <3>1, <3>3 DEF Owes
    <3> QED BY <1>2, <2>2, <2>4, <2>7, <3>2, <3>4, <1>3
  <2>9. CASE CoreOK /\ ~Owes(t)
    <3>1. memory'.current = memory.current \/ memory.current = None
      BY <2>3, <2>9 DEF Owes
    <3>2. CoreOK'
      BY <1>3, <2>9, <3>1 DEF CoreOK, Configuration
    <3> QED BY <1>3, <2>2, <2>4, <2>7, <3>2
  <2> QED BY <1>3, <2>2, <2>4, <2>7, <2>8, <2>9
<1>6. task'[c] = Idle \/ (task'[c].name = t.name /\ task'[c].uid = t.uid)
  BY <1>1, <1>2
<1> QED BY <1>2, <1>3, <1>5, <1>6, RunningStep

LEMMA RemoveLoads ==
    ASSUME NEW t \in Tasks, Form(t), t.todo # <<>>, t.todo[1] = "remove", t.name = "delete"
    PROVE  ~Loads(t) /\ \A u : u.todo = Tail(t.todo) \o Reload => Loads(u)
<1>1. t.todo = RemoveThen(EnterThen(<<>>)) /\ Tail(t.todo) \o Reload = SaveThen(EnterThen(Reload))
  BY RemoveLists
<1>2. /\ Then(RemoveThen(EnterThen(<<>>)), "remove", SaveThen(EnterThen(<<>>)))
      /\ Then(SaveThen(EnterThen(<<>>)), "save", CommitThen(EnterThen(<<>>)))
      /\ Then(CommitThen(EnterThen(<<>>)), "commit", EnterThen(<<>>))
      /\ Then(SaveThen(EnterThen(Reload)), "save", CommitThen(EnterThen(Reload)))
      /\ Then(CommitThen(EnterThen(Reload)), "commit", EnterThen(Reload))
  BY ThensHere DEF Rests
<1>3. ~Has(RemoveThen(EnterThen(<<>>)), "load")
  BY <1>2, LoadLists
<1>4. Has(SaveThen(EnterThen(Reload)), "load")
  BY <1>2, LoadLists
<1> QED BY <1>1, <1>3, <1>4 DEF Loads

LEMMA DeleteRuns == ASSUME SInv, Running, NEW c \in Callers, DeleteItem(c) PROVE Running'
<1> DEFINE t == task[c]
           wasCurrent == copy.current \in {t.uid, None}
           more == wasCurrent /\ t.name = "delete"
           w == [t EXCEPT !.todo = Tail(t.todo) \o (IF more THEN Reload ELSE <<>>)]
           w0 == [t EXCEPT !.todo = Tail(t.todo)]
<1>0. "remove" \in Inside /\ At(c, "remove")
  BY DEF Inside, DeleteItem
<1>1. /\ permit = c /\ copy \in Index /\ t \in Tasks /\ t.todo # <<>> /\ t.todo[1] = "remove" /\ t.uid \in Uids
      /\ Turn(t, "remove", w0) /\ Form(t) /\ t # Idle /\ c # None
  BY <1>0, InsideTask
<1>2. At1(t, {"write", "remove", "reorder"}) /\ ~At1(t, {"keep", "publish"})
  BY <1>1 DEF At1
<1>3. At1(w0, {"save"}) /\ t.name \in {"create", "delete"}
  BY <1>1 DEF Turn
<1>4. PICK u : /\ u.name = t.name /\ u.uid = t.uid /\ u.todo = Tail(t.todo) \o (IF more THEN Reload ELSE <<>>)
               /\ Becomes(c, u) /\ At1(u, {"save"})
  <2>1. w.name = t.name /\ w.uid = t.uid /\ w.todo = Tail(t.todo) \o (IF more THEN Reload ELSE <<>>) /\ w0.todo = Tail(t.todo)
    BY <1>1 DEF Tasks
  <2>2. Becomes(c, w)
    BY DEF DeleteItem
  <2> HIDE DEF w, w0
  <2>3. /\ Tail(t.todo) \o <<>> = Tail(t.todo)
        /\ t.name = "delete" => Tail(t.todo) \o Reload = SaveThen(EnterThen(Reload))
        /\ Then(SaveThen(EnterThen(Reload)), "save", CommitThen(EnterThen(Reload)))
    BY <1>1, RemoveLists, AloneEmpty
  <2>4. At1(w, {"save"})
    <3>1. CASE more
      BY <2>1, <2>3, <3>1 DEF At1, Then
    <3>2. CASE ~more
      BY <1>3, <2>1, <2>3, <3>2 DEF At1
    <3> QED BY <3>1, <3>2
  <2> QED BY <2>1, <2>2, <2>4
<1>5. task'[c] = u /\ Others(c)
  BY <1>4 DEF Becomes, Over, Others, At1, SInv, IInv, TaskOK
<1>6. /\ UNCHANGED <<memory, draft, core, permit>> /\ file' = [file EXCEPT ![t.uid] = None]
      /\ ~wasCurrent => copy'.current = copy.current
      /\ excused' = excused \cup (IF wasCurrent /\ t.name = "create" THEN {"core"} ELSE {})
  BY DEF DeleteItem
<1>7. ASSUME "core" \notin excused'
      PROVE  /\ \A v \in Uids \ {t.uid} : file'[v] = file[v]
             /\ CoreMine(task[c])' /\ CoreHeld(task[c])' /\ (CoreOK \/ Owes(task[c]) => CoreOK' \/ Owes(task[c])')
  <2>1. Holds(t) /\ "core" \notin excused /\ (wasCurrent => t.name = "delete")
    BY <1>1, <1>3, <1>6, <1>7, Working
  <2>2. copy = memory
    BY <1>2, <2>1 DEF Holds
  <2>3. \A v \in Uids \ {t.uid} : file'[v] = file[v]
    BY <1>1, <1>6 DEF SInv, IInv, StoreOK
  <2>4. CoreMine(u)'
    BY <1>3, <1>4 DEF CoreMine, At1
  <2>5. CASE wasCurrent
    <3>1. Loads(u) /\ u.name = "delete"
      BY <1>1, <1>4, <2>1, <2>5, RemoveLoads
    <3>2. Loads(u)'
      BY <3>1 DEF Loads
    <3>3. CoreHeld(u)' /\ Owes(u)'
      BY <3>1, <3>2 DEF CoreHeld, Owes
    <3> QED BY <1>5, <2>3, <2>4, <3>3
  <2>6. CASE ~wasCurrent
    <3>1. CoreHeld(u)'
      BY <1>6, <2>2, <2>6 DEF CoreHeld
    <3>2. ~Owes(t)
      BY <1>1, <1>2, <1>3, RemoveLoads DEF Owes
    <3>3. CoreOK => CoreOK'
      <4>1. memory.current \in Uids \ {t.uid}
        BY <1>1, <2>2, <2>6 DEF Index
      <4> QED BY <1>6, <2>3, <4>1, CoreStays
    <3> QED BY <1>5, <2>3, <2>4, <3>1, <3>2, <3>3
  <2> QED BY <2>5, <2>6
<1>8. "core" \notin excused' => "core" \notin excused
  BY <1>6
<1>9. task'[c].name = t.name /\ task'[c].uid = t.uid
  BY <1>4, <1>5
<1> QED BY <1>1, <1>5, <1>6, <1>7, <1>8, <1>9, RunningStep

LEMMA ReorderRuns == ASSUME SInv, Running, NEW c \in Callers, Reorder(c) PROVE Running'
<1> DEFINE t == task[c]
           w == [t EXCEPT !.todo = <<"save", "commit">>]
<1>0. "reorder" \in Inside /\ At(c, "reorder")
  BY DEF Inside, Reorder
<1>1. /\ t \in Tasks /\ t.todo # <<>> /\ t.todo[1] = "reorder" /\ permit = c /\ c # None /\ t # Idle
      /\ Turn(t, "reorder", [t EXCEPT !.todo = Tail(t.todo)])
  BY <1>0, InsideTask
<1>2. t.name = "reorder" /\ ~At1(t, {"keep", "publish"})
  BY <1>1 DEF Turn, At1
<1>3. CASE t.uid \in copy.items
  <2>1. PICK u : u.todo = <<"save", "commit">> /\ u.name = t.name /\ u.uid = t.uid /\ Becomes(c, u)
    <3>1. w.todo = <<"save", "commit">> /\ w.name = t.name /\ w.uid = t.uid
      BY <1>1 DEF Tasks
    <3>2. Becomes(c, w)
      BY <1>3 DEF Reorder
    <3> HIDE DEF w
    <3> QED BY <3>1, <3>2
  <2>2. UNCHANGED <<memory, draft, core, file, copy, permit, excused>>
    BY <1>3 DEF Reorder, store
  <2>3. task'[c] = u /\ Others(c)
    BY <2>1 DEF Becomes, Over, Others, SInv, IInv, TaskOK
  <2>4. CoreMine(u)'
    BY <1>2, <2>1 DEF CoreMine, At1
  <2>5. ~Owes(t) /\ (CoreOK => CoreOK')
    BY <1>2, <2>2, CoreStays DEF Owes
  <2>6. "core" \notin excused => CoreHeld(u)'
    <3>1. ASSUME "core" \notin excused PROVE CoreHeld(u)'
      <4>1. CoreHeld(t)
        BY <1>1, <3>1 DEF Running
      <4> QED BY <1>2, <2>1, <2>2, <4>1 DEF CoreHeld
    <3> QED BY <3>1
  <2> QED BY <1>1, <2>1, <2>2, <2>3, <2>4, <2>5, <2>6, RunningStep
<1>4. CASE t.uid \notin copy.items
  BY <1>4 DEF Reorder, Running
<1> QED BY <1>3, <1>4

LEMMA PublishRuns == ASSUME SInv, Running, NEW c \in Callers, Publish(c) PROVE Running'
<1> DEFINE t == task[c]
<1>1. /\ t.todo # <<>> /\ t.todo[1] = "publish" /\ t \in Tasks /\ t.uid \in Uids /\ c # None /\ Switches(t) /\ t # Idle
      /\ \A S : At1(t, S) <=> "publish" \in S
  BY Starts, IdleOK DEF SInv, Publish
<1>2. PICK u : Becomes(c, u) /\ Turn(t, "publish", u)
  BY <1>1, Onward DEF Publish
<1>3. u.todo = <<>>
  BY <1>2 DEF Turn
<1>4. task'[c] = Idle /\ Others(c)
  BY <1>2, <1>3 DEF Becomes, Over, Others, SInv, IInv, TaskOK
<1>5. memory' = draft /\ draft' = None /\ UNCHANGED <<file, core, permit, copy, excused>>
  BY DEF Publish, Bookkeeping
<1>6. permit # c /\ Lone(t)
  BY <1>1 DEF SInv, Formed, Inside, Switches, Lone
<1>7. ASSUME "core" \notin excused'
      PROVE  permit' = None /\ memory'.items = memory.items /\ CoreMine(task[c])' /\ CoreOK'
  <2>1. Mine(t) /\ CoreMine(t) /\ memory \in Index /\ "index" \notin excused
    BY <1>1, <1>5, <1>7, Working
  <2>2. permit = None
    BY <1>1, <1>6, <2>1, AloneInside DEF SInv, Steady
  <2>3. draft = [memory EXCEPT !.current = t.uid]
    BY <1>1, <2>1 DEF Mine
  <2>4. memory'.items = memory.items /\ memory'.current = t.uid /\ t.uid # None
    BY <1>1, <1>5, <2>1, <2>3, ProfileAssumption DEF Index
  <2>5. core = Configuration(t.uid)
    BY <1>1, <2>1 DEF CoreMine
  <2>6. CoreOK'
    BY <1>5, <2>4, <2>5 DEF CoreOK, Configuration
  <2> QED BY <1>4, <1>5, <2>2, <2>4, <2>6, IdleRuns
<1> QED BY <1>1, <1>4, <1>5, <1>6, <1>7, RunningStep

LEMMA TimeOutRuns == ASSUME SInv, NEW c \in Callers, TimeOut(c) PROVE Running'
BY DEF TimeOut, Running

LEMMA RestartRuns == ASSUME SInv, Restart PROVE Running'
<1>1. PICK index \in {saved} \cup {NoIndex : c \in {d \in Callers : At(d, "save") \/ At(d, "keep")}} :
         /\ memory' = index
         /\ file' = [u \in Uids |-> IF u \in index.items THEN file[u] ELSE None]
         /\ core' = IF index.current = None \/ file[index.current] = None THEN NoProfile ELSE Configuration(index.current)
         /\ excused' = (excused \cap {"removal"})
                       \cup (IF \E u \in index.items \cup ({index.current} \ {None}) : file'[u] = None THEN {"core", "index"} ELSE {})
  BY DEF Restart
<1>2. index \in Index
  BY <1>1 DEF SInv, IInv, StoreOK, Index, NoIndex
<1>3. permit' = None /\ \A c \in Callers : task'[c] = Idle
  BY DEF Restart
<1>4. ASSUME "core" \notin excused' PROVE CoreOK'
  <2>1. \A u \in index.items \cup ({index.current} \ {None}) : file'[u] # None
    BY <1>1, <1>4
  <2>2. index.current # None => file'[index.current] = file[index.current]
    BY <1>1, <1>2, <2>1 DEF Index
  <2> QED BY <1>1, <2>2 DEF CoreOK, Configuration
<1> QED BY <1>3, <1>4, IdleRuns DEF Running, Alone

------------------------------------------------------------------------------
(* Failures and commands.                                                    *)

\* what a task does in its error branches, and the core
LEMMA RecoveryRuns ==
    ASSUME NEW t \in Tasks, t.todo # <<>>, ~t.restoring, t.name # "delete"
    PROVE  LET r == Recovery(t)
           IN /\ ~At1(r, {"load", "keep", "publish"})
              /\ r.name = "update" => ~Loads(r) /\ Has(r.todo, "again")
              /\ r.name = "save" => ~Loads(r) /\ r.restoring
              /\ t.name = "save" /\ t.todo[1] # "put" => r.name = "save" /\ r.uid = t.uid
              /\ t.name = "save" /\ t.todo[1] = "put" => r = Idle
              /\ t.name = "switch" /\ t.todo[1] = "keep" => r.name = "switch" /\ r.restoring /\ Loads(r)
<1> DEFINE r == Recovery(t)
<1>0. Head(t.todo) = t.todo[1]
  BY DEF Tasks
<1>1. /\ Then(UpdateThen(AgainLast), "enter", WriteThen(AgainLast)) /\ Then(PutLast, "put", <<>>)
      /\ Then(WriteThen(AgainLast), "write", SaveThen(AgainLast)) /\ Then(SaveThen(AgainLast), "save", CommitThen(AgainLast))
      /\ Then(CommitThen(AgainLast), "commit", AgainLast)
      /\ Then(DeleteThen(<<>>), "enter", RemoveThen(<<>>))
      /\ Then(EnterThen(<<>>), "enter", SaveThen(<<>>)) /\ Then(EnterThen(Reload), "enter", SaveThen(Reload))
      /\ Reload \in Seq(Steps)
  <2>1. Then(Reload, "generate", LoadLast)
    BY ThensHere
  <2>2. Reload \in Seq(Steps)
    BY <2>1 DEF Then
  <2> QED BY <2>2, ThensHere DEF Rests
<1>2. /\ Modify(<<"write", "save">>) \o <<"again">> = UpdateThen(AgainLast)
      /\ Modify(<<"remove", "save">>) = DeleteThen(<<>>)
      /\ SaveIndex \o Reload = EnterThen(Reload) /\ SaveIndex \o <<>> = EnterThen(<<>>)
  <2>1. AgainLast \in Seq(Steps) /\ <<>> \in Seq(Steps)
    BY <1>1 DEF Then, AgainLast, Steps
  <2> QED BY <1>1, <2>1, Beginnings DEF AgainLast
<1>3. CASE t.name = "update"
  <2>1. r = [t EXCEPT !.restoring = TRUE, !.data = t.old, !.todo = UpdateThen(AgainLast)]
    BY <1>2, <1>3 DEF Recovery, Saved, Appended
  <2> HIDE DEF r
  <2>2. r.name = "update" /\ r.todo = UpdateThen(AgainLast)
    BY <1>3, <2>1 DEF Tasks
  <2>3. ~Has(r.todo, "load") /\ Has(r.todo, "again")
    BY <1>1, <2>2, LoadLists
  <2> QED BY <1>1, <1>3, <2>2, <2>3 DEF At1, Then, Loads, r
<1>4. CASE Saved(t)
  <2>1. t.name = "save" /\ t.todo[1] # "put" /\ r = [t EXCEPT !.restoring = TRUE, !.data = t.old, !.todo = PutLast]
    BY <1>0, <1>4 DEF Recovery, Saved, Appended, PutLast
  <2> HIDE DEF r
  <2>2. r.name = "save" /\ r.uid = t.uid /\ r.restoring /\ r.todo = PutLast
    BY <2>1 DEF Tasks
  <2> QED BY <1>1, <2>1, <2>2, LoadLists DEF At1, Then, Loads, r
<1>5. CASE t.name # "update" /\ ~Saved(t) /\ Appended(t)
  <2>1. t.name = "create" /\ r = [t EXCEPT !.restoring = TRUE, !.todo = DeleteThen(<<>>)]
    BY <1>2, <1>5 DEF Recovery, Appended
  <2> HIDE DEF r
  <2>2. r.name = "create" /\ r.todo = DeleteThen(<<>>)
    BY <2>1 DEF Tasks
  <2> QED BY <1>1, <2>1, <2>2 DEF At1, Then, r
<1>6. CASE t.name = "switch"
  <2>1. r = [t EXCEPT !.restoring = TRUE, !.reloads = SwitchSaves(t),
                      !.todo = IF SwitchSaves(t) THEN EnterThen(Reload) ELSE EnterThen(<<>>)]
    BY <1>2, <1>6 DEF Recovery, Saved, Appended
  <2>2. SwitchSaves(t) <=> t.todo[1] = "keep"
    BY <1>0, <1>6 DEF SwitchSaves
  <2> HIDE DEF r
  <2>3. r.name = "switch" /\ r.restoring /\ r.todo = (IF t.todo[1] = "keep" THEN EnterThen(Reload) ELSE EnterThen(<<>>))
    BY <1>6, <2>1, <2>2 DEF Tasks
  <2>4. t.todo[1] = "keep" => Loads(r)
    BY <2>3, LoadLists DEF Loads
  <2> QED BY <1>1, <1>6, <2>3, <2>4 DEF At1, Then, r
<1>7. CASE t.name \notin {"update", "switch"} /\ ~Saved(t) /\ ~Appended(t)
  <2>1. r = Idle
    BY <1>7 DEF Recovery
  <2>2. ~(t.name = "save" /\ t.todo[1] # "put")
    BY <1>0, <1>7 DEF Saved
  <2> QED BY <1>7, <2>1, <2>2, IdleOK DEF At1
<1> QED BY <1>3, <1>4, <1>5, <1>6, <1>7

LEMMA FailRuns == ASSUME SInv, Running, NEW c \in Callers, Breaks(c) PROVE Running'
<1> DEFINE t == task[c]
<1>1. t.todo # <<>> /\ t \in Tasks /\ t # Idle /\ c # None
  <2>1. t.todo # <<>>
    BY Breaking DEF SInv
  <2> QED BY <2>1, IdleOK, ProfileAssumption DEF SInv, IInv, TaskOK
<1>2. t.todo[1] # "publish"
  BY Breaking DEF SInv
<1>3. PICK r : /\ r = Recovery(t) /\ task'[c] = r
               /\ r = Idle \/ (r.name = t.name /\ r.uid = t.uid /\ r.restoring /\ r.old = t.old)
               /\ r # Idle /\ t.name \in {"update", "save"} => r.data = t.old
               /\ ~t.restoring /\ t.name = "update" => r # Idle
  <2>1. task'[c] = Recovery(t)
    BY Breaking DEF GivesUp, SInv, IInv, TaskOK
  <2> QED BY <1>1, <2>1, RecoveryForm
<1>4. /\ Others(c)
      /\ excused \subseteq excused' /\ (t.restoring \/ t.name = "delete" => "core" \in excused')
      /\ permit' = (IF permit = c THEN None ELSE permit)
      /\ IF DropsDraft(t) THEN draft' = None /\ memory' = Restored(t) ELSE UNCHANGED <<draft, memory>>
      /\ UNCHANGED <<copy, core>>
  BY Breaking DEF GivesUp, SInv, IInv, TaskOK, Others
<1>5. DropsDraft(t) <=> Switches(t)
  BY DEF DropsDraft, Switches
<1>6. draft' = draft \/ Lone(t)
  BY <1>4, <1>5 DEF Switches, Lone
<1>7. ASSUME "core" \notin excused'
      PROVE  /\ "core" \notin excused /\ memory' = memory /\ CoreMine(task[c])' /\ (CoreOK \/ Owes(task[c]) => CoreOK' \/ Owes(task[c])')
             /\ \A v \in Uids \ {t.uid} : file'[v] = file[v]
  <2>1. "core" \notin excused /\ ~t.restoring /\ t.name # "delete"
    BY <1>4, <1>7
  <2>2. Mine(t) /\ CoreMine(t) /\ memory \in Index /\ Form(t)
    BY <1>1, <2>1, Working
  <2>0. file' = file \/ Torn(c)
    BY <1>7, Breaking DEF SInv
  <2>9. \A v \in Uids \ {t.uid} : file'[v] = file[v]
    BY <2>0 DEF Torn, SInv, IInv, StoreOK
  <2>3. memory' = memory
    <3>1. ASSUME Switches(t) PROVE Restored(t) = memory
      <4>1. t.old = memory.current
        BY <2>2, <3>1 DEF Mine
      <4>2. [memory EXCEPT !.current = memory.current] = memory
        BY <2>2 DEF Index
      <4> QED BY <4>1, <4>2 DEF Restored
    <3> QED BY <1>4, <1>5, <3>1
  <2>4. /\ ~At1(r, {"load", "keep", "publish"})
        /\ r.name = "update" => ~Loads(r) /\ Has(r.todo, "again")
        /\ r.name = "save" => ~Loads(r) /\ r.restoring
        /\ t.name = "save" /\ t.todo[1] # "put" => r.name = "save" /\ r.uid = t.uid
        /\ t.name = "save" /\ t.todo[1] = "put" => r = Idle
        /\ t.name = "switch" /\ t.todo[1] = "keep" => r.name = "switch" /\ r.restoring /\ Loads(r)
    BY <1>1, <1>3, <2>1, RecoveryRuns
  <2>5. ASSUME r # Idle PROVE CoreMine(r)'
    <3>1. r.name = t.name /\ r.uid = t.uid /\ r.restoring /\ r.old = t.old
      BY <1>3, <2>5
    <3>2. t.name \in {"update", "save"} => t.uid \in memory.items /\ r.data = t.old
      BY <1>3, <2>2, <2>5 DEF CoreMine
    <3>3. t.name \in {"update", "save"} => Sure(r)' /\ ~Loads(r)'
      BY <2>4, <3>1 DEF Sure, Loads
    <3>4. t.name = "save" /\ t.uid = memory.current => core \in {NoProfile, [uid |-> t.uid, content |-> t.old]}
      BY <2>2 DEF CoreMine
    <3>5. ~At1(r, {"load"}) /\ ~At1(r, {"keep", "publish"})
      BY <2>4 DEF At1
    <3> QED BY <1>4, <2>3, <3>1, <3>2, <3>3, <3>4, <3>5 DEF CoreMine
  <2>6. CoreMine(task[c])'
    BY <1>3, <2>5, IdleRuns
  <2>7. CASE CoreOK
    <3>1. CASE file' = file \/ memory.current # t.uid
      <4>1. memory.current # None => file'[memory.current] = file[memory.current]
        BY <2>2, <2>9, <3>1 DEF Index
      <4> QED BY <1>4, <2>1, <2>3, <2>6, <2>7, <2>9, <4>1, CoreStays
    <3>2. CASE Torn(c) /\ memory.current = t.uid
      <4>1. r.name = "update" /\ r.uid = t.uid
        BY <1>3, <2>1, <3>2 DEF Torn
      <4>2. Owes(r)'
        BY <2>3, <3>2, <4>1 DEF Owes
      <4> QED BY <1>3, <2>1, <2>3, <2>6, <2>9, <4>2
    <3> QED BY <2>0, <3>1, <3>2
  <2>8. CASE Owes(t)
    <3>1. CASE t.name = "update" /\ t.uid = memory.current
      <4>1. r.name = t.name /\ r.uid = t.uid
        BY <1>3, <2>1, <3>1
      <4>2. Owes(r)'
        BY <2>3, <3>1, <4>1 DEF Owes
      <4> QED BY <1>3, <2>1, <2>3, <2>6, <2>9, <4>2
    <3>2. CASE t.name = "save" /\ t.uid = memory.current /\ t.todo[1] # "put"
      <4>1. Owes(r)'
        BY <2>3, <2>4, <3>2 DEF Owes
      <4> QED BY <1>3, <2>1, <2>3, <2>6, <2>9, <4>1
    <3>3. CASE t.name = "save" /\ t.uid = memory.current /\ t.todo[1] = "put"
      <4>1. core \in {NoProfile, [uid |-> t.uid, content |-> t.old]} /\ file[t.uid] = t.old
        BY <1>1, <2>1, <2>2, <3>3 DEF CoreMine, At1
      <4>2. memory.current # None
        BY <2>2, <3>3, ProfileAssumption DEF CoreMine, Index
      <4>3. CoreOK
        BY <3>3, <4>1, <4>2 DEF CoreOK, Configuration
      <4> QED BY <2>7, <4>3
    <3>4. CASE At1(t, {"keep", "publish"})
      <4>1. t.todo[1] = "keep" /\ t.name = "switch"
        BY <1>1, <1>2, <2>2, <3>4, Loaders DEF At1
      <4>2. r.name = "switch" /\ r.restoring /\ Loads(r)
        BY <2>4, <4>1
      <4>3. Loads(r)'
        BY <4>2 DEF Loads
      <4>4. Owes(r)'
        BY <4>2, <4>3 DEF Owes
      <4> QED BY <1>3, <2>1, <2>3, <2>6, <2>9, <4>4
    <3> QED BY <2>1, <2>8, <3>1, <3>2, <3>3, <3>4 DEF Owes
  <2> QED BY <2>1, <2>3, <2>6, <2>7, <2>8, <2>9
<1>8. permit' # c /\ (permit' \notin {None, c} => UNCHANGED <<permit, copy>>)
  BY <1>1, <1>4
<1>9. task'[c] = Idle \/ (task'[c].name = t.name /\ task'[c].uid = t.uid)
  BY <1>3
<1> QED BY <1>1, <1>4, <1>6, <1>7, <1>8, <1>9, RunningStep

LEMMA BeginRuns ==
    ASSUME SInv, Running, NEW c \in Callers, NEW t \in Tasks, Begin(c, t),
           UNCHANGED <<memory, file, core, permit, copy>>, draft' = draft \/ Lone(t),
           "core" \notin excused' => CoreMine(t)'
    PROVE  Running'
<1>1. /\ task[c] = Idle /\ task'[c] = t /\ Others(c)
      /\ excused' = excused \cup UNION {Excuses(t, task[d]) \cup Excuses(task[d], t) : d \in {d \in Callers \ {c} : task[d] # Idle}}
  BY DEF Begin, Others, SInv, IInv, TaskOK
<1>2. permit # c
  BY <1>1, IdleOK, ProfileAssumption DEF SInv, Formed, At1
<1> SUFFICES ASSUME "core" \notin excused' PROVE Running'
  BY DEF Running
<1>3. /\ "core" \notin excused
      /\ \A d \in Callers \ {c} : task[d] # Idle => "core" \notin Excuses(t, task[d]) /\ "core" \notin Excuses(task[d], t)
  BY <1>1
<1>4. \A d \in Callers \ {c} : task[d] # Idle => ~Lone(t) /\ ~Lone(task[d])
  BY <1>3 DEF Excuses, Lone
<1>5. /\ Alone /\ \A d \in Callers : CoreMine(task[d])
      /\ permit # None => CoreHeld(task[permit])
      /\ CoreOK \/ \E d \in Callers : Owes(task[d])
  BY <1>3 DEF Running
<1>6. Alone'
  <2>1. ASSUME NEW d \in Callers, NEW e \in Callers, d # e, task'[d] # Idle, task'[e] # Idle PROVE ~Lone(task'[d])
    <3>1. CASE d = c
      <4>1. task'[e] = task[e]
        BY <1>1, <2>1, <3>1 DEF Others
      <4> QED BY <1>1, <1>4, <2>1, <3>1, <4>1
    <3>2. CASE d # c
      <4>1. task'[d] = task[d]
        BY <1>1, <3>2 DEF Others
      <4> QED BY <1>4, <2>1, <3>2, <4>1
    <3> QED BY <3>1, <3>2
  <2> QED BY <2>1 DEF Alone, Lone, Idle
<1>7. ASSUME NEW d \in Callers PROVE CoreMine(task[d])'
  <2>1. CASE d = c
    BY <1>1, <2>1
  <2>2. CASE d # c /\ task[d] = Idle
    BY <1>1, <2>2, IdleRuns DEF Others
  <2>3. CASE d # c /\ task[d] # Idle
    <3>1. task'[d] = task[d] /\ CoreMine(task[d]) /\ draft' = draft
      BY <1>1, <1>4, <1>5, <2>3 DEF Others
    <3>2. Wanted' = Wanted
      BY <3>1 DEF Wanted, Latest, Configuration
    <3> QED BY <3>1, <3>2 DEF CoreMine, At1, Loads, Sure, Configuration
  <2> QED BY <2>1, <2>2, <2>3
<1>8. ASSUME permit' # None PROVE CoreHeld(task[permit])'
  <2>1. permit \in Callers \ {c} /\ task'[permit] = task[permit] /\ CoreHeld(task[permit])
    BY <1>1, <1>2, <1>5, <1>8 DEF SInv, IInv, StoreOK, Others
  <2>2. task'[permit'] = task[permit]
    BY <2>1
  <2> QED BY <2>1, <2>2 DEF CoreHeld, Loads
<1>9. CoreOK' \/ \E d \in Callers : Owes(task[d])'
  <2>1. CASE CoreOK
    BY <2>1, CoreStays
  <2>2. ASSUME NEW d \in Callers, Owes(task[d]) PROVE Owes(task[d])'
    <3>1. task'[d] = task[d]
      BY <1>1, <2>2, IdleRuns DEF Others
    <3> QED BY <2>2, <3>1 DEF Owes, Loads, At1
  <2> QED BY <1>5, <2>1, <2>2
<1> QED BY <1>6, <1>7, <1>8, <1>9 DEF Running

\* a command that does not work alone begins beside no task that does, and finds the core right
\* if the current profile is its own
LEMMA BeginsBeside ==
    ASSUME SInv, Running, NEW c \in Callers, NEW t \in Tasks, Begin(c, t), "core" \notin excused'
    PROVE  /\ "core" \notin excused
           /\ t.name # "switch" => draft = None
           /\ t.name = "save" /\ t.uid = memory.current => CoreOK
<1>1. /\ task[c] = Idle
      /\ excused' = excused \cup UNION {Excuses(t, task[d]) \cup Excuses(task[d], t) : d \in {d \in Callers \ {c} : task[d] # Idle}}
  BY DEF Begin
<1>2. /\ "core" \notin excused
      /\ \A d \in Callers \ {c} : task[d] # Idle => "core" \notin Excuses(t, task[d]) /\ "core" \notin Excuses(task[d], t)
  BY <1>1
<1>3. \A d \in Callers \ {c} : task[d] # Idle => ~Lone(task[d]) /\ task[d].uid # t.uid
  BY <1>2 DEF Excuses, Lone
<1>4. draft = None
  <2>1. ASSUME draft # None PROVE FALSE
    <3>1. PICK e \in Callers : Switches(task[e])
      BY <2>1 DEF SInv, IInv, SwitchOK
    <3>2. Lone(task[e]) /\ task[e] # Idle /\ e # c
      BY <1>1, <3>1, IdleOK DEF Switches, Lone
    <3> QED BY <1>3, <3>2
  <2> QED BY <2>1
<1>5. ASSUME t.uid = memory.current PROVE CoreOK
  <2>1. ASSUME NEW d \in Callers, Owes(task[d]) PROVE FALSE
    <3>1. task[d] # Idle /\ d # c
      BY <1>1, <2>1, IdleRuns
    <3>2. ~Lone(task[d]) /\ task[d].uid # memory.current
      BY <1>3, <1>5, <3>1
    <3>3. task[d].todo # <<>> /\ task[d] \in Tasks /\ Form(task[d])
      BY <3>1, NotIdle DEF SInv, Formed, IInv, TaskOK
    <3>4. ~At1(task[d], {"keep", "publish"})
      BY <3>2, <3>3, Loaders DEF Lone
    <3> QED BY <2>1, <3>2, <3>4 DEF Owes, Lone
  <2> QED BY <1>2, <2>1 DEF Running
<1> QED BY <1>2, <1>4, <1>5

\* a command that may write the file of the current profile
LEMMA ReloadBegins ==
    ASSUME SInv, Running, NEW c \in Callers, NEW t \in Tasks, Begin(c, t), t.name \in {"update", "save"}, ~t.restoring,
           t.uid \in Latest.items, Loads(t) <=> t.uid = Latest.current, At1(t, {"download", "put"}), file[t.uid] = t.old,
           UNCHANGED <<memory, draft, file, core, permit, copy>>
    PROVE  Running'
<1>1. ASSUME "core" \notin excused' PROVE CoreMine(t)'
  <2>1. Latest = memory /\ (t.name = "save" /\ t.uid = memory.current => CoreOK)
    BY <1>1, BeginsBeside DEF Latest
  <2>2. t.uid \in memory.items /\ (Loads(t) <=> t.uid = memory.current)
    BY <2>1
  <2>3. Loads(t)' <=> Loads(t)
    BY DEF Loads
  <2>4. t.name = "save" /\ t.uid = memory.current => core \in {NoProfile, [uid |-> t.uid, content |-> t.old]}
    BY <2>1 DEF CoreOK, Configuration
  <2>5. ~At1(t, {"load"}) /\ ~At1(t, {"keep", "publish"})
    BY DEF At1
  <2> QED BY <2>2, <2>3, <2>4, <2>5 DEF CoreMine, Sure
<1> QED BY <1>1, BeginRuns

\* one that does not
LEMMA PlainBegins ==
    ASSUME SInv, Running, NEW c \in Callers, NEW t \in Tasks, Begin(c, t), t.name \notin {"update", "save"},
           At1(t, {"enter", "generate"}), draft' = draft \/ Lone(t), UNCHANGED <<memory, file, core, permit, copy>>
    PROVE  Running'
<1>1. CoreMine(t)'
  BY DEF CoreMine, At1
<1> QED BY <1>1, BeginRuns

LEMMA CommandRuns == ASSUME SInv, Running, NEW c \in Callers, Command(c) PROVE Running'
<1>0. /\ file \in [Uids -> Contents \cup {None}] /\ memory.current \in Uids \cup {None}
      /\ \A s, a, r : Then(s, a, r) => s \in Seq(Steps) /\ s # <<>> /\ s[1] = a
  BY DEF SInv, IInv, StoreOK, Then, Index
<1>1. ASSUME NEW u \in Uids, UpdateProfile(c, u) PROVE Running'
  <2> DEFINE q == IF u = Latest.current THEN Reload ELSE <<>>
             old == file[u]
             w == Task("update", DownloadThen(q), u, None, old)
  <2>1. /\ q \in Ends /\ Then(DownloadThen(q), "download", UpdateThen(q))
        /\ (<<"download">> \o Modify(<<"write", "save">>)) \o q = DownloadThen(q)
    BY FirstLists
  <2>2. u \in Latest.items /\ UNCHANGED <<memory, draft, file, core, permit, copy>> /\ old \in Contents
    BY <1>0, <1>1 DEF UpdateProfile, store, locks
  <2>3. Begin(c, w)
    <3>1. Begin(c, Task("update", (<<"download">> \o Modify(<<"write", "save">>)) \o q, u, None, old))
      BY <1>1 DEF UpdateProfile
    <3> QED BY <2>1, <3>1
  <2>4. w \in Tasks /\ w.name = "update" /\ w.todo = DownloadThen(q) /\ w.uid = u /\ w.old = old /\ ~w.restoring
    <3>1. DownloadThen(q) \in Seq(Steps)
      BY <1>0, <2>1
    <3> HIDE DEF q, old
    <3> QED BY <2>2, <3>1, Fields
  <2>5. Has(DownloadThen(q), "load") <=> u = Latest.current
    <3>1. q \in Rests
      BY DEF Rests
    <3>2. /\ Then(UpdateThen(q), "enter", WriteThen(q)) /\ Then(WriteThen(q), "write", SaveThen(q))
          /\ Then(SaveThen(q), "save", CommitThen(q)) /\ Then(CommitThen(q), "commit", q)
      BY <3>1, ThensHere
    <3>3. Has(DownloadThen(q), "load") <=> Has(q, "load")
      BY <2>1, <3>2, LoadLists
    <3> QED BY <3>3, LoadLists
  <2> HIDE DEF w
  <2>6. PICK t \in Tasks : /\ Begin(c, t) /\ t.name = "update" /\ t.todo = w.todo /\ t.uid = u /\ t.old = old /\ ~t.restoring
    BY <2>3, <2>4
  <2>7. (Loads(t) <=> t.uid = Latest.current) /\ At1(t, {"download", "put"}) /\ file[t.uid] = t.old /\ t.uid \in Latest.items
    BY <1>0, <2>1, <2>2, <2>4, <2>5, <2>6 DEF Loads, At1
  <2> QED BY <2>2, <2>6, <2>7, ReloadBegins
<1>2. ASSUME NEW u \in Uids, NEW x \in Contents, SaveProfileFile(c, u, x) PROVE Running'
  <2> DEFINE q == IF u = Latest.current THEN Reload ELSE <<>>
             old == file[u]
             w == Task("save", PutThen(q), u, x, old)
  <2>1. q \in Ends /\ Then(PutThen(q), "put", ValidateThen(q)) /\ <<"put", "validate">> \o q = PutThen(q)
    BY FirstLists
  <2>2. u \in Latest.items /\ UNCHANGED <<memory, draft, file, core, permit, copy>> /\ old \in Contents
    BY <1>0, <1>2 DEF SaveProfileFile, store, locks
  <2>3. Begin(c, w)
    <3>1. Begin(c, Task("save", <<"put", "validate">> \o q, u, x, old))
      BY <1>2 DEF SaveProfileFile
    <3> QED BY <2>1, <3>1
  <2>4. w \in Tasks /\ w.name = "save" /\ w.todo = PutThen(q) /\ w.uid = u /\ w.old = old /\ ~w.restoring
    <3>1. PutThen(q) \in Seq(Steps)
      BY <1>0, <2>1
    <3> HIDE DEF q, old
    <3> QED BY <2>2, <3>1, Fields
  <2>5. Has(PutThen(q), "load") <=> u = Latest.current
    <3>1. q \in Rests
      BY DEF Rests
    <3>2. Then(ValidateThen(q), "validate", q)
      BY <3>1, ThensHere
    <3>3. Has(PutThen(q), "load") <=> Has(q, "load")
      BY <2>1, <3>2, LoadLists
    <3> QED BY <3>3, LoadLists
  <2> HIDE DEF w
  <2>6. PICK t \in Tasks : /\ Begin(c, t) /\ t.name = "save" /\ t.todo = w.todo /\ t.uid = u /\ t.old = old /\ ~t.restoring
    BY <2>3, <2>4
  <2>7. (Loads(t) <=> t.uid = Latest.current) /\ At1(t, {"download", "put"}) /\ file[t.uid] = t.old /\ t.uid \in Latest.items
    BY <1>0, <2>1, <2>2, <2>4, <2>5, <2>6 DEF Loads, At1
  <2> QED BY <2>2, <2>6, <2>7, ReloadBegins
<1>3. ASSUME NEW t, Begin(c, t), t.name \in {"create", "delete", "touch", "reorder"}, t \in Tasks, NEW s, Then(t.todo, "enter", s),
             UNCHANGED <<memory, draft, file, core, permit, copy>>
      PROVE  Running'
  <2>1. At1(t, {"enter", "generate"})
    BY <1>0, <1>3 DEF At1
  <2> QED BY <1>3, <2>1, PlainBegins
<1>4. ASSUME NEW u \in Uids, NEW x \in Contents, CreateProfile(c, u, x) PROVE Running'
  <2>1. Then(CreateNew, "enter", WriteNew) /\ Modify(<<"write", "append">>) \o SaveIndex = CreateNew /\ CreateNew \in Seq(Steps)
    BY <1>0, FirstLists
  <2>2. Begin(c, Task("create", CreateNew, u, x, None)) /\ UNCHANGED <<memory, draft, file, core, permit, copy>>
    BY <1>4, <2>1 DEF CreateProfile, store, locks
  <2>3. LET t == Task("create", CreateNew, u, x, None) IN t \in Tasks /\ t.name = "create" /\ t.todo = CreateNew
    BY <2>1, Fields
  <2> QED BY <1>3, <2>1, <2>2, <2>3
<1>5. ASSUME NEW u \in Uids, DeleteProfile(c, u) PROVE Running'
  <2>1. /\ Then(DeleteThen(EnterThen(<<>>)), "enter", RemoveThen(EnterThen(<<>>)))
        /\ Modify(<<"remove", "save">>) \o SaveIndex = DeleteThen(EnterThen(<<>>)) /\ DeleteThen(EnterThen(<<>>)) \in Seq(Steps)
    BY <1>0, FirstLists
  <2>2. Begin(c, Task("delete", DeleteThen(EnterThen(<<>>)), u, None, None)) /\ UNCHANGED <<memory, draft, file, core, permit, copy>>
    BY <1>5, <2>1 DEF DeleteProfile, store, locks
  <2>3. LET t == Task("delete", DeleteThen(EnterThen(<<>>)), u, None, None)
        IN t \in Tasks /\ t.name = "delete" /\ t.todo = DeleteThen(EnterThen(<<>>))
    BY <2>1 DEF Task, Idle, Tasks
  <2> QED BY <1>3, <2>1, <2>2, <2>3
<1>6. ASSUME NEW u \in Uids, PatchProfile(c, u) PROVE Running'
  <2>1. Then(EnterThen(<<>>), "enter", SaveThen(<<>>)) /\ SaveIndex = EnterThen(<<>>) /\ EnterThen(<<>>) \in Seq(Steps)
    BY <1>0, FirstLists
  <2>2. Begin(c, Task("touch", EnterThen(<<>>), u, None, None)) /\ UNCHANGED <<memory, draft, file, core, permit, copy>>
    BY <1>6, <2>1 DEF PatchProfile, store, locks
  <2>3. LET t == Task("touch", EnterThen(<<>>), u, None, None) IN t \in Tasks /\ t.name = "touch" /\ t.todo = EnterThen(<<>>)
    BY <2>1 DEF Task, Idle, Tasks
  <2> QED BY <1>3, <2>1, <2>2, <2>3
<1>7. ASSUME NEW u \in Uids, ReorderProfile(c, u) PROVE Running'
  <2>1. Then(ReorderAll, "enter", ReorderNow) /\ Modify(<<"reorder">>) = ReorderAll /\ ReorderAll \in Seq(Steps)
    BY <1>0, FirstLists
  <2>2. Begin(c, Task("reorder", ReorderAll, u, None, None)) /\ UNCHANGED <<memory, draft, file, core, permit, copy>>
    BY <1>7, <2>1 DEF ReorderProfile, store, locks
  <2>3. LET t == Task("reorder", ReorderAll, u, None, None) IN t \in Tasks /\ t.name = "reorder" /\ t.todo = ReorderAll
    BY <2>1 DEF Task, Idle, Tasks
  <2> QED BY <1>3, <2>1, <2>2, <2>3
<1>8. ASSUME NEW u \in Uids, PatchProfilesConfig(c, u) PROVE Running'
  <2>1. Then(SwitchAll, "generate", LoadKeep) /\ Reload \o <<"keep", "publish">> = SwitchAll /\ SwitchAll \in Seq(Steps)
    BY <1>0, FirstLists
  <2> DEFINE old == memory.current
             w == Task("switch", SwitchAll, u, None, old)
  <2>2. Begin(c, w) /\ UNCHANGED <<memory, file, core, permit, copy>>
    BY <1>8, <2>1 DEF PatchProfilesConfig, locks
  <2>3. w \in Tasks /\ w.name = "switch" /\ w.todo = SwitchAll
    <3>1. old \in Uids \cup {None}
      BY <1>0
    <3> HIDE DEF old
    <3> QED BY <2>1, <3>1 DEF Task, Idle, Tasks
  <2> HIDE DEF w
  <2>4. PICK t \in Tasks : Begin(c, t) /\ t.name = "switch" /\ t.todo = SwitchAll
    BY <2>2, <2>3
  <2>5. At1(t, {"enter", "generate"}) /\ Lone(t)
    BY <1>0, <2>1, <2>4 DEF At1, Lone
  <2> QED BY <2>2, <2>4, <2>5, PlainBegins
<1> QED BY <1>1, <1>2, <1>4, <1>5, <1>6, <1>7, <1>8 DEF Command

LEMMA StepRuns == ASSUME SInv, Heads, Running, NEW c \in Callers, Step(c) PROVE Running'
<1>1. CASE \E x \in Contents : Download(c, x)
  BY <1>1, DownloadRuns
<1>2. CASE Enter(c) \/ WriteFile(c) \/ AppendItem(c) \/ DeleteItem(c) \/ Reorder(c) \/ SaveFile(c) \/ Commit(c)
  BY <1>2, EnterRuns, WriteRuns, AppendRuns, DeleteRuns, ReorderRuns, SaveRuns, CommitRuns
<1>3. CASE Put(c) \/ Validate(c) \/ Generate(c) \/ Load(c) \/ Again(c) \/ Keep(c) \/ Publish(c) \/ Breaks(c)
  BY <1>3, PutRuns, ValidateRuns, GenerateRuns, LoadRuns, AgainRuns, KeepRuns, PublishRuns, FailRuns
<1> QED BY <1>1, <1>2, <1>3 DEF Step, Breaks

LEMMA UnchangedRuns == ASSUME Heads, Running, UNCHANGED vars PROVE Heads' /\ Running'
<1>1. UNCHANGED <<memory, draft, saved, file, core, permit, copy, task, excused>>
  BY DEF vars, store, locks, history
<1>2. Heads'
  BY <1>1 DEF Heads, Headed
<1>3. /\ Wanted' = Wanted
      /\ \A c \in Callers : (CoreMine(task[c]) <=> CoreMine(task[c])') /\ (Owes(task[c]) <=> Owes(task[c])')
  <2>1. Wanted' = Wanted
    BY <1>1 DEF Wanted, Latest, Configuration
  <2> QED BY <1>1, <2>1 DEF CoreMine, Owes, Sure, Loads, At1, Configuration
<1>4. permit # None => (CoreHeld(task[permit]) <=> CoreHeld(task[permit])')
  BY <1>1 DEF CoreHeld, Loads
<1>5. (Alone <=> Alone') /\ (CoreOK <=> CoreOK')
  BY <1>1 DEF Alone, Lone, CoreOK, Configuration, Idle
<1> QED BY <1>1, <1>2, <1>3, <1>4, <1>5 DEF Running

LEMMA InitiallyRuns == ASSUME Init PROVE Heads /\ Running
<1>1. PICK items \in (SUBSET Uids) \ {{}} : \E u \in items, content \in [items -> Contents] :
         /\ memory = [items |-> items, current |-> u]
         /\ file = [v \in Uids |-> IF v \in items THEN content[v] ELSE None]
         /\ core = [uid |-> u, content |-> content[u]]
  BY DEF Init
<1>2. PICK u \in items, content \in [items -> Contents] :
         /\ memory = [items |-> items, current |-> u]
         /\ file = [v \in Uids |-> IF v \in items THEN content[v] ELSE None]
         /\ core = [uid |-> u, content |-> content[u]]
  BY <1>1
<1>3. /\ saved = memory /\ draft = None /\ copy = None /\ permit = None /\ excused = {}
      /\ \A c \in Callers : task[c] = Idle
  BY DEF Init
<1>4. memory.current = u /\ u \in Uids /\ u # None /\ file[u] = content[u]
  BY <1>2, ProfileAssumption
<1>5. Heads
  BY <1>3, <1>4 DEF Heads, Headed
<1>6. CoreOK
  BY <1>2, <1>4 DEF CoreOK, Configuration
<1>7. CoreMine(Idle)
  BY DEF CoreMine, Idle, At1
<1> QED BY <1>3, <1>5, <1>6, <1>7 DEF Running, Alone

\* an index without a current profile stays empty
LEMMA HeadsStep == ASSUME SInv, Heads, Next PROVE Heads'
<1>0. /\ memory \in Index /\ saved \in Index /\ Headed(memory) /\ Headed(saved)
      /\ draft # None => draft \in Index /\ Headed(draft)
      /\ copy # None => copy \in Index /\ Headed(copy)
      /\ None \notin Uids
  BY ProfileAssumption DEF SInv, IInv, StoreOK, Heads
<1>1. CASE Restart
  <2>1. memory' \in {saved, NoIndex} /\ saved' = memory' /\ draft' = None /\ copy' = None
    BY <1>1 DEF Restart
  <2> QED BY <1>0, <2>1 DEF Heads, Headed, NoIndex
<1>2. ASSUME NEW c \in Callers, Command(c) PROVE Heads'
  <2>1. /\ UNCHANGED <<memory, saved, copy>>
        /\ draft' = draft \/ \E u \in Uids : draft' = [memory EXCEPT !.current = u]
    BY <1>2 DEF Command, UpdateProfile, DeleteProfile, PatchProfile, ReorderProfile, PatchProfilesConfig, SaveProfileFile,
                CreateProfile, store, locks
  <2>2. draft' # None => Headed(draft')
    BY <1>0, <2>1 DEF Headed, Index
  <2> QED BY <1>0, <2>1, <2>2 DEF Heads, Headed
<1>3. ASSUME NEW c \in Callers, Step(c) \/ TimeOut(c) PROVE Heads'
  <2>1. CASE TimeOut(c)
    BY <2>1, <1>0 DEF TimeOut, store, Heads, Headed
  <2>2. CASE Breaks(c)
    <3>1. copy' = copy /\ saved' \in {saved, NoIndex} /\ draft' \in {draft, None} /\ memory' \in {memory, Restored(task[c])}
      BY <2>2, Breaking DEF GivesUp, SInv
    <3>2. Headed(Restored(task[c]))
      <4>1. Restored(task[c]) = memory \/ (task[c].old \in Uids /\ Restored(task[c]) = [memory EXCEPT !.current = task[c].old])
        BY <1>0 DEF Restored, Index
      <4> QED BY <1>0, <4>1 DEF Headed, Index
    <3>3. Headed(memory') /\ (draft' # None => Headed(draft'))
      BY <1>0, <3>1, <3>2
    <3> QED BY <1>0, <3>1, <3>3 DEF Heads, Headed, NoIndex
  <2>3. CASE Enter(c)
    BY <1>0, <2>3 DEF Enter, store, Heads, Headed
  <2>4. CASE AppendItem(c)
    <3>1. task[c].uid \in Uids
      BY <2>4, Starts DEF SInv, AppendItem
    <3>2. UNCHANGED <<memory, saved, draft>> /\ Headed(copy')
      BY <1>0, <2>4, <3>1 DEF AppendItem, store, Headed
    <3> QED BY <1>0, <3>2 DEF Heads, Headed
  <2>5. CASE DeleteItem(c)
    <3>1. Headed(copy')
      BY <2>5 DEF DeleteItem, Headed
    <3>2. UNCHANGED <<memory, saved, draft>>
      BY <2>5 DEF DeleteItem
    <3> QED BY <1>0, <3>1, <3>2 DEF Heads, Headed
  <2>6. CASE Reorder(c)
    <3>0. copy \in Index
      BY <2>6, Starts DEF SInv, Reorder, Inside
    <3>1. copy' = copy \/ copy' = [copy EXCEPT !.items = {}]
      BY <2>6 DEF Reorder
    <3>2. UNCHANGED <<memory, saved, draft>> /\ (copy' # None => Headed(copy'))
      BY <1>0, <2>6, <3>0, <3>1 DEF Reorder, store, Headed, Index
    <3> QED BY <1>0, <3>2 DEF Heads, Headed
  <2>7. CASE SaveFile(c) \/ Commit(c)
    <3>1. copy \in Index
      BY <2>7, Starts DEF SInv, SaveFile, Commit, Inside
    <3>2. copy # None
      BY <3>1, ProfileAssumption
    <3> QED BY <1>0, <2>7, <3>2 DEF SaveFile, Commit, locks, Heads, Headed
  <2>8. CASE Keep(c) \/ Publish(c)
    <3>1. draft \in Index
      BY <2>8, Starts DEF SInv, Keep, Publish
    <3>2. draft # None
      BY <3>1, ProfileAssumption
    <3> QED BY <1>0, <2>8, <3>2 DEF Keep, Publish, locks, Heads, Headed
  <2>9. CASE (\E x \in Contents : Download(c, x)) \/ WriteFile(c) \/ Put(c) \/ Validate(c) \/ Generate(c) \/ Load(c) \/ Again(c)
    <3>1. UNCHANGED <<memory, saved, draft, copy>>
      BY <2>9 DEF Download, WriteFile, Put, Validate, Generate, Load, Again, store, locks
    <3> QED BY <1>0, <3>1 DEF Heads, Headed
  <2> QED BY <1>3, <2>1, <2>2, <2>3, <2>4, <2>5, <2>6, <2>7, <2>8, <2>9 DEF Step, Breaks
<1> QED BY <1>1, <1>2, <1>3 DEF Next

\* The third inductive invariant holds in every reachable state.
THEOREM AlwaysRuns == Spec => []RInv
<1>1. Init => Heads /\ Running
  BY InitiallyRuns
<1>2. SInv /\ Heads /\ Running /\ [Next]_vars => Heads' /\ Running'
  <2>1. ASSUME SInv, Heads, Running, Next PROVE Running'
    <3>1. CASE Restart
      BY <2>1, <3>1, RestartRuns
    <3>2. ASSUME NEW c \in Callers, Command(c) \/ Step(c) \/ TimeOut(c) PROVE Running'
      BY <2>1, <3>2, CommandRuns, StepRuns, TimeOutRuns
    <3> QED BY <2>1, <3>1, <3>2 DEF Next
  <2> QED BY <2>1, HeadsStep, UnchangedRuns
<1> QED BY <1>1, <1>2, Settling, PTL DEF Spec, RInv

\* Whenever no task is under way, the core runs the current profile with what
\* its file holds (or nothing, when there was no profile to run), after every
\* success, after every edit the core refused and after every download that
\* was rolled back, in whatever order the tasks crossed, unless a recovery
\* failed too, an update timed out, or a switch or a removal crossed another task.
THEOREM CoreFollows == Spec => []CoreRunsFile
<1>1. RInv => CoreRunsFile
  <2>1. ASSUME RInv, Quiet, "core" \notin excused PROVE CoreOK
    <3>1. \A c \in Callers : ~Owes(task[c])
      BY <2>1 DEF Quiet, Owes, Idle, At1
    <3> QED BY <2>1, <3>1 DEF RInv, Running
  <2> QED BY <2>1 DEF CoreRunsFile, CoreOK
<1> QED BY <1>1, AlwaysRuns, PTL

================================================================================
