---------------------------- MODULE CreateProofs ----------------------------
(***************************************************************************)
(* Proofs about CreateContainer, for any tasks and any jobs: type          *)
(* correctness, that the jail that runs is what its job asks for, that an  *)
(* error of StartTask leaves no jail, and that the module implements the   *)
(* StartTask of PotDriver.                                                 *)
(***************************************************************************)
EXTENDS CreateContainer, SequenceTheorems, TLAPS

-----------------------------------------------------------------------------
(* Sequences of commands.                                                  *)

Command == [facts : SUBSET Facts, lax : BOOLEAN]

\* What the commands of a queue will make true.
Left(q) == UNION {q[i].facts : i \in DOMAIN q}

\* Running two queues one after the other makes true what either does.
LEMMA LeftOfConcat ==
  ASSUME NEW S, NEW a \in Seq(S), NEW b \in Seq(S)
  PROVE  Left(a \o b) = Left(a) \cup Left(b)
<1>1. /\ DOMAIN a = 1..Len(a) /\ DOMAIN b = 1..Len(b)
      /\ DOMAIN (a \o b) = 1..(Len(a) + Len(b))
      /\ Len(a) \in Nat /\ Len(b) \in Nat
  BY ConcatProperties, LenProperties
<1>2. ASSUME NEW i \in DOMAIN (a \o b)
      PROVE  \/ \E j \in DOMAIN a : (a \o b)[i] = a[j]
             \/ \E j \in DOMAIN b : (a \o b)[i] = b[j]
  BY <1>1, ConcatProperties
<1>3. ASSUME NEW j \in DOMAIN a
      PROVE  j \in DOMAIN (a \o b) /\ (a \o b)[j] = a[j]
  BY <1>1, ConcatProperties
<1>4. ASSUME NEW j \in DOMAIN b
      PROVE  \E i \in DOMAIN (a \o b) : (a \o b)[i] = b[j]
  <2>1. Len(a) + j \in DOMAIN (a \o b) /\ (a \o b)[Len(a) + j] = b[j]
    BY <1>1, ConcatProperties
  <2> QED
    BY <2>1
<1> QED
  BY <1>2, <1>3, <1>4 DEF Left

\* The first command of a queue, and what follows.
LEMMA LeftOfTail ==
  ASSUME NEW S, NEW q \in Seq(S), q # <<>>
  PROVE  /\ Head(q) \in S /\ Tail(q) \in Seq(S)
         /\ Tail(q) = <<>> <=> Len(q) = 1
         /\ Left(q) = Head(q).facts \cup Left(Tail(q))
<1>1. /\ Head(q) \in S /\ Tail(q) \in Seq(S)
      /\ Len(Tail(q)) = Len(q) - 1 /\ Len(q) \in Nat \ {0}
      /\ \A i \in 1..Len(Tail(q)) : Tail(q)[i] = q[i+1]
      /\ DOMAIN q = 1..Len(q) /\ DOMAIN Tail(q) = 1..Len(Tail(q))
      /\ Head(q) = q[1]
  <2>1. Head(q) \in S /\ Tail(q) \in Seq(S) /\ Len(Tail(q)) = Len(q) - 1
    BY HeadTailProperties
  <2>2. \A i \in 1..Len(Tail(q)) : Tail(q)[i] = q[i+1]
    BY HeadTailProperties
  <2>3. /\ DOMAIN q = 1..Len(q) /\ DOMAIN Tail(q) = 1..Len(Tail(q))
        /\ Len(q) \in Nat
    BY <2>1, LenProperties
  <2>4. Len(q) # 0 /\ Head(q) = q[1]
    BY EmptySeq
  <2> QED
    BY <2>1, <2>2, <2>3, <2>4
<1>2. Tail(q) = <<>> <=> Len(q) = 1
  BY <1>1, EmptySeq
<1>3. ASSUME NEW i \in DOMAIN q
      PROVE  q[i] = Head(q) \/ \E k \in DOMAIN Tail(q) : q[i] = Tail(q)[k]
  <2>1. CASE i = 1
    BY <1>1, <2>1
  <2>2. CASE i # 1
    <3>1. i - 1 \in DOMAIN Tail(q) /\ q[i] = Tail(q)[i-1]
      BY <1>1, <2>2
    <3> QED
      BY <3>1
  <2> QED
    BY <2>1, <2>2
<1>4. \A k \in DOMAIN Tail(q) : \E i \in DOMAIN q : q[i] = Tail(q)[k]
  BY <1>1
<1>5. \E i \in DOMAIN q : q[i] = Head(q)
  BY <1>1
<1>6. Left(q) = Head(q).facts \cup Left(Tail(q))
  BY <1>3, <1>4, <1>5 DEF Left
<1> QED
  BY <1>1, <1>2, <1>6

LEMMA LeftOfEmpty == Left(<<>>) = {}
  BY DEF Left

LEMMA SetOfConcat ==
  ASSUME NEW S, NEW a \in Seq(S), NEW b \in Seq(S)
  PROVE  ToSet(a \o b) = ToSet(a) \cup ToSet(b)
<1>1. Range(a \o b) = Range(a) \cup Range(b)
  BY RangeConcatenation
<1> QED
  BY <1>1 DEF Range, ToSet

\* A finite function on 1..n is a sequence over any set that has its values.
LEMMA IsSequence ==
  ASSUME NEW n \in Nat, NEW f, f = [i \in 1..n |-> f[i]], NEW S,
         ToSet(f) \subseteq S
  PROVE  f \in Seq(S)
<1>1. \A i \in 1..n : f[i] \in S
  BY DEF ToSet
<1> QED
  BY <1>1

\* Commands of one fact each.
LEMMA LeftOfEach ==
  ASSUME NEW a \in Seq(Facts)
  PROVE  /\ [i \in DOMAIN a |-> Lax(a[i])] \in Seq(Command)
         /\ Left([i \in DOMAIN a |-> Lax(a[i])]) = ToSet(a)
<1>1. DOMAIN a = 1..Len(a) /\ Len(a) \in Nat /\ \A i \in DOMAIN a : a[i] \in Facts
  BY LenProperties
<1>2. \A i \in DOMAIN a : Lax(a[i]) \in Command /\ Lax(a[i]).facts = {a[i]}
  BY <1>1 DEF Lax, Command
<1>3. [i \in DOMAIN a |-> Lax(a[i])] \in Seq(Command)
  BY <1>1, <1>2
<1>4. Left([i \in DOMAIN a |-> Lax(a[i])]) = ToSet(a)
  BY <1>2 DEF Left, ToSet
<1> QED
  BY <1>3, <1>4

\* Entries with their parts in order: those of the command line of an entry,
\* and those the job asks for.
LEMMA SetOfEach ==
  ASSUME NEW S, NEW entries \in Seq(S), NEW kind
  PROVE  ToSet(EachEntry(kind, entries))
           = {Fact(kind, e[1], <<e[2]>>) : e \in ToSet(entries)}
  BY LenProperties DEF EachEntry, ToSet

-----------------------------------------------------------------------------
(* What prepareContainer makes of a job.                                   *)

\* The directories of the task that every jail gets, and those of the job.
LEMMA SetOfMount ==
  ASSUME NEW j \in Jobs
  PROVE  ToSet(argvMount(j)) = {Fact("mount", "local", <<"/local">>),
                                Fact("mount", "secrets", <<"/secrets">>)}
                                 \cup ToSet(EachEntry("mount", j.mount))
<1> DEFINE two  == <<Fact("mount", "local", <<"/local">>),
                     Fact("mount", "secrets", <<"/secrets">>)>>
           mine == EachEntry("mount", j.mount)
           F    == ToSet(two) \cup ToSet(mine)
<1>1. ToSet(two) = {Fact("mount", "local", <<"/local">>),
                    Fact("mount", "secrets", <<"/secrets">>)}
  BY DEF ToSet
<1>2. mine \in Seq(F)
  <2>1. Len(j.mount) \in Nat
    BY JobAssumption, LenProperties
  <2> QED
    BY <2>1, IsSequence DEF EachEntry
<1>3. two \in Seq(F)
  BY <1>1
<1>4. argvMount(j) = two \o mine
  BY DEF argvMount
<1> HIDE DEF two, mine, F
<1>5. ToSet(argvMount(j)) = ToSet(two) \cup ToSet(mine)
  BY <1>2, <1>3, <1>4, SetOfConcat
<1> QED
  BY <1>1, <1>5 DEF mine

\* Of the facts a job asks for, what is left when a value is cut at its second
\* colon, if the driver cuts the values of that kind.
CutAtColon(f) ==
  IF f.kind \in {"attribute", "mount", "mountReadOnly"}
  THEN Fact(f.kind, f.key, <<Head(f.value)>>)
  ELSE f

\* An entry with a colon, cut.
LEMMA CutEach ==
  ASSUME NEW kind \in {"attribute", "mount", "mountReadOnly"}, NEW entries,
         \A e \in ToSet(entries) : Head(Tail(e)) = e[2]
  PROVE  {CutAtColon(f) : f \in Each(kind, entries)}
           = {Fact(kind, e[1], <<e[2]>>) : e \in ToSet(entries)}
<1>1. ASSUME NEW e \in ToSet(entries)
      PROVE  CutAtColon(Fact(kind, e[1], Tail(e))) = Fact(kind, e[1], <<e[2]>>)
  BY DEF CutAtColon, Fact
<1> QED
  BY <1>1 DEF Each

\* A list of two.
LEMMA Pair ==
  ASSUME NEW S, NEW a \in S, NEW b \in S
  PROVE  <<a, b>> \in Seq(S) /\ ToSet(<<a, b>>) = {a, b}
<1>1. <<a, b>> \in Seq(S)
  OBVIOUS
<1>2. ToSet(<<a, b>>) = {a, b}
  BY DEF ToSet
<1> QED
  BY <1>1, <1>2

\* The command lines for the entries of a job give what the job asks for.
LEMMA GivenByCommands ==
  ASSUME NEW j \in Jobs, Accepted(j)
  PROVE  Given(j) = argvCreate(j) \cup argvEnv(j) \cup argvExtraHosts(j)
           \cup {argvMem(j)}
           \cup ToSet(argvAttributes(j)) \cup ToSet(argvCopy(j))
           \cup ToSet(argvMount(j)) \cup ToSet(argvMountReadOnly(j))
<1> DEFINE ours == <<<<"local", "/local">>, <<"secrets", "/secrets">>>>
           unnamed == j.network = "" /\ j.ports = <<>>
           net   == {Fact("network", NetworkMode(j), <<>>)}
           image == {Fact("image", j.image, <<>>)}
           plain == image \cup {argvMem(j)} \cup argvCommand(j)
                      \cup argvExport(j) \cup argvEnv(j) \cup argvExtraHosts(j)
           attr  == Each("attribute", j.attributes)
           copy  == Each("copy", j.copy)
           mount == Each("mount", j.mount \o ours)
           ro    == Each("mountReadOnly", j.mountReadOnly)
           Kept(F) == {f \in F : f.kind = "network" => ~unnamed}
           Cut(F)  == {CutAtColon(f) : f \in F}
<1>1. /\ j.attributes \in Seq(Seq(STRING)) /\ j.copy \in Seq(Seq(STRING))
      /\ j.mount \in Seq(Seq(STRING)) /\ j.mountReadOnly \in Seq(Seq(STRING))
  BY JobAssumption
<1>2. /\ \A e \in ToSet(j.attributes) : Head(Tail(e)) = e[2]
      /\ \A e \in ToSet(j.mount) : Head(Tail(e)) = e[2]
      /\ \A e \in ToSet(j.mountReadOnly) : Head(Tail(e)) = e[2]
  <2>1. \A e \in Entries(j) : ~(Len(e) < 2)
    BY DEF Accepted, Malformed
  <2>2. /\ \A e \in ToSet(j.attributes) : e \in Seq(STRING)
        /\ \A e \in ToSet(j.mount) : e \in Seq(STRING)
        /\ \A e \in ToSet(j.mountReadOnly) : e \in Seq(STRING)
    BY <1>1, LenProperties DEF ToSet
  <2>3. ASSUME NEW e \in Seq(STRING), ~(Len(e) < 2)
        PROVE  Head(Tail(e)) = e[2]
    <3>1. Len(e) \in Nat
      BY LenProperties
    <3> QED
      BY <2>3, <3>1
  <2> QED
    BY <2>1, <2>2, <2>3 DEF Entries
<1>3. /\ Cut(attr) = ToSet(argvAttributes(j))
      /\ Cut(ro) = ToSet(argvMountReadOnly(j))
  BY <1>1, <1>2, CutEach, SetOfEach DEF argvAttributes, argvMountReadOnly
<1>4. Cut(copy) = ToSet(argvCopy(j))
  <2>1. copy = ToSet(argvCopy(j))
    <3>1. DOMAIN j.copy = 1..Len(j.copy)
      BY <1>1, LenProperties
    <3> QED
      BY <3>1 DEF argvCopy, ToSet, Each
  <2>2. \A f \in copy : CutAtColon(f) = f
    BY DEF Each, CutAtColon, Fact
  <2> HIDE DEF copy
  <2> QED
    BY <2>1, <2>2
<1>5. Cut(mount) = ToSet(argvMount(j))
  <2> DEFINE one == <<"local", "/local">>
             other == <<"secrets", "/secrets">>
             S == ToSet(j.mount) \cup {one, other}
  <2> HIDE DEF one, other
  <2>1. ours = <<one, other>>
    BY DEF one, other
  <2>2. ToSet(j.mount \o ours) = ToSet(j.mount) \cup {one, other}
    <3>1. ours \in Seq(S) /\ ToSet(ours) = {one, other}
      <4>1. one \in S /\ other \in S
        OBVIOUS
      <4> HIDE DEF S
      <4> QED
        BY <2>1, <4>1, Pair
    <3>2. j.mount \in Seq(S)
      BY <1>1, LenProperties, IsSequence
    <3> HIDE DEF ours, S
    <3> QED
      BY <3>1, <3>2, SetOfConcat
  <2>3. /\ one[1] = "local" /\ one[2] = "/local" /\ Head(Tail(one)) = one[2]
        /\ other[1] = "secrets" /\ other[2] = "/secrets"
        /\ Head(Tail(other)) = other[2]
    BY DEF one, other
  <2> HIDE DEF ours
  <2>4. Cut(mount) = {Fact("mount", e[1], <<e[2]>>) : e \in ToSet(j.mount \o ours)}
    BY <1>2, <2>2, <2>3, CutEach
  <2>5. ToSet(argvMount(j))
          = {Fact("mount", "local", <<"/local">>),
             Fact("mount", "secrets", <<"/secrets">>)}
              \cup {Fact("mount", e[1], <<e[2]>>) : e \in ToSet(j.mount)}
    BY <1>1, SetOfMount, SetOfEach
  <2> HIDE DEF S
  <2> QED
    BY <2>2, <2>3, <2>4, <2>5
<1>6. argvCommand(j) = {Fact("command", c, j.args) : c \in {j.command} \ {""}}
  BY DEF argvCommand
<1>7. argvNetwork(j) = IF unnamed THEN {} ELSE net
  BY DEF argvNetwork, NetworkMode
<1>8. argvExport(j) = {Fact("export", j.ports[p], <<HostPort(j, p)>>) :
                          p \in {p \in DOMAIN j.ports : NetworkMode(j) # "host"}}
  BY DEF argvExport, NetworkMode
<1>9. Asked(j) = plain \cup net \cup attr \cup copy \cup mount \cup ro
  BY <1>6, <1>8 DEF Asked, argvMem, argvEnv, argvExtraHosts
<1>10. Given(j) = Cut(Kept(Asked(j)))
  BY DEF Given, CutAtColon
<1>11. /\ \A f \in plain : f.kind # "network" /\ CutAtColon(f) = f
       /\ \A f \in net : f.kind = "network" /\ CutAtColon(f) = f
       /\ \A f \in attr \cup copy \cup mount \cup ro : f.kind # "network"
  <2>1. \A f \in plain : f.kind \in {"image", "memory", "command", "export",
                                    "env", "host"}
    <3>1. \A f \in image \cup {argvMem(j)} : f.kind \in {"image", "memory"}
      BY DEF argvMem, Fact
    <3>2. \A f \in argvCommand(j) : f.kind = "command"
      <4>1. \A f \in {Fact("command", j.command, j.args)} : f.kind = "command"
        BY DEF Fact
      <4> QED
        BY <4>1 DEF argvCommand
    <3>3. \A f \in argvExport(j) : f.kind = "export"
      <4>1. \A p : Fact("export", j.ports[p], <<HostPort(j, p)>>).kind = "export"
        BY DEF Fact
      <4> QED
        BY <4>1 DEF argvExport
    <3>4. \A f \in argvEnv(j) \cup argvExtraHosts(j) : f.kind \in {"env", "host"}
      BY DEF argvEnv, argvExtraHosts, Fact
    <3> HIDE DEF image
    <3> QED
      BY <3>1, <3>2, <3>3, <3>4
  <2>2. \A f \in net : f.kind = "network"
    BY DEF Fact
  <2>3. \A f \in attr \cup copy \cup mount \cup ro : f.kind # "network"
    BY DEF Each, Fact
  <2> HIDE DEF plain, net, attr, copy, mount, ro
  <2> QED
    BY <2>1, <2>2, <2>3 DEF CutAtColon
<1>12. argvCreate(j) = image \cup argvCommand(j) \cup argvNetwork(j) \cup argvExport(j)
  BY DEF argvCreate
<1> DEFINE lists == attr \cup copy \cup mount \cup ro
<1>13. Cut(lists) = Cut(attr) \cup Cut(copy) \cup Cut(mount) \cup Cut(ro)
  <2> HIDE DEF attr, copy, mount, ro
  <2> QED
    OBVIOUS
<1>14. Cut(Kept(Asked(j))) = plain \cup argvNetwork(j) \cup Cut(lists)
  <2> HIDE DEF plain, net, attr, copy, mount, ro, unnamed
  <2>1. Kept(Asked(j)) = plain \cup argvNetwork(j) \cup lists
    BY <1>7, <1>9, <1>11
  <2>2. \A f \in argvNetwork(j) : CutAtColon(f) = f
    BY <1>7, <1>11
  <2> HIDE DEF Kept, lists
  <2> QED
    BY <1>11, <2>1, <2>2
<1> HIDE DEF net, image, attr, copy, mount, ro, lists, Kept, Cut
<1> QED
  BY <1>3, <1>4, <1>5, <1>10, <1>12, <1>13, <1>14

\* The commands of a job that is accepted, run to the end, make true what
\* `pot prepare` has left of what the job asks for.
LEMMA CommandsOfJob ==
  ASSUME NEW j \in Jobs, Accepted(j)
  PROVE  /\ Given(j) \subseteq Facts /\ argvCreate(j) \in SUBSET Facts
         /\ Commands(j) \in Seq(Command)
         /\ Commands(j) # <<>>
         /\ argvCreate(j) \cup Left(Commands(j)) = Given(j)
<1> DEFINE each == argvAttributes(j) \o argvCopy(j) \o argvMount(j)
                     \o argvMountReadOnly(j)
           last == <<Strict(argvEnv(j)), Strict(argvExtraHosts(j)),
                     Strict({argvMem(j)})>>
<1>1. Given(j) \subseteq Facts
  BY DEF Facts
<1>2. /\ argvAttributes(j) \in Seq(Facts) /\ argvCopy(j) \in Seq(Facts)
      /\ argvMount(j) \in Seq(Facts) /\ argvMountReadOnly(j) \in Seq(Facts)
  <2>1. /\ Len(j.attributes) \in Nat /\ Len(j.copy) \in Nat
        /\ Len(j.mount) \in Nat /\ Len(j.mountReadOnly) \in Nat
    BY JobAssumption, LenProperties
  <2>2. /\ ToSet(argvAttributes(j)) \subseteq Facts
        /\ ToSet(argvCopy(j)) \subseteq Facts
        /\ ToSet(argvMount(j)) \subseteq Facts
        /\ ToSet(argvMountReadOnly(j)) \subseteq Facts
    BY <1>1, GivenByCommands
  <2>3. argvAttributes(j) \in Seq(Facts)
    BY <2>1, <2>2, IsSequence DEF argvAttributes, EachEntry
  <2>4. argvMountReadOnly(j) \in Seq(Facts)
    BY <2>1, <2>2, IsSequence DEF argvMountReadOnly, EachEntry
  <2>5. argvCopy(j) \in Seq(Facts)
    BY <2>1, <2>2, IsSequence DEF argvCopy
  <2>6. argvMount(j) \in Seq(Facts)
    <3> DEFINE two  == <<Fact("mount", "local", <<"/local">>),
                         Fact("mount", "secrets", <<"/secrets">>)>>
               mine == EachEntry("mount", j.mount)
    <3>1. two \in Seq(Facts)
      BY <2>2, SetOfMount
    <3>2. mine \in Seq(Facts)
      BY <2>1, <2>2, SetOfMount, IsSequence DEF EachEntry
    <3>3. argvMount(j) = two \o mine
      BY DEF argvMount
    <3> HIDE DEF two, mine
    <3> QED
      BY <3>1, <3>2, <3>3, ConcatProperties
  <2> QED
    BY <2>3, <2>4, <2>5, <2>6
<1>3. /\ each \in Seq(Facts)
      /\ ToSet(each) = ToSet(argvAttributes(j)) \cup ToSet(argvCopy(j))
           \cup ToSet(argvMount(j)) \cup ToSet(argvMountReadOnly(j))
  <2> DEFINE two == argvAttributes(j) \o argvCopy(j)
             three == two \o argvMount(j)
  <2>1. two \in Seq(Facts)
        /\ ToSet(two) = ToSet(argvAttributes(j)) \cup ToSet(argvCopy(j))
    BY <1>2, SetOfConcat, ConcatProperties
  <2> HIDE DEF two
  <2>2. three \in Seq(Facts)
        /\ ToSet(three) = ToSet(two) \cup ToSet(argvMount(j))
    BY <1>2, <2>1, SetOfConcat, ConcatProperties
  <2>3. each = three \o argvMountReadOnly(j)
    BY DEF two
  <2> HIDE DEF three, each
  <2>4. each \in Seq(Facts)
        /\ ToSet(each) = ToSet(three) \cup ToSet(argvMountReadOnly(j))
    BY <1>2, <2>2, <2>3, SetOfConcat, ConcatProperties
  <2> QED
    BY <2>1, <2>2, <2>4
<1>4. /\ last \in Seq(Command)
      /\ Left(last) = argvEnv(j) \cup argvExtraHosts(j) \cup {argvMem(j)}
  <2>1. argvEnv(j) \cup argvExtraHosts(j) \cup {argvMem(j)} \subseteq Facts
    BY <1>1, GivenByCommands
  <2> QED
    BY <2>1 DEF Strict, Command, Left
<1>5. /\ Commands(j) \in Seq(Command)
      /\ Left(Commands(j)) = ToSet(each) \cup Left(last)
      /\ Len(last) = 3 /\ Len(Commands(j)) >= 3
  <2> DEFINE first == [i \in DOMAIN each |-> Lax(each[i])]
  <2>1. first \in Seq(Command) /\ Left(first) = ToSet(each)
    <3> HIDE DEF each
    <3> QED
      BY <1>3, LeftOfEach
  <2>2. Commands(j) = first \o last
    BY DEF Commands
  <2>3. Len(last) = 3
    OBVIOUS
  <2> HIDE DEF first, last, each
  <2>4. Len(first) \in Nat
    BY <2>1, LenProperties
  <2>5. Left(Commands(j)) = Left(first) \cup Left(last)
    BY <1>4, <2>1, <2>2, LeftOfConcat
  <2>6. Commands(j) \in Seq(Command) /\ Len(Commands(j)) = Len(first) + Len(last)
    BY <1>4, <2>1, <2>2, ConcatProperties
  <2> QED
    BY <2>1, <2>3, <2>4, <2>5, <2>6
<1>6. Commands(j) # <<>>
  BY <1>5, EmptySeq
<1> HIDE DEF each, last
<1>7. argvCreate(j) \cup Left(Commands(j)) = Given(j)
  BY <1>3, <1>4, <1>5, GivenByCommands
<1>8. argvCreate(j) \in SUBSET Facts
  BY <1>1, <1>7
<1> QED
  BY <1>1, <1>5, <1>6, <1>7, <1>8

-----------------------------------------------------------------------------
(* The inductive invariant.                                                *)

USE DEF hostVars, createVars, startVars

\* A variable of the tasks keeps its type when one task gets a new value.
LEMMA Updated ==
  ASSUME NEW S, NEW f \in [Task -> S], NEW t \in Task, NEW v \in S
  PROVE  [f EXCEPT ![t] = v] \in [Task -> S]
OBVIOUS

\* The types, those of the commands included.
DataOK ==
  /\ HostTypeOK
  /\ up \in BOOLEAN
  /\ mistaken \in BOOLEAN
  /\ child \in [Task -> BOOLEAN]
  /\ job \in [Task -> Jobs]
  /\ rpc \in [Task -> StartPc \cup {"idle"}]
  /\ known \in [Task -> {"fresh", "gone"}]
  /\ cut \in [Task -> BOOLEAN]
  /\ queue \in [Task -> Seq(Command)]
  /\ applied \in [Task -> SUBSET Facts]
  /\ skipped \in [Task -> SUBSET Facts]

\* Where a StartTask is under way, its plugin lives, its job is accepted, and
\* its client has got no error yet.  It configures the jail it has made, and
\* starts one only where there is one.  A jail that runs has its `pot start`.
CallInv(t) ==
  /\ rpc[t] # "idle" => up /\ Accepted(job[t]) /\ known[t] = "fresh"
  /\ queue[t] # <<>> <=> rpc[t] = "configure"
  /\ rpc[t] = "configure" => jail[t] = "bare"
  /\ rpc[t] = "start" => jail[t] # "absent"
  /\ jail[t] = "running" => start[t] = "live"

\* What is done and what is left to do is what the job asks for.  A jail that
\* is not complete belongs to createContainer or to the way out, or it was cut.
AskedInv(t) ==
  /\ rpc[t] = "configure" =>
       applied[t] \cup skipped[t] \cup Left(queue[t]) = Given(job[t])
  /\ jail[t] \in {"ready", "running", "stopped"} =>
       cut[t] \/ applied[t] \cup skipped[t] = Given(job[t])
  /\ jail[t] = "bare" =>
       cut[t] \/ rpc[t] \in {"configure", "cleanup"} \/ known[t] = "gone"

\* The client gets an error after the jail is gone.
ErrorInv(t) == known[t] = "gone" /\ "destroy" \notin Faults => jail[t] = "absent"

JobInv(t) == CallInv(t) /\ AskedInv(t) /\ ErrorInv(t)

CreateInv == DataOK /\ \A t \in Task : JobInv(t)

LEMMA InitCreate == Init => CreateInv
<1> SUFFICES ASSUME Init
             PROVE  CreateInv
  OBVIOUS
<1>1. DataOK
  <2>1. HostTypeOK
    BY DEF Init, HostInit, HostTypeOK, NoRun
  <2>2. /\ <<>> \in Seq(Command) /\ {} \in SUBSET Facts
        /\ "idle" \in StartPc \cup {"idle"}
    BY EmptySeq
  <2> HIDE DEF hostVars
  <2> QED
    BY <2>1, <2>2 DEF Init, All, DataOK
<1>2. ASSUME NEW t \in Task
      PROVE  JobInv(t)
  BY DEF Init, HostInit, All, JobInv, CallInv, AskedInv, ErrorInv
<1> QED
  BY <1>1, <1>2 DEF CreateInv

\* A death leaves the jails as they are, and those that are bare cut.
LEMMA DieCreate == CreateInv /\ Die => CreateInv'
<1> SUFFICES ASSUME CreateInv, Die
             PROVE  CreateInv'
  OBVIOUS
<1>1. DataOK'
  <2>1. <<>> \in Seq(Command)
    BY EmptySeq
  <2> QED
    BY <2>1 DEF Die, All, CreateInv, DataOK, HostTypeOK
<1>2. ASSUME NEW t \in Task
      PROVE  JobInv(t)'
  BY DEF Die, All, CreateInv, JobInv, CallInv, AskedInv, ErrorInv
<1> QED
  BY <1>1, <1>2 DEF CreateInv

\* The host stops jails and ends their `pot start`, one after the other.
LEMMA HostCreate ==
  ASSUME CreateInv, NEW t \in Task, HostStep(t)
  PROVE  CreateInv'
<1> USE DEF CreateInv, DataOK, HostTypeOK
<1>1. DataOK'
  <2>1. CASE JailExit(t)
    BY <2>1 DEF HostStep, JailExit
  <2>2. CASE StartEnd(t)
    BY <2>2 DEF HostStep, StartEnd
  <2> QED
    BY <2>1, <2>2 DEF HostStep
<1>2. ASSUME NEW s \in Task
      PROVE  JobInv(s)'
  <2>1. CASE JailExit(t)
    BY <2>1 DEF HostStep, JailExit, JobInv, CallInv, AskedInv, ErrorInv
  <2>2. CASE StartEnd(t)
    BY <2>2 DEF HostStep, StartEnd, Ended, JobInv, CallInv, AskedInv, ErrorInv
  <2> QED
    BY <2>1, <2>2 DEF HostStep
<1> QED
  BY <1>1, <1>2

\* Before the jail is touched.
LEMMA ProbeCreate ==
  ASSUME CreateInv, NEW t \in Task,
         (StartTask(t) /\ ~Die) \/ StartProbe(t) \/ StartExists(t)
  PROVE  CreateInv'
<1> USE DEF CreateInv, DataOK, HostTypeOK
<1>1. /\ UNCHANGED <<hostVars, createVars, child, up, known>>
      /\ mistaken' \in BOOLEAN
      /\ up /\ Accepted(job[t]) /\ known[t] = "fresh"
      /\ \/ rpc[t] = "idle" /\ rpc' = [rpc EXCEPT ![t] = "probe"]
         \/ rpc[t] = "probe" /\ rpc' = [rpc EXCEPT ![t] = "adopt"]
         \/ rpc[t] = "probe" /\ rpc' = [rpc EXCEPT ![t] = "exists"]
         \/ /\ rpc[t] = "exists" /\ jail[t] # "absent"
            /\ rpc' = [rpc EXCEPT ![t] = "start"]
         \/ rpc[t] = "exists" /\ rpc' = [rpc EXCEPT ![t] = "create"]
  <2>1. CASE StartTask(t) /\ ~Die
    BY <2>1 DEF StartTask, Goto, Panic, Accepted
  <2>2. CASE StartProbe(t)
    BY <2>2 DEF StartProbe, Goto, JobInv, CallInv
  <2>3. CASE StartExists(t)
    BY <2>3 DEF StartExists, ExistsReply, Exists, Goto, JobInv, CallInv
  <2> QED
    BY <2>1, <2>2, <2>3
<1>2. DataOK'
  BY <1>1 DEF StartPc
<1>3. ASSUME NEW s \in Task
      PROVE  JobInv(s)'
  BY <1>1 DEF JobInv, CallInv, AskedInv, ErrorInv
<1> QED
  BY <1>2, <1>3

\* `pot prepare`, with the commands that remain, or with a way out.
LEMMA PrepareCreate ==
  ASSUME CreateInv, NEW t \in Task, StartCreate(t)
  PROVE  CreateInv'
<1> USE DEF CreateInv, DataOK, HostTypeOK
<1>1. /\ rpc[t] = "create"
      /\ up /\ Accepted(job[t]) /\ known[t] = "fresh" /\ queue[t] = <<>>
  BY DEF StartCreate, Goto, JobInv, CallInv
<1>2. /\ UNCHANGED <<start, lastRun, job, startVars, up, known>>
      /\ \/ /\ rpc' = [rpc EXCEPT ![t] = "configure"]
            /\ jail[t] = "absent" /\ jail' = [jail EXCEPT ![t] = "bare"]
            /\ queue' = [queue EXCEPT ![t] = Commands(job[t])]
            /\ applied' = [applied EXCEPT ![t] = argvCreate(job[t])]
         \/ /\ rpc' = [rpc EXCEPT ![t] = "cleanup"]
            /\ \/ jail' = jail
               \/ jail[t] = "absent" /\ jail' = [jail EXCEPT ![t] = "bare"]
            /\ UNCHANGED <<queue, applied>>
      /\ \/ jail[t] # "absent" /\ UNCHANGED <<skipped, cut>>
         \/ /\ jail[t] = "absent"
            /\ skipped' = [skipped EXCEPT ![t] = {}]
            /\ cut' = [cut EXCEPT ![t] = FALSE]
  BY DEF StartCreate, PotPrepare, Goto, Exists
<1>3. /\ job[t] \in Jobs
      /\ Given(job[t]) \subseteq Facts /\ argvCreate(job[t]) \in SUBSET Facts
      /\ Commands(job[t]) \in Seq(Command) /\ Commands(job[t]) # <<>>
      /\ argvCreate(job[t]) \cup Left(Commands(job[t])) = Given(job[t])
  BY <1>1, CommandsOfJob
<1>4. DataOK'
  <2>1. queue' \in [Task -> Seq(Command)]
    <3>1. queue' = queue \/ queue' = [queue EXCEPT ![t] = Commands(job[t])]
      BY <1>2
    <3> QED
      BY <1>3, <3>1, Updated
  <2>2. applied' \in [Task -> SUBSET Facts]
    <3>1. applied' = applied \/ applied' = [applied EXCEPT ![t] = argvCreate(job[t])]
      BY <1>2
    <3>2. argvCreate(job[t]) \in SUBSET Facts
      BY <1>3
    <3>3. applied \in [Task -> SUBSET Facts]
      OBVIOUS
    <3>4. [applied EXCEPT ![t] = argvCreate(job[t])] \in [Task -> SUBSET Facts]
      BY <3>2, <3>3, Updated
    <3> QED
      BY <3>1, <3>3, <3>4, Zenon
  <2>3. skipped' \in [Task -> SUBSET Facts]
    <3>1. {} \in SUBSET Facts
      OBVIOUS
    <3>2. skipped' = skipped \/ skipped' = [skipped EXCEPT ![t] = {}]
      BY <1>2
    <3> QED
      BY <3>1, <3>2, Updated
  <2>4. /\ rpc' \in [Task -> StartPc \cup {"idle"}]
        /\ HostTypeOK'
    BY <1>2 DEF StartPc
  <2> QED
    BY <1>2, <2>1, <2>2, <2>3, <2>4
<1>5. ASSUME NEW s \in Task, s # t
      PROVE  JobInv(s)'
  BY <1>2, <1>5 DEF JobInv, CallInv, AskedInv, ErrorInv
<1>6. JobInv(t)'
  <2>1. CASE rpc' = [rpc EXCEPT ![t] = "configure"]
    <3>1. /\ rpc'[t] = "configure" /\ jail'[t] = "bare"
          /\ queue'[t] = Commands(job[t]) /\ applied'[t] = argvCreate(job[t])
          /\ skipped'[t] = {} /\ job'[t] = job[t]
      BY <1>1, <1>2, <2>1
    <3>2. Left(queue[t])' = Left(Commands(job[t]))
      BY <3>1
    <3> QED
      BY <1>1, <1>2, <1>3, <3>1, <3>2 DEF JobInv, CallInv, AskedInv, ErrorInv
  <2>2. CASE rpc' = [rpc EXCEPT ![t] = "cleanup"]
    BY <1>1, <1>2, <2>2 DEF JobInv, CallInv, AskedInv, ErrorInv
  <2> QED
    BY <1>2, <2>1, <2>2
<1> QED
  BY <1>4, <1>5, <1>6

\* A command of createContainer is done with: the next one, or a ready jail.
LEMMA AdvanceEffect ==
  ASSUME CreateInv, NEW t \in Task, rpc[t] = "configure", Advance(t)
  PROVE  /\ queue' = [queue EXCEPT ![t] = Tail(queue[t])]
         /\ Tail(queue[t]) \in Seq(Command)
         /\ Head(queue[t]) \in Command
         /\ Left(queue[t]) = Head(queue[t]).facts \cup Left(Tail(queue[t]))
         /\ \/ /\ Tail(queue[t]) = <<>>
               /\ Left(Tail(queue[t])) = {}
               /\ rpc' = [rpc EXCEPT ![t] = "start"]
               /\ jail' = [jail EXCEPT ![t] = "ready"]
               /\ UNCHANGED <<start, lastRun>>
            \/ Tail(queue[t]) # <<>> /\ UNCHANGED <<rpc, hostVars>>
<1>1. queue[t] \in Seq(Command) /\ queue[t] # <<>>
  BY DEF CreateInv, DataOK, JobInv, CallInv
<1>2. /\ Head(queue[t]) \in Command /\ Tail(queue[t]) \in Seq(Command)
      /\ Tail(queue[t]) = <<>> <=> Len(queue[t]) = 1
      /\ Left(queue[t]) = Head(queue[t]).facts \cup Left(Tail(queue[t]))
  BY <1>1, LeftOfTail
<1> QED
  BY <1>2, LeftOfEmpty DEF Advance, PotConfigure

\* What a command makes true, and what is given up when it cannot be run, adds
\* to what is done.
LEMMA CommandCreate ==
  ASSUME CreateInv, NEW t \in Task, CommandDone(t) \/ CommandSkipped(t)
  PROVE  CreateInv'
<1> USE DEF CreateInv, DataOK, HostTypeOK
<1> DEFINE facts == Head(queue[t]).facts
<1>1. rpc[t] = "configure" /\ Advance(t)
  BY DEF CommandDone, CommandSkipped
<1>2. /\ up /\ Accepted(job[t]) /\ known[t] = "fresh" /\ jail[t] = "bare"
      /\ applied[t] \cup skipped[t] \cup Left(queue[t]) = Given(job[t])
  BY <1>1 DEF JobInv, CallInv, AskedInv
<1>3. /\ queue' = [queue EXCEPT ![t] = Tail(queue[t])]
      /\ Tail(queue[t]) \in Seq(Command)
      /\ facts \subseteq Facts
      /\ Left(queue[t]) = facts \cup Left(Tail(queue[t]))
      /\ \/ /\ Tail(queue[t]) = <<>>
            /\ Left(Tail(queue[t])) = {}
            /\ rpc' = [rpc EXCEPT ![t] = "start"]
            /\ jail' = [jail EXCEPT ![t] = "ready"]
            /\ UNCHANGED <<start, lastRun>>
         \/ Tail(queue[t]) # <<>> /\ UNCHANGED <<rpc, hostVars>>
  BY <1>1, AdvanceEffect DEF Command
<1>4. /\ UNCHANGED <<job, cut, startVars, up, known>>
      /\ \/ applied' = [applied EXCEPT ![t] = applied[t] \cup facts]
            /\ skipped' = skipped
         \/ skipped' = [skipped EXCEPT ![t] = skipped[t] \cup facts]
            /\ applied' = applied
  BY DEF CommandDone, CommandSkipped
<1> HIDE DEF facts
<1>5. DataOK'
  <2>1. queue' \in [Task -> Seq(Command)]
    BY <1>3, Updated
  <2>2. applied[t] \cup facts \in SUBSET Facts /\ skipped[t] \cup facts \in SUBSET Facts
    BY <1>3
  <2>3. applied' \in [Task -> SUBSET Facts]
    BY <1>4, <2>2, Updated
  <2>4. skipped' \in [Task -> SUBSET Facts]
    BY <1>4, <2>2, Updated
  <2>5. rpc' \in [Task -> StartPc \cup {"idle"}] /\ HostTypeOK'
    BY <1>3 DEF StartPc
  <2> QED
    BY <1>4, <2>1, <2>3, <2>4, <2>5
<1>6. ASSUME NEW s \in Task, s # t
      PROVE  JobInv(s)'
  <2>1. /\ rpc'[s] = rpc[s] /\ queue'[s] = queue[s] /\ jail'[s] = jail[s]
        /\ start'[s] = start[s] /\ applied'[s] = applied[s]
        /\ skipped'[s] = skipped[s]
    BY <1>3, <1>4, <1>6
  <2>2. /\ UNCHANGED <<up, job, known, cut>>
        /\ Left(queue[s])' = Left(queue[s])
    BY <1>4, <2>1
  <2> QED
    BY <2>1, <2>2 DEF JobInv, CallInv, AskedInv, ErrorInv
<1>7. JobInv(t)'
  <2>1. applied'[t] \cup skipped'[t] = applied[t] \cup skipped[t] \cup facts
    BY <1>4
  <2>2. applied'[t] \cup skipped'[t] \cup Left(queue[t])' = Given(job[t])
    BY <1>2, <1>3, <2>1
  <2> QED
    BY <1>1, <1>2, <1>3, <1>4, <2>2 DEF JobInv, CallInv, AskedInv, ErrorInv
<1> QED
  BY <1>5, <1>6, <1>7

\* A jail that is started is ready, or was cut; one that is given up is
\* destroyed before the client hears of it.
LEMMA LeaveCreate ==
  ASSUME CreateInv, NEW t \in Task, ~Die,
         CommandFails(t) \/ StartContainer(t) \/ StartCleanup(t)
  PROVE  CreateInv'
<1> USE DEF CreateInv, DataOK, HostTypeOK
<1>1. up /\ Accepted(job[t]) /\ known[t] = "fresh"
  BY DEF CommandFails, StartContainer, StartCleanup, Goto, Panic, JobInv, CallInv
<1>2. CASE CommandFails(t)
  <2>1. /\ rpc[t] = "configure" /\ rpc' = [rpc EXCEPT ![t] = "cleanup"]
        /\ queue' = [queue EXCEPT ![t] = <<>>] /\ <<>> \in Seq(Command)
        /\ UNCHANGED <<hostVars, job, applied, skipped, cut, startVars, up, known>>
    BY <1>2, EmptySeq DEF CommandFails, Goto
  <2>2. DataOK'
    BY <2>1 DEF StartPc
  <2>3. ASSUME NEW s \in Task
        PROVE  JobInv(s)'
    BY <1>1, <2>1 DEF JobInv, CallInv, AskedInv, ErrorInv
  <2> QED
    BY <2>2, <2>3
<1>3. CASE StartContainer(t)
  <2>1. /\ rpc[t] = "start" /\ jail[t] # "absent"
        /\ UNCHANGED <<createVars, mistaken, up, known>>
        /\ child' \in [Task -> BOOLEAN]
        /\ \/ /\ rpc' = [rpc EXCEPT ![t] = "register"]
              /\ jail' = [jail EXCEPT ![t] = "running"]
              /\ start' = [start EXCEPT ![t] = "live"]
              /\ lastRun' = [lastRun EXCEPT ![t] = NoRun]
              /\ jail[t] # "running"
           \/ rpc' = [rpc EXCEPT ![t] = "register"] /\ UNCHANGED hostVars
           \/ rpc' = [rpc EXCEPT ![t] = "cleanup"] /\ UNCHANGED hostVars
    <3>1. rpc[t] = "start" /\ jail[t] # "absent"
      BY <1>3 DEF StartContainer, Goto, Panic, JobInv, CallInv
    <3>2. CASE Goto(t, "start", "register") /\ PotStart(t)
               /\ child' = [child EXCEPT ![t] = jail[t] # "running"]
               /\ UNCHANGED <<createVars, mistaken, up, known>>
      <4>1. (jail[t] # "running") \in BOOLEAN
        OBVIOUS
      <4>2. child' \in [Task -> BOOLEAN]
        BY <3>2, <4>1, Updated
      <4> QED
        BY <3>1, <3>2, <4>2 DEF Goto, PotStart
    <3>3. CASE Goto(t, "start", "cleanup")
               /\ UNCHANGED <<hostVars, createVars, startVars, up, known>>
      BY <3>1, <3>3 DEF Goto
    <3> QED
      BY <1>3, <3>2, <3>3 DEF StartContainer, Panic
  <2>2. DataOK'
    BY <2>1 DEF StartPc
  <2>3. ASSUME NEW s \in Task
        PROVE  JobInv(s)'
    BY <1>1, <2>1 DEF JobInv, CallInv, AskedInv, ErrorInv
  <2> QED
    BY <2>2, <2>3
<1>4. CASE StartCleanup(t)
  <2>1. /\ rpc[t] = "cleanup" /\ rpc' = [rpc EXCEPT ![t] = "idle"]
        /\ known' = [known EXCEPT ![t] = "gone"]
        /\ UNCHANGED <<createVars, startVars, up, start, lastRun>>
        /\ \/ jail' = [jail EXCEPT ![t] = "absent"]
           \/ "destroy" \in Faults /\ jail' = jail
    <3>1. CASE /\ Goto(t, "cleanup", "idle") /\ PotDestroy(t)
               /\ known' = [known EXCEPT ![t] = "gone"]
               /\ UNCHANGED <<createVars, startVars, up>>
      BY <3>1 DEF Goto, PotDestroy
    <3> QED
      BY <1>4, <3>1 DEF StartCleanup, Panic
  <2>2. DataOK'
    BY <2>1
  <2>3. ASSUME NEW s \in Task
        PROVE  JobInv(s)'
    BY <1>1, <2>1 DEF JobInv, CallInv, AskedInv, ErrorInv
  <2> QED
    BY <2>2, <2>3
<1> QED
  BY <1>2, <1>3, <1>4

\* A step of StartTask is one of a plugin that lives.
LEMMA StepsAlive ==
  ASSUME CreateInv, NEW t \in Task, StartTask(t) \/ RpcStep(t)
  PROVE  up
<1>1. RpcStep(t) => rpc[t] # "idle"
  BY DEF RpcStep, StartProbe, StartExists, StartCreate, CommandDone,
         CommandFails, CommandSkipped, StartContainer, StartCleanup, Goto
<1>2. rpc[t] # "idle" => up
  BY DEF CreateInv, JobInv, CallInv
<1> QED
  BY <1>1, <1>2 DEF StartTask

LEMMA StepCreate ==
  ASSUME CreateInv, NEW t \in Task,
         HostStep(t) \/ StartTask(t) \/ RpcStep(t)
  PROVE  CreateInv'
BY DieCreate, HostCreate, ProbeCreate, PrepareCreate, CommandCreate,
   LeaveCreate DEF RpcStep

LEMMA NextCreate == CreateInv /\ [Next]_vars => CreateInv'
<1> SUFFICES ASSUME CreateInv, [Next]_vars
             PROVE  CreateInv'
  OBVIOUS
<1>1. CASE Crash
  BY <1>1, DieCreate DEF Crash
<1>2. CASE Restart
  BY <1>2 DEF Restart, CreateInv, DataOK, HostTypeOK, JobInv, CallInv,
              AskedInv, ErrorInv
<1>3. ASSUME NEW t \in Task, HostStep(t) \/ StartTask(t) \/ RpcStep(t)
      PROVE  CreateInv'
  BY <1>3, StepCreate
<1>4. CASE UNCHANGED vars
  BY <1>4 DEF vars, CreateInv, DataOK, HostTypeOK, JobInv, CallInv, AskedInv,
              ErrorInv
<1> QED
  BY <1>1, <1>2, <1>3, <1>4 DEF Next

LEMMA CreateAlways == Spec => []CreateInv
  BY InitCreate, NextCreate, PTL DEF Spec

-----------------------------------------------------------------------------
(* What a reader should know of.                                           *)

\* Every variable has its type: a jail is only ever given what some job asks
\* for, and commands are left exactly while createContainer runs them.
THEOREM TypeCorrect == Spec => []TypeOK
<1>1. CreateInv => TypeOK
  BY DEF CreateInv, DataOK, JobInv, CallInv, TypeOK
<1> QED
  BY <1>1, CreateAlways, PTL

\* For any job and any order of failures: a jail that runs has what its job
\* asks for, less what createContainer gave up, unless a plugin died over it.
THEOREM JailAsAsked == Spec => []RunsAsAsked
<1>1. CreateInv => RunsAsAsked
  BY DEF CreateInv, JobInv, AskedInv, RunsAsAsked
<1> QED
  BY <1>1, CreateAlways, PTL

\* A StartTask that returns an error leaves no jail, as long as `pot destroy`
\* works.
THEOREM ErrorLeavesNoJail == Spec => []ErrorMeansNoJail
<1>1. CreateInv => ErrorMeansNoJail
  BY DEF CreateInv, JobInv, ErrorInv, ErrorMeansNoJail
<1> QED
  BY <1>1, CreateAlways, PTL

-----------------------------------------------------------------------------
(* The refinement of PotDriver.                                            *)

LEMMA InitImplements == Init => Driver!Init
BY DEF Init, HostInit, All, Driver!Init, Driver!HostInit, Driver!All, Driver!Nil,
       Driver!NoResult, NoRun, Driver!NoRun

\* A death, whatever its cause, is a crash of PotDriver.
LEMMA DieImplements == CreateInv /\ up /\ Die => Driver!Crash
BY CreateAssumption
   DEF Die, All, Driver!Crash, Driver!Die, Driver!All, Driver!Nil,
       Driver!NoResult, Driver!hostVars

LEMMA HostImplements ==
  ASSUME NEW t \in Task, HostStep(t)
  PROVE  Driver!HostStep(t)
<1>1. JailExit(t) => Driver!JailExit(t)
  BY DEF JailExit, Driver!JailExit, Code, Driver!Code, NoRun, Driver!NoRun
<1>2. StartEnd(t) => Driver!StartEnd(t)
  BY DEF StartEnd, Driver!StartEnd, Ended, Driver!Ended, StatusOf,
         Driver!StatusOf, NoRun, Driver!NoRun
<1> QED
  BY <1>1, <1>2
     DEF HostStep, All, Driver!HostStep, Driver!OnlyHost, Driver!pluginVars,
         Driver!handleVars, Driver!waitVars, Driver!stopVars,
         Driver!watchVars, Driver!rpcVars

\* The steps before the jail is touched.
LEMMA ProbeImplements ==
  ASSUME CreateInv, NEW t \in Task
  PROVE  /\ StartTask(t) /\ ~Die => Driver!StartTask(t)
         /\ StartProbe(t) => Driver!StartProbe(t)
         /\ StartExists(t) => Driver!StartExists(t)
<1> USE DEF All, Goto, Driver!Goto, Driver!OnlyRpc, Driver!pluginVars,
            Driver!handleVars, Driver!waitVars, Driver!stopVars,
            Driver!watchVars, Driver!hostVars
<1>1. rpc \in [Task -> StartPc \cup {"idle"}]
  BY DEF CreateInv, DataOK
<1>2. StartTask(t) /\ ~Die => Driver!StartTask(t)
  BY <1>1 DEF StartTask, Panic, Driver!StartTask, Driver!Get
<1>3. StartProbe(t) => Driver!StartProbe(t)
  <2> SUFFICES ASSUME StartProbe(t)
               PROVE  Driver!StartProbe(t)
    OBVIOUS
  <2>1. PICK alive \in AliveReply(t) :
          /\ Goto(t, "probe", IF alive THEN "adopt" ELSE "exists")
          /\ mistaken' = (mistaken \/ (Alive(t) /\ ~alive))
    BY DEF StartProbe
  <2>2. UNCHANGED <<hostVars, createVars, child, up, known>>
    BY DEF StartProbe
  <2>3. alive \in BOOLEAN /\ mistaken \in BOOLEAN
    BY DEF CreateInv, DataOK, AliveReply, Alive
  <2>4. alive \in Driver!AliveReply(t) /\ Alive(t) = Driver!Alive(t)
    BY DEF AliveReply, Driver!AliveReply, Alive, Driver!Alive
  <2>5. Driver!Probe(t, alive)
    <3>1. CASE alive
      <4>1. mistaken' = mistaken
        BY <2>1, <2>3, <3>1, Zenon
      <4> QED
        BY <2>2, <2>4, <3>1, <4>1 DEF Driver!Probe
    <3>2. CASE ~alive
      <4>1. mistaken' = (mistaken \/ Alive(t))
        BY <2>1, <2>3, <3>2, Zenon
      <4> QED
        BY <2>2, <2>4, <3>2, <4>1 DEF Driver!Probe, Driver!TakenForEnded
    <3> QED
      BY <3>1, <3>2
  <2>6. Driver!Goto(t, "probe", IF alive THEN "adopt" ELSE "exists")
    BY <2>1
  <2> QED
    BY <2>2, <2>3, <2>5, <2>6 DEF Driver!StartProbe
<1>4. StartExists(t) => Driver!StartExists(t)
  BY <1>1 DEF StartExists, Exists, ExistsReply, Driver!StartExists,
             Driver!Exists, Driver!ExistsReply
<1> QED
  BY <1>2, <1>3, <1>4

\* `pot prepare` and the commands after it: the last one that is not failing is
\* the configuration of PotDriver, the others are details of it.
LEMMA ConfigureImplements ==
  ASSUME CreateInv, NEW t \in Task
  PROVE  /\ StartCreate(t) => Driver!StartCreate(t)
         /\ CommandFails(t) => Driver!StartConfigure(t)
         /\ CommandDone(t) \/ CommandSkipped(t) =>
              Driver!StartConfigure(t) \/ UNCHANGED Driver!vars
<1> USE DEF All, Goto, Driver!Goto, Driver!OnlyRpc, Driver!pluginVars,
            Driver!handleVars, Driver!waitVars, Driver!stopVars,
            Driver!watchVars, Driver!hostVars
<1>1. rpc \in [Task -> StartPc \cup {"idle"}]
  BY DEF CreateInv, DataOK
<1>2. StartCreate(t) => Driver!StartCreate(t)
  BY <1>1 DEF StartCreate, PotPrepare, Driver!StartCreate, Driver!PotPrepare
<1>3. CommandFails(t) => Driver!StartConfigure(t)
  BY <1>1 DEF CommandFails, Driver!StartConfigure
<1>4. ASSUME CommandDone(t) \/ CommandSkipped(t)
      PROVE  Driver!StartConfigure(t) \/ UNCHANGED Driver!vars
  <2>1. /\ rpc[t] = "configure"
        /\ UNCHANGED <<startVars, up, known>>
        /\ \/ rpc' = [rpc EXCEPT ![t] = "start"] /\ PotConfigure(t)
           \/ UNCHANGED <<rpc, hostVars>>
    BY <1>4 DEF CommandDone, CommandSkipped, Advance
  <2> QED
    BY <2>1 DEF PotConfigure, Driver!PotConfigure,
       Driver!StartConfigure, Driver!vars, Driver!rpcVars
<1> QED
  BY <1>2, <1>3, <1>4

\* `pot start`, and the way out.
LEMMA LeaveImplements ==
  ASSUME CreateInv, NEW t \in Task, ~Die
  PROVE  /\ StartContainer(t) => Driver!StartContainer(t)
         /\ StartCleanup(t) => Driver!StartCleanup(t)
<1> USE DEF All, Goto, Panic, Driver!Goto, Driver!OnlyRpc, Driver!pluginVars,
            Driver!handleVars, Driver!waitVars, Driver!stopVars,
            Driver!watchVars, Driver!hostVars
<1>1. rpc \in [Task -> StartPc \cup {"idle"}]
  BY DEF CreateInv, DataOK
<1>2. ASSUME StartContainer(t)
      PROVE  Driver!StartContainer(t)
  <2>1. CASE Goto(t, "start", "register") /\ PotStart(t)
             /\ child' = [child EXCEPT ![t] = jail[t] # "running"]
             /\ UNCHANGED <<createVars, mistaken, up, known>>
    <3>1. Driver!PotStart(t)
      BY <2>1 DEF PotStart, NoRun, Driver!PotStart, Driver!NoRun
    <3> QED
      BY <2>1, <3>1 DEF Driver!StartContainer
  <2>2. CASE Goto(t, "start", "cleanup")
             /\ UNCHANGED <<hostVars, createVars, startVars, up, known>>
    BY <2>2 DEF Driver!StartContainer
  <2> QED
    BY <1>2, <2>1, <2>2 DEF StartContainer
<1>3. StartCleanup(t) => Driver!StartCleanup(t)
  BY <1>1 DEF StartCleanup, PotDestroy, Driver!StartCleanup, Driver!PotDestroy
<1> QED
  BY <1>2, <1>3

\* Every step is one of PotDriver, or none of its business.
LEMMA NextImplements == CreateInv /\ [Next]_vars => [Driver!Next]_Driver!vars
<1> SUFFICES ASSUME CreateInv, [Next]_vars
             PROVE  Driver!Next \/ UNCHANGED Driver!vars
  OBVIOUS
<1>1. CASE Crash
  BY <1>1, DieImplements DEF Crash, Driver!Next
<1>2. CASE Restart
  BY <1>2 DEF Restart, All, Driver!Next, Driver!Restart, Driver!hostVars,
     Driver!handleVars, Driver!waitVars, Driver!stopVars, Driver!watchVars,
     Driver!rpcVars
<1>3. ASSUME NEW t \in Task, HostStep(t)
      PROVE  Driver!Next
  BY <1>3, HostImplements DEF Driver!Next, Driver!TaskStep
<1>4. ASSUME NEW t \in Task, StartTask(t) \/ RpcStep(t)
      PROVE  Driver!Next \/ UNCHANGED Driver!vars
  <2>1. CASE Die
    BY <1>4, <2>1, StepsAlive, DieImplements DEF Driver!Next
  <2>2. CASE ~Die
    <3>1. \/ Driver!StartTask(t)
          \/ Driver!RpcStep(t)
          \/ UNCHANGED Driver!vars
      BY <1>4, <2>2, ProbeImplements, ConfigureImplements, LeaveImplements
         DEF RpcStep, Driver!RpcStep
    <3> QED
      BY <3>1 DEF Driver!Next, Driver!TaskStep, Driver!ClientCall
  <2> QED
    BY <2>1, <2>2
<1>5. CASE UNCHANGED vars
  BY <1>5 DEF vars, All, Driver!vars, Driver!hostVars, Driver!pluginVars,
     Driver!handleVars, Driver!waitVars, Driver!stopVars, Driver!watchVars,
     Driver!rpcVars
<1> QED
  BY <1>1, <1>2, <1>3, <1>4, <1>5 DEF Next

\* Run command by command, with any of them failing and a plugin that dies in
\* between, StartTask does what PotDriver says.
THEOREM CommandsImplementDriver == Spec => ImplementsStartTask
BY InitImplements, NextImplements, CreateAlways, PTL
   DEF Spec, ImplementsStartTask, Driver!Spec
=============================================================================
