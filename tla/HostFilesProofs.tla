--------------------------- MODULE HostFilesProofs --------------------------
(* Theorems about HostFiles and their proofs: what the files of a host mean, *)
(* run after run, for any arguments, specs and manifests.                    *)
EXTENDS HostFiles, ListLemmas

-----------------------------------------------------------------------------
(* The arguments of the kubelet *)

\* Every --kubeconfig points at yurt-hub.
Hubbed(args) == \A i \in 1..Len(args) : args[i].flag = "kubeconfig" => args[i].value = "yurt"

\* What the first rewriting makes of arguments without a --kubeconfig, and what
\* every other one makes of any.
First(args) ==
    /\ args \in Seq(Args) /\ Hubbed(args)
    /\ Len(args) # 0 /\ args[Len(args)] = Arg("kubeconfig", "yurt")
Again(args) ==
    /\ args \in Seq(Args) /\ Hubbed(args) /\ HasKubeConfig(args)
    /\ Len(args) # 0 /\ args[Len(args)] = Arg("bootstrap", "")
    /\ \A i \in 1..(Len(args) - 1) : args[i].flag # "bootstrap"

ToHub == Arg("kubeconfig", "yurt")
NoBootstrap == Arg("bootstrap", "")

\* The arguments that setupKubelet writes, and those that it looks for.
LEMMA ArgsAre ==
    /\ ToHub \in Args /\ NoBootstrap \in Args
    /\ ToHub.flag = "kubeconfig" /\ ToHub.value = "yurt" /\ NoBootstrap.flag = "bootstrap"
    /\ \A a \in Args : a.flag = "kubeconfig" /\ a.value = "yurt" => a = ToHub
    /\ ToHub # NoBootstrap
    /\ \A a \in Args : a \in Bootstraps <=> a.flag = "bootstrap"
<1>1. \A a \in Args : a = [flag |-> a.flag, value |-> a.value]
  <2>1. ASSUME NEW F, NEW V, NEW a \in [flag : F, value : V]
        PROVE  a = [flag |-> a.flag, value |-> a.value]
    OBVIOUS
  <2> QED
    BY <2>1 DEF Args
<1>2. ToHub = [flag |-> "kubeconfig", value |-> "yurt"] /\ NoBootstrap = [flag |-> "bootstrap", value |-> ""]
  BY DEF ToHub, NoBootstrap, Arg
<1>3. ToHub \in Args /\ NoBootstrap \in Args
  BY <1>2 DEF Args
<1>4. ToHub.flag = "kubeconfig" /\ ToHub.value = "yurt" /\ NoBootstrap.flag = "bootstrap"
  BY <1>2
<1>5. \A a \in Args : a.flag = "kubeconfig" /\ a.value = "yurt" => a = ToHub
  BY <1>1, <1>2
<1>6. ToHub # NoBootstrap
  BY <1>4
<1>7. \A a \in Args : a \in Bootstraps <=> a.flag = "bootstrap"
  BY DEF Bootstraps
<1> QED
  BY <1>3, <1>4, <1>5, <1>6, <1>7

\* The list that setupKubelet keeps of the arguments, pointed at yurt-hub.
Pointed(kept) == [i \in DOMAIN kept |-> IF kept[i].flag = "kubeconfig" THEN ToHub ELSE kept[i]]

\* All of them point at yurt-hub, and no flag becomes another.
LEMMA PointedIs ==
    ASSUME NEW kept \in Seq(Args)
    PROVE  /\ Pointed(kept) \in Seq(Args) /\ Len(Pointed(kept)) = Len(kept)
           /\ Hubbed(Pointed(kept))
           /\ \A i \in 1..Len(kept) : Pointed(kept)[i].flag = kept[i].flag
<1>1. \A i \in 1..Len(kept) : kept[i] \in Args
  OBVIOUS
<1> DEFINE P == Pointed(kept)
<1>2. DOMAIN kept = 1..Len(kept) /\ Len(kept) \in Nat
  OBVIOUS
<1>3. P = [i \in 1..Len(kept) |-> IF kept[i].flag = "kubeconfig" THEN ToHub ELSE kept[i]]
  BY <1>2 DEF Pointed
<1>4. P \in Seq(Args) /\ Len(P) = Len(kept)
  BY <1>1, <1>2, <1>3, ArgsAre, IsASeq, LenProperties
<1> HIDE DEF P
<1>5. \A i \in 1..Len(kept) : P[i].flag = kept[i].flag /\ (P[i].flag = "kubeconfig" => P[i].value = "yurt")
  BY <1>1, <1>3, ArgsAre
<1>6. Hubbed(P)
  BY <1>4, <1>5 DEF Hubbed
<1> QED
  BY <1>4, <1>5, <1>6 DEF P

\* What is kept has the --kubeconfigs there were, and no --bootstrap-kubeconfig.
LEMMA KeptIs ==
    ASSUME NEW args \in Seq(Args)
    PROVE  /\ Pruned(args, Bootstraps) \in Seq(Args)
           /\ \A i \in 1..Len(Pruned(args, Bootstraps)) : Pruned(args, Bootstraps)[i].flag # "bootstrap"
           /\ HasKubeConfig(Pruned(args, Bootstraps)) <=> HasKubeConfig(args)
<1> DEFINE kept == Pruned(args, Bootstraps)
<1>1. kept \in Seq(Args)
  BY PrunedType
<1>2. \A e : Contains(kept, e) <=> Contains(args, e) /\ e \notin Bootstraps
  BY PrunedContains
<1> HIDE DEF kept
<1>3. \A i \in 1..Len(kept) : kept[i] \in Args /\ Contains(kept, kept[i])
  BY <1>1 DEF Contains
<1>4. \A i \in 1..Len(args) : args[i] \in Args /\ Contains(args, args[i])
  BY DEF Contains
<1>5. \A i \in 1..Len(kept) : kept[i].flag # "bootstrap"
  BY <1>2, <1>3, ArgsAre
<1>6. DOMAIN args = 1..Len(args) /\ DOMAIN kept = 1..Len(kept)
  BY <1>1
<1>7. ASSUME HasKubeConfig(args) PROVE HasKubeConfig(kept)
  <2>1. PICK i \in 1..Len(args) : args[i].flag = "kubeconfig"
    BY <1>6, <1>7 DEF HasKubeConfig
  <2>2. Contains(kept, args[i])
    BY <1>2, <1>4, <2>1, ArgsAre
  <2>3. PICK j \in 1..Len(kept) : kept[j] = args[i]
    BY <2>2 DEF Contains
  <2> QED
    BY <1>6, <2>1, <2>3 DEF HasKubeConfig
<1>8. ASSUME HasKubeConfig(kept) PROVE HasKubeConfig(args)
  <2>1. PICK i \in 1..Len(kept) : kept[i].flag = "kubeconfig"
    BY <1>6, <1>8 DEF HasKubeConfig
  <2>2. Contains(args, kept[i])
    BY <1>2, <1>3
  <2>3. PICK j \in 1..Len(args) : args[j] = kept[i]
    BY <2>2 DEF Contains
  <2> QED
    BY <1>6, <2>1, <2>3 DEF HasKubeConfig
<1> QED
  BY <1>1, <1>5, <1>7, <1>8 DEF kept

\* Rewritten by its pieces.
LEMMA RewrittenIs ==
    ASSUME NEW args \in Seq(Args)
    PROVE  Rewritten(args) =
             Pointed(Pruned(args, Bootstraps)) \o <<NoBootstrap>>
             \o (IF HasKubeConfig(args) THEN <<>> ELSE <<ToHub>>)
<1>1. HasKubeConfig(Pruned(args, Bootstraps)) <=> HasKubeConfig(args)
  BY KeptIs
<1> QED
  BY <1>1 DEF Rewritten, Pointed, HasKubeConfig, ToHub, NoBootstrap

\* Arguments without a --kubeconfig get one at the end.
LEMMA RewrittenFirst ==
    ASSUME NEW args \in Seq(Args), ~HasKubeConfig(args)
    PROVE  First(Rewritten(args))
<1> DEFINE P == Pointed(Pruned(args, Bootstraps))
           Q == Append(Append(P, NoBootstrap), ToHub)
<1>1. P \in Seq(Args) /\ Hubbed(P)
  BY KeptIs, PointedIs
<1>2. Rewritten(args) = P \o <<NoBootstrap>> \o <<ToHub>>
  BY RewrittenIs
<1> HIDE DEF P
<1>3. Rewritten(args) = Q
  <2>1. P \o <<NoBootstrap>> = Append(P, NoBootstrap) /\ Append(P, NoBootstrap) \in Seq(Args)
    BY <1>1, ArgsAre, AppendIsConcat, AppendProperties
  <2> DEFINE R == Append(P, NoBootstrap)
  <2>2. R \in Seq(Args) /\ Rewritten(args) = R \o <<ToHub>> /\ Q = Append(R, ToHub)
    BY <1>2, <2>1
  <2> HIDE DEF R, Q
  <2> QED
    BY <2>2, ArgsAre, AppendIsConcat
<1>4. Q \in Seq(Args) /\ Len(Q) = Len(P) + 2 /\ Q[Len(P) + 2] = ToHub /\ Q[Len(P) + 1] = NoBootstrap
      /\ (\A i \in 1..Len(P) : Q[i] = P[i]) /\ Len(P) \in Nat
  <2>1. Append(P, NoBootstrap) \in Seq(Args) /\ Len(Append(P, NoBootstrap)) = Len(P) + 1
        /\ Append(P, NoBootstrap)[Len(P) + 1] = NoBootstrap
        /\ (\A i \in 1..Len(P) : Append(P, NoBootstrap)[i] = P[i]) /\ Len(P) \in Nat
    BY <1>1, ArgsAre, AppendProperties
  <2> DEFINE R == Append(P, NoBootstrap)
  <2> HIDE DEF R
  <2>2. R \in Seq(Args) /\ Len(R) = Len(P) + 1 /\ R[Len(P) + 1] = NoBootstrap
        /\ (\A i \in 1..Len(P) : R[i] = P[i]) /\ Len(P) \in Nat
    BY <2>1 DEF R
  <2>3. Append(R, ToHub) \in Seq(Args) /\ Len(Append(R, ToHub)) = Len(R) + 1
        /\ Append(R, ToHub)[Len(R) + 1] = ToHub /\ \A i \in 1..Len(R) : Append(R, ToHub)[i] = R[i]
    BY <2>2, ArgsAre, AppendProperties
  <2>4. Q = Append(R, ToHub)
    BY DEF R
  <2> HIDE DEF Q
  <2> QED
    BY <2>2, <2>3, <2>4
<1> HIDE DEF Q
<1>5. Hubbed(Q)
  <2>1. \A i \in 1..Len(Q) : i \in 1..Len(P) \/ i = Len(P) + 1 \/ i = Len(P) + 2
    BY <1>4
  <2> QED
    BY <1>1, <1>4, <2>1, ArgsAre DEF Hubbed
<1> QED
  BY <1>3, <1>4, <1>5 DEF First, ToHub

\* Arguments with one have it pointed at yurt-hub.
LEMMA RewrittenAgain ==
    ASSUME NEW args \in Seq(Args), HasKubeConfig(args)
    PROVE  Again(Rewritten(args))
<1> DEFINE kept == Pruned(args, Bootstraps)
           P == Pointed(kept)
           Q == Append(P, NoBootstrap)
<1>1. kept \in Seq(Args) /\ HasKubeConfig(kept) /\ \A i \in 1..Len(kept) : kept[i].flag # "bootstrap"
  BY KeptIs
<1> HIDE DEF kept
<1>2. P \in Seq(Args) /\ Len(P) = Len(kept) /\ Hubbed(P)
      /\ \A i \in 1..Len(kept) : P[i].flag = kept[i].flag
  BY <1>1, PointedIs
<1>3. Rewritten(args) = P \o <<NoBootstrap>> \o <<>>
  BY RewrittenIs DEF kept
<1> HIDE DEF P
<1>4. P \o <<NoBootstrap>> = Q /\ Q \in Seq(Args) /\ Len(Q) = Len(P) + 1 /\ Q[Len(P) + 1] = NoBootstrap
      /\ (\A i \in 1..Len(P) : Q[i] = P[i]) /\ Len(P) \in Nat
  BY <1>2, ArgsAre, AppendProperties, AppendIsConcat
<1>5. Rewritten(args) = Q
  BY <1>3, <1>4, ConcatEmptySeq
<1> HIDE DEF Q
<1>6. PICK i \in 1..Len(kept) : kept[i].flag = "kubeconfig"
  BY <1>1 DEF HasKubeConfig
<1>7. HasKubeConfig(Q)
  <2>1. i \in 1..Len(Q) /\ Q[i] = P[i] /\ P[i].flag = "kubeconfig"
    BY <1>2, <1>4, <1>6
  <2>2. DOMAIN Q = 1..Len(Q)
    BY <1>4
  <2> QED
    BY <2>1, <2>2 DEF HasKubeConfig
<1>8. Hubbed(Q)
  <2>1. \A j \in 1..Len(Q) : j \in 1..Len(P) \/ j = Len(P) + 1
    BY <1>4
  <2> QED
    BY <1>2, <1>4, <2>1, ArgsAre DEF Hubbed
<1>9. \A j \in 1..(Len(Q) - 1) : Q[j].flag # "bootstrap"
  <2>1. \A j \in 1..(Len(Q) - 1) : j \in 1..Len(P)
    BY <1>4
  <2> QED
    BY <1>1, <1>2, <1>4, <2>1
<1>10. Len(Q) # 0 /\ Q[Len(Q)] = NoBootstrap
  BY <1>4
<1> QED
  BY <1>4, <1>5, <1>7, <1>8, <1>9, <1>10 DEF Again, NoBootstrap

\* From then on nothing changes.
LEMMA AgainStays ==
    ASSUME NEW args, Again(args)
    PROVE  Rewritten(args) = args
<1>1. args \in Seq(Args) /\ args # <<>> /\ HasKubeConfig(args) /\ Hubbed(args)
      /\ args[Len(args)] = NoBootstrap /\ \A i \in 1..(Len(args) - 1) : args[i].flag # "bootstrap"
  <2>1. Len(args) # 0 => args # <<>>
    OBVIOUS
  <2> QED
    BY <2>1 DEF Again, NoBootstrap
<1>2. PICK front \in Seq(Args), last \in Args : args = Append(front, last)
  BY <1>1, SequenceEmptyOrAppend
<1>3. Len(args) = Len(front) + 1 /\ args[Len(front) + 1] = last /\ (\A i \in 1..Len(front) : args[i] = front[i])
      /\ Len(front) \in Nat
  BY <1>2, AppendProperties
<1>4. last = NoBootstrap
  BY <1>1, <1>3
<1>5. \A i \in 1..Len(front) : front[i].flag # "bootstrap" /\ (front[i].flag = "kubeconfig" => front[i] = ToHub)
  <2> SUFFICES ASSUME NEW i \in 1..Len(front)
               PROVE  front[i].flag # "bootstrap" /\ (front[i].flag = "kubeconfig" => front[i] = ToHub)
    OBVIOUS
  <2>1. i \in 1..Len(args) /\ i \in 1..(Len(args) - 1) /\ front[i] = args[i] /\ front[i] \in Args
    BY <1>3
  <2> QED
    BY <1>1, <2>1, ArgsAre DEF Hubbed
<1>6. Pruned(front, Bootstraps) = front
  <2>1. \A e \in Bootstraps : ~Contains(front, e)
    BY <1>5 DEF Contains, Bootstraps
  <2> QED
    BY <2>1, PrunedSame
<1>7. Pruned(args, Bootstraps) = front
  BY <1>2, <1>4, <1>6, PrunedAppend, ArgsAre
<1>8. Pointed(front) = front
  <2>1. DOMAIN front = 1..Len(front) /\ front = [i \in 1..Len(front) |-> front[i]]
    OBVIOUS
  <2> QED
    BY <1>5, <2>1 DEF Pointed
<1>9. Rewritten(args) = front \o <<NoBootstrap>> \o <<>>
  BY <1>1, <1>7, <1>8, RewrittenIs
<1>10. front \o <<NoBootstrap>> = args
  BY <1>2, <1>4, AppendIsConcat
<1> QED
  BY <1>1, <1>9, <1>10, ConcatEmptySeq

\* A file that was rewritten once is rewritten into another one.
LEMMA FirstMoves ==
    ASSUME NEW args, First(args)
    PROVE  Rewritten(args) # args /\ Again(Rewritten(args)) /\ HasKubeConfig(args)
<1>1. args \in Seq(Args) /\ Len(args) \in Nat /\ Len(args) # 0 /\ args[Len(args)] = ToHub
  BY DEF First, ToHub
<1>2. HasKubeConfig(args)
  BY <1>1, ArgsAre DEF HasKubeConfig
<1>3. Again(Rewritten(args))
  BY <1>1, <1>2, RewrittenAgain
<1>4. Rewritten(args)[Len(Rewritten(args))] = NoBootstrap
  BY <1>3 DEF Again, NoBootstrap
<1> QED
  BY <1>1, <1>2, <1>3, <1>4, ArgsAre

\* An administrator's arguments.
Own(args) ==
    \A i \in 1..Len(args) : args[i].flag = "kubeconfig" => args[i].value \in OwnKubeConfigs

\* Those that administrators write are their own.
LEMMA OwnArguments == \A args \in Units \cup EnvArgs : args \in Seq(Args) /\ Own(args)
<1>1. \A args \in Units \cup EnvArgs : args \in Seq(Args)
  BY FilesAssumption
<1>2. \A args \in Seq(Args) : DOMAIN args = 1..Len(args)
  OBVIOUS
<1> QED
  BY <1>1, <1>2, AdministratorsAssumption DEF Own

\* Where the entries of a command line come from.
LEMMA LineIs ==
    ASSUME NEW u \in Seq(Args), NEW e \in Seq(Args)
    PROVE  /\ u \o e \in Seq(Args) /\ Len(u) \in Nat /\ Len(e) \in Nat
           /\ DOMAIN (u \o e) = 1..(Len(u) + Len(e))
           /\ \A i \in 1..Len(u) : (u \o e)[i] = u[i]
           /\ \A i \in 1..Len(e) : (u \o e)[i + Len(u)] = e[i]
           /\ \A i \in 1..(Len(u) + Len(e)) :
                 i > Len(u) => i - Len(u) \in 1..Len(e) /\ (u \o e)[i] = e[i - Len(u)]
OBVIOUS

\* The last --kubeconfig counts.
LEMMA ConnectsIs ==
    ASSUME NEW line, NEW n \in Nat, DOMAIN line = 1..n, HasKubeConfig(line)
    PROVE  \E i \in 1..n : /\ line[i].flag = "kubeconfig" /\ Connects(line) = line[i].value
                           /\ \A j \in 1..n : line[j].flag = "kubeconfig" => i >= j
<1> DEFINE K == KubeConfigs(line)
<1>1. K \subseteq 0..n /\ K # {} /\ K \subseteq 1..n
  BY DEF KubeConfigs, HasKubeConfig
<1>2. \E x \in K : \A y \in K : x >= y
  BY <1>1, Greatest
<1>3. Max(K) \in K /\ \A y \in K : Max(K) >= y
  BY <1>2 DEF Max
<1>4. Connects(line) = line[Max(K)].value
  BY <1>1 DEF Connects
<1>5. \A y : y \in K <=> y \in 1..n /\ line[y].flag = "kubeconfig"
  BY DEF KubeConfigs
<1> HIDE DEF K
<1> QED
  BY <1>3, <1>4, <1>5

\* Arguments that point at yurt-hub decide, whatever the unit has.
LEMMA HubbedConnects ==
    ASSUME NEW u \in Seq(Args), NEW e \in Seq(Args), Hubbed(e), HasKubeConfig(e)
    PROVE  Connects(u \o e) = "yurt"
<1> DEFINE line == u \o e
           n == Len(u) + Len(e)
<1>1. /\ n \in Nat /\ DOMAIN line = 1..n /\ Len(u) \in Nat /\ Len(e) \in Nat
      /\ \A i \in 1..Len(e) : i + Len(u) \in 1..n /\ line[i + Len(u)] = e[i]
      /\ \A i \in 1..n : i > Len(u) => i - Len(u) \in 1..Len(e) /\ line[i] = e[i - Len(u)]
  BY LineIs
<1> HIDE DEF line, n
<1>2. PICK j \in 1..Len(e) : e[j].flag = "kubeconfig"
  BY DEF HasKubeConfig
<1>3. j + Len(u) \in 1..n /\ line[j + Len(u)].flag = "kubeconfig"
  BY <1>1, <1>2
<1>4. HasKubeConfig(line)
  BY <1>1, <1>3 DEF HasKubeConfig
<1>5. PICK i \in 1..n : /\ line[i].flag = "kubeconfig" /\ Connects(line) = line[i].value
                       /\ \A k \in 1..n : line[k].flag = "kubeconfig" => i >= k
  BY <1>1, <1>4, ConnectsIs
<1>6. i >= j + Len(u)
  BY <1>3, <1>5
<1>7. i > Len(u)
  BY <1>1, <1>6
<1>8. i - Len(u) \in 1..Len(e) /\ line[i] = e[i - Len(u)]
  BY <1>1, <1>7
<1>9. line[i].value = "yurt"
  BY <1>5, <1>8 DEF Hubbed
<1> QED
  BY <1>5, <1>9 DEF line

\* An administrator's arguments never lead to yurt-hub.
LEMMA OwnConnects ==
    ASSUME NEW u \in Seq(Args), NEW e \in Seq(Args), Own(u), Own(e)
    PROVE  Connects(u \o e) # "yurt"
<1> DEFINE line == u \o e
           n == Len(u) + Len(e)
<1>1. /\ n \in Nat /\ DOMAIN line = 1..n /\ Len(u) \in Nat /\ Len(e) \in Nat
      /\ \A i \in 1..Len(u) : line[i] = u[i]
      /\ \A i \in 1..n : i > Len(u) => i - Len(u) \in 1..Len(e) /\ line[i] = e[i - Len(u)]
  BY LineIs
<1> SUFFICES Connects(line) # "yurt"
  OBVIOUS
<1> HIDE DEF line, n
<1>2. CASE HasKubeConfig(line)
  <2>1. PICK i \in 1..n : line[i].flag = "kubeconfig" /\ Connects(line) = line[i].value
    BY <1>1, <1>2, ConnectsIs
  <2>2. CASE i > Len(u)
    BY <1>1, <2>1, <2>2 DEF Own, OwnKubeConfigs
  <2>3. CASE ~(i > Len(u))
    <3>1. i \in 1..Len(u)
      BY <1>1, <2>3
    <3> QED
      BY <1>1, <2>1, <3>1 DEF Own, OwnKubeConfigs
  <2> QED
    BY <2>2, <2>3
<1>3. CASE ~HasKubeConfig(line)
  <2>1. KubeConfigs(line) = {}
    BY <1>3 DEF HasKubeConfig, KubeConfigs
  <2>2. Connects(line) = ""
    BY <2>1 DEF Connects
  <2> QED
    BY <2>2
<1> QED
  BY <1>2, <1>3

\* The path that edgectl reads from the command line: the default, or the value
\* of the first --kubeconfig.
LEMMA PathIs ==
    ASSUME NEW line, NEW n \in Nat, DOMAIN line = 1..n
    PROVE  \/ Path(line) = "kubelet.conf"
           \/ \E i \in 1..n : /\ line[i].flag = "kubeconfig" /\ Path(line) = line[i].value
                              /\ EndsInKubeletConf(line[i].value)
                              /\ \A j \in 1..n : line[j].flag = "kubeconfig" => i <= j
<1> DEFINE K == KubeConfigs(line)
           first == Min(K)
           ends == {i \in DOMAIN line : i >= first /\ EndsInKubeletConf(line[i].value)}
<1>1. K \subseteq Nat /\ K \subseteq 1..n
  BY DEF KubeConfigs
<1>2. Path(line) = IF K # {} /\ ends = {first} THEN line[first].value ELSE "kubelet.conf"
  BY DEF Path
<1>3. CASE K # {} /\ ends = {first}
  <2>1. \E x \in K : \A y \in K : x <= y
    BY <1>1, <1>3, Least
  <2>2. first \in K /\ \A y \in K : first <= y
    BY <2>1 DEF Min
  <2>3. first \in ends
    BY <1>3
  <2>4. EndsInKubeletConf(line[first].value)
    BY <2>3
  <2>5. \A y : y \in K <=> y \in 1..n /\ line[y].flag = "kubeconfig"
    BY DEF KubeConfigs
  <2>6. Path(line) = line[first].value
    BY <1>2, <1>3
  <2> HIDE DEF K, first, ends
  <2> QED
    BY <2>2, <2>4, <2>5, <2>6
<1> QED
  BY <1>2, <1>3

\* With a --kubeconfig in the unit, edgectl reads the administrator's.
LEMMA PathOfUnit ==
    ASSUME NEW u \in Seq(Args), NEW e \in Seq(Args), Own(u), HasKubeConfig(u)
    PROVE  Path(u \o e) \in OwnKubeConfigs
<1> DEFINE line == u \o e
           n == Len(u) + Len(e)
<1>1. /\ n \in Nat /\ DOMAIN line = 1..n /\ Len(u) \in Nat /\ Len(e) \in Nat
      /\ \A i \in 1..Len(u) : i \in 1..n /\ line[i] = u[i]
  BY LineIs
<1> HIDE DEF line, n
<1>2. PICK j \in 1..Len(u) : u[j].flag = "kubeconfig"
  BY DEF HasKubeConfig
<1>3. SUFFICES ASSUME NEW i \in 1..n, line[i].flag = "kubeconfig", Path(line) = line[i].value,
                      EndsInKubeletConf(line[i].value),
                      \A k \in 1..n : line[k].flag = "kubeconfig" => i <= k
               PROVE  Path(line) \in OwnKubeConfigs
  BY <1>1, PathIs DEF line, OwnKubeConfigs
<1>4. i <= j
  BY <1>1, <1>2, <1>3
<1>5. i \in 1..Len(u)
  BY <1>1, <1>2, <1>3, <1>4
<1>6. line[i].value \in OwnKubeConfigs
  BY <1>1, <1>3, <1>5 DEF Own
<1> QED
  BY <1>3, <1>6

\* It reads a kubeconfig that exists in any case.
LEMMA PathExists ==
    ASSUME NEW u \in Seq(Args), NEW e \in Seq(Args), Own(u), Own(e) \/ Hubbed(e)
    PROVE  Path(u \o e) \in OwnKubeConfigs \cup {"yurt"}
<1> DEFINE line == u \o e
           n == Len(u) + Len(e)
<1>1. /\ n \in Nat /\ DOMAIN line = 1..n /\ Len(u) \in Nat /\ Len(e) \in Nat
      /\ \A i \in 1..Len(u) : line[i] = u[i]
      /\ \A i \in 1..n : i > Len(u) => i - Len(u) \in 1..Len(e) /\ line[i] = e[i - Len(u)]
  BY LineIs
<1> HIDE DEF line, n
<1>2. SUFFICES ASSUME NEW i \in 1..n, line[i].flag = "kubeconfig", Path(line) = line[i].value,
                      EndsInKubeletConf(line[i].value)
               PROVE  Path(line) \in OwnKubeConfigs \cup {"yurt"}
  BY <1>1, PathIs DEF line, OwnKubeConfigs
<1>3. line[i].value \in OwnKubeConfigs \cup {"yurt"}
  <2>1. CASE i > Len(u)
    BY <1>1, <1>2, <2>1 DEF Own, Hubbed
  <2>2. CASE ~(i > Len(u))
    <3>1. i \in 1..Len(u)
      BY <1>1, <2>2
    <3> QED
      BY <1>1, <1>2, <3>1 DEF Own
  <2> QED
    BY <2>1, <2>2
<1> QED
  BY <1>2, <1>3

-----------------------------------------------------------------------------
(* What yurt-hub.yaml may contain *)

\* The arguments of the static pod before the extra ones are merged in.
Base(upstream) == [n \in Arguments |-> IF n = "v" THEN "2" ELSE upstream]

IsMerge(m, extra, upstream) ==
    /\ m \in [Arguments -> Texts]
    /\ \A n \in Arguments :
          IF \E a \in extra : a.name = n THEN \E a \in extra : a.name = n /\ m[n] = a.value
          ELSE m[n] = Base(upstream)[n]

\* Merged gives what the extra arguments or the base have.
LEMMA MergedIs ==
    ASSUME NEW extra \in SUBSET ExtraArgs, NEW upstream \in Texts, NEW m \in Merged(Base(upstream), extra)
    PROVE  IsMerge(m, extra, upstream)
<1>1. DOMAIN Base(upstream) = Arguments /\ \A n \in Arguments : Base(upstream)[n] \in Texts
  BY DEF Base, Texts
<1>2. \A a \in extra : a.value \in Texts
  BY DEF ExtraArgs
<1> DEFINE named(n) == {a \in extra : a.name = n}
           values == {Base(upstream)[n] : n \in Arguments} \cup {a.value : a \in extra}
<1>3. m \in [Arguments -> values]
      /\ \A n \in Arguments : IF named(n) = {} THEN m[n] = Base(upstream)[n]
                               ELSE \E a \in named(n) : m[n] = a.value
  BY <1>1 DEF Merged
<1>4. values \subseteq Texts
  BY <1>1, <1>2
<1>5. m \in [Arguments -> Texts]
  BY <1>3, <1>4
<1>6. ASSUME NEW n \in Arguments
      PROVE  IF \E a \in extra : a.name = n THEN \E a \in extra : a.name = n /\ m[n] = a.value
             ELSE m[n] = Base(upstream)[n]
  <2>1. CASE named(n) = {}
    BY <1>3, <2>1
  <2>2. CASE named(n) # {}
    <3>1. PICK a \in named(n) : m[n] = a.value
      BY <1>3, <2>2
    <3> QED
      BY <3>1
  <2> QED
    BY <2>1, <2>2
<1> QED
  BY <1>5, <1>6 DEF IsMerge

\* A manifest of the type, with an upstream that is not itself when the one that
\* was found is not.
Serves(manifest, type, upstream) ==
    /\ manifest \in Manifest /\ manifest.type = type
    /\ manifest.args["server-addr"] # ""
    /\ upstream # "hub" => manifest.args["server-addr"] # "hub"

\* Rendering gives a manifest of the type, whose upstream is the one that was
\* found or one that the spec names.
LEMMA ContentsAre ==
    ASSUME NEW s \in Specs, NEW type \in ConvertTypes, NEW upstream \in Texts, upstream # "",
           NEW content \in Contents(s, type, upstream)
    PROVE  Serves(content, type, upstream)
<1> DEFINE extra == s.hub[type].extraArgs
<1>1. s \in HubSpecs /\ s.hub[type] \in ComponentConfigs
  BY FilesAssumption DEF HubSpecs
<1>2. extra \in SUBSET ExtraArgs
  BY <1>1 DEF ComponentConfigs
<1>3. PICK m \in Merged(Base(upstream), extra) :
         content = [type |-> type, image |-> Image(s, type), args |-> m]
  BY DEF Contents, Base
<1> HIDE DEF extra
<1>4. IsMerge(m, extra, upstream)
  BY <1>2, MergedIs
<1>5. Image(s, type) \in [repository : Texts, tag : Texts]
  <2>1. s.repository \in Texts /\ s.tag \in Texts
    BY <1>1 DEF HubSpecs
  <2>2. s.hub[type].repository \in Texts /\ s.hub[type].tag \in Texts
    BY <1>1 DEF ComponentConfigs
  <2> QED
    BY <2>1, <2>2 DEF Image
<1>6. content \in Manifest
  BY <1>3, <1>4, <1>5 DEF Manifest, IsMerge
<1>7. "server-addr" \in Arguments /\ "server-addr" # "v"
  BY DEF Arguments
<1>8. \A a \in extra : a.name = "server-addr" => a.value \notin {"", "hub"}
  BY AdministratorsAssumption DEF extra
<1>9. Base(upstream)["server-addr"] = upstream
  BY <1>7 DEF Base
<1>10. m["server-addr"] # "" /\ (upstream # "hub" => m["server-addr"] # "hub")
  <2>1. CASE \E a \in extra : a.name = "server-addr"
    <3>1. PICK a \in extra : a.name = "server-addr" /\ m["server-addr"] = a.value
      BY <1>4, <1>7, <2>1 DEF IsMerge
    <3> QED
      BY <1>8, <3>1
  <2>2. CASE ~\E a \in extra : a.name = "server-addr"
    <3>1. m["server-addr"] = upstream
      BY <1>4, <1>7, <1>9, <2>2 DEF IsMerge
    <3> QED
      BY <3>1
  <2> QED
    BY <2>1, <2>2
<1>11. content.type = type /\ content.args = m
  BY <1>3
<1> QED
  BY <1>6, <1>10, <1>11 DEF Serves

\* One spec and one upstream make one manifest of a type, unless a name is given
\* twice.
LEMMA ContentsOne ==
    ASSUME NEW s \in Specs, NEW type \in ConvertTypes, NEW upstream \in Texts,
           ~Ambiguous(s.hub[type].extraArgs),
           NEW c \in Contents(s, type, upstream), NEW d \in Contents(s, type, upstream)
    PROVE  c = d
<1> DEFINE extra == s.hub[type].extraArgs
<1>1. s.hub[type] \in ComponentConfigs
  BY FilesAssumption DEF HubSpecs
<1>2. extra \in SUBSET ExtraArgs
  BY <1>1 DEF ComponentConfigs
<1>3. PICK m \in Merged(Base(upstream), extra) : c = [type |-> type, image |-> Image(s, type), args |-> m]
  BY DEF Contents, Base
<1>4. PICK l \in Merged(Base(upstream), extra) : d = [type |-> type, image |-> Image(s, type), args |-> l]
  BY DEF Contents, Base
<1>5. \A a, b \in extra : a.name = b.name => a = b
  BY DEF Ambiguous
<1> HIDE DEF extra
<1>6. IsMerge(m, extra, upstream)
  BY <1>2, MergedIs
<1>7. IsMerge(l, extra, upstream)
  BY <1>2, MergedIs
<1>8. \A n \in Arguments : m[n] = l[n]
  BY <1>5, <1>6, <1>7 DEF IsMerge
<1>9. m = l
  BY <1>6, <1>7, <1>8 DEF IsMerge
<1> QED
  BY <1>3, <1>4, <1>9

\* No manifest is the missing one, and no spec the unknown one.
LEMMA ManifestsDiffer == NoManifest \notin Manifest /\ Unknown \notin Specs
<1>1. \A m \in Manifest : DOMAIN m = {"type", "image", "args"}
  BY DEF Manifest
<1>2. DOMAIN NoManifest = {"type"} /\ DOMAIN Unknown = {"repository"}
  BY DEF NoManifest, Unknown
<1>3. \A s \in Specs : DOMAIN s = {"repository", "tag", "hub"}
  BY FilesAssumption DEF HubSpecs
<1>4. {"type"} # {"type", "image", "args"} /\ {"repository"} # {"repository", "tag", "hub"}
  OBVIOUS
<1> QED
  BY <1>1, <1>2, <1>3, <1>4

-----------------------------------------------------------------------------
(* Lists of controllers *)

\* The first mention of a name in a list, and what it says: none or one entry.
FirstOf(list, name) ==
    {i \in 1..Len(list) : list[i].name = name /\ \A j \in 1..(i - 1) : list[j].name # name}
Says(list, name) == {list[i] : i \in FirstOf(list, name)}

\* A list says nothing of a name when no entry has it.
LEMMA SaysNothing ==
    ASSUME NEW list \in Seq(Entries), NEW name
    PROVE  Says(list, name) = {} <=> \A i \in 1..Len(list) : list[i].name # name
<1>1. ASSUME NEW i \in 1..Len(list), list[i].name = name PROVE Says(list, name) # {}
  <2> DEFINE M == {j \in 1..Len(list) : list[j].name = name}
  <2>1. M \subseteq Nat /\ M # {}
    BY <1>1
  <2>2. PICK j \in M : \A k \in M : j <= k
    BY <2>1, Least
  <2>3. \A k \in 1..(j - 1) : k \in 1..Len(list) /\ ~(j <= k)
    BY <2>2
  <2>4. j \in FirstOf(list, name)
    BY <2>2, <2>3 DEF FirstOf
  <2> QED
    BY <2>4 DEF Says
<1>2. ASSUME Says(list, name) # {} PROVE \E i \in 1..Len(list) : list[i].name = name
  BY <1>2 DEF Says, FirstOf
<1> QED
  BY <1>1, <1>2

\* An empty list says nothing.
LEMMA SaysEmpty == \A name : Says(<<>>, name) = {}
BY DEF Says, FirstOf

\* The entry at the end counts when nothing was said before.
LEMMA SaysAppend ==
    ASSUME NEW s \in Seq(Entries), NEW x \in Entries, NEW name
    PROVE  Says(Append(s, x), name) =
             IF Says(s, name) # {} THEN Says(s, name) ELSE IF x.name = name THEN {x} ELSE {}
<1> DEFINE t == Append(s, x)
           n == Len(s)
<1>1. n \in Nat /\ Len(t) = n + 1 /\ t[n + 1] = x /\ \A i \in 1..n : t[i] = s[i]
  BY AppendProperties, LenProperties
<1> HIDE DEF t
<1>2. \A i \in 1..n : i \in FirstOf(t, name) <=> i \in FirstOf(s, name)
  <2>1. \A i \in 1..n : i \in 1..Len(t) /\ \A j \in 1..(i - 1) : j \in 1..n
    BY <1>1
  <2> QED
    BY <1>1, <2>1 DEF FirstOf
<1>3. n + 1 \in FirstOf(t, name) <=> x.name = name /\ \A i \in 1..n : s[i].name # name
  <2>1. n + 1 \in 1..Len(t) /\ 1..((n + 1) - 1) = 1..n
    BY <1>1
  <2> QED
    BY <1>1, <2>1 DEF FirstOf
<1>4. n + 1 \in FirstOf(t, name) <=> x.name = name /\ Says(s, name) = {}
  BY <1>3, SaysNothing
<1>5. \A i \in FirstOf(t, name) : i \in 1..n \/ i = n + 1
  BY <1>1 DEF FirstOf
<1>6. \A i \in FirstOf(s, name) : i \in 1..n
  BY DEF FirstOf
<1>7. \A e : e \in Says(t, name) <=> e \in Says(s, name) \/ (e = x /\ n + 1 \in FirstOf(t, name))
  <2>1. \A e : e \in Says(t, name) <=> \E i \in FirstOf(t, name) : e = t[i]
    BY DEF Says
  <2>2. \A e : e \in Says(s, name) <=> \E i \in FirstOf(s, name) : e = s[i]
    BY DEF Says
  <2> QED
    BY <1>1, <1>2, <1>5, <1>6, <2>1, <2>2
<1>8. CASE Says(s, name) # {}
  <2>1. \A e : e \in Says(t, name) <=> e \in Says(s, name)
    BY <1>4, <1>7, <1>8
  <2> QED
    BY <1>8, <2>1 DEF t
<1>9. CASE Says(s, name) = {} /\ x.name = name
  <2>1. \A e : e \in Says(t, name) <=> e = x
    BY <1>4, <1>7, <1>9
  <2> QED
    BY <1>9, <2>1 DEF t
<1>10. CASE Says(s, name) = {} /\ x.name # name
  <2>1. \A e : e \notin Says(t, name)
    BY <1>4, <1>7, <1>10
  <2> QED
    BY <1>10, <2>1 DEF t
<1> QED
  BY <1>8, <1>9, <1>10

\* Of two lists one behind the other, the first one that says something counts.
LEMMA SaysConcat ==
    ASSUME NEW s \in Seq(Entries), NEW u \in Seq(Entries), NEW name
    PROVE  Says(s \o u, name) = IF Says(s, name) # {} THEN Says(s, name) ELSE Says(u, name)
<1> DEFINE Joint(t) == IF Says(s, name) # {} THEN Says(s, name) ELSE Says(t, name)
           T == {t \in Seq(Entries) : Says(s \o t, name) = Joint(t)}
<1>1. <<>> \in T
  <2>1. s \o <<>> = s /\ <<>> \in Seq(Entries)
    BY ConcatEmptySeq, EmptySeq
  <2> QED
    BY <2>1, SaysEmpty
<1>2. ASSUME NEW t \in Seq(Entries), NEW x \in Entries, t \in T PROVE Append(t, x) \in T
  <2>1. Append(t, x) \in Seq(Entries) /\ s \o t \in Seq(Entries)
    BY AppendProperties, ConcatProperties
  <2>2. s \o Append(t, x) = Append(s \o t, x)
    OBVIOUS
  <2>3. Says(s \o t, name) = Joint(t)
    BY <1>2
  <2>4. Says(Append(s \o t, x), name) =
          IF Says(s \o t, name) # {} THEN Says(s \o t, name) ELSE IF x.name = name THEN {x} ELSE {}
    BY <2>1, SaysAppend
  <2>5. Says(Append(t, x), name) =
          IF Says(t, name) # {} THEN Says(t, name) ELSE IF x.name = name THEN {x} ELSE {}
    BY SaysAppend
  <2>6. Says(s \o Append(t, x), name) = Joint(Append(t, x))
    BY <2>2, <2>3, <2>4, <2>5
  <2> QED
    BY <2>1, <2>6
<1> HIDE DEF T
<1>3. Seq(Entries) \subseteq T
  BY <1>1, <1>2, ListInduction
<1> QED
  BY <1>3 DEF T

\* Entries of other names may go.
LEMMA SaysPruned ==
    ASSUME NEW list \in Seq(Entries), NEW drop, NEW name, \A e \in drop : e.name # name
    PROVE  Says(Pruned(list, drop), name) = Says(list, name)
<1> DEFINE T == {t \in Seq(Entries) : Says(Pruned(t, drop), name) = Says(t, name)}
<1>1. <<>> \in T
  BY PrunedEmpty, EmptySeq
<1>2. ASSUME NEW t \in Seq(Entries), NEW x \in Entries, t \in T PROVE Append(t, x) \in T
  <2>1. Append(t, x) \in Seq(Entries) /\ Pruned(t, drop) \in Seq(Entries)
    BY AppendProperties, PrunedType
  <2>2. Says(Pruned(t, drop), name) = Says(t, name)
    BY <1>2
  <2>3. Says(Append(t, x), name) =
          IF Says(t, name) # {} THEN Says(t, name) ELSE IF x.name = name THEN {x} ELSE {}
    BY SaysAppend
  <2>4. CASE x \in drop
    <3>1. Pruned(Append(t, x), drop) = Pruned(t, drop) /\ x.name # name
      BY <2>4, PrunedAppend
    <3> QED
      BY <2>1, <2>2, <2>3, <3>1
  <2>5. CASE x \notin drop
    <3>1. Pruned(Append(t, x), drop) = Append(Pruned(t, drop), x)
      BY <2>5, PrunedAppend
    <3>2. Says(Append(Pruned(t, drop), x), name) =
            IF Says(Pruned(t, drop), name) # {} THEN Says(Pruned(t, drop), name)
            ELSE IF x.name = name THEN {x} ELSE {}
      BY <2>1, SaysAppend
    <3> QED
      BY <2>1, <2>2, <2>3, <3>1, <3>2
  <2> QED
    BY <2>4, <2>5
<1> HIDE DEF T
<1>3. Seq(Entries) \subseteq T
  BY <1>1, <1>2, ListInduction
<1> QED
  BY <1>3 DEF T

\* Lists that say the same one by one say the same together.
LEMMA SaysFlatten ==
    ASSUME NEW a \in Seq(Seq(Entries)), NEW b \in Seq(Seq(Entries)), NEW name,
           Len(a) = Len(b), \A i \in 1..Len(a) : Says(a[i], name) = Says(b[i], name)
    PROVE  Says(FlattenSeq(a), name) = Says(FlattenSeq(b), name)
<1> DEFINE Alike(s, t) == Len(s) = Len(t) /\ \A i \in 1..Len(s) : Says(s[i], name) = Says(t[i], name)
           T == {s \in Seq(Seq(Entries)) : \A t \in Seq(Seq(Entries)) :
                    Alike(s, t) => Says(FlattenSeq(s), name) = Says(FlattenSeq(t), name)}
<1>1. <<>> \in T
  <2>1. \A t \in Seq(Seq(Entries)) : Len(t) = 0 => t = <<>>
    BY EmptySeq
  <2>2. <<>> \in Seq(Seq(Entries))
    BY EmptySeq
  <2> QED
    BY <2>1, <2>2
<1>2. ASSUME NEW s \in Seq(Seq(Entries)), NEW x \in Seq(Entries), s \in T PROVE Append(s, x) \in T
  <2>1. Append(s, x) \in Seq(Seq(Entries))
    BY AppendProperties
  <2>2. ASSUME NEW t \in Seq(Seq(Entries)), Alike(Append(s, x), t)
        PROVE  Says(FlattenSeq(Append(s, x)), name) = Says(FlattenSeq(t), name)
    <3>1. Len(Append(s, x)) = Len(s) + 1 /\ Append(s, x)[Len(s) + 1] = x /\ Len(s) \in Nat
          /\ \A i \in 1..Len(s) : Append(s, x)[i] = s[i]
      BY AppendProperties, LenProperties
    <3>0. Len(t) = Len(s) + 1
      BY <2>2, <3>1
    <3>2. t # <<>>
      <4>1. Len(<<>>) = 0
        BY EmptySeq
      <4> QED
        BY <3>0, <3>1, <4>1
    <3>3. PICK u \in Seq(Seq(Entries)), y \in Seq(Entries) : t = Append(u, y)
      BY <3>2, SequenceEmptyOrAppend
    <3>4. Len(t) = Len(u) + 1 /\ t[Len(u) + 1] = y /\ Len(u) \in Nat
          /\ \A i \in 1..Len(u) : t[i] = u[i]
      BY <3>3, AppendProperties, LenProperties
    <3>5. Len(u) = Len(s)
      BY <3>0, <3>1, <3>4
    <3>6. \A i \in 1..Len(s) : i \in 1..(Len(s) + 1)
      BY <3>1
    <3>7. Len(s) + 1 \in 1..(Len(s) + 1)
      BY <3>1
    <3>8. Alike(s, u) /\ Says(x, name) = Says(y, name)
      BY <2>2, <3>1, <3>4, <3>5, <3>6, <3>7
    <3>9. Says(FlattenSeq(s), name) = Says(FlattenSeq(u), name)
      BY <1>2, <3>8
    <3>10. FlattenSeq(Append(s, x)) = FlattenSeq(s) \o x /\ FlattenSeq(t) = FlattenSeq(u) \o y
      BY <3>3, FlattenAppend
    <3>11. FlattenSeq(s) \in Seq(Entries) /\ FlattenSeq(u) \in Seq(Entries)
      BY FlattenType
    <3>12. Says(FlattenSeq(s) \o x, name) =
             IF Says(FlattenSeq(s), name) # {} THEN Says(FlattenSeq(s), name) ELSE Says(x, name)
      BY <3>11, SaysConcat
    <3>13. Says(FlattenSeq(u) \o y, name) =
             IF Says(FlattenSeq(u), name) # {} THEN Says(FlattenSeq(u), name) ELSE Says(y, name)
      BY <3>11, SaysConcat
    <3> HIDE DEF Alike
    <3> QED
      BY <3>8, <3>9, <3>10, <3>12, <3>13
  <2> HIDE DEF Alike
  <2> QED
    BY <2>1, <2>2
<1> HIDE DEF T
<1>3. Seq(Seq(Entries)) \subseteq T
  BY <1>1, <1>2, ListInduction
<1> QED
  BY <1>3 DEF T

\* What the entries of a list are.
LEMMA EntriesAre ==
    /\ \A e \in Entries : e.on \in BOOLEAN /\ (e.on => e = On(e.name)) /\ (~e.on => e = Off(e.name))
    /\ \A n : On(n).name = n /\ On(n).on = TRUE /\ Off(n).name = n /\ Off(n).on = FALSE
    /\ On("*") \in Entries /\ Off("nodelifecycle") \in Entries
<1>1. \A n : On(n) = [name |-> n, on |-> TRUE] /\ Off(n) = [name |-> n, on |-> FALSE]
  BY DEF On, Off
<1>2. \A e \in Entries : e.on \in BOOLEAN /\ e = [name |-> e.name, on |-> e.on]
  <2>1. ASSUME NEW N, NEW e \in [name : N, on : BOOLEAN]
        PROVE  e.on \in BOOLEAN /\ e = [name |-> e.name, on |-> e.on]
    OBVIOUS
  <2> QED
    BY <2>1 DEF Entries
<1>3. \A e \in Entries : (e.on => e = On(e.name)) /\ (~e.on => e = Off(e.name))
  <2> SUFFICES ASSUME NEW e \in Entries
               PROVE  (e.on => e = On(e.name)) /\ (~e.on => e = Off(e.name))
    OBVIOUS
  <2>1. e.on \in BOOLEAN /\ e = [name |-> e.name, on |-> e.on]
    BY <1>2
  <2>2. CASE e.on = TRUE
    BY <1>1, <2>1, <2>2
  <2>3. CASE e.on = FALSE
    BY <1>1, <2>1, <2>3
  <2> QED
    BY <2>1, <2>2, <2>3
<1>4. \A n : On(n).name = n /\ On(n).on = TRUE /\ Off(n).name = n /\ Off(n).on = FALSE
  BY <1>1
<1>5. On("*") \in Entries /\ Off("nodelifecycle") \in Entries
  BY <1>1 DEF Entries
<1> QED
  BY <1>2, <1>3, <1>4, <1>5

\* All the entries of a manifest, with the program's default.
All(manifest) == IF manifest.lists = <<>> THEN <<On("*")>> ELSE FlattenSeq(manifest.lists)

\* What runs by a list of entries.
Verdict(all, name) ==
    \/ On(name) \in Says(all, name)
    \/ Says(all, name) = {} /\ Contains(all, On("*")) /\ name \notin OffByDefault

\* They are entries.
LEMMA AllType == \A m \in Manifests : All(m) \in Seq(Entries) /\ m.lists \in Seq(Seq(Entries))
<1>1. \A m \in Manifests : m.lists \in Seq(Seq(Entries))
  BY DEF Manifests
<1>2. <<On("*")>> \in Seq(Entries)
  BY EntriesAre
<1> QED
  BY <1>1, <1>2, FlattenType DEF All

\* A controller runs by the first mention of it, or by default.
LEMMA RunsIs ==
    ASSUME NEW m \in Manifests, NEW name
    PROVE  Runs(m, name) = Verdict(All(m), name)
<1> DEFINE all == All(m)
           K == {i \in DOMAIN all : all[i].name = name}
<1>1. Runs(m, name) = IF K # {} THEN all[Min(K)].on ELSE (Contains(all, On("*")) /\ name \notin OffByDefault)
  BY DEF Runs, All
<1>2. all \in Seq(Entries) /\ DOMAIN all = 1..Len(all) /\ K \subseteq Nat
  <2>1. all \in Seq(Entries)
    BY AllType
  <2> HIDE DEF all
  <2> QED
    BY <2>1
<1> HIDE DEF all
<1>3. CASE K = {}
  <2>1. Says(all, name) = {}
    BY <1>2, <1>3, SaysNothing
  <2>2. Runs(m, name) = (Contains(all, On("*")) /\ name \notin OffByDefault)
    BY <1>1, <1>3
  <2>3. Verdict(all, name) <=> Contains(all, On("*")) /\ name \notin OffByDefault
    BY <2>1 DEF Verdict
  <2>4. Verdict(all, name) = (Contains(all, On("*")) /\ name \notin OffByDefault)
    BY <2>3 DEF Verdict
  <2> QED
    BY <2>2, <2>4 DEF all
<1>4. CASE K # {}
  <2> DEFINE k == Min(K)
  <2>1. \E x \in K : \A y \in K : x <= y
    BY <1>2, <1>4, Least
  <2>2. k \in K /\ \A y \in K : k <= y
    BY <2>1 DEF Min
  <2>3. Runs(m, name) = all[k].on
    BY <1>1, <1>4
  <2> HIDE DEF k
  <2>4. k \in 1..Len(all) /\ all[k].name = name /\ all[k] \in Entries
    BY <1>2, <2>2
  <2>5. \A y \in 1..Len(all) : all[y].name = name => k <= y
    BY <1>2, <2>2
  <2>6. k \in FirstOf(all, name)
    <3>1. \A j \in 1..(k - 1) : j \in 1..Len(all) /\ ~(k <= j)
      BY <1>2, <2>4
    <3> QED
      BY <2>4, <2>5, <3>1 DEF FirstOf
  <2>7. \A i \in FirstOf(all, name) : i = k
    <3> SUFFICES ASSUME NEW i \in FirstOf(all, name) PROVE i = k
      OBVIOUS
    <3>1. i \in 1..Len(all) /\ all[i].name = name /\ \A j \in 1..(i - 1) : all[j].name # name
      BY DEF FirstOf
    <3>2. k <= i
      BY <2>5, <3>1
    <3>3. k \notin 1..(i - 1)
      BY <2>4, <3>1
    <3> QED
      BY <1>2, <2>4, <3>1, <3>2, <3>3
  <2>8. Says(all, name) = {all[k]}
    BY <2>6, <2>7 DEF Says
  <2>9. On(name) \in Says(all, name) <=> all[k].on
    <3>1. On(name) = all[k] => all[k].on
      <4>1. On(name).on = TRUE
        BY EntriesAre
      <4> QED
        BY <4>1
    <3>2. all[k].on => On(name) = all[k]
      BY <2>4, EntriesAre
    <3> QED
      BY <2>8, <3>1, <3>2
  <2>10. Verdict(all, name) <=> all[k].on
    BY <2>8, <2>9 DEF Verdict
  <2>11. Verdict(all, name) = all[k].on
    <3>1. all[k].on \in BOOLEAN
      BY <2>4, EntriesAre
    <3>2. Verdict(all, name) \in BOOLEAN
      BY DEF Verdict
    <3> QED
      BY <2>10, <3>1, <3>2
  <2> QED
    BY <2>3, <2>11 DEF all
<1> QED
  BY <1>3, <1>4

\* Two lists that come to the same for the controllers that the agent has no
\* business with.
Others == {"attach", "bootstrapsigner", "tokencleaner"}
Alike(list, old) ==
    /\ \A name \in Others : Says(list, name) = Says(old, name)
    /\ Contains(list, On("*")) <=> Contains(old, On("*"))

Switch == Off("nodelifecycle")

\* It names none of the others.
LEMMA SwitchIs ==
    /\ Switch \in Entries /\ Switch.name \notin Others /\ Switch # On("*")
    /\ Switch.name = "nodelifecycle" /\ Switch.on = FALSE
BY EntriesAre DEF Switch, Others

\* The entry at the end switches no other.
LEMMA AppendAlike ==
    ASSUME NEW list \in Seq(Entries)
    PROVE  /\ Append(list, Switch) \in Seq(Entries)
           /\ Alike(Append(list, Switch), list)
           /\ Contains(Append(list, Switch), Switch)
<1>1. Append(list, Switch) \in Seq(Entries)
  BY SwitchIs, AppendProperties
<1>2. \A e : Contains(Append(list, Switch), e) <=> Contains(list, e) \/ Switch = e
  BY SwitchIs, ContainsAppend
<1>3. \A name \in Others : Says(Append(list, Switch), name) = Says(list, name)
  <2> SUFFICES ASSUME NEW name \in Others PROVE Says(Append(list, Switch), name) = Says(list, name)
    OBVIOUS
  <2>1. Says(Append(list, Switch), name) =
          IF Says(list, name) # {} THEN Says(list, name) ELSE IF Switch.name = name THEN {Switch} ELSE {}
    BY SwitchIs, SaysAppend
  <2>2. Switch.name # name
    BY SwitchIs
  <2> QED
    BY <2>1, <2>2
<1> QED
  BY <1>1, <1>2, <1>3, SwitchIs DEF Alike

\* Enable on one list.
CutOf(list) == IF list = <<>> THEN list ELSE <<Head(list)>> \o Pruned(Tail(list), {Switch})

\* The cuts switch no other; what is left of the entry is at the head.
LEMMA CutAlike ==
    ASSUME NEW list \in Seq(Entries)
    PROVE  /\ CutOf(list) \in Seq(Entries)
           /\ Alike(CutOf(list), list)
           /\ Contains(CutOf(list), Switch) => CutOf(list) # <<>> /\ Head(CutOf(list)) = Switch
<1>1. CASE list = <<>>
  <2>1. CutOf(list) = <<>> /\ ~Contains(CutOf(list), Switch)
    BY <1>1, EmptySeq DEF CutOf, Contains
  <2> QED
    BY <1>1, <2>1 DEF Alike
<1>2. CASE list # <<>>
  <2> DEFINE head == <<Head(list)>>
             tail == Tail(list)
             kept == Pruned(tail, {Switch})
  <2>1. head \in Seq(Entries) /\ tail \in Seq(Entries) /\ list = head \o tail /\ Head(list) \in Entries
    BY <1>2
  <2>2. kept \in Seq(Entries) /\ \A e : Contains(kept, e) <=> Contains(tail, e) /\ e \notin {Switch}
    BY <2>1, PrunedType, PrunedContains
  <2>3. \A name \in Others : Says(kept, name) = Says(tail, name)
    <3> SUFFICES ASSUME NEW name \in Others PROVE Says(kept, name) = Says(tail, name)
      OBVIOUS
    <3>1. \A e \in {Switch} : e.name # name
      BY SwitchIs
    <3> HIDE DEF tail
    <3> QED
      BY <2>1, <3>1, SaysPruned
  <2>4. CutOf(list) = head \o kept
    BY <1>2 DEF CutOf
  <2>5. head \o kept \in Seq(Entries) /\ head \o kept # <<>> /\ Head(head \o kept) = Head(list)
    <3>1. Len(head) = 1 /\ head[1] = Head(list)
      OBVIOUS
    <3> HIDE DEF head, kept
    <3>2. head \o kept \in Seq(Entries) /\ Len(head \o kept) = Len(head) + Len(kept) /\ Len(kept) \in Nat
      BY <2>1, <2>2
    <3>3. (head \o kept)[1] = head[1]
      BY <2>1, <2>2, <3>1
    <3>4. head \o kept # <<>>
      BY <2>1, <2>2, <3>1, <3>2, EmptySeq
    <3> QED
      BY <3>1, <3>2, <3>3, <3>4
  <2>6. \A e : Contains(head, e) <=> e = Head(list)
    BY DEF Contains
  <2> HIDE DEF head, tail, kept
  <2>7. \A e : Contains(head \o kept, e) <=> Contains(head, e) \/ Contains(kept, e)
    BY <2>1, <2>2, ContainsConcat
  <2>8. \A e : Contains(head \o tail, e) <=> Contains(head, e) \/ Contains(tail, e)
    BY <2>1, ContainsConcat
  <2>9. \A name \in Others : Says(head \o kept, name) = Says(head \o tail, name)
    <3> SUFFICES ASSUME NEW name \in Others
                 PROVE  Says(head \o kept, name) = Says(head \o tail, name)
      OBVIOUS
    <3>1. Says(head \o kept, name) = IF Says(head, name) # {} THEN Says(head, name) ELSE Says(kept, name)
      BY <2>1, <2>2, SaysConcat
    <3>2. Says(head \o tail, name) = IF Says(head, name) # {} THEN Says(head, name) ELSE Says(tail, name)
      BY <2>1, SaysConcat
    <3> QED
      BY <2>3, <3>1, <3>2
  <2>10. Contains(head \o kept, On("*")) <=> Contains(list, On("*"))
    BY <2>1, <2>2, <2>7, <2>8, SwitchIs
  <2>11. Alike(CutOf(list), list)
    BY <2>1, <2>4, <2>9, <2>10 DEF Alike
  <2>12. Contains(head \o kept, Switch) => Head(list) = Switch
    BY <2>2, <2>6, <2>7
  <2> QED
    BY <2>4, <2>5, <2>11, <2>12
<1> QED
  BY <1>1, <1>2

\* What the pass that disables makes of a manifest.
LEMMA DisableIs ==
    ASSUME NEW m \in Manifests
    PROVE  /\ Disable(m) \in Manifests /\ Disable(m).direct = m.direct
           /\ m.lists = <<>> => Disable(m).lists \in {<<>>, <<Asked>>}
           /\ m.lists # <<>> => /\ Len(Disable(m).lists) = Len(m.lists)
                                /\ \A i \in 1..Len(m.lists) : Alike(Disable(m).lists[i], m.lists[i])
           /\ m.direct => Disable(m).lists # <<>> /\ Contains(Disable(m).lists[1], Switch)
<1>1. m = [direct |-> m.direct, lists |-> m.lists] /\ m.direct \in BOOLEAN /\ m.lists \in Seq(Seq(Entries))
  BY DEF Manifests
<1>2. \A l \in Seq(Seq(Entries)) :
         LET M == [m EXCEPT !.lists = l] IN M \in Manifests /\ M.direct = m.direct /\ M.lists = l
  BY DEF Manifests
<1>3. \A list : Alike(list, list)
  BY DEF Alike
<1>4. CASE ~m.direct
  BY <1>3, <1>4 DEF Disable
<1>5. CASE m.direct /\ m.lists = <<>>
  <2>1. Disable(m) = [m EXCEPT !.lists = <<Asked>>]
    BY <1>5 DEF Disable
  <2>2. Asked = <<On("*"), On("bootstrapsigner"), On("tokencleaner"), Switch>>
    BY DEF Asked, Switch
  <2>3. Asked \in Seq(Entries)
    BY DEF Asked, Entries, On, Off
  <2>4. Contains(Asked, Switch)
    BY <2>2 DEF Contains
  <2> HIDE DEF Asked
  <2>5. <<Asked>> \in Seq(Seq(Entries)) /\ <<Asked>> # <<>> /\ <<Asked>>[1] = Asked
    BY <2>3
  <2>6. Disable(m) \in Manifests /\ Disable(m).direct = m.direct /\ Disable(m).lists = <<Asked>>
    BY <1>2, <2>1, <2>5
  <2> QED
    BY <1>5, <2>4, <2>5, <2>6
<1>6. CASE m.direct /\ m.lists # <<>> /\ Contains(m.lists[1], Switch)
  <2>1. Disable(m) = m
    BY <1>6 DEF Disable, Switch
  <2> QED
    BY <1>3, <1>6, <2>1
<1>7. CASE m.direct /\ m.lists # <<>> /\ ~Contains(m.lists[1], Switch)
  <2> DEFINE l == [m.lists EXCEPT ![1] = Append(@, Switch)]
  <2>1. Disable(m) = [m EXCEPT !.lists = l]
    BY <1>1, <1>7 DEF Disable, Switch
  <2>2. 1 \in 1..Len(m.lists) /\ m.lists[1] \in Seq(Entries)
    BY <1>1, <1>7
  <2>3. Append(m.lists[1], Switch) \in Seq(Entries)
    BY <2>2, AppendAlike
  <2>4. l \in Seq(Seq(Entries)) /\ Len(l) = Len(m.lists) /\ l[1] = Append(m.lists[1], Switch)
        /\ \A i \in 1..Len(m.lists) : i # 1 => l[i] = m.lists[i]
    BY <1>1, <2>2, <2>3
  <2> HIDE DEF l
  <2>5. Disable(m) \in Manifests /\ Disable(m).direct = m.direct /\ Disable(m).lists = l
    BY <1>2, <2>1, <2>4
  <2>6. Alike(l[1], m.lists[1]) /\ Contains(l[1], Switch)
    BY <2>2, <2>4, AppendAlike
  <2>7. \A i \in 1..Len(m.lists) : Alike(l[i], m.lists[i])
    BY <1>3, <2>4, <2>6
  <2>8. l # <<>>
    BY <2>2, <2>4, EmptySeq
  <2> QED
    BY <1>7, <2>4, <2>5, <2>6, <2>7, <2>8
<1> QED
  BY <1>4, <1>5, <1>6, <1>7

\* What the pass that enables makes of one.
LEMMA EnableIs ==
    ASSUME NEW m \in Manifests
    PROVE  /\ Enable(m) \in Manifests /\ Enable(m).direct = m.direct
           /\ Len(Enable(m).lists) = Len(m.lists)
           /\ \A i \in 1..Len(m.lists) :
                 LET list == Enable(m).lists[i]
                 IN /\ Alike(list, m.lists[i])
                    /\ Contains(list, Switch) => list # <<>> /\ Head(list) = Switch
<1>1. m.direct \in BOOLEAN /\ m.lists \in Seq(Seq(Entries)) /\ DOMAIN m.lists = 1..Len(m.lists)
      /\ Len(m.lists) \in Nat /\ \A i \in 1..Len(m.lists) : m.lists[i] \in Seq(Entries)
  BY DEF Manifests
<1>2. \A l \in Seq(Seq(Entries)) :
         LET M == [m EXCEPT !.lists = l] IN M \in Manifests /\ M.direct = m.direct /\ M.lists = l
  BY DEF Manifests
<1> DEFINE l == [i \in 1..Len(m.lists) |-> CutOf(m.lists[i])]
<1>3. Enable(m) = [m EXCEPT !.lists = [i \in DOMAIN m.lists |-> CutOf(m.lists[i])]]
  BY DEF Enable, CutOf, Switch, Manifests
<1>4. \A i \in 1..Len(m.lists) : CutOf(m.lists[i]) \in Seq(Entries)
  BY <1>1, CutAlike
<1>5. l \in Seq(Seq(Entries)) /\ Len(l) = Len(m.lists)
  BY <1>1, <1>4, IsASeq, LenProperties
<1>6. Enable(m) = [m EXCEPT !.lists = l]
  BY <1>1, <1>3
<1>7. \A i \in 1..Len(m.lists) : l[i] = CutOf(m.lists[i])
  OBVIOUS
<1> HIDE DEF l
<1>8. Enable(m) \in Manifests /\ Enable(m).direct = m.direct /\ Enable(m).lists = l
  BY <1>2, <1>5, <1>6
<1>9. \A i \in 1..Len(m.lists) :
         /\ Alike(l[i], m.lists[i])
         /\ Contains(l[i], Switch) => l[i] # <<>> /\ Head(l[i]) = Switch
  BY <1>1, <1>7, CutAlike
<1> QED
  BY <1>5, <1>8, <1>9

-----------------------------------------------------------------------------
(* The inductive invariant *)

\* kubeadm-flags.env is an administrator's or a rewriting of one, as the history
\* has it, and there is a backup once it was rewritten.
EnvInv ==
    /\ unit \in Units /\ env \in Seq(Args)
    /\ envBackup \in {<<>>} \cup {<<args>> : args \in EnvArgs}
    /\ form \in {"none", "own", "first", "again"}
    /\ mode \in {"direct", "hub", "edited"}
    /\ form \in {"none", "own"} => env \in EnvArgs /\ form = FormOf(env)
    /\ form = "first" => First(env)
    /\ form = "again" => Again(env)
    /\ form \in {"first", "again"} => envBackup # <<>>
    /\ mode = "hub" <=> form \in {"first", "again"}

\* What was rendered once, as it runs or as a backup, has an upstream.
Served(manifest, args) ==
    /\ manifest \in Manifest
    /\ manifest.args["server-addr"] # ""
    /\ HasKubeConfig(args) => manifest.args["server-addr"] # "hub"

HubInv ==
    /\ spec \in Specs /\ hubSpec \in Specs \cup {Unknown}
    /\ hub = NoManifest \/ Served(hub, unit)
    /\ hubBackup = NoManifest \/ Served(hubBackup, unit)
    /\ hub # NoManifest /\ hubSpec # Unknown /\ HasKubeConfig(unit) =>
          hub \in Contents(hubSpec, hub.type, "apiserver")

\* The lists are the administrator's as far as the other controllers go, or the
\* flag that the agent added.
Shape(manifest, old) ==
    IF old.lists # <<>>
    THEN /\ Len(manifest.lists) = Len(old.lists)
         /\ \A i \in 1..Len(old.lists) : Alike(manifest.lists[i], old.lists[i])
    ELSE \/ manifest.lists = <<>>
         \/ /\ Len(manifest.lists) = 1
            /\ Says(manifest.lists[1], "attach") = {}
            /\ Contains(manifest.lists[1], On("*"))

KcmInv ==
    /\ kcm \in Manifests /\ given \in Written /\ kcmMode \in {"given", "on", "off"}
    /\ kcmMode = "off" /\ kcm.direct => kcm.lists # <<>> /\ Contains(kcm.lists[1], Switch)
    /\ kcmMode = "on" =>
          \A i \in 1..Len(kcm.lists) :
             Contains(kcm.lists[i], Switch) => kcm.lists[i] # <<>> /\ Head(kcm.lists[i]) = Switch
    /\ Shape(kcm, given)

Inv == EnvInv /\ HubInv /\ KcmInv

\* The arguments that the history says the file has.
LEMMA EnvIs ==
    ASSUME EnvInv
    PROVE  /\ unit \in Seq(Args) /\ Own(unit) /\ env \in Seq(Args)
           /\ form \in {"none", "own"} => Own(env)
           /\ form \in {"first", "again"} => Hubbed(env) /\ HasKubeConfig(env)
<1>1. unit \in Seq(Args) /\ Own(unit) /\ env \in Seq(Args)
  BY OwnArguments DEF EnvInv
<1>2. form \in {"none", "own"} => Own(env)
  BY OwnArguments DEF EnvInv
<1>3. form = "first" => Hubbed(env) /\ HasKubeConfig(env)
  BY FirstMoves DEF EnvInv, First
<1>4. form = "again" => Hubbed(env) /\ HasKubeConfig(env)
  BY DEF EnvInv, Again
<1> QED
  BY <1>1, <1>2, <1>3, <1>4

\* A run finds an upstream, and behind a unit with a --kubeconfig the API server.
LEMMA UpstreamIs ==
    ASSUME EnvInv
    PROVE  /\ Upstream \in {"apiserver", "hub"}
           /\ HasKubeConfig(unit) => Upstream = "apiserver"
<1>1. unit \in Seq(Args) /\ Own(unit) /\ env \in Seq(Args) /\ (Own(env) \/ Hubbed(env))
  BY EnvIs DEF EnvInv
<1>2. Path(unit \o env) \in OwnKubeConfigs \cup {"yurt"}
  BY <1>1, PathExists
<1>3. HasKubeConfig(unit) => Path(unit \o env) \in OwnKubeConfigs
  BY <1>1, PathOfUnit
<1> QED
  BY <1>2, <1>3 DEF Upstream, Line, ServerIn, OwnKubeConfigs

\* What a run renders can serve the node.
LEMMA RenderedServes ==
    ASSUME EnvInv, spec \in Specs, NEW type \in ConvertTypes,
           NEW content \in Contents(spec, type, Upstream)
    PROVE  /\ Served(content, unit) /\ content.type = type
           /\ HasKubeConfig(unit) => content \in Contents(spec, type, "apiserver")
<1>1. Upstream \in {"apiserver", "hub"} /\ (HasKubeConfig(unit) => Upstream = "apiserver")
  BY UpstreamIs
<1>2. Upstream \in Texts /\ Upstream # "" /\ (HasKubeConfig(unit) => Upstream # "hub")
  BY <1>1 DEF Texts
<1>3. Serves(content, type, Upstream)
  BY <1>2, ContentsAre
<1> QED
  BY <1>1, <1>2, <1>3 DEF Served, Serves

\* The invariant holds of the files an administrator starts with.
LEMMA InitInv == Init => Inv
<1> SUFFICES ASSUME Init PROVE Inv
  OBVIOUS
<1>1. unit \in Units /\ env \in EnvArgs /\ form = FormOf(env) /\ envBackup = <<>> /\ mode = "direct"
  BY DEF Init
<1>2. EnvInv
  BY <1>1, OwnArguments DEF EnvInv, FormOf
<1>3. HubInv
  BY DEF Init, HubInv
<1>4. \A list : Alike(list, list)
  BY DEF Alike
<1>5. kcm \in Written /\ given = kcm /\ kcmMode = "given" /\ kcm \in Manifests
  BY FilesAssumption DEF Init
<1>6. KcmInv
  BY <1>4, <1>5 DEF KcmInv, Shape
<1> QED
  BY <1>2, <1>3, <1>6 DEF Inv

\* A backup is an administrator's file.
LEMMA BackupIs ==
    ASSUME EnvInv
    PROVE  \E args \in EnvArgs : Backup = <<args>> /\ Backup[1] = args
<1>1. CASE envBackup = <<>>
  <2>1. env \in EnvArgs
    BY <1>1 DEF EnvInv
  <2> QED
    BY <1>1, <2>1 DEF Backup
<1>2. CASE envBackup # <<>>
  BY <1>2 DEF EnvInv, Backup
<1> QED
  BY <1>1, <1>2

\* An administrator's file that the kubelet is taken back to.
LEMMA EnvBack ==
    ASSUME EnvInv, NEW args \in EnvArgs, unit' = unit, env' = args, form' = FormOf(args),
           envBackup' = envBackup \/ envBackup' = Backup, mode' \in {"direct", "edited"}
    PROVE  EnvInv'
<1>1. envBackup' \in {<<>>} \cup {<<a>> : a \in EnvArgs}
  BY BackupIs DEF EnvInv
<1>2. FormOf(args) \in {"none", "own"}
  BY DEF FormOf
<1>3. args \in Seq(Args) /\ unit' \in Units
  BY OwnArguments DEF EnvInv
<1>4. FormOf(env') = FormOf(args)
  BY DEF FormOf
<1> HIDE DEF FormOf
<1> QED
  BY <1>1, <1>2, <1>3, <1>4 DEF EnvInv

\* A run that rewrites the file.
LEMMA EnvRewritten ==
    ASSUME EnvInv, unit' = unit, env' = Rewritten(env), form' = NextForm(form),
           envBackup' = Backup, mode' = "hub"
    PROVE  EnvInv'
<1>1. \E args \in EnvArgs : Backup = <<args>>
  BY BackupIs
<1>2. envBackup' \in {<<args>> : args \in EnvArgs} /\ envBackup' # <<>>
  BY <1>1
<1>3. CASE form = "none"
  <2>1. env \in Seq(Args) /\ ~HasKubeConfig(env)
    BY <1>3 DEF EnvInv, FormOf
  <2>2. form' = "first" /\ First(env')
    BY <1>3, <2>1, RewrittenFirst DEF NextForm
  <2>3. env' \in Seq(Args)
    BY <2>2 DEF First
  <2> QED
    BY <1>2, <2>2, <2>3 DEF EnvInv
<1>4. CASE form # "none"
  <2>1. env \in Seq(Args) /\ HasKubeConfig(env)
    <3>1. CASE form = "own"
      BY <3>1 DEF EnvInv, FormOf
    <3>2. CASE form \in {"first", "again"}
      BY <3>2, EnvIs
    <3> QED
      BY <1>4, <3>1, <3>2 DEF EnvInv
  <2>2. form' = "again" /\ Again(env')
    BY <1>4, <2>1, RewrittenAgain DEF NextForm
  <2>3. env' \in Seq(Args)
    BY <2>2 DEF Again
  <2> QED
    BY <1>2, <2>2, <2>3 DEF EnvInv
<1> QED
  BY <1>3, <1>4

\* A run that writes the manifest, and one after which a backup comes back.
LEMMA HubAfterWrite ==
    ASSUME EnvInv, HubInv, NEW type \in ConvertTypes, NEW content \in Contents(spec, type, Upstream),
           HubWritten(content), unit' = unit, spec' = spec
    PROVE  HubInv'
<1>1. spec \in Specs /\ hubSpec \in Specs \cup {Unknown}
  BY DEF HubInv
<1>2. Served(content, unit) /\ content.type = type
      /\ (HasKubeConfig(unit) => content \in Contents(spec, type, "apiserver"))
  BY <1>1, RenderedServes
<1>3. hub' = content /\ hubBackup' \in {hub, hubBackup} /\ (hub = NoManifest => hubBackup' = hubBackup)
  BY DEF HubWritten
<1>4. hub' = NoManifest \/ Served(hub', unit')
  BY <1>2, <1>3
<1>5. hubBackup' = NoManifest \/ Served(hubBackup', unit')
  BY <1>3 DEF HubInv
<1>6. hubSpec' \in Specs \cup {Unknown}
  BY <1>1 DEF HubWritten
<1>7. content # NoManifest
  BY <1>2, ManifestsDiffer DEF Served
<1>8. ASSUME hubSpec' # Unknown, HasKubeConfig(unit)
      PROVE  hub' \in Contents(hubSpec', hub'.type, "apiserver")
  <2>1. CASE hub = content
    BY <1>3, <1>7, <1>8, <2>1 DEF HubInv, HubWritten
  <2>2. CASE hub # content
    BY <1>2, <1>3, <1>8, <2>2 DEF HubWritten
  <2> QED
    BY <2>1, <2>2
<1> QED
  BY <1>1, <1>4, <1>5, <1>6, <1>8 DEF HubInv

\* After a failed run the manifest is one of those there were.
LEMMA HubAfterFailure ==
    ASSUME HubInv, NEW content, HubFails(content), unit' = unit, spec' = spec
    PROVE  HubInv'
<1>1. hub' \in {hub, hubBackup} /\ (hub # NoManifest => hub' = hub /\ hubSpec' = hubSpec)
      /\ (hub = NoManifest => hub' \in {hub, hubBackup} /\ hubSpec' = Unknown)
      /\ hubBackup' \in {hub, hubBackup}
  BY DEF HubFails
<1>2. hub' = NoManifest \/ Served(hub', unit')
  BY <1>1 DEF HubInv
<1>3. hubBackup' = NoManifest \/ Served(hubBackup', unit')
  BY <1>1 DEF HubInv
<1> QED
  BY <1>1, <1>2, <1>3 DEF HubInv

\* Steps that leave yurt-hub.yaml alone, or remove it.
LEMMA HubKept ==
    ASSUME HubInv, hub' \in {hub, NoManifest}, unit' = unit, spec' \in Specs,
           hubBackup' = hubBackup, hubSpec' = hubSpec
    PROVE  HubInv'
<1>1. hub' = NoManifest \/ Served(hub', unit')
  BY DEF HubInv
<1>2. hubBackup' = NoManifest \/ Served(hubBackup', unit')
  BY DEF HubInv
<1> QED
  BY <1>1, <1>2 DEF HubInv

\* A manifest whose lists are as good as those before is of the same shape.
LEMMA ShapeKept ==
    ASSUME NEW m, NEW n, NEW old, Shape(m, old), Len(n.lists) = Len(m.lists),
           \A i \in 1..Len(m.lists) : Alike(n.lists[i], m.lists[i]),
           m.lists \in Seq(Seq(Entries)), n.lists \in Seq(Seq(Entries))
    PROVE  Shape(n, old)
<1>1. CASE old.lists # <<>>
  <2>1. Len(n.lists) = Len(old.lists)
    BY <1>1 DEF Shape
  <2>2. \A i \in 1..Len(old.lists) : Alike(n.lists[i], old.lists[i])
    BY <1>1 DEF Shape, Alike
  <2> QED
    BY <1>1, <2>1, <2>2 DEF Shape
<1>2. CASE old.lists = <<>> /\ m.lists = <<>>
  <2>1. n.lists = <<>>
    BY <1>2, EmptySeq
  <2> QED
    BY <1>2, <2>1 DEF Shape
<1>3. CASE old.lists = <<>> /\ m.lists # <<>>
  <2>1. Len(m.lists) = 1 /\ Says(m.lists[1], "attach") = {} /\ Contains(m.lists[1], On("*"))
    BY <1>3 DEF Shape
  <2>2. Alike(n.lists[1], m.lists[1]) /\ "attach" \in Others
    BY <2>1 DEF Others
  <2> QED
    BY <1>3, <2>1, <2>2 DEF Shape, Alike
<1> QED
  BY <1>1, <1>2, <1>3

\* The flag that Disable adds asks for every controller.
LEMMA AskedIs == Says(Asked, "attach") = {} /\ Contains(Asked, On("*"))
<1>1. Asked \in Seq(Entries) /\ Len(Asked) = 4 /\ Asked[1] = On("*") /\ Asked[1].name = "*"
      /\ Asked[2].name = "bootstrapsigner" /\ Asked[3].name = "tokencleaner" /\ Asked[4].name = "nodelifecycle"
  BY DEF Asked, Entries, On, Off
<1>2. \A i \in 1..Len(Asked) : Asked[i].name # "attach"
  <2>1. \A i \in 1..4 : i = 1 \/ i = 2 \/ i = 3 \/ i = 4
    OBVIOUS
  <2> QED
    BY <1>1, <2>1
<1>3. Contains(Asked, On("*"))
  BY <1>1 DEF Contains
<1> QED
  BY <1>1, <1>2, <1>3, SaysNothing

\* The pass that disables the nodelifecycle controller, on any manifest.
LEMMA KcmAfterDisable ==
    ASSUME KcmInv, DisableLifecycle
    PROVE  KcmInv'
<1>1. kcm' = Disable(kcm) /\ kcmMode' = "off" /\ given' = given /\ kcm \in Manifests /\ given \in Written
  BY DEF KcmInv, DisableLifecycle
<1> DEFINE n == Disable(kcm)
<1>2. /\ n \in Manifests /\ n.direct = kcm.direct
      /\ kcm.lists = <<>> => n.lists \in {<<>>, <<Asked>>}
      /\ kcm.lists # <<>> => /\ Len(n.lists) = Len(kcm.lists)
                             /\ \A i \in 1..Len(kcm.lists) : Alike(n.lists[i], kcm.lists[i])
      /\ kcm.direct => n.lists # <<>> /\ Contains(n.lists[1], Switch)
  BY <1>1, DisableIs
<1> HIDE DEF n
<1>3. Shape(n, given)
  <2>1. CASE kcm.lists # <<>>
    BY <1>1, <1>2, <2>1, AllType, ShapeKept DEF KcmInv
  <2>2. CASE kcm.lists = <<>>
    <3>1. given.lists = <<>>
      <4>1. given \in Manifests
        BY <1>1, FilesAssumption
      <4>2. Len(kcm.lists) = 0 /\ given.lists \in Seq(Seq(Entries))
        BY <2>2, <4>1, EmptySeq, AllType
      <4>3. given.lists # <<>> => Len(given.lists) = 0
        BY <4>2 DEF KcmInv, Shape
      <4> QED
        BY <4>2, <4>3, EmptySeq
    <3>2. CASE n.lists = <<>>
      BY <3>1, <3>2 DEF Shape
    <3>3. CASE n.lists = <<Asked>>
      <4>1. Len(n.lists) = 1 /\ n.lists[1] = Asked
        BY <3>3
      <4> QED
        BY <3>1, <4>1, AskedIs DEF Shape
    <3> QED
      BY <1>2, <2>2, <3>2, <3>3
  <2> QED
    BY <2>1, <2>2
<1> QED
  BY <1>1, <1>2, <1>3 DEF KcmInv, Shape, n

\* The pass that enables it again.
LEMMA KcmAfterEnable ==
    ASSUME KcmInv, EnableLifecycle
    PROVE  KcmInv'
<1>1. kcm' = Enable(kcm) /\ kcmMode' = "on" /\ given' = given /\ kcm \in Manifests /\ given \in Written
  BY DEF KcmInv, EnableLifecycle
<1> DEFINE n == Enable(kcm)
<1>2. /\ n \in Manifests /\ n.direct = kcm.direct /\ Len(n.lists) = Len(kcm.lists)
      /\ \A i \in 1..Len(kcm.lists) :
            /\ Alike(n.lists[i], kcm.lists[i])
            /\ Contains(n.lists[i], Switch) => n.lists[i] # <<>> /\ Head(n.lists[i]) = Switch
  BY <1>1, EnableIs
<1> HIDE DEF n
<1>3. Shape(n, given)
  BY <1>1, <1>2, AllType, ShapeKept DEF KcmInv
<1> QED
  BY <1>1, <1>2, <1>3 DEF KcmInv, Shape, n

\* The steps that leave a part of the state alone keep what is said of it.
LEMMA EnvKept == EnvInv /\ UNCHANGED <<unit, kubeletVars>> => EnvInv'
BY DEF EnvInv, kubeletVars, FormOf, First, Again

\* So does the part of the kube-controller-manager.
LEMMA KcmKept == KcmInv /\ UNCHANGED kcmVars => KcmInv'
BY DEF KcmInv, kcmVars

\* Every run, pass and edit keeps the invariant.
LEMMA NextInv == Inv /\ [Next]_vars => Inv'
<1> SUFFICES ASSUME Inv, [Next]_vars PROVE Inv'
  OBVIOUS
<1>1. EnvInv /\ HubInv /\ KcmInv
  BY DEF Inv
<1>2. ASSUME NEW type \in ConvertTypes, Convert(type) PROVE Inv'
  <2>1. PICK content \in Contents(spec, type, Upstream) :
          /\ \/ /\ HubWritten(content)
                /\ env' = Rewritten(env) /\ form' = NextForm(form)
                /\ envBackup' = Backup /\ mode' = "hub"
             \/ /\ HubWritten(content)
                /\ env' = Backup[1] /\ form' = FormOf(Backup[1])
                /\ envBackup' = Backup /\ mode' = "direct"
             \/ (HubWritten(content) \/ HubFails(content)) /\ UNCHANGED kubeletVars
          /\ UNCHANGED <<unit, spec, kcmVars>>
    BY <1>2 DEF Convert
  <2>2. unit' = unit /\ spec' = spec /\ KcmInv'
    BY <1>1, <2>1, KcmKept
  <2>3. HubInv'
    BY <1>1, <2>1, <2>2, HubAfterWrite, HubAfterFailure
  <2>4. PICK args \in EnvArgs : Backup = <<args>> /\ Backup[1] = args
    BY <1>1, BackupIs
  <2>5. EnvInv'
    <3>1. CASE env' = Rewritten(env) /\ form' = NextForm(form) /\ envBackup' = Backup /\ mode' = "hub"
      BY <1>1, <2>2, <3>1, EnvRewritten
    <3>2. CASE env' = Backup[1] /\ form' = FormOf(Backup[1]) /\ envBackup' = Backup /\ mode' = "direct"
      BY <1>1, <2>2, <2>4, <3>2, EnvBack
    <3>3. CASE UNCHANGED kubeletVars
      BY <1>1, <2>2, <3>3, EnvKept
    <3> QED
      BY <2>1, <3>1, <3>2, <3>3
  <2> QED
    BY <2>2, <2>3, <2>5 DEF Inv
<1>3. CASE Revert
  <2>1. unit' = unit /\ envBackup' = envBackup /\ mode' = "direct" /\ KcmInv'
    BY <1>1, <1>3, KcmKept DEF Revert
  <2>2. hub' = NoManifest /\ hubBackup' = hubBackup /\ hubSpec' = hubSpec /\ spec' = spec
    BY <1>3 DEF Revert
  <2>3. HubInv'
    <3>1. spec \in Specs
      BY <1>1 DEF HubInv
    <3> QED
      BY <1>1, <2>1, <2>2, <3>1, HubKept
  <2>4. EnvInv'
    <3>1. CASE envBackup = <<>>
      <4>1. env \in EnvArgs /\ form = FormOf(env)
        BY <1>1, <3>1 DEF EnvInv
      <4>2. env' = env /\ form' = FormOf(env)
        BY <1>3, <3>1, <4>1 DEF Revert
      <4> QED
        BY <1>1, <2>1, <4>1, <4>2, EnvBack
    <3>2. CASE envBackup # <<>>
      <4>1. PICK args \in EnvArgs : envBackup = <<args>>
        BY <1>1, <3>2 DEF EnvInv
      <4>2. env' = args /\ form' = FormOf(args)
        BY <1>3, <3>2, <4>1 DEF Revert
      <4> QED
        BY <1>1, <2>1, <4>2, EnvBack
    <3> QED
      BY <3>1, <3>2
  <2> QED
    BY <2>1, <2>3, <2>4 DEF Inv
<1>4. CASE DisableLifecycle \/ EnableLifecycle
  <2>1. UNCHANGED <<unit, kubeletVars, hubVars, spec>>
    BY <1>4 DEF DisableLifecycle, EnableLifecycle
  <2>2. EnvInv'
    BY <1>1, <2>1, EnvKept
  <2>3. HubInv'
    <3>1. spec \in Specs
      BY <1>1 DEF HubInv
    <3> QED
      BY <1>1, <2>1, <3>1, HubKept DEF hubVars
  <2>4. KcmInv'
    BY <1>1, <1>4, KcmAfterDisable, KcmAfterEnable
  <2> QED
    BY <2>2, <2>3, <2>4 DEF Inv
<1>5. ASSUME NEW args \in EnvArgs, EditEnv(args) PROVE Inv'
  <2>1. EnvInv'
    BY <1>1, <1>5, EnvBack DEF EditEnv
  <2>2. HubInv'
    <3>1. spec \in Specs
      BY <1>1 DEF HubInv
    <3> QED
      BY <1>1, <1>5, <3>1, HubKept DEF EditEnv, hubVars
  <2>3. KcmInv'
    BY <1>1, <1>5, KcmKept DEF EditEnv
  <2> QED
    BY <2>1, <2>2, <2>3 DEF Inv
<1>6. ASSUME NEW manifest \in Written, EditManifest(manifest) PROVE Inv'
  <2>1. kcm' = manifest /\ given' = manifest /\ kcmMode' = "given"
        /\ UNCHANGED <<unit, kubeletVars, hubVars, spec>>
    BY <1>6 DEF EditManifest
  <2>2. EnvInv'
    BY <1>1, <2>1, EnvKept
  <2>3. HubInv'
    <3>1. spec \in Specs
      BY <1>1 DEF HubInv
    <3> QED
      BY <1>1, <2>1, <3>1, HubKept DEF hubVars
  <2>4. KcmInv'
    <3>1. Shape(manifest, manifest) /\ manifest \in Manifests
      BY FilesAssumption DEF Shape, Alike
    <3> QED
      BY <2>1, <3>1 DEF KcmInv
  <2> QED
    BY <2>2, <2>3, <2>4 DEF Inv
<1>7. ASSUME NEW s \in Specs, EditSpec(s) PROVE Inv'
  <2>1. spec' \in Specs /\ UNCHANGED <<unit, kubeletVars, hubVars, kcmVars>>
    BY <1>7 DEF EditSpec
  <2>2. EnvInv' /\ KcmInv'
    BY <1>1, <2>1, EnvKept, KcmKept
  <2>3. HubInv'
    BY <1>1, <2>1, HubKept DEF hubVars
  <2> QED
    BY <2>2, <2>3 DEF Inv
<1>8. CASE UNCHANGED vars
  <2>1. UNCHANGED <<unit, kubeletVars, hubVars, spec, kcmVars>>
    BY <1>8 DEF vars
  <2>2. EnvInv' /\ KcmInv'
    BY <1>1, <2>1, EnvKept, KcmKept
  <2>3. HubInv'
    <3>1. spec \in Specs
      BY <1>1 DEF HubInv
    <3> QED
      BY <1>1, <2>1, <3>1, HubKept DEF hubVars
  <2> QED
    BY <2>2, <2>3 DEF Inv
<1> QED
  BY <1>2, <1>3, <1>4, <1>5, <1>6, <1>7, <1>8 DEF Next

\* It holds always.
LEMMA InvAlways == Spec => []Inv
BY InitInv, NextInv, PTL DEF Spec

-----------------------------------------------------------------------------
(* The theorems *)

\* It has the types in it.
LEMMA TypesFollow == Inv => TypeOK
<1> SUFFICES ASSUME Inv PROVE TypeOK
  OBVIOUS
<1>1. unit \in Seq(Args) /\ env \in Seq(Args)
  BY EnvIs DEF Inv
<1>2. hub \in Manifest \cup {NoManifest} /\ hubBackup \in Manifest \cup {NoManifest}
  BY DEF Inv, HubInv, Served
<1> QED
  BY <1>1, <1>2 DEF Inv, EnvInv, HubInv, KcmInv, TypeOK

\* Whatever runs, edits and passes there are, and in any order, the files of the
\* host are well-formed.
THEOREM TypeCorrect == Spec => []TypeOK
BY InvAlways, TypesFollow, PTL

\* After a convert the last --kubeconfig of the kubelet's command line is the one
\* of yurt-hub; after a failed one, a revert or an edit it is not.
THEOREM KubeletConnects == Spec => []KubeletConnectsAsMeant
<1>1. Inv => KubeletConnectsAsMeant
  <2> SUFFICES ASSUME Inv PROVE KubeletConnectsAsMeant
    OBVIOUS
  <2>1. /\ unit \in Seq(Args) /\ Own(unit) /\ env \in Seq(Args)
        /\ form \in {"none", "own"} => Own(env)
        /\ form \in {"first", "again"} => Hubbed(env) /\ HasKubeConfig(env)
    BY EnvIs DEF Inv
  <2>2. form \in {"first", "again"} => Connects(unit \o env) = "yurt"
    BY <2>1, HubbedConnects
  <2>3. form \in {"none", "own"} => Connects(unit \o env) # "yurt"
    BY <2>1, OwnConnects
  <2>4. mode \in {"direct", "hub", "edited"} /\ (mode = "hub" <=> form \in {"first", "again"})
        /\ form \in {"none", "own", "first", "again"}
    BY DEF Inv, EnvInv
  <2> QED
    BY <2>2, <2>3, <2>4 DEF KubeletConnectsAsMeant, Line
<1> QED
  BY <1>1, InvAlways, PTL

\* yurt-hub always has an upstream, which is not itself behind a unit with a
\* --kubeconfig.
THEOREM UpstreamIsAnother == Spec => []UpstreamIsNotItself
<1>1. Inv => UpstreamIsNotItself
  BY DEF Inv, HubInv, Served, UpstreamIsNotItself
<1> QED
  BY <1>1, InvAlways, PTL

\* The two forms of a rewritten file, of which the second stays, are what
\* NodeHost makes of them.
THEOREM FormsCorrect == Spec => []FormsAreRight
<1>1. Inv => FormsAreRight
  <2> SUFFICES ASSUME Inv PROVE FormsAreRight
    OBVIOUS
  <2>1. EnvInv /\ env \in Seq(Args)
    BY DEF Inv, EnvInv
  <2>2. form = "first" => Rewritten(env) # env /\ env[Len(env)] = Arg("kubeconfig", "yurt")
    BY <2>1, FirstMoves DEF EnvInv, First
  <2>3. form = "again" => Rewritten(env) = env
    BY <2>1, AgainStays DEF EnvInv
  <2>4. form \in {"none", "own"} <=> ~\E i \in DOMAIN env : env[i] = ToHub
    <3>1. DOMAIN env = 1..Len(env) /\ \A i \in 1..Len(env) : env[i] \in Args
      BY <2>1
    <3>2. ASSUME form \in {"none", "own"}, NEW i \in DOMAIN env, env[i] = ToHub
          PROVE  FALSE
      <4>1. Own(env)
        BY <2>1, <3>2, EnvIs
      <4> QED
        BY <3>1, <3>2, <4>1, ArgsAre DEF Own, OwnKubeConfigs
    <3>3. ASSUME form \in {"first", "again"}
          PROVE  \E i \in DOMAIN env : env[i] = ToHub
      <4>1. Hubbed(env) /\ HasKubeConfig(env)
        BY <2>1, <3>3, EnvIs
      <4>2. PICK i \in DOMAIN env : env[i].flag = "kubeconfig"
        BY <4>1 DEF HasKubeConfig
      <4>3. env[i] = ToHub
        BY <3>1, <4>1, <4>2, ArgsAre DEF Hubbed
      <4> QED
        BY <4>3
    <3> QED
      BY <2>1, <3>2, <3>3 DEF EnvInv
  <2> QED
    BY <2>2, <2>3, <2>4 DEF FormsAreRight, ToHub
<1> QED
  BY <1>1, InvAlways, PTL

\* The nodelifecycle controller is off after the pass that disables it and on
\* after the one that enables it, but for the manifests of which the property
\* says so.
THEOREM LifecycleIsSwitched == Spec => []LifecycleFollows
<1>1. Inv => LifecycleFollows
  <2> SUFFICES ASSUME Inv PROVE LifecycleFollows
    OBVIOUS
  <2>1. KcmInv /\ kcm \in Manifests
    BY DEF Inv, KcmInv
  <2>2. Runs(kcm, "nodelifecycle") = Verdict(All(kcm), "nodelifecycle")
    BY <2>1, RunsIs
  <2> DEFINE all == All(kcm)
  <2>3. all \in Seq(Entries) /\ kcm.lists \in Seq(Seq(Entries)) /\ DOMAIN kcm.lists = 1..Len(kcm.lists)
    BY <2>1, AllType DEF all
  <2>4. \A e \in Says(all, "nodelifecycle") :
          Contains(all, e) /\ e.name = "nodelifecycle" /\ e \in Entries
    BY <2>3 DEF Says, FirstOf, Contains
  <2>5. kcm.lists # <<>> =>
          \A e : Contains(all, e) <=> \E i \in 1..Len(kcm.lists) : Contains(kcm.lists[i], e)
    BY <2>3, FlattenContains DEF All
  <2> HIDE DEF all
  <2>6. ASSUME kcmMode = "off", kcm.direct, ~NamesIt(kcm)
        PROVE  ~Runs(kcm, "nodelifecycle")
    <3>1. kcm.lists # <<>> /\ Contains(kcm.lists[1], Switch)
      BY <2>1, <2>6 DEF KcmInv
    <3>2. 1 \in 1..Len(kcm.lists)
      BY <2>3, <3>1
    <3>3. Contains(all, Switch)
      BY <2>5, <3>1, <3>2
    <3>4. Says(all, "nodelifecycle") # {}
      <4>1. PICK i \in 1..Len(all) : all[i] = Switch
        BY <3>3 DEF Contains
      <4> QED
        BY <2>3, <4>1, SaysNothing, SwitchIs
    <3>5. ~Contains(all, On("nodelifecycle"))
      BY <2>3, <2>5, <2>6, <3>1 DEF NamesIt
    <3>6. ~Verdict(all, "nodelifecycle")
      BY <2>4, <3>4, <3>5 DEF Verdict
    <3> QED
      BY <2>2, <3>6 DEF all
  <2>7. ASSUME kcmMode = "on", ~BeginsOff(kcm),
               \E i \in DOMAIN kcm.lists : Contains(kcm.lists[i], On("*"))
        PROVE  Runs(kcm, "nodelifecycle")
    <3>1. \A i \in 1..Len(kcm.lists) : ~Contains(kcm.lists[i], Switch)
      BY <2>1, <2>3, <2>7 DEF KcmInv, BeginsOff, Switch
    <3>2. kcm.lists # <<>>
      <4>1. Len(kcm.lists) # 0
        BY <2>3, <2>7
      <4> QED
        BY <4>1, EmptySeq
    <3>3. ~Contains(all, Switch) /\ Contains(all, On("*"))
      BY <2>3, <2>5, <2>7, <3>1, <3>2
    <3>4. \A e \in Says(all, "nodelifecycle") : e = On("nodelifecycle")
      BY <2>4, <3>3, EntriesAre DEF Switch
    <3>5. Says(all, "nodelifecycle") = {} \/ On("nodelifecycle") \in Says(all, "nodelifecycle")
      BY <3>4
    <3>6. Verdict(all, "nodelifecycle")
      BY <3>3, <3>5 DEF Verdict, OffByDefault
    <3> QED
      BY <2>2, <3>6 DEF all
  <2> QED
    BY <2>6, <2>7 DEF LifecycleFollows
<1> QED
  BY <1>1, InvAlways, PTL

\* The passes of the agent, however many, switch no other controller, but for
\* the two that its own flag asks for.
THEOREM OthersKept == Spec => []OthersAreLeftAlone
<1>1. Inv => OthersAreLeftAlone
  <2> SUFFICES ASSUME Inv, NEW name \in Others
               PROVE  Runs(kcm, name) = Runs(given, name) \/ (given.lists = <<>> /\ name \in OffByDefault)
    BY DEF OthersAreLeftAlone, Others
  <2>1. kcm \in Manifests /\ given \in Manifests /\ Shape(kcm, given)
    BY FilesAssumption DEF Inv, KcmInv
  <2>2. Runs(kcm, name) = Verdict(All(kcm), name) /\ Runs(given, name) = Verdict(All(given), name)
    BY <2>1, RunsIs
  <2>3. kcm.lists \in Seq(Seq(Entries)) /\ given.lists \in Seq(Seq(Entries))
    BY <2>1, AllType
  <2>4. CASE given.lists # <<>>
    <3>1. /\ Len(kcm.lists) = Len(given.lists)
          /\ \A i \in 1..Len(given.lists) : Alike(kcm.lists[i], given.lists[i])
      BY <2>1, <2>4 DEF Shape
    <3>2. kcm.lists # <<>>
      <4>1. Len(given.lists) # 0 /\ Len(<<>>) = 0
        BY <2>3, <2>4, EmptySeq
      <4> QED
        BY <3>1, <4>1
    <3>3. All(kcm) = FlattenSeq(kcm.lists) /\ All(given) = FlattenSeq(given.lists)
      BY <2>4, <3>2 DEF All
    <3>4. Says(All(kcm), name) = Says(All(given), name)
      <4>1. \A i \in 1..Len(kcm.lists) : Says(kcm.lists[i], name) = Says(given.lists[i], name)
        BY <3>1 DEF Alike
      <4> QED
        BY <2>3, <3>1, <3>3, <4>1, SaysFlatten
    <3>5. Contains(All(kcm), On("*")) <=> Contains(All(given), On("*"))
      <4>1. \A i \in 1..Len(kcm.lists) : Contains(kcm.lists[i], On("*")) <=> Contains(given.lists[i], On("*"))
        BY <3>1 DEF Alike
      <4>2. Contains(All(kcm), On("*")) <=> \E i \in 1..Len(kcm.lists) : Contains(kcm.lists[i], On("*"))
        BY <2>3, <3>3, FlattenContains
      <4>3. Contains(All(given), On("*")) <=> \E i \in 1..Len(given.lists) : Contains(given.lists[i], On("*"))
        BY <2>3, <3>3, FlattenContains
      <4> QED
        BY <3>1, <4>1, <4>2, <4>3
    <3>6. Verdict(All(kcm), name) <=> Verdict(All(given), name)
      BY <3>4, <3>5 DEF Verdict
    <3>7. Verdict(All(kcm), name) = Verdict(All(given), name)
      BY <3>6 DEF Verdict
    <3> QED
      BY <2>2, <3>7
  <2>5. CASE given.lists = <<>> /\ name = "attach"
    <3>1. \A l \in Seq(Entries) :
             Says(l, name) = {} /\ Contains(l, On("*")) => Verdict(l, name) = TRUE
      BY <2>5 DEF Verdict, OffByDefault
    <3>2. <<On("*")>> \in Seq(Entries) /\ Says(<<On("*")>>, name) = {} /\ Contains(<<On("*")>>, On("*"))
      <4>1. <<On("*")>> \in Seq(Entries) /\ Len(<<On("*")>>) = 1 /\ <<On("*")>>[1] = On("*")
        BY EntriesAre
      <4>2. \A i \in 1..Len(<<On("*")>>) : <<On("*")>>[i].name # name
        BY <2>5, <4>1, EntriesAre
      <4>3. Contains(<<On("*")>>, On("*"))
        BY <4>1 DEF Contains
      <4> QED
        BY <4>1, <4>2, <4>3, SaysNothing
    <3>3. All(given) = <<On("*")>>
      BY <2>5 DEF All
    <3>4. All(kcm) \in Seq(Entries) /\ Says(All(kcm), name) = {} /\ Contains(All(kcm), On("*"))
      <4>1. CASE kcm.lists = <<>>
        BY <3>2, <4>1 DEF All
      <4>2. CASE kcm.lists # <<>>
        <5>1. Len(kcm.lists) = 1 /\ Says(kcm.lists[1], "attach") = {} /\ Contains(kcm.lists[1], On("*"))
          BY <2>1, <2>5, <4>2 DEF Shape
        <5> DEFINE list == kcm.lists[1]
        <5>2. list \in Seq(Entries) /\ kcm.lists = Append(<<>>, list)
          BY <2>3, <5>1
        <5> HIDE DEF list
        <5>3. FlattenSeq(kcm.lists) = <<>> \o list
          <6>1. <<>> \in Seq(Seq(Entries))
            OBVIOUS
          <6> QED
            BY <5>2, <6>1, FlattenAppend, FlattenEmpty
        <5>4. All(kcm) = list
          BY <4>2, <5>2, <5>3, ConcatEmptySeq DEF All
        <5> QED
          BY <2>5, <5>1, <5>2, <5>4 DEF list
      <4> QED
        BY <4>1, <4>2
    <3>5. Verdict(All(kcm), name) = TRUE /\ Verdict(All(given), name) = TRUE
      BY <3>1, <3>2, <3>3, <3>4
    <3> QED
      BY <2>2, <3>5
  <2>6. CASE given.lists = <<>> /\ name # "attach"
    BY <2>6 DEF Others, OffByDefault
  <2> QED
    BY <2>4, <2>5, <2>6
<1> QED
  BY <1>1, InvAlways, PTL

\* A run renders the same yurt-hub.yaml from the same spec for the same type of
\* node, however often: the proxy of a node restarts only for a reason.
THEOREM ReplacedOnlyForAReason == Spec => ReplacedForAReason
<1> DEFINE Reason ==
        HasKubeConfig(unit) /\ hub # NoManifest /\ hub' \notin {hub, NoManifest} =>
          \/ hub'.type # hub.type
          \/ hubSpec # spec
          \/ Ambiguous(spec.hub[hub.type].extraArgs)
<1>1. Inv /\ [Next]_vars => [Reason]_vars
  <2> SUFFICES ASSUME Inv, Next, HasKubeConfig(unit), hub # NoManifest, hub' \notin {hub, NoManifest},
                      hub'.type = hub.type, hubSpec = spec
               PROVE  Ambiguous(spec.hub[hub.type].extraArgs)
    OBVIOUS
  <2>1. PICK type \in ConvertTypes : Convert(type)
    BY DEF Next, Revert, DisableLifecycle, EnableLifecycle, EditEnv, EditManifest, EditSpec, hubVars
  <2>2. PICK content \in Contents(spec, type, Upstream) : hub' = content
    <3>1. \A c : HubFails(c) => hub' = hub
      BY DEF HubFails
    <3> QED
      BY <2>1, <3>1 DEF Convert, HubWritten
  <2>3. EnvInv /\ spec \in Specs /\ spec # Unknown
    BY ManifestsDiffer DEF Inv, HubInv
  <2>4. content.type = type /\ content \in Contents(spec, type, "apiserver")
    BY <2>2, <2>3, RenderedServes
  <2>5. hub \in Contents(spec, hub.type, "apiserver")
    BY <2>3 DEF Inv, HubInv
  <2>6. hub.type = type
    BY <2>2, <2>4
  <2>7. "apiserver" \in Texts
    BY DEF Texts
  <2> QED
    BY <2>2, <2>3, <2>4, <2>5, <2>6, <2>7, ContentsOne
<1> QED
  BY <1>1, InvAlways, PTL DEF Spec, ReplacedForAReason
=============================================================================
