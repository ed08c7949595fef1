------------------------ MODULE ManagedObjectsProofs ------------------------
(* Theorems about ManagedObjects and their proofs. *)
EXTENDS ManagedObjects, SequenceTheorems, TLAPS

-----------------------------------------------------------------------------
(* Invariants *)

Bases == {"serverAccount", "serverRole", "serverBinding", "serverCfg"}

\* Copies are as old as they are taken, deletion is for good, and nothing is from
\* a generation that the manager has not seen.
CopyInv ==
    /\ mgr.step >= 1
    /\ 1 <= mgr.copy.gen /\ mgr.copy.gen <= cached.gen /\ cached.gen <= yc.gen
    /\ mgr.copy.obs <= mgr.copy.gen /\ cached.obs <= cached.gen /\ yc.obs <= yc.gen
    /\ (mgr.copy.deleting => cached.deleting) /\ (cached.deleting => yc.deleting)
    /\ mgr.copy.gen = yc.gen => mgr.copy.deleting = yc.deleting
    /\ cached.gen = yc.gen => cached.deleting = yc.deleting
    /\ \A o \in Objects :
          store[o].gen <= mgr.copy.gen /\ (store[o].skip => store[o].gen # 0)

Applied(o) == o \in excused \/ Stays(o) \/ store[o].gen = mgr.copy.gen
Removed(o) == o \in excused \/ Stays(o) \/ ~Exists(o)
Done(call) ==
    (call.do = "apply" => Applied(call.obj)) /\ (call.do = "delete" => Removed(call.obj))

\* The pass has met neither an error nor a panic.
Clear == ~mgr.err /\ (mgr.copy.deleting \/ NoNil(mgr.copy.spec))

\* The calls of the part a pass is in have been done up to here, and those of
\* all parts if there was no error.
PassInv ==
    mgr.busy =>
        \A i \in 1..Last :
            i < mgr.step /\ (Clear \/ (mgr.step <= Last /\ Plan[i].part = Now.part)) => Done(Plan[i])

\* Nothing is left that a deletion removes.
Clean == \A o \in Objects \ Kept : Removed(o)

\* A copy that shows its own deletion as observed.
Seen(copy) == copy.deleting /\ copy.obs = copy.gen

\* Once a deletion is observed it is done, and all that follows are deletions.
CleanInv ==
    yc.state = "gone" \/ Seen(yc) \/ Seen(cached) \/ Seen(mgr.copy) =>
        mgr.copy.deleting /\ Clean

-----------------------------------------------------------------------------
(* Sequences of calls *)

CallsOf(calls) == {calls[i] : i \in 1..Len(calls)}

\* The parts come one after another, from part lo to part hi.
Rank(call) == IF call.part = "trans" THEN 1 ELSE IF call.part = "hub" THEN 2 ELSE 3
Ranked(calls, lo, hi) ==
    /\ calls \in Seq(Calls)
    /\ \A i \in 1..Len(calls) : lo <= Rank(calls[i]) /\ Rank(calls[i]) <= hi
    /\ \A i, j \in 1..Len(calls) : i <= j => Rank(calls[i]) <= Rank(calls[j])

\* The calls for the bases come before those for the workloads.
IsWorkload(call) == call.do = "apply" /\ call.obj \in {"serverDaemon", "serverDeploy"}
BaseCalls == {[do |-> "apply", obj |-> o, part |-> "tunnel"] : o \in Bases}
BasesFirst(calls) ==
    \A i \in 1..Len(calls), b \in BaseCalls :
        IsWorkload(calls[i]) => \E j \in 1..i-1 : calls[j] = b

LEMMA CallsConcat ==
    ASSUME NEW a \in Seq(Calls), NEW b \in Seq(Calls)
    PROVE  CallsOf(a \o b) = CallsOf(a) \cup CallsOf(b)
<1>1. /\ Len(a) \in Nat /\ Len(b) \in Nat /\ Len(a \o b) = Len(a) + Len(b)
      /\ \A i \in 1..Len(a) + Len(b) : (a \o b)[i] = IF i <= Len(a) THEN a[i] ELSE b[i - Len(a)]
  BY ConcatProperties, LenProperties
<1>2. ASSUME NEW c \in CallsOf(a \o b) PROVE c \in CallsOf(a) \cup CallsOf(b)
  <2>1. PICK i \in 1..Len(a) + Len(b) : c = (a \o b)[i]
    BY <1>1 DEF CallsOf
  <2>2. CASE i <= Len(a)
    BY <1>1, <2>1, <2>2 DEF CallsOf
  <2>3. CASE i > Len(a)
    <3>1. i - Len(a) \in 1..Len(b) /\ c = b[i - Len(a)]
      BY <1>1, <2>1, <2>3
    <3> QED BY <3>1 DEF CallsOf
  <2> QED BY <1>1, <2>2, <2>3
<1>3. ASSUME NEW c \in CallsOf(a) PROVE c \in CallsOf(a \o b)
  <2>1. PICK i \in 1..Len(a) : c = a[i]
    BY DEF CallsOf
  <2>2. i \in 1..Len(a \o b) /\ (a \o b)[i] = c
    BY <1>1, <2>1
  <2> QED BY <2>2 DEF CallsOf
<1>4. ASSUME NEW c \in CallsOf(b) PROVE c \in CallsOf(a \o b)
  <2>1. PICK i \in 1..Len(b) : c = b[i]
    BY DEF CallsOf
  <2>2. Len(a) + i \in 1..Len(a \o b) /\ (a \o b)[Len(a) + i] = b[i]
    BY <1>1, <2>1
  <2> QED BY <2>1, <2>2 DEF CallsOf
<1> QED BY <1>2, <1>3, <1>4

LEMMA RankedConcat ==
    ASSUME NEW a, NEW b, NEW lo \in Int, NEW m \in Int, NEW n \in Int, NEW hi \in Int,
           lo <= m, m <= n, n <= hi, Ranked(a, lo, m), Ranked(b, n, hi)
    PROVE  Ranked(a \o b, lo, hi)
<1>1. a \in Seq(Calls) /\ b \in Seq(Calls)
  BY DEF Ranked
<1>2. /\ a \o b \in Seq(Calls)
      /\ Len(a) \in Nat /\ Len(b) \in Nat /\ Len(a \o b) = Len(a) + Len(b)
      /\ \A i \in 1..Len(a) + Len(b) : (a \o b)[i] = IF i <= Len(a) THEN a[i] ELSE b[i - Len(a)]
  BY <1>1, ConcatProperties, LenProperties
<1>3. \A c : Rank(c) \in 1..3
  BY DEF Rank
<1>4. \A i \in 1..Len(a) : lo <= Rank(a[i]) /\ Rank(a[i]) <= m
  BY DEF Ranked
<1>5. \A i \in 1..Len(b) : n <= Rank(b[i]) /\ Rank(b[i]) <= hi
  BY DEF Ranked
<1>6. ASSUME NEW i \in 1..Len(a \o b)
      PROVE  lo <= Rank((a \o b)[i]) /\ Rank((a \o b)[i]) <= hi
  <2>1. CASE i <= Len(a)
    BY <1>2, <1>3, <1>4, <2>1
  <2>2. CASE i > Len(a)
    <3>1. i - Len(a) \in 1..Len(b) /\ (a \o b)[i] = b[i - Len(a)]
      BY <1>2, <2>2
    <3> QED BY <1>3, <1>5, <3>1
  <2> QED BY <1>2, <2>1, <2>2
<1>7. ASSUME NEW i \in 1..Len(a \o b), NEW j \in 1..Len(a \o b), i <= j
      PROVE  Rank((a \o b)[i]) <= Rank((a \o b)[j])
  <2>1. CASE j <= Len(a)
    BY <1>2, <1>7, <2>1 DEF Ranked
  <2>2. CASE i > Len(a)
    <3>1. /\ i - Len(a) \in 1..Len(b) /\ (a \o b)[i] = b[i - Len(a)]
          /\ j - Len(a) \in 1..Len(b) /\ (a \o b)[j] = b[j - Len(a)]
          /\ i - Len(a) <= j - Len(a)
      BY <1>2, <1>7, <2>2
    <3> QED BY <3>1 DEF Ranked
  <2>3. CASE i <= Len(a) /\ j > Len(a)
    <3>1. i \in 1..Len(a) /\ (a \o b)[i] = a[i]
      BY <1>2, <2>3
    <3>2. j - Len(a) \in 1..Len(b) /\ (a \o b)[j] = b[j - Len(a)]
      BY <1>2, <2>3
    <3> QED BY <1>3, <1>4, <1>5, <3>1, <3>2
  <2> QED BY <1>2, <2>1, <2>2, <2>3
<1> QED BY <1>2, <1>6, <1>7 DEF Ranked

LEMMA BasesConcat ==
    ASSUME NEW a \in Seq(Calls), NEW b \in Seq(Calls), BasesFirst(a),
           BaseCalls \subseteq CallsOf(a) \/ BasesFirst(b)
    PROVE  BasesFirst(a \o b)
<1>1. /\ Len(a) \in Nat /\ Len(b) \in Nat /\ Len(a \o b) = Len(a) + Len(b)
      /\ \A i \in 1..Len(a) + Len(b) : (a \o b)[i] = IF i <= Len(a) THEN a[i] ELSE b[i - Len(a)]
  BY ConcatProperties, LenProperties
<1> SUFFICES ASSUME NEW i \in 1..Len(a \o b), NEW base \in BaseCalls, IsWorkload((a \o b)[i])
             PROVE  \E j \in 1..i-1 : (a \o b)[j] = base
  BY DEF BasesFirst
<1>2. CASE i <= Len(a)
  <2>1. i \in 1..Len(a) /\ (a \o b)[i] = a[i]
    BY <1>1, <1>2
  <2>2. PICK j \in 1..i-1 : a[j] = base
    BY <2>1 DEF BasesFirst
  <2>3. (a \o b)[j] = a[j]
    BY <1>1, <1>2, <2>2
  <2> QED BY <2>2, <2>3
<1>3. CASE i > Len(a)
  <2>1. i - Len(a) \in 1..Len(b) /\ (a \o b)[i] = b[i - Len(a)]
    BY <1>1, <1>3
  <2>2. CASE BaseCalls \subseteq CallsOf(a)
    <3>1. PICK j \in 1..Len(a) : a[j] = base
      BY <2>2 DEF CallsOf
    <3>2. j \in 1..i-1 /\ (a \o b)[j] = a[j]
      BY <1>1, <1>3, <3>1
    <3> QED BY <3>1, <3>2
  <2>3. CASE BasesFirst(b)
    <3>1. PICK j \in 1..(i - Len(a)) - 1 : b[j] = base
      BY <2>1, <2>3 DEF BasesFirst
    <3>2. Len(a) + j \in 1..i-1 /\ (a \o b)[Len(a) + j] = b[j]
      BY <1>1, <1>3, <2>1, <3>1
    <3> QED BY <3>1, <3>2
  <2> QED BY <2>2, <2>3
<1> QED BY <1>1, <1>2, <1>3

-----------------------------------------------------------------------------
(* The calls of a plan *)

CallOf(do, obj, part) == [do |-> do, obj |-> obj, part |-> part]
Dos == {"apply", "delete", "load", "count", "panic"}
Parts == {"trans", "hub", "tunnel"}
RankOf(part) == IF part = "trans" THEN 1 ELSE IF part = "hub" THEN 2 ELSE 3

\* A piece of a plan: its calls, all of one part.
Piece(calls, set, part) ==
    calls \in Seq(Calls) /\ CallsOf(calls) = set /\ Ranked(calls, RankOf(part), RankOf(part))

LEMMA PieceRanked ==
    ASSUME NEW part \in Parts, NEW calls \in Seq(Calls),
           \A i \in 1..Len(calls) : calls[i].part = part
    PROVE  Ranked(calls, RankOf(part), RankOf(part))
<1>1. \A i \in 1..Len(calls) : Rank(calls[i]) = RankOf(part)
  BY DEF Rank, RankOf
<1>2. RankOf(part) \in 1..3
  BY DEF RankOf
<1> QED BY <1>1, <1>2 DEF Ranked

LEMMA NoPiece ==
    ASSUME NEW part \in Parts
    PROVE  Piece(<<>>, {}, part)
<1>1. <<>> \in Seq(Calls) /\ Len(<<>>) = 0
  BY EmptySeq
<1>2. CallsOf(<<>>) = {}
  BY <1>1 DEF CallsOf
<1>3. \A i \in 1..Len(<<>>) : <<>>[i].part = part
  BY <1>1
<1> QED BY <1>1, <1>2, <1>3, PieceRanked DEF Piece

LEMMA CallPiece ==
    ASSUME NEW do \in Dos, NEW obj \in Objects, NEW part \in Parts
    PROVE  Piece(Call(do, obj, part), {CallOf(do, obj, part)}, part)
<1> DEFINE call == CallOf(do, obj, part)
<1>1. call \in Calls /\ call.part = part
  BY DEF CallOf, Calls, Dos, Parts
<1>2. Call(do, obj, part) = <<call>>
  BY DEF Call, CallOf
<1> HIDE DEF call
<1>3. <<call>> \in Seq(Calls) /\ Len(<<call>>) = 1 /\ <<call>>[1] = call
  BY <1>1
<1>4. CallsOf(<<call>>) = {call}
  BY <1>3 DEF CallsOf
<1>5. \A i \in 1..Len(<<call>>) : <<call>>[i].part = part
  BY <1>1, <1>3
<1>6. Piece(<<call>>, {call}, part)
  BY <1>3, <1>4, <1>5, PieceRanked DEF Piece
<1> QED BY <1>2, <1>6 DEF call

LEMMA EachPiece ==
    ASSUME NEW do \in Dos, NEW objs \in Seq(Objects), NEW part \in Parts
    PROVE  Piece(Each(do, objs, part), {CallOf(do, o, part) : o \in ToSet(objs)}, part)
<1> DEFINE each == Each(do, objs, part)
<1>1. Len(objs) \in Nat /\ DOMAIN objs = 1..Len(objs) /\ \A i \in 1..Len(objs) : objs[i] \in Objects
  BY LenProperties, ElementOfSeq
<1>2. each = [i \in 1..Len(objs) |-> CallOf(do, objs[i], part)]
  BY <1>1 DEF Each, CallOf
<1>3. \A o \in Objects : CallOf(do, o, part) \in Calls /\ CallOf(do, o, part).part = part
  BY DEF CallOf, Calls, Dos, Parts
<1>4. each \in [1..Len(objs) -> Calls]
  BY <1>1, <1>2, <1>3
<1>5. each \in Seq(Calls)
  BY <1>1, <1>4, SeqDef
<1> HIDE DEF each
<1>6. Len(each) = Len(objs)
  <2>1. DOMAIN each = 1..Len(objs) /\ DOMAIN each = 1..Len(each) /\ Len(each) \in Nat
    BY <1>4, <1>5, LenProperties
  <2> QED BY <1>1, <2>1
<1>7. CallsOf(each) = {CallOf(do, o, part) : o \in ToSet(objs)}
  <2>1. CallsOf(each) = {CallOf(do, objs[i], part) : i \in 1..Len(objs)}
    BY <1>1, <1>2, <1>6 DEF CallsOf
  <2> QED BY <1>1, <2>1 DEF ToSet
<1>8. \A i \in 1..Len(each) : each[i].part = part
  BY <1>1, <1>2, <1>3, <1>6
<1>9. Piece(each, {CallOf(do, o, part) : o \in ToSet(objs)}, part)
  BY <1>5, <1>7, <1>8, PieceRanked DEF Piece
<1> QED BY <1>9 DEF each

LEMMA PieceConcat ==
    ASSUME NEW part \in Parts, NEW a, NEW b, NEW A, NEW B, Piece(a, A, part), Piece(b, B, part)
    PROVE  Piece(a \o b, A \cup B, part)
<1>1. RankOf(part) \in Int
  BY DEF RankOf
<1>2. a \o b \in Seq(Calls) /\ CallsOf(a \o b) = A \cup B
  BY ConcatProperties, CallsConcat DEF Piece
<1>3. Ranked(a \o b, RankOf(part), RankOf(part))
  BY <1>1, RankedConcat DEF Piece
<1> QED BY <1>2, <1>3 DEF Piece

\* The lists of objects.
LEMMA Lists ==
    /\ HubObjects \in Seq(Objects) /\ ToSet(HubObjects) = {"hubCfg", "hubRole", "hubBinding"}
    /\ ServerObjects \in Seq(Objects)
    /\ ToSet(ServerObjects) = Bases \cup {"serverSvc", "internalSvc"}
    /\ Workloads \in Seq(Objects) /\ ToSet(Workloads) = {"serverDaemon", "serverDeploy"}
    /\ ServerDeletes \in Seq(Objects)
    /\ ToSet(ServerDeletes) = {"serverDaemon", "serverDeploy", "serverSvc", "internalSvc", "nodePortSvc"}
<1>1. ToSet(HubObjects) = {"hubCfg", "hubRole", "hubBinding"}
  BY DEF ToSet, HubObjects
<1>2. ToSet(ServerObjects) = Bases \cup {"serverSvc", "internalSvc"}
  BY DEF ToSet, ServerObjects, Bases
<1>3. ToSet(Workloads) = {"serverDaemon", "serverDeploy"}
  BY DEF ToSet, Workloads
<1>4. ToSet(ServerDeletes) = {"serverDaemon", "serverDeploy", "serverSvc", "internalSvc", "nodePortSvc"}
  BY DEF ToSet, ServerDeletes
<1>5. HubObjects \in Seq(Objects)
  BY <1>1 DEF Objects, HubObjects
<1>6. ServerObjects \in Seq(Objects)
  BY <1>2 DEF Objects, ServerObjects, Bases
<1>7. Workloads \in Seq(Objects)
  BY <1>3 DEF Objects, Workloads
<1>8. ServerDeletes \in Seq(Objects)
  BY <1>2, <1>3 DEF Objects, ServerDeletes
<1> QED BY <1>1, <1>2, <1>3, <1>4, <1>5, <1>6, <1>7, <1>8

-----------------------------------------------------------------------------
(* The plans *)

All(do, objs) == {CallOf(do, o, "tunnel") : o \in objs}
Services == {"serverSvc", "internalSvc"}
Daemons == {"serverDaemon", "serverDeploy"}

\* The calls for a server that is on, before and with its workloads.
ServerBasis(spec) ==
    {CallOf("count", "tunnelTpl", "tunnel")}
    \cup All(IF spec.public THEN "apply" ELSE "delete", {"nodePortSvc"})
    \cup All("apply", Bases \cup Services)

ServerSet(spec) ==
    CASE spec.server = "nil" -> {CallOf("panic", "tunnelTpl", "tunnel")}
      [] spec.server = "off" -> All("delete", Services \cup Daemons \cup {"nodePortSvc"})
      [] spec.server = "on" -> ServerBasis(spec) \cup All("apply", Daemons)

AgentSet(spec) ==
    {CallOf(CASE spec.agent = "nil" -> "panic"
              [] spec.agent = "off" -> "delete"
              [] spec.agent = "on" -> "apply", "agentDaemon", "tunnel")}

LEMMA NoWorkloads ==
    ASSUME NEW calls, \A c \in CallsOf(calls) : ~IsWorkload(c)
    PROVE  BasesFirst(calls)
BY DEF CallsOf, BasesFirst

LEMMA ServerBasisPiece ==
    ASSUME NEW spec \in SpecRecords
    PROVE  Piece(Call("count", "tunnelTpl", "tunnel")
                 \o (IF spec.public THEN <<>> ELSE Call("delete", "nodePortSvc", "tunnel"))
                 \o Each("apply", ServerObjects, "tunnel")
                 \o (IF spec.public THEN Call("apply", "nodePortSvc", "tunnel") ELSE <<>>),
                 ServerBasis(spec), "tunnel")
<1> DEFINE a == Call("count", "tunnelTpl", "tunnel")
           b == IF spec.public THEN <<>> ELSE Call("delete", "nodePortSvc", "tunnel")
           c == Each("apply", ServerObjects, "tunnel")
           d == IF spec.public THEN Call("apply", "nodePortSvc", "tunnel") ELSE <<>>
           A == {CallOf("count", "tunnelTpl", "tunnel")}
           B == IF spec.public THEN {} ELSE {CallOf("delete", "nodePortSvc", "tunnel")}
           C == All("apply", Bases \cup Services)
           D == IF spec.public THEN {CallOf("apply", "nodePortSvc", "tunnel")} ELSE {}
<1>0. "tunnel" \in Parts /\ {"count", "delete", "apply"} \subseteq Dos
      /\ {"tunnelTpl", "nodePortSvc"} \subseteq Objects
  BY DEF Parts, Dos, Objects, Templates
<1>1. Piece(a, A, "tunnel")
  BY <1>0, CallPiece
<1>2. Piece(b, B, "tunnel")
  BY <1>0, CallPiece, NoPiece
<1>3. Piece(c, C, "tunnel")
  BY <1>0, EachPiece, Lists DEF All, Services
<1>4. Piece(d, D, "tunnel")
  BY <1>0, CallPiece, NoPiece
<1> HIDE DEF a, b, c, d
<1>5. Piece(a \o b, A \cup B, "tunnel")
  BY <1>0, <1>1, <1>2, PieceConcat
<1>6. Piece(a \o b \o c, A \cup B \cup C, "tunnel")
  BY <1>0, <1>3, <1>5, PieceConcat
<1>7. Piece(a \o b \o c \o d, A \cup B \cup C \cup D, "tunnel")
  BY <1>0, <1>4, <1>6, PieceConcat
<1>8. A \cup B \cup C \cup D = ServerBasis(spec)
  BY DEF ServerBasis, All
<1> QED BY <1>7, <1>8 DEF a, b, c, d

LEMMA ServerPiece ==
    ASSUME NEW spec \in SpecRecords
    PROVE  Piece(ServerCalls(spec), ServerSet(spec), "tunnel") /\ BasesFirst(ServerCalls(spec))
<1>0. "tunnel" \in Parts /\ {"panic", "count", "delete", "apply"} \subseteq Dos
      /\ "tunnelTpl" \in Objects /\ spec.server \in {"on", "off", "nil"}
  BY DEF Parts, Dos, Objects, Templates, SpecRecords, Flags
<1>1. CASE spec.server = "nil"
  <2>1. ServerCalls(spec) = Call("panic", "tunnelTpl", "tunnel")
    BY <1>1 DEF ServerCalls
  <2>2. ServerSet(spec) = {CallOf("panic", "tunnelTpl", "tunnel")}
    BY <1>1 DEF ServerSet
  <2>3. Piece(ServerCalls(spec), ServerSet(spec), "tunnel")
    BY <1>0, <2>1, <2>2, CallPiece
  <2> QED BY <2>2, <2>3, NoWorkloads DEF Piece, CallOf, IsWorkload
<1>2. CASE spec.server = "off"
  <2>1. ServerCalls(spec) = Each("delete", ServerDeletes, "tunnel")
    BY <1>2 DEF ServerCalls
  <2>2. ServerSet(spec) = {CallOf("delete", o, "tunnel") : o \in ToSet(ServerDeletes)}
    BY <1>2, Lists DEF ServerSet, All, Services, Daemons
  <2>3. Piece(ServerCalls(spec), ServerSet(spec), "tunnel")
    <3>1. Piece(Each("delete", ServerDeletes, "tunnel"),
                {CallOf("delete", o, "tunnel") : o \in ToSet(ServerDeletes)}, "tunnel")
      BY <1>0, EachPiece, Lists
    <3> QED BY <2>1, <2>2, <3>1, Zenon
  <2> QED BY <2>2, <2>3, NoWorkloads DEF Piece, CallOf, IsWorkload
<1>3. CASE spec.server = "on"
  <2> DEFINE basis == Call("count", "tunnelTpl", "tunnel")
                      \o (IF spec.public THEN <<>> ELSE Call("delete", "nodePortSvc", "tunnel"))
                      \o Each("apply", ServerObjects, "tunnel")
                      \o (IF spec.public THEN Call("apply", "nodePortSvc", "tunnel") ELSE <<>>)
             work == Each("apply", Workloads, "tunnel")
  <2>1. ServerCalls(spec) = basis \o work
    BY <1>3 DEF ServerCalls
  <2>2. Piece(basis, ServerBasis(spec), "tunnel")
    BY ServerBasisPiece
  <2>3. Piece(work, All("apply", Daemons), "tunnel")
    BY <1>0, EachPiece, Lists DEF All, Daemons
  <2> HIDE DEF basis, work
  <2>4. Piece(basis \o work, ServerBasis(spec) \cup All("apply", Daemons), "tunnel")
    BY <1>0, <2>2, <2>3, PieceConcat
  <2>5. ServerSet(spec) = ServerBasis(spec) \cup All("apply", Daemons)
    BY <1>3 DEF ServerSet
  <2>6. BasesFirst(basis)
    <3>1. \A c \in ServerBasis(spec) : ~IsWorkload(c)
      BY DEF ServerBasis, All, CallOf, IsWorkload, Bases, Services
    <3> QED BY <2>2, <3>1, NoWorkloads DEF Piece
  <2>7. BaseCalls \subseteq CallsOf(basis)
    <3>1. BaseCalls \subseteq ServerBasis(spec)
      BY DEF ServerBasis, All, CallOf, BaseCalls
    <3> QED BY <2>2, <3>1 DEF Piece
  <2>8. BasesFirst(basis \o work)
    BY <2>2, <2>3, <2>6, <2>7, BasesConcat DEF Piece
  <2> QED BY <2>1, <2>4, <2>5, <2>8
<1> QED BY <1>0, <1>1, <1>2, <1>3

LEMMA AgentPiece ==
    ASSUME NEW spec \in SpecRecords
    PROVE  Piece(AgentCalls(spec), AgentSet(spec), "tunnel")
<1> DEFINE do == CASE spec.agent = "nil" -> "panic"
                   [] spec.agent = "off" -> "delete"
                   [] spec.agent = "on" -> "apply"
<1>1. do \in Dos
  <2>1. spec.agent \in {"on", "off", "nil"}
    BY DEF SpecRecords, Flags
  <2> QED BY <2>1 DEF Dos
<1>2. "tunnel" \in Parts /\ "agentDaemon" \in Objects
  BY DEF Parts, Objects
<1>3. AgentCalls(spec) = Call(do, "agentDaemon", "tunnel") /\ AgentSet(spec) = {CallOf(do, "agentDaemon", "tunnel")}
  BY DEF AgentCalls, AgentSet
<1> HIDE DEF do
<1> QED BY <1>1, <1>2, <1>3, CallPiece

\* The beginning of a plan: its calls, and the part it has come to.
Prefix(calls, set, hi) ==
    calls \in Seq(Calls) /\ CallsOf(calls) = set /\ Ranked(calls, 1, hi) /\ BasesFirst(calls)

LEMMA PrefixConcat ==
    ASSUME NEW part \in Parts, NEW m \in 1..RankOf(part), NEW a, NEW b, NEW A, NEW B,
           Prefix(a, A, m), Piece(b, B, part), BasesFirst(b)
    PROVE  Prefix(a \o b, A \cup B, RankOf(part))
<1>1. RankOf(part) \in 1..3
  BY DEF RankOf
<1>2. a \o b \in Seq(Calls) /\ CallsOf(a \o b) = A \cup B
  BY ConcatProperties, CallsConcat DEF Piece, Prefix
<1>3. Ranked(a \o b, 1, RankOf(part))
  BY <1>1, RankedConcat DEF Piece, Prefix
<1>4. BasesFirst(a \o b)
  BY BasesConcat DEF Piece, Prefix
<1> QED BY <1>2, <1>3, <1>4 DEF Prefix

\* A piece without workloads.
LEMMA PlainConcat ==
    ASSUME NEW part \in Parts, NEW m \in 1..RankOf(part), NEW a, NEW b, NEW A, NEW B,
           Prefix(a, A, m), Piece(b, B, part), \A c \in B : ~IsWorkload(c)
    PROVE  Prefix(a \o b, A \cup B, RankOf(part))
BY NoWorkloads, PrefixConcat DEF Piece

LEMMA Ranks == RankOf("trans") = 1 /\ RankOf("hub") = 2 /\ RankOf("tunnel") = 3 /\ Parts = {"trans", "hub", "tunnel"}
BY DEF RankOf, Parts

ApplySet(spec) ==
    {CallOf("apply", "transTpl", "trans"), CallOf("apply", "hubTpl", "hub"),
     CallOf("load", "hubTpl", "hub")}
    \cup {CallOf("apply", o, "hub") : o \in {"hubCfg", "hubRole", "hubBinding"}}
    \cup {CallOf("apply", "tunnelTpl", "tunnel"), CallOf("load", "tunnelTpl", "tunnel")}
    \cup ServerSet(spec) \cup AgentSet(spec)

DeleteSet ==
    {CallOf("load", "hubTpl", "hub")}
    \cup {CallOf("delete", o, "hub") : o \in {"hubCfg", "hubRole", "hubBinding"}}
    \cup {CallOf("load", "tunnelTpl", "tunnel")}
    \cup All("delete", Services \cup Daemons \cup {"nodePortSvc"})
    \cup {CallOf("delete", "agentDaemon", "tunnel")}

LEMMA ApplyPlanIs ==
    ASSUME NEW spec \in SpecRecords
    PROVE  Prefix(ApplyPlan(spec), ApplySet(spec), 3)
<1>0. /\ {"apply", "load"} \subseteq Dos /\ {"transTpl", "hubTpl", "tunnelTpl"} \subseteq Objects
      /\ 1 \in 1..1 /\ 1 \in 1..2 /\ 2 \in 1..2 /\ 2 \in 1..3 /\ 3 \in 1..3
  BY DEF Dos, Objects, Templates
<1> DEFINE a == Call("apply", "transTpl", "trans")
           b == Call("apply", "hubTpl", "hub")
           c == Call("load", "hubTpl", "hub")
           d == Each("apply", HubObjects, "hub")
           e == Call("apply", "tunnelTpl", "tunnel")
           f == Call("load", "tunnelTpl", "tunnel")
           g == ServerCalls(spec)
           h == AgentCalls(spec)
           A == {CallOf("apply", "transTpl", "trans")}
           B == {CallOf("apply", "hubTpl", "hub")}
           C == {CallOf("load", "hubTpl", "hub")}
           D == {CallOf("apply", o, "hub") : o \in {"hubCfg", "hubRole", "hubBinding"}}
           E == {CallOf("apply", "tunnelTpl", "tunnel")}
           F == {CallOf("load", "tunnelTpl", "tunnel")}
           G == ServerSet(spec)
           H == AgentSet(spec)
<1>1. Piece(a, A, "trans") /\ Piece(b, B, "hub") /\ Piece(c, C, "hub")
      /\ Piece(e, E, "tunnel") /\ Piece(f, F, "tunnel")
  BY <1>0, CallPiece, Ranks
<1>2. Piece(d, D, "hub")
  BY <1>0, EachPiece, Lists, Ranks
<1>3. Piece(g, G, "tunnel") /\ BasesFirst(g) /\ Piece(h, H, "tunnel")
  BY ServerPiece, AgentPiece
<1>4. \A x \in A \cup B \cup C \cup D \cup E \cup F \cup H : ~IsWorkload(x)
  BY DEF CallOf, IsWorkload, AgentSet
<1> HIDE DEF a, b, c, d, e, f, g, h, A, B, C, D, E, F, G, H
<1>5. Prefix(a, A, 1)
  BY <1>1, <1>4, NoWorkloads, Ranks DEF Piece, Prefix
<1>6. Prefix(a \o b, A \cup B, 2)
  BY <1>0, <1>1, <1>4, <1>5, PlainConcat, Ranks
<1>7. Prefix(a \o b \o c, A \cup B \cup C, 2)
  BY <1>0, <1>1, <1>4, <1>6, PlainConcat, Ranks
<1>8. Prefix(a \o b \o c \o d, A \cup B \cup C \cup D, 2)
  BY <1>0, <1>2, <1>4, <1>7, PlainConcat, Ranks
<1>9. Prefix(a \o b \o c \o d \o e, A \cup B \cup C \cup D \cup E, 3)
  BY <1>0, <1>1, <1>4, <1>8, PlainConcat, Ranks
<1>10. Prefix(a \o b \o c \o d \o e \o f, A \cup B \cup C \cup D \cup E \cup F, 3)
  BY <1>0, <1>1, <1>4, <1>9, PlainConcat, Ranks
<1>11. Prefix(a \o b \o c \o d \o e \o f \o g, A \cup B \cup C \cup D \cup E \cup F \cup G, 3)
  BY <1>0, <1>3, <1>10, PrefixConcat, Ranks
<1>12. Prefix(a \o b \o c \o d \o e \o f \o g \o h,
              A \cup B \cup C \cup D \cup E \cup F \cup G \cup H, 3)
  BY <1>0, <1>3, <1>4, <1>11, PlainConcat, Ranks
<1>13. ApplyPlan(spec) = a \o b \o c \o d \o e \o f \o g \o h
  BY DEF ApplyPlan, a, b, c, d, e, f, g, h
<1>14. ApplySet(spec) = A \cup B \cup C \cup D \cup E \cup F \cup G \cup H
  BY DEF ApplySet, A, B, C, D, E, F, G, H
<1> QED BY <1>12, <1>13, <1>14

LEMMA DeletePlanIs == Prefix(DeletePlan, DeleteSet, 3)
<1>0. /\ {"delete", "load"} \subseteq Dos /\ {"hubTpl", "tunnelTpl", "agentDaemon"} \subseteq Objects
      /\ 2 \in 1..2 /\ 2 \in 1..3 /\ 3 \in 1..3
  BY DEF Dos, Objects, Templates
<1> DEFINE a == Call("load", "hubTpl", "hub")
           b == Each("delete", HubObjects, "hub")
           c == Call("load", "tunnelTpl", "tunnel")
           d == Each("delete", ServerDeletes, "tunnel")
           e == Call("delete", "agentDaemon", "tunnel")
           A == {CallOf("load", "hubTpl", "hub")}
           B == {CallOf("delete", o, "hub") : o \in {"hubCfg", "hubRole", "hubBinding"}}
           C == {CallOf("load", "tunnelTpl", "tunnel")}
           D == All("delete", Services \cup Daemons \cup {"nodePortSvc"})
           E == {CallOf("delete", "agentDaemon", "tunnel")}
<1>1. Piece(a, A, "hub") /\ Piece(c, C, "tunnel") /\ Piece(e, E, "tunnel")
  BY <1>0, CallPiece, Ranks
<1>2. Piece(b, B, "hub")
  BY <1>0, EachPiece, Lists, Ranks
<1>3. Piece(d, D, "tunnel")
  <2>1. Piece(d, {CallOf("delete", o, "tunnel") : o \in ToSet(ServerDeletes)}, "tunnel")
    BY <1>0, EachPiece, Lists, Ranks
  <2>2. D = {CallOf("delete", o, "tunnel") : o \in ToSet(ServerDeletes)}
    BY Lists DEF All, Services, Daemons
  <2> QED BY <2>1, <2>2
<1>4. \A x \in A \cup B \cup C \cup D \cup E : ~IsWorkload(x)
  BY DEF CallOf, IsWorkload, All
<1> HIDE DEF a, b, c, d, e, A, B, C, D, E
<1>5. Prefix(a, A, 2)
  <2>1. a \in Seq(Calls) /\ CallsOf(a) = A /\ Ranked(a, 2, 2)
    BY <1>1, Ranks DEF Piece
  <2>2. BasesFirst(a)
    BY <1>4, <2>1, NoWorkloads
  <2>3. Ranked(a, 1, 2)
    <3>1. \A i \in 1..Len(a) : Rank(a[i]) \in 1..3
      BY DEF Rank
    <3>2. \A i \in 1..Len(a) : 1 <= Rank(a[i]) /\ Rank(a[i]) <= 2
      BY <2>1, <3>1 DEF Ranked
    <3> QED BY <2>1, <3>2 DEF Ranked
  <2> QED BY <2>1, <2>2, <2>3 DEF Prefix
<1>6. Prefix(a \o b, A \cup B, 2)
  BY <1>0, <1>2, <1>4, <1>5, PlainConcat, Ranks
<1>7. Prefix(a \o b \o c, A \cup B \cup C, 3)
  BY <1>0, <1>1, <1>4, <1>6, PlainConcat, Ranks
<1>8. Prefix(a \o b \o c \o d, A \cup B \cup C \cup D, 3)
  BY <1>0, <1>3, <1>4, <1>7, PlainConcat, Ranks
<1>9. Prefix(a \o b \o c \o d \o e, A \cup B \cup C \cup D \cup E, 3)
  BY <1>0, <1>1, <1>4, <1>8, PlainConcat, Ranks
<1>10. DeletePlan = a \o b \o c \o d \o e
  BY DEF DeletePlan, a, b, c, d, e
<1>11. DeleteSet = A \cup B \cup C \cup D \cup E
  BY DEF DeleteSet, A, B, C, D, E
<1> QED BY <1>9, <1>10, <1>11

-----------------------------------------------------------------------------
(* What the plans contain *)

PlanSet(copy) == IF copy.deleting THEN DeleteSet ELSE ApplySet(copy.spec)

LEMMA PlanIs ==
    ASSUME NEW copy \in Clusters
    PROVE  Prefix(PlanOf(copy), PlanSet(copy), 3)
<1>1. copy.spec \in Specs /\ copy.spec \in SpecRecords
  BY ObjectsAssumption DEF Clusters
<1>2. CASE copy.deleting
  BY <1>2, DeletePlanIs DEF PlanOf, PlanSet
<1>3. CASE ~copy.deleting
  <2>1. PlanOf(copy) = ApplyPlan(copy.spec)
    BY <1>1, <1>3 DEF PlanOf, ApplyPlans
  <2> QED BY <1>1, <1>3, <2>1, ApplyPlanIs DEF PlanSet
<1> QED BY <1>2, <1>3

\* Every call of the server's and the agent's part.
LEMMA TunnelCalls ==
    ASSUME NEW spec \in SpecRecords, NEW c \in ServerSet(spec) \cup AgentSet(spec)
    PROVE  /\ c.part = "tunnel"
           /\ c.do = "apply" => c.obj \in Wanted(spec) \ Templates
           /\ c.do = "apply" => c.obj \notin ToSet(HubObjects)
           /\ c.do = "delete" => c.obj \in Objects \ (Kept \cup Wanted(spec))
           /\ c.do = "panic" => ~NoNil(spec)
<1>0. spec.server \in Flags /\ spec.agent \in Flags /\ spec.public \in BOOLEAN
  BY DEF SpecRecords
<1>1. CASE c \in AgentSet(spec)
  BY <1>0, <1>1, Lists
     DEF AgentSet, CallOf, Wanted, Templates, Flags, NoNil, Objects, Kept, Bases
<1>2. CASE c \in ServerSet(spec) /\ spec.server = "nil"
  BY <1>2 DEF ServerSet, CallOf, NoNil
<1>3. CASE c \in ServerSet(spec) /\ spec.server = "off"
  <2>1. PICK o \in Services \cup Daemons \cup {"nodePortSvc"} : c = CallOf("delete", o, "tunnel")
    BY <1>3 DEF ServerSet, All
  <2>2. c.part = "tunnel" /\ c.do = "delete" /\ c.obj = o
    BY <2>1 DEF CallOf
  <2>3. o \in Objects /\ o \notin Kept
    BY Lists DEF Services, Daemons, Objects, Kept, Bases, Templates
  <2>4. o \notin Wanted(spec)
    BY <1>3, Lists DEF Services, Daemons, Wanted, Templates
  <2> QED BY <2>2, <2>3, <2>4
<1>4. CASE c \in ServerBasis(spec) /\ spec.server = "on"
  <2>1. CASE c = CallOf("count", "tunnelTpl", "tunnel")
    BY <2>1 DEF CallOf
  <2>2. CASE c = CallOf("apply", "nodePortSvc", "tunnel") /\ spec.public
    BY <1>4, <2>2, Lists DEF CallOf, Wanted, Templates
  <2>3. CASE c = CallOf("delete", "nodePortSvc", "tunnel") /\ ~spec.public
    BY <1>4, <2>3, Lists DEF CallOf, Wanted, Templates, Objects, Kept, Bases
  <2>4. CASE c \in All("apply", Bases \cup Services)
    <3>1. PICK o \in Bases \cup Services : c = CallOf("apply", o, "tunnel")
      BY <2>4 DEF All
    <3>2. c.part = "tunnel" /\ c.do = "apply" /\ c.obj = o
      BY <3>1 DEF CallOf
    <3>3. o \in Wanted(spec)
      BY <1>4, Lists DEF Wanted, Services
    <3>4. o \notin Templates /\ o \notin ToSet(HubObjects)
      BY Lists DEF Bases, Services, Templates
    <3> QED BY <3>2, <3>3, <3>4
  <2> QED BY <1>4, <2>1, <2>2, <2>3, <2>4 DEF ServerBasis, All
<1>5. CASE c \in All("apply", Daemons) /\ spec.server = "on"
  <2>1. PICK o \in Daemons : c = CallOf("apply", o, "tunnel")
    BY <1>5 DEF All
  <2>2. c.part = "tunnel" /\ c.do = "apply" /\ c.obj = o
    BY <2>1 DEF CallOf
  <2>3. o \in Wanted(spec) \ Templates /\ o \notin ToSet(HubObjects)
    BY <1>5, Lists DEF Wanted, Daemons, Templates
  <2> QED BY <2>2, <2>3
<1>6. spec.server = "on" => ServerSet(spec) = ServerBasis(spec) \cup All("apply", Daemons)
  BY DEF ServerSet
<1> QED BY <1>0, <1>1, <1>2, <1>3, <1>4, <1>5, <1>6 DEF Flags

\* A plan never applies what it deletes, never deletes what stays, and panics
\* only over a flag that is not set.
LEMMA CallsAre ==
    ASSUME NEW copy \in Clusters, NEW c \in PlanSet(copy)
    PROVE  /\ c.do = "apply" => ~copy.deleting /\ c.obj \in Wanted(copy.spec)
           /\ c.do = "delete" => c.obj \in Unwanted(copy.spec, copy.deleting)
           /\ c.do = "panic" => ~copy.deleting /\ ~NoNil(copy.spec)
           /\ IsWorkload(c) => c.part = "tunnel"
<1>1. copy.spec \in SpecRecords /\ copy.deleting \in BOOLEAN
  BY ObjectsAssumption DEF Clusters
<1>2. CASE copy.deleting
  <2>1. c \in DeleteSet
    BY <1>2 DEF PlanSet
  <2>2. CASE c \in {CallOf("load", "hubTpl", "hub"), CallOf("load", "tunnelTpl", "tunnel")}
    BY <2>2 DEF CallOf, IsWorkload
  <2>3. CASE \E part \in Parts :
               c \in {CallOf("delete", o, part) : o \in {"hubCfg", "hubRole", "hubBinding"}
                          \cup Services \cup Daemons \cup {"nodePortSvc", "agentDaemon"}}
    <3>1. PICK part \in Parts, o \in {"hubCfg", "hubRole", "hubBinding"}
                          \cup Services \cup Daemons \cup {"nodePortSvc", "agentDaemon"} :
            c = CallOf("delete", o, part)
      BY <2>3
    <3>2. c.do = "delete" /\ c.obj = o
      BY <3>1 DEF CallOf
    <3>3. o \in Objects /\ o \notin Kept
      BY Lists DEF Services, Daemons, Objects, Kept, Templates
    <3> QED BY <1>2, <3>2, <3>3 DEF Unwanted, IsWorkload
  <2> QED BY <2>1, <2>2, <2>3 DEF DeleteSet, All, Parts
<1>3. CASE ~copy.deleting
  <2>1. c \in ApplySet(copy.spec)
    BY <1>3 DEF PlanSet
  <2>2. CASE c \in ServerSet(copy.spec) \cup AgentSet(copy.spec)
    <3>1. /\ c.do = "apply" => c.obj \in Wanted(copy.spec)
          /\ c.do = "delete" => c.obj \in Objects \ (Kept \cup Wanted(copy.spec))
          /\ c.do = "panic" => ~NoNil(copy.spec)
          /\ c.part = "tunnel"
      BY <1>1, <2>2, TunnelCalls
    <3> QED BY <1>3, <3>1 DEF Unwanted
  <2>3. CASE c \in {CallOf("load", "hubTpl", "hub"), CallOf("load", "tunnelTpl", "tunnel")}
    BY <2>3 DEF CallOf, IsWorkload
  <2>4. CASE \E part \in Parts :
               c \in {CallOf("apply", o, part) : o \in Templates \cup {"hubCfg", "hubRole", "hubBinding"}}
    <3>1. PICK part \in Parts, o \in Templates \cup {"hubCfg", "hubRole", "hubBinding"} :
            c = CallOf("apply", o, part)
      BY <2>4
    <3>2. c.do = "apply" /\ c.obj = o
      BY <3>1 DEF CallOf
    <3>3. o \in Wanted(copy.spec) /\ o \notin Daemons
      BY Lists DEF Wanted, Daemons, Templates
    <3> QED BY <1>3, <3>2, <3>3 DEF IsWorkload, Daemons
  <2> QED BY <2>1, <2>2, <2>3, <2>4 DEF ApplySet, Parts, Templates
<1> QED BY <1>1, <1>2, <1>3

\* A plan sees to every object that its copy wants or does not want.
LEMMA AllAreSeenTo ==
    ASSUME NEW copy \in Clusters, copy.deleting \/ NoNil(copy.spec)
    PROVE  /\ ~copy.deleting =>
                \A o \in Wanted(copy.spec) :
                    \E c \in PlanSet(copy) : c.do = "apply" /\ c.obj = o
           /\ \A o \in Unwanted(copy.spec, copy.deleting) :
                    \E c \in PlanSet(copy) : c.do = "delete" /\ c.obj = o
<1> DEFINE spec == copy.spec
<1>0. spec \in SpecRecords /\ copy.deleting \in BOOLEAN
  BY ObjectsAssumption DEF Clusters
<1>1. \A do, o, part : CallOf(do, o, part).do = do /\ CallOf(do, o, part).obj = o
  BY DEF CallOf
<1>2. CASE copy.deleting
  <2> SUFFICES ASSUME NEW o \in Objects \ Kept
               PROVE  \E part \in Parts : CallOf("delete", o, part) \in DeleteSet
    BY <1>1, <1>2 DEF PlanSet, Unwanted
  <2>1. o \in {"hubCfg", "hubRole", "hubBinding"} \cup Services \cup Daemons \cup {"nodePortSvc", "agentDaemon"}
    BY Lists DEF Services, Daemons, Objects, Kept, Templates, Bases
  <2>2. CASE o \in {"hubCfg", "hubRole", "hubBinding"}
    BY <2>2 DEF DeleteSet, Parts
  <2>3. CASE o \in Services \cup Daemons \cup {"nodePortSvc"}
    BY <2>3 DEF DeleteSet, All, Parts
  <2>4. CASE o = "agentDaemon"
    BY <2>4 DEF DeleteSet, Parts
  <2> QED BY <2>1, <2>2, <2>3, <2>4
<1>3. CASE ~copy.deleting
  <2>0. spec.server \in {"on", "off"} /\ spec.agent \in {"on", "off"}
    BY <1>0, <1>3 DEF NoNil, SpecRecords, Flags
  <2>1. ASSUME NEW o \in Wanted(spec)
        PROVE  \E part \in Parts : CallOf("apply", o, part) \in ApplySet(spec)
    <3>1. CASE o \in Templates
      BY <3>1 DEF ApplySet, Parts, Templates
    <3>2. CASE o \in ToSet(HubObjects)
      BY <3>2, Lists DEF ApplySet, Parts
    <3>3. CASE spec.server = "on" /\ o \in ToSet(ServerObjects) \cup ToSet(Workloads)
      <4>1. o \in Bases \cup Services \cup Daemons
        BY <3>3, Lists DEF Services, Daemons
      <4>2. CallOf("apply", o, "tunnel") \in ServerSet(spec)
        BY <3>3, <4>1 DEF ServerSet, ServerBasis, All
      <4> QED BY <4>2 DEF ApplySet, Parts
    <3>4. CASE spec.server = "on" /\ spec.public /\ o = "nodePortSvc"
      <4>1. CallOf("apply", o, "tunnel") \in ServerSet(spec)
        BY <3>4 DEF ServerSet, ServerBasis, All
      <4> QED BY <4>1 DEF ApplySet, Parts
    <3>5. CASE spec.agent = "on" /\ o = "agentDaemon"
      <4>1. CallOf("apply", o, "tunnel") \in AgentSet(spec)
        BY <3>5 DEF AgentSet
      <4> QED BY <4>1 DEF ApplySet, Parts
    <3> QED BY <3>1, <3>2, <3>3, <3>4, <3>5 DEF Wanted
  <2>2. ASSUME NEW o \in Objects \ (Kept \cup Wanted(spec))
        PROVE  CallOf("delete", o, "tunnel") \in ApplySet(spec)
    <3>1. o \in Services \cup Daemons \cup {"nodePortSvc", "agentDaemon"}
      BY Lists DEF Services, Daemons, Objects, Kept, Templates, Bases, Wanted
    <3>2. CASE o \in Services \cup Daemons
      <4>1. spec.server = "off"
        BY <2>0, <2>2, <3>2, Lists DEF Wanted, Services, Daemons
      <4>2. CallOf("delete", o, "tunnel") \in ServerSet(spec)
        BY <3>2, <4>1 DEF ServerSet, All
      <4> QED BY <4>2 DEF ApplySet
    <3>3. CASE o = "nodePortSvc"
      <4>1. spec.server = "off" \/ (spec.server = "on" /\ ~spec.public)
        BY <2>0, <2>2, <3>3 DEF Wanted
      <4>2. CallOf("delete", o, "tunnel") \in ServerSet(spec)
        BY <3>3, <4>1 DEF ServerSet, ServerBasis, All
      <4> QED BY <4>2 DEF ApplySet
    <3>4. CASE o = "agentDaemon"
      <4>1. spec.agent = "off"
        BY <2>0, <2>2, <3>4 DEF Wanted
      <4>2. CallOf("delete", o, "tunnel") \in AgentSet(spec)
        BY <3>4, <4>1 DEF AgentSet
      <4> QED BY <4>2 DEF ApplySet
    <3> QED BY <3>1, <3>2, <3>3, <3>4
  <2>3. PlanSet(copy) = ApplySet(spec) /\ Unwanted(spec, copy.deleting) = Objects \ (Kept \cup Wanted(spec))
    BY <1>3 DEF PlanSet, Unwanted
  <2> QED BY <1>1, <1>3, <2>1, <2>2, <2>3
<1> QED BY <1>0, <1>2, <1>3

\* The calls of a part stand together.
LEMMA PartsStandTogether ==
    ASSUME NEW copy \in Clusters, NEW i \in 1..Len(PlanOf(copy)), NEW j \in 1..Len(PlanOf(copy)),
           NEW k \in 1..Len(PlanOf(copy)), i <= j, j <= k,
           PlanOf(copy)[i].part = PlanOf(copy)[k].part
    PROVE  PlanOf(copy)[j].part = PlanOf(copy)[i].part
<1> DEFINE plan == PlanOf(copy)
<1>1. plan \in Seq(Calls) /\ Ranked(plan, 1, 3)
  BY PlanIs DEF Prefix
<1> HIDE DEF plan
<1>2. \A x \in 1..Len(plan) : plan[x] \in Calls
  BY <1>1, ElementOfSeq
<1>3. Rank(plan[i]) <= Rank(plan[j]) /\ Rank(plan[j]) <= Rank(plan[k])
  BY <1>1 DEF Ranked, plan
<1>4. Rank(plan[i]) = Rank(plan[k])
  BY DEF Rank, plan
<1>5. Rank(plan[j]) = Rank(plan[i])
  <2>1. Rank(plan[i]) \in 1..3 /\ Rank(plan[j]) \in 1..3
    BY DEF Rank
  <2> QED BY <1>3, <1>4, <2>1
<1>6. plan[i].part \in Parts /\ plan[j].part \in Parts
  BY <1>2 DEF Calls, Parts, plan
<1> QED BY <1>5, <1>6 DEF Rank, Parts, plan

-----------------------------------------------------------------------------
(* Types *)

Entry == [gen: Nat, skip: BOOLEAN, servers: Nat, replicas: Nat]

LEMMA NowIs ==
    ASSUME TypeOK, mgr.step >= 1, mgr.step <= Last
    PROVE  /\ mgr.step \in 1..Last /\ Last \in Nat
           /\ Now \in PlanSet(mgr.copy) /\ Now \in Calls /\ Now.obj \in Objects
<1>1. mgr.copy \in Clusters /\ mgr.step \in Nat
  BY DEF TypeOK, Managers
<1>2. Plan \in Seq(Calls) /\ CallsOf(Plan) = PlanSet(mgr.copy)
  BY <1>1, PlanIs DEF Prefix, Plan
<1>3. Last \in Nat /\ mgr.step \in 1..Last
  BY <1>1, <1>2, LenProperties DEF Last
<1>4. Now \in Calls /\ Now \in CallsOf(Plan)
  BY <1>2, <1>3, ElementOfSeq DEF Now, CallsOf, Last
<1> QED BY <1>2, <1>3, <1>4 DEF Calls

LEMMA RenderedType ==
    ASSUME TypeOK, NEW o
    PROVE  Rendered(o) \in Entry /\ Rendered(o).gen = mgr.copy.gen
<1>1. mgr.copy \in Clusters /\ mgr.size \in Nat
  BY DEF TypeOK, Managers
<1>2. mgr.copy.gen \in Nat /\ mgr.copy.spec.count \in Nat
  BY <1>1, ObjectsAssumption DEF Clusters, SpecRecords
<1>3. Max(mgr.size, mgr.copy.spec.count) \in Nat
  BY <1>1, <1>2 DEF Max
<1>4. Replicas(mgr.copy.spec.count, mgr.size) \in Nat
  BY <1>1, <1>2 DEF Max, Replicas
<1> QED BY <1>2, <1>3, <1>4 DEF Rendered, Entry

\* What is written is that, but for an annotation it may keep.
LEMMA WrittenType ==
    ASSUME TypeOK, NEW o \in Objects
    PROVE  Written(o) \in Entry /\ Written(o).gen = mgr.copy.gen
<1>1. Rendered(o) \in Entry /\ Rendered(o).gen = mgr.copy.gen
  BY RenderedType
<1>2. (Rendered(o).skip \/ store[o].skip) \in BOOLEAN
  OBVIOUS
<1>3. Written(o) = [Rendered(o) EXCEPT !.skip = Rendered(o).skip \/ store[o].skip]
  BY DEF Written
<1> HIDE DEF Rendered, Written
<1> QED BY <1>1, <1>2, <1>3 DEF Entry

LEMMA AbsentType == Absent \in Entry /\ Absent.gen = 0 /\ ~Absent.skip
BY DEF Absent, Entry

LEMMA IdleIs ==
    ASSUME NEW copy \in Clusters
    PROVE  /\ Idle(copy) \in Managers /\ [Idle(copy) EXCEPT !.busy = TRUE] \in Managers
           /\ Idle(copy).copy = copy /\ Idle(copy).step = 1 /\ ~Idle(copy).busy
           /\ [Idle(copy) EXCEPT !.busy = TRUE].copy = copy
           /\ [Idle(copy) EXCEPT !.busy = TRUE].step = 1
BY DEF Idle, Managers

\* The ways a pass goes on.
LEMMA GoesOn ==
    ASSUME TypeOK, Proceed
    PROVE  /\ mgr' \in Managers
           /\ mgr'.step = mgr.step + 1 /\ mgr'.copy = mgr.copy
           /\ mgr'.err = mgr.err /\ mgr'.busy = mgr.busy
BY DEF TypeOK, Managers, Proceed

LEMMA Drops ==
    ASSUME TypeOK, DropPart
    PROVE  /\ mgr' \in Managers
           /\ mgr'.step \in mgr.step + 1..Last + 1 /\ SamePart(mgr'.step)
           /\ mgr'.copy = mgr.copy /\ mgr'.err /\ mgr'.busy = mgr.busy
<1>1. PICK next \in mgr.step + 1..Last + 1 :
        SamePart(next) /\ mgr' = [mgr EXCEPT !.step = next, !.err = TRUE]
  BY DEF DropPart
<1>2. mgr.step \in Nat
  BY DEF TypeOK, Managers
<1>3. next \in Nat
  BY <1>2
<1>4. mgr' \in Managers /\ mgr'.step = next /\ mgr'.copy = mgr.copy /\ mgr'.err /\ mgr'.busy = mgr.busy
  BY <1>1, <1>3 DEF TypeOK, Managers
<1> QED BY <1>1, <1>4

LEMMA Counts ==
    ASSUME TypeOK, mgr' = [mgr EXCEPT !.step = @ + 1, !.size = masters]
    PROVE  /\ mgr' \in Managers
           /\ mgr'.step = mgr.step + 1 /\ mgr'.copy = mgr.copy
           /\ mgr'.err = mgr.err /\ mgr'.busy = mgr.busy
<1>1. masters \in Nat /\ mgr \in Managers /\ mgr.step + 1 \in Nat
  BY ObjectsAssumption DEF TypeOK, Managers
<1>2. mgr' \in Managers
  BY <1>1 DEF Managers
<1>3. mgr'.step = mgr.step + 1 /\ mgr'.copy = mgr.copy
  BY <1>1 DEF Managers
<1>4. mgr'.err = mgr.err /\ mgr'.busy = mgr.busy
  BY <1>1 DEF Managers
<1> QED BY <1>2, <1>3, <1>4

\* A pass that unwinds is at its end.
LEMMA Unwinds ==
    ASSUME TypeOK, mgr.step >= 1, Panic
    PROVE  /\ mgr' \in Managers
           /\ mgr'.step = Last + 1 /\ mgr'.copy = mgr.copy
           /\ mgr'.busy = mgr.busy /\ Last \in Nat
<1>1. Last \in Nat
  BY NowIs DEF Panic, Doing
<1>2. mgr \in Managers /\ Last + 1 \in Nat /\ mgr' = [mgr EXCEPT !.step = Last + 1, !.err = FALSE]
  BY <1>1 DEF Panic, TypeOK
<1>3. mgr' \in Managers
  BY <1>2 DEF Managers
<1>4. mgr'.step = Last + 1 /\ mgr'.copy = mgr.copy /\ mgr'.busy = mgr.busy
  BY <1>2 DEF Managers
<1> QED BY <1>1, <1>3, <1>4

\* What the user does to the object.
LEMMA UpdateIs ==
    ASSUME yc \in Clusters, NEW s \in Specs, Update(s)
    PROVE  /\ yc' \in Clusters
           /\ yc'.gen = yc.gen + 1 /\ yc'.deleting = yc.deleting
           /\ yc'.obs = yc.obs /\ yc'.state = yc.state
<1>1. yc' = [yc EXCEPT !.spec = s, !.gen = yc.gen + 1] /\ yc.gen + 1 \in Nat
  BY DEF Update, Clusters
<1>2. yc' \in Clusters
  BY <1>1 DEF Clusters
<1>3. yc'.gen = yc.gen + 1 /\ yc'.deleting = yc.deleting
  BY <1>1 DEF Clusters
<1>4. yc'.obs = yc.obs /\ yc'.state = yc.state
  BY <1>1 DEF Clusters
<1> QED BY <1>2, <1>3, <1>4

LEMMA DeleteIs ==
    ASSUME yc \in Clusters, Delete
    PROVE  /\ yc' \in Clusters
           /\ yc'.gen = yc.gen + 1 /\ yc'.deleting
           /\ yc'.obs = yc.obs /\ yc'.state = yc.state
<1>1. yc' = [yc EXCEPT !.deleting = TRUE, !.gen = yc.gen + 1] /\ yc.gen + 1 \in Nat
  BY DEF Delete, Clusters
<1>2. yc' \in Clusters
  BY <1>1 DEF Clusters
<1>3. yc'.gen = yc.gen + 1 /\ yc'.deleting
  BY <1>1 DEF Clusters
<1>4. yc'.obs = yc.obs /\ yc'.state = yc.state
  BY <1>1 DEF Clusters
<1> QED BY <1>2, <1>3, <1>4

LEMMA ConstantsType == MaxEvents \in Nat /\ MaxGen \in Nat /\ Touchable \subseteq Objects
BY ObjectsAssumption

LEMMA EventsType ==
    ASSUME TypeOK, Event \/ NoFault
    PROVE  events' \in Nat
BY DEF TypeOK, Event, NoFault

LEMMA TypePass ==
    ASSUME TypeOK, mgr.step >= 1, Apply \/ DeleteObject \/ Load \/ Count \/ Panic
    PROVE  TypeOK'
<1>1. yc' \in Clusters /\ cached' \in Clusters /\ masters' \in 0..MaxMasters
  BY DEF TypeOK, Apply, DeleteObject, Load, Count, Panic, PassFrame
<1>2. events' \in Nat
  BY EventsType DEF Apply, DeleteObject, Load, Count, Panic, Fault
<1>3. mgr' \in Managers
  <2>1. CASE Count
    BY <2>1, GoesOn, Counts DEF Count
  <2>2. CASE Panic
    BY <2>2, Unwinds
  <2>3. CASE Apply \/ DeleteObject \/ Load
    <3>1. Proceed \/ DropPart
      BY <2>3 DEF Apply, DeleteObject, Load
    <3> QED BY <3>1, GoesOn, Drops
  <2> QED BY <2>1, <2>2, <2>3
<1>4. store' \in [Objects -> Entry] /\ excused' \subseteq Objects
  <2>0. store \in [Objects -> Entry] /\ excused \subseteq Objects
    BY DEF TypeOK, Entry
  <2>1. CASE Apply
    <3>1. Now.obj \in Objects
      BY <2>1, NowIs DEF Apply, Doing
    <3>2. store' \in {store, [store EXCEPT ![Now.obj] = Written(Now.obj)]}
      BY <2>1 DEF Apply
    <3>3. excused' \in {excused, excused \cup {Now.obj}, excused \ {Now.obj}}
      BY <2>1 DEF Apply
    <3> QED BY <2>0, <3>1, <3>2, <3>3, WrittenType
  <2>2. CASE DeleteObject
    <3>1. Now.obj \in Objects
      BY <2>2, NowIs DEF DeleteObject, Doing
    <3>2. store' \in {store, [store EXCEPT ![Now.obj] = Absent]}
      BY <2>2 DEF DeleteObject
    <3>3. excused' \in {excused, excused \cup {Now.obj}, excused \ {Now.obj}}
      BY <2>2 DEF DeleteObject
    <3> QED BY <2>0, <3>1, <3>2, <3>3, AbsentType
  <2>3. CASE Load \/ Count \/ Panic
    BY <2>0, <2>3 DEF Load, Count, Panic
  <2> QED BY <2>1, <2>2, <2>3
<1> QED BY <1>1, <1>2, <1>3, <1>4 DEF TypeOK, Entry

LEMMA TypeAround ==
    ASSUME TypeOK, (\E s \in Specs : Update(s)) \/ Delete \/ Join \/ Sync \/ Crash \/ Begin \/ End
                   \/ (\E o \in Touchable : Touch(o)) \/ UNCHANGED vars
    PROVE  TypeOK'
<1>1. CASE \E s \in Specs : Update(s)
  <2>1. yc' \in Clusters
    BY <1>1, UpdateIs DEF TypeOK
  <2> QED BY <1>1, <2>1 DEF TypeOK, Update
<1>2. CASE Delete
  <2>1. yc' \in Clusters
    BY <1>2, DeleteIs DEF TypeOK
  <2> QED BY <1>2, <2>1 DEF TypeOK, Delete
<1>3. CASE Join
  BY <1>3 DEF TypeOK, Join, Event
<1>4. CASE Sync
  BY <1>4 DEF TypeOK, Sync
<1>5. CASE Crash
  <2>1. mgr' \in Managers
    BY <1>5, IdleIs DEF TypeOK, Crash, Managers
  <2>2. events' \in Nat
    BY <1>5, EventsType DEF Crash, Fault
  <2> QED BY <1>5, <2>1, <2>2 DEF TypeOK, Crash
<1>6. CASE Begin
  <2>1. mgr' \in Managers
    BY <1>6, IdleIs DEF TypeOK, Begin
  <2> QED BY <1>6, <2>1 DEF TypeOK, Begin
<1>7. CASE End
  <2>1. mgr' \in Managers
    BY <1>7, IdleIs DEF TypeOK, End, Managers
  <2>2. events' \in Nat
    BY <1>7, EventsType DEF End, Fault
  <2>3. Observed \in Nat
    BY DEF TypeOK, Managers, Clusters, Observed
  <2>4. yc' \in Clusters
    BY <1>7, <2>3 DEF TypeOK, End, Clusters
  <2> QED BY <1>7, <2>1, <2>2, <2>4 DEF TypeOK, End
<1>8. ASSUME NEW o \in Touchable, Touch(o) PROVE TypeOK'
  <2>1. o \in Objects /\ store \in [Objects -> Entry]
    BY ConstantsType DEF TypeOK, Entry
  <2>2. store[o].skip \in BOOLEAN /\ [store[o] EXCEPT !.skip = ~@] \in Entry
    BY <2>1 DEF Entry
  <2>3. store' \in [Objects -> Entry]
    BY <1>8, <2>1, <2>2, AbsentType DEF Touch
  <2>4. excused' \subseteq Objects
    BY <1>8, <2>1 DEF TypeOK, Touch
  <2>5. events' \in Nat
    BY <1>8, EventsType DEF Touch
  <2> QED BY <1>8, <2>3, <2>4, <2>5 DEF TypeOK, Touch, Entry
<1>9. CASE UNCHANGED vars
  BY <1>9 DEF TypeOK, vars
<1> QED BY <1>1, <1>2, <1>3, <1>4, <1>5, <1>6, <1>7, <1>8, <1>9

-----------------------------------------------------------------------------
(* Copies and generations *)

LEMMA EndIs ==
    ASSUME TypeOK, End
    PROVE  /\ mgr.busy /\ mgr.step > Last /\ mgr' = Idle(mgr.copy)
           /\ UNCHANGED <<cached, masters, store, excused>>
           /\ yc' \in Clusters /\ yc'.gen = yc.gen /\ yc'.deleting = yc.deleting
           /\ \/ yc'.state = yc.state /\ yc'.obs = yc.obs
              \/ /\ mgr.copy.deleting /\ Observed = mgr.copy.gen
                 /\ yc'.state = "gone" /\ yc'.obs = yc.obs
              \/ yc'.state = yc.state /\ Observed # mgr.copy.obs /\ yc'.obs = Observed
<1>1. yc \in Clusters /\ Observed \in Nat
  BY DEF TypeOK, Managers, Clusters, Observed
<1>2. mgr.busy /\ mgr.step > Last /\ mgr' = Idle(mgr.copy) /\ UNCHANGED <<cached, masters, store, excused>>
  BY DEF End
<1>3. CASE yc' = [yc EXCEPT !.state = "gone"] /\ mgr.copy.deleting /\ Observed = mgr.copy.gen
  BY <1>1, <1>2, <1>3 DEF Clusters
<1>4. CASE yc' = [yc EXCEPT !.obs = IF yc.state = "gone" \/ Observed = mgr.copy.obs THEN @ ELSE Observed]
  <2>1. CASE yc.state = "gone" \/ Observed = mgr.copy.obs
    <3>1. yc' = yc
      BY <1>1, <1>4, <2>1 DEF Clusters
    <3> QED BY <1>1, <1>2, <3>1
  <2>2. CASE ~(yc.state = "gone" \/ Observed = mgr.copy.obs)
    <3>1. yc' = [yc EXCEPT !.obs = Observed]
      BY <1>4, <2>2
    <3>2. yc' \in Clusters
      BY <1>1, <3>1 DEF Clusters
    <3>3. yc'.gen = yc.gen /\ yc'.deleting = yc.deleting /\ yc'.state = yc.state /\ yc'.obs = Observed
      BY <1>1, <3>1 DEF Clusters
    <3> QED BY <1>2, <2>2, <3>2, <3>3
  <2> QED BY <2>1, <2>2
<1>5. CASE UNCHANGED yc
  BY <1>1, <1>2, <1>5
<1> QED BY <1>3, <1>4, <1>5 DEF End

\* The numbers of CopyInv, for any copies.
Aged(old, new) ==
    old.gen <= new.gen /\ old.obs <= old.gen /\ (old.deleting => new.deleting)
Agree(old, new) == old.gen = new.gen => old.deleting = new.deleting

StoreInv ==
    \A o \in Objects :
        store[o].gen <= mgr.copy.gen /\ (store[o].skip => store[o].gen # 0)

CopiesInv ==
    /\ mgr.step >= 1 /\ 1 <= mgr.copy.gen
    /\ Aged(mgr.copy, cached) /\ Aged(cached, yc) /\ yc.obs <= yc.gen
    /\ Agree(mgr.copy, yc) /\ Agree(cached, yc)

LEMMA CopyInvIs == CopyInv <=> CopiesInv /\ StoreInv
BY DEF CopyInv, CopiesInv, StoreInv, Aged, Agree

\* The types of the generations.
LEMMA Numbers ==
    ASSUME TypeOK
    PROVE  /\ yc.gen \in Nat /\ yc.obs \in Nat /\ cached.gen \in Nat /\ cached.obs \in Nat
           /\ mgr.copy.gen \in Nat /\ mgr.copy.obs \in Nat /\ mgr.step \in Nat
           /\ yc.deleting \in BOOLEAN /\ cached.deleting \in BOOLEAN /\ mgr.copy.deleting \in BOOLEAN
           /\ mgr.copy \in Clusters /\ cached \in Clusters /\ yc \in Clusters
           /\ store \in [Objects -> Entry] /\ \A o \in Objects : store[o].gen \in Nat
BY DEF TypeOK, Clusters, Managers, Entry

LEMMA CopiesKept ==
    ASSUME TypeOK, CopiesInv, Next \/ UNCHANGED vars
    PROVE  CopiesInv'
<1>0. yc.gen \in Nat /\ yc.obs \in Nat /\ cached.gen \in Nat /\ mgr.copy.gen \in Nat /\ mgr.step \in Nat
  BY Numbers
<1>1. ASSUME NEW s \in Specs, Update(s) PROVE CopiesInv'
  <2>1. yc'.gen = yc.gen + 1 /\ yc'.deleting = yc.deleting /\ yc'.obs = yc.obs
    BY <1>1, UpdateIs DEF TypeOK
  <2>2. UNCHANGED <<cached, mgr>>
    BY <1>1 DEF Update
  <2> QED BY <1>0, <2>1, <2>2 DEF CopiesInv, Aged, Agree
<1>2. CASE Delete
  <2>1. yc'.gen = yc.gen + 1 /\ yc'.deleting /\ yc'.obs = yc.obs
    BY <1>2, DeleteIs DEF TypeOK
  <2>2. UNCHANGED <<cached, mgr>>
    BY <1>2 DEF Delete
  <2>3. mgr.copy.gen < yc'.gen /\ cached.gen < yc'.gen /\ yc'.obs <= yc'.gen
    BY <1>0, <2>1 DEF CopiesInv, Aged
  <2>4. Agree(mgr.copy, yc)' /\ Agree(cached, yc)'
    BY <1>0, <2>2, <2>3 DEF Agree
  <2>5. Aged(cached, yc)' /\ Aged(mgr.copy, cached)'
    BY <1>0, <2>1, <2>2, <2>3 DEF Aged, CopiesInv
  <2> QED BY <2>2, <2>3, <2>4, <2>5 DEF CopiesInv
<1>3. CASE Sync
  BY <1>0, <1>3 DEF Sync, CopiesInv, Aged, Agree
<1>4. CASE Crash
  <2>1. mgr'.copy = mgr.copy /\ mgr'.step = 1 /\ UNCHANGED <<cached, yc>>
    BY <1>4, IdleIs, Numbers DEF Crash
  <2> QED BY <1>0, <2>1 DEF CopiesInv, Aged, Agree
<1>5. CASE Begin
  <2>1. mgr'.copy = cached /\ mgr'.step = 1 /\ UNCHANGED <<yc, cached>>
    BY <1>5, IdleIs, Numbers DEF Begin
  <2> QED BY <1>0, <2>1 DEF CopiesInv, Aged, Agree
<1>6. CASE End
  <2>1. mgr'.copy = mgr.copy /\ mgr'.step = 1 /\ cached' = cached
        /\ yc'.gen = yc.gen /\ yc'.deleting = yc.deleting /\ yc'.obs \in {yc.obs, Observed}
    BY <1>6, EndIs, IdleIs, Numbers
  <2>2. Observed <= yc.gen
    BY <1>0, Numbers DEF Observed, CopiesInv, Aged
  <2> QED BY <1>0, <2>1, <2>2 DEF CopiesInv, Aged, Agree
<1>7. CASE Apply \/ DeleteObject \/ Load \/ Count \/ Panic
  <2>1. mgr'.copy = mgr.copy /\ mgr'.step >= 1
    <3>1. CASE Panic
      <4>1. Last \in Nat /\ mgr'.step = Last + 1 /\ mgr'.copy = mgr.copy
        BY <3>1, Unwinds DEF CopiesInv
      <4> QED BY <4>1
    <3>2. CASE Proceed
      BY <1>0, <3>2, GoesOn
    <3>3. CASE DropPart
      BY <1>0, <3>3, Drops
    <3>4. CASE mgr' = [mgr EXCEPT !.step = @ + 1, !.size = masters]
      BY <1>0, <3>4, Counts
    <3> QED BY <1>7, <3>1, <3>2, <3>3, <3>4 DEF Apply, DeleteObject, Load, Count
  <2>2. UNCHANGED <<yc, cached>>
    BY <1>7 DEF Apply, DeleteObject, Load, Count, Panic, PassFrame
  <2> QED BY <2>1, <2>2 DEF CopiesInv, Aged, Agree
<1>8. CASE Join \/ (\E o \in Touchable : Touch(o)) \/ UNCHANGED vars
  <2>1. UNCHANGED <<yc, cached, mgr>>
    BY <1>8 DEF Join, Touch, vars
  <2> QED BY <2>1 DEF CopiesInv, Aged, Agree
<1> QED BY <1>1, <1>2, <1>3, <1>4, <1>5, <1>6, <1>7, <1>8 DEF Next, ManagerStep

\* What an object becomes keeps StoreInv.
LEMMA StoreChanged ==
    ASSUME TypeOK, StoreInv, NEW x \in Objects, NEW e, e.gen <= mgr.copy.gen, e.skip => e.gen # 0,
           store' \in {store, [store EXCEPT ![x] = e]}, mgr'.copy = mgr.copy
    PROVE  StoreInv'
<1> SUFFICES ASSUME NEW o \in Objects
             PROVE  store'[o].gen <= mgr.copy.gen /\ (store'[o].skip => store'[o].gen # 0)
  BY DEF StoreInv
<1>1. CASE store' = store \/ o # x
  BY <1>1, Numbers DEF StoreInv
<1>2. CASE store' = [store EXCEPT ![x] = e] /\ o = x
  BY <1>2, Numbers
<1> QED BY <1>1, <1>2

LEMMA StoreKept ==
    ASSUME TypeOK, CopiesInv, StoreInv, Next \/ UNCHANGED vars
    PROVE  StoreInv'
<1>0. cached.gen \in Nat /\ mgr.copy.gen \in Nat /\ mgr.step \in Nat /\ mgr.step >= 1 /\ mgr.copy.gen >= 1
  BY Numbers DEF CopiesInv
<1>1. CASE Apply
  <2>1. Now.obj \in Objects
    BY <1>0, <1>1, NowIs DEF Apply, Doing
  <2>2. Written(Now.obj).gen <= mgr.copy.gen /\ Written(Now.obj).gen # 0
    BY <1>0, <2>1, WrittenType
  <2>3. store' \in {store, [store EXCEPT ![Now.obj] = Written(Now.obj)]}
    BY <1>1 DEF Apply
  <2>4. mgr'.copy = mgr.copy
    BY <1>1, GoesOn, Drops DEF Apply
  <2> QED BY <2>1, <2>2, <2>3, <2>4, StoreChanged
<1>2. CASE DeleteObject
  <2>1. Now.obj \in Objects
    BY <1>0, <1>2, NowIs DEF DeleteObject, Doing
  <2>2. store' \in {store, [store EXCEPT ![Now.obj] = Absent]}
    BY <1>2 DEF DeleteObject
  <2>3. mgr'.copy = mgr.copy
    BY <1>2, GoesOn, Drops DEF DeleteObject
  <2>4. Absent.gen <= mgr.copy.gen /\ ~Absent.skip
    BY <1>0, AbsentType
  <2> QED BY <2>1, <2>2, <2>3, <2>4, StoreChanged
<1>3. CASE Load \/ Count \/ Panic
  <2>1. mgr'.copy = mgr.copy /\ store' = store
    BY <1>0, <1>3, GoesOn, Drops, Counts, Unwinds DEF Load, Count, Panic
  <2> QED BY <2>1 DEF StoreInv
<1>4. ASSUME NEW x \in Touchable, Touch(x) PROVE StoreInv'
  <2>1. x \in Objects /\ mgr'.copy = mgr.copy
    BY <1>4, ConstantsType DEF Touch
  <2>2. CASE store' = [store EXCEPT ![x] = Absent]
    <3>1. Absent.gen <= mgr.copy.gen /\ ~Absent.skip
      BY <1>0, AbsentType
    <3> QED BY <2>1, <2>2, <3>1, StoreChanged
  <2>3. CASE store' = [store EXCEPT ![x].skip = ~@]
    <3> DEFINE e == [store[x] EXCEPT !.skip = ~@]
    <3>1. store' = [store EXCEPT ![x] = e]
      BY <2>3
    <3>2. e.gen = store[x].gen
      BY <2>1, Numbers DEF Entry
    <3>3. e.gen <= mgr.copy.gen /\ e.gen # 0
      BY <1>4, <2>1, <3>2 DEF Touch, Exists, StoreInv
    <3> HIDE DEF e
    <3> QED BY <2>1, <3>1, <3>3, StoreChanged
  <2> QED BY <1>4, <2>2, <2>3 DEF Touch
<1>5. CASE Begin
  <2>1. mgr'.copy = cached /\ store' = store
    BY <1>5, IdleIs, Numbers DEF Begin
  <2> QED BY <1>0, <2>1, Numbers DEF StoreInv, CopiesInv, Aged
<1>6. CASE Crash \/ End
  <2>1. mgr'.copy = mgr.copy /\ store' = store
    BY <1>6, IdleIs, EndIs, Numbers DEF Crash
  <2> QED BY <2>1 DEF StoreInv
<1>7. CASE (\E s \in Specs : Update(s)) \/ Delete \/ Join \/ Sync \/ UNCHANGED vars
  <2>1. UNCHANGED <<store, mgr>>
    BY <1>7 DEF Update, Delete, Join, Sync, vars
  <2> QED BY <2>1 DEF StoreInv
<1> QED BY <1>1, <1>2, <1>3, <1>4, <1>5, <1>6, <1>7 DEF Next, ManagerStep

-----------------------------------------------------------------------------
(* What a step changes *)

\* A step that touches one object at most.
OnlyAt(x) ==
    \A o \in Objects \ {x} : store'[o] = store[o] /\ (o \in excused' <=> o \in excused)

LEMMA ChangesOnly ==
    ASSUME TypeOK, NEW x \in Objects, NEW e,
           store' \in {store, [store EXCEPT ![x] = e]},
           excused' \in {excused, excused \cup {x}, excused \ {x}}
    PROVE  OnlyAt(x)
<1> SUFFICES ASSUME NEW o \in Objects \ {x}
             PROVE  store'[o] = store[o] /\ (o \in excused' <=> o \in excused)
  BY DEF OnlyAt
<1>1. store'[o] = store[o]
  BY Numbers
<1>2. o \in excused' <=> o \in excused
  OBVIOUS
<1> QED BY <1>1, <1>2

LEMMA DoneElsewhere ==
    ASSUME NEW x, OnlyAt(x), mgr'.copy = mgr.copy, NEW c \in Calls, c.obj # x
    PROVE  Done(c)' <=> Done(c)
<1>1. c.obj \in Objects
  BY DEF Calls
<1>2. store'[c.obj] = store[c.obj] /\ (c.obj \in excused' <=> c.obj \in excused)
  BY <1>1 DEF OnlyAt
<1> QED BY <1>2 DEF Done, Applied, Removed, Stays, Exists

LEMMA RemovedElsewhere ==
    ASSUME NEW x, OnlyAt(x), NEW o \in Objects \ {x}
    PROVE  Removed(o)' <=> Removed(o)
BY DEF OnlyAt, Removed, Stays, Exists

\* What an apply leaves of the object it is for.
LEMMA ApplyIs ==
    ASSUME TypeOK, CopiesInv, StoreInv, Apply
    PROVE  /\ mgr.busy /\ mgr.step <= Last /\ Now.do = "apply" /\ Now.obj \in Objects
           /\ UNCHANGED <<yc, cached, masters>>
           /\ OnlyAt(Now.obj)
           /\ \/ DropPart
              \/ /\ Proceed
                 /\ \/ Now.obj \in excused'
                    \/ store[Now.obj].skip /\ store'[Now.obj] = store[Now.obj]
                    \/ store'[Now.obj] = Written(Now.obj)
<1>1. mgr.busy /\ mgr.step <= Last /\ Now.do = "apply" /\ UNCHANGED <<yc, cached, masters>>
  BY DEF Apply, Doing, PassFrame
<1>2. Now.obj \in Objects
  BY <1>1, NowIs DEF CopiesInv
<1>3. store' \in {store, [store EXCEPT ![Now.obj] = Written(Now.obj)]}
  BY DEF Apply
<1>4. excused' \in {excused, excused \cup {Now.obj}, excused \ {Now.obj}}
  BY DEF Apply
<1>5. OnlyAt(Now.obj)
  BY <1>2, <1>3, <1>4, ChangesOnly
<1>6. ASSUME ~DropPart
      PROVE  /\ Proceed
             /\ \/ Now.obj \in excused'
                \/ store[Now.obj].skip /\ store'[Now.obj] = store[Now.obj]
                \/ store'[Now.obj] = Written(Now.obj)
  <2>1. [store EXCEPT ![Now.obj] = Written(Now.obj)][Now.obj] = Written(Now.obj)
    BY <1>2, Numbers
  <2> QED BY <1>6, <2>1 DEF Apply
<1> QED BY <1>1, <1>2, <1>5, <1>6

LEMMA DeleteObjectIs ==
    ASSUME TypeOK, CopiesInv, StoreInv, DeleteObject
    PROVE  /\ mgr.busy /\ mgr.step <= Last /\ Now.do = "delete" /\ Now.obj \in Objects
           /\ UNCHANGED <<yc, cached, masters>>
           /\ OnlyAt(Now.obj)
           /\ store'[Now.obj] = Absent \/ store'[Now.obj] = store[Now.obj]
           /\ \/ DropPart /\ excused' = excused
              \/ /\ Proceed
                 /\ \/ Now.obj \in excused'
                    \/ store[Now.obj].skip /\ store'[Now.obj] = store[Now.obj]
                    \/ store'[Now.obj] = Absent
<1>1. mgr.busy /\ mgr.step <= Last /\ Now.do = "delete" /\ UNCHANGED <<yc, cached, masters>>
  BY DEF DeleteObject, Doing, PassFrame
<1>2. Now.obj \in Objects
  BY <1>1, NowIs DEF CopiesInv
<1>3. store' \in {store, [store EXCEPT ![Now.obj] = Absent]}
  BY DEF DeleteObject
<1>4. excused' \in {excused, excused \cup {Now.obj}, excused \ {Now.obj}}
  BY DEF DeleteObject
<1>5. OnlyAt(Now.obj)
  BY <1>2, <1>3, <1>4, ChangesOnly
<1>6. [store EXCEPT ![Now.obj] = Absent][Now.obj] = Absent
  BY <1>2, Numbers
<1>7. ASSUME ~(DropPart /\ excused' = excused)
      PROVE  /\ Proceed
             /\ \/ Now.obj \in excused'
                \/ store[Now.obj].skip /\ store'[Now.obj] = store[Now.obj]
                \/ store'[Now.obj] = Absent
  BY <1>6, <1>7 DEF DeleteObject
<1> QED BY <1>1, <1>2, <1>3, <1>5, <1>6, <1>7

LEMMA TouchIs ==
    ASSUME TypeOK, NEW x \in Touchable, Touch(x)
    PROVE  x \in Objects /\ OnlyAt(x) /\ x \in excused' /\ UNCHANGED <<yc, cached, masters, mgr>>
<1>1. x \in Objects
  BY ConstantsType
<1>2. store' = [store EXCEPT ![x] = Absent] \/ store' = [store EXCEPT ![x].skip = ~@]
  BY DEF Touch
<1>3. excused' = excused \cup {x} /\ UNCHANGED <<yc, cached, masters, mgr>>
  BY DEF Touch
<1>4. OnlyAt(x)
  <2>1. \E e : store' = [store EXCEPT ![x] = e]
    BY <1>2
  <2>2. PICK e : store' = [store EXCEPT ![x] = e]
    BY <2>1
  <2>3. store' \in {store, [store EXCEPT ![x] = e]}
    BY <2>2
  <2>4. excused' \in {excused, excused \cup {x}, excused \ {x}}
    BY <1>3
  <2> QED BY <1>1, <2>3, <2>4, ChangesOnly
<1> QED BY <1>1, <1>3, <1>4

-----------------------------------------------------------------------------
(* What a pass has done *)

LEMMA PlanSame ==
    ASSUME TypeOK, mgr'.copy = mgr.copy
    PROVE  Plan' = Plan /\ Last' = Last /\ Last \in Nat /\ Plan \in Seq(Calls)
           /\ \A i \in 1..Last : Plan[i] \in Calls /\ Plan[i] \in PlanSet(mgr.copy)
<1>1. mgr.copy \in Clusters
  BY Numbers
<1>2. Plan \in Seq(Calls) /\ CallsOf(Plan) = PlanSet(mgr.copy)
  BY <1>1, PlanIs DEF Prefix, Plan
<1>3. Last \in Nat /\ \A i \in 1..Last : Plan[i] \in Calls /\ Plan[i] \in CallsOf(Plan)
  BY <1>2, LenProperties, ElementOfSeq DEF Last, CallsOf
<1>4. Plan' = Plan /\ Last' = Last
  BY DEF Plan, Last
<1> QED BY <1>2, <1>3, <1>4

LEMMA Together ==
    ASSUME TypeOK, NEW i \in 1..Last, NEW j \in 1..Last, NEW k \in 1..Last, i <= j, j <= k,
           Plan[i].part = Plan[k].part
    PROVE  Plan[j].part = Plan[i].part
BY Numbers, PartsStandTogether DEF Plan, Last

LEMMA PassDrops ==
    ASSUME TypeOK, CopiesInv, mgr.step <= Last, DropPart
    PROVE  PassInv'
<1>1. mgr.step \in 1..Last /\ Last \in Nat
  BY NowIs DEF CopiesInv
<1>2. /\ mgr'.step \in mgr.step + 1..Last + 1 /\ SamePart(mgr'.step)
      /\ mgr'.copy = mgr.copy /\ mgr'.err
  BY Drops
<1>3. Plan' = Plan /\ Last' = Last
  BY <1>2, PlanSame
<1>4. ~Clear'
  BY <1>2 DEF Clear
<1>5. ASSUME NEW i \in 1..Last, i < mgr'.step, mgr'.step <= Last, Plan[i].part = Plan[mgr'.step].part
      PROVE  FALSE
  <2>1. Plan[mgr'.step].part # Plan[mgr.step].part
    BY <1>2, <1>5 DEF SamePart, Now
  <2>2. CASE i >= mgr.step
    <3>1. i \in mgr.step..mgr'.step - 1
      BY <1>1, <1>2, <1>5, <2>2
    <3> QED BY <1>2, <1>5, <2>1, <3>1 DEF SamePart, Now
  <2>3. CASE i < mgr.step
    <3>1. i <= mgr.step /\ mgr.step <= mgr'.step /\ mgr'.step \in 1..Last
      BY <1>1, <1>2, <1>5, <2>3
    <3> QED BY <1>1, <1>5, <2>1, <3>1, Together
  <2> QED BY <1>1, <2>2, <2>3
<1> QED BY <1>3, <1>4, <1>5 DEF PassInv, Now

\* A call that has been done, while those before it stay done.
LEMMA PassProceeds ==
    ASSUME TypeOK, CopiesInv, PassInv, mgr.busy, mgr.step <= Last,
           mgr'.copy = mgr.copy, mgr'.step = mgr.step + 1, mgr'.err = mgr.err, mgr'.busy = mgr.busy,
           \A c \in Calls : c \in PlanSet(mgr.copy) /\ (Done(c) \/ c = Now) => Done(c)'
    PROVE  PassInv'
<1>1. mgr.step \in 1..Last /\ Last \in Nat
  BY NowIs DEF CopiesInv
<1>2. /\ Plan' = Plan /\ Last' = Last
      /\ \A i \in 1..Last : Plan[i] \in Calls /\ Plan[i] \in PlanSet(mgr.copy)
  BY PlanSame
<1>3. Clear' <=> Clear
  BY DEF Clear
<1>4. ASSUME NEW i \in 1..Last, i < mgr.step + 1,
             Clear \/ (mgr.step + 1 <= Last /\ Plan[i].part = Plan[mgr.step + 1].part),
             NEW c \in Calls, c = Plan[i]
      PROVE  Done(c)'
  <2>1. CASE i = mgr.step
    BY <1>2, <1>4, <2>1 DEF Now
  <2>2. CASE i < mgr.step
    <3>1. Clear \/ Plan[i].part = Now.part
      <4>1. CASE mgr.step + 1 <= Last /\ Plan[i].part = Plan[mgr.step + 1].part
        <5>1. i <= mgr.step /\ mgr.step <= mgr.step + 1 /\ mgr.step + 1 \in 1..Last
          BY <1>1, <2>2, <4>1
        <5> QED BY <1>1, <4>1, <5>1, Together DEF Now
      <4> QED BY <1>4, <4>1
    <3>2. Done(Plan[i])
      BY <1>1, <1>4, <2>2, <3>1 DEF PassInv
    <3> QED BY <1>2, <1>4, <3>2
  <2> QED BY <1>1, <1>4, <2>1, <2>2
<1>5. ASSUME NEW i \in 1..Last, \A c \in Calls : c = Plan[i] => Done(c)'
      PROVE  Done(Plan[i])'
  BY <1>2, <1>5 DEF Done, Applied, Removed, Stays, Exists
<1>6. ASSUME NEW i \in 1..Last, i < mgr.step + 1,
             Clear \/ (mgr.step + 1 <= Last /\ Plan[i].part = Plan[mgr.step + 1].part)
      PROVE  Done(Plan[i])'
  BY <1>4, <1>5, <1>6
<1> QED BY <1>2, <1>3, <1>6 DEF PassInv, Now

LEMMA PassStays ==
    ASSUME TypeOK, PassInv, mgr' = mgr, \A c \in Calls : Done(c) => Done(c)'
    PROVE  PassInv'
<1>1. /\ Plan' = Plan /\ Last' = Last
      /\ \A i \in 1..Last : Plan[i] \in Calls
  BY PlanSame
<1>2. ASSUME NEW i \in 1..Last, \A c \in Calls : c = Plan[i] => Done(c)'
      PROVE  Done(Plan[i])'
  BY <1>1, <1>2 DEF Done, Applied, Removed, Stays, Exists
<1>3. ASSUME NEW i \in 1..Last, Done(Plan[i])
      PROVE  Done(Plan[i])'
  BY <1>1, <1>2, <1>3
<1>4. Clear' <=> Clear
  BY DEF Clear
<1> QED BY <1>1, <1>3, <1>4 DEF PassInv, Now

LEMMA PassKept ==
    ASSUME TypeOK, CopiesInv, StoreInv, PassInv, Next \/ UNCHANGED vars
    PROVE  PassInv'
<1>0. mgr.copy \in Clusters /\ mgr.step \in Nat /\ mgr.step >= 1 /\ mgr.copy.gen >= 1 /\ mgr.copy.gen \in Nat
  BY Numbers DEF CopiesInv
<1>1. CASE Apply
  <2>1. /\ mgr.busy /\ mgr.step <= Last /\ Now.do = "apply" /\ Now.obj \in Objects /\ OnlyAt(Now.obj)
        /\ Now \in PlanSet(mgr.copy)
    BY <1>0, <1>1, ApplyIs, NowIs
  <2>2. CASE DropPart
    BY <2>1, <2>2, PassDrops
  <2>3. CASE ~DropPart
    <3>1. /\ Proceed
          /\ \/ Now.obj \in excused'
             \/ store[Now.obj].skip /\ store'[Now.obj] = store[Now.obj]
             \/ store'[Now.obj] = Written(Now.obj)
      BY <1>1, <2>3, ApplyIs
    <3>2. /\ mgr'.copy = mgr.copy /\ mgr'.step = mgr.step + 1
          /\ mgr'.err = mgr.err /\ mgr'.busy = mgr.busy
      BY <3>1, GoesOn
    <3>3. Written(Now.obj).gen = mgr.copy.gen
      BY <2>1, WrittenType
    <3>4. ASSUME NEW c \in Calls, c \in PlanSet(mgr.copy), Done(c) \/ c = Now
          PROVE  Done(c)'
      <4>1. CASE c.obj = Now.obj
        <5>1. c.do # "delete"
          BY <1>0, <2>1, <3>4, <4>1, CallsAre DEF Unwanted
        <5>2. store[Now.obj].skip => store[Now.obj].gen # 0
          BY <2>1 DEF StoreInv
        <5>3. Applied(c.obj)'
          BY <3>1, <3>2, <3>3, <4>1, <5>2 DEF Applied, Stays, Exists
        <5> QED BY <5>1, <5>3 DEF Done
      <4>2. CASE c.obj # Now.obj
        BY <2>1, <3>2, <3>4, <4>2, DoneElsewhere
      <4> QED BY <4>1, <4>2
    <3> QED BY <2>1, <3>2, <3>4, PassProceeds
  <2> QED BY <2>2, <2>3
<1>2. CASE DeleteObject
  <2>1. /\ mgr.busy /\ mgr.step <= Last /\ Now.do = "delete" /\ Now.obj \in Objects /\ OnlyAt(Now.obj)
        /\ Now \in PlanSet(mgr.copy)
    BY <1>0, <1>2, DeleteObjectIs, NowIs
  <2>2. CASE DropPart
    BY <2>1, <2>2, PassDrops
  <2>3. CASE ~DropPart
    <3>1. /\ Proceed
          /\ \/ Now.obj \in excused'
             \/ store[Now.obj].skip /\ store'[Now.obj] = store[Now.obj]
             \/ store'[Now.obj] = Absent
      BY <1>2, <2>3, DeleteObjectIs
    <3>2. /\ mgr'.copy = mgr.copy /\ mgr'.step = mgr.step + 1
          /\ mgr'.err = mgr.err /\ mgr'.busy = mgr.busy
      BY <3>1, GoesOn
    <3>3. ASSUME NEW c \in Calls, c \in PlanSet(mgr.copy), Done(c) \/ c = Now
          PROVE  Done(c)'
      <4>1. CASE c.obj = Now.obj
        <5>1. c.do # "apply"
          BY <1>0, <2>1, <3>3, <4>1, CallsAre DEF Unwanted
        <5>2. store[Now.obj].skip => store[Now.obj].gen # 0
          BY <2>1 DEF StoreInv
        <5>3. Removed(c.obj)'
          BY <3>1, <4>1, <5>2, AbsentType DEF Removed, Stays, Exists
        <5> QED BY <5>1, <5>3 DEF Done
      <4>2. CASE c.obj # Now.obj
        BY <2>1, <3>2, <3>3, <4>2, DoneElsewhere
      <4> QED BY <4>1, <4>2
    <3> QED BY <2>1, <3>2, <3>3, PassProceeds
  <2> QED BY <2>2, <2>3
<1>3. CASE Load \/ Count
  <2>1. /\ mgr.busy /\ mgr.step <= Last /\ Now.do \in {"load", "count"} /\ UNCHANGED <<store, excused>>
    BY <1>3 DEF Load, Count, Doing
  <2>2. CASE DropPart
    BY <2>1, <2>2, PassDrops
  <2>3. CASE ~DropPart
    <3>1. /\ mgr'.copy = mgr.copy /\ mgr'.step = mgr.step + 1
          /\ mgr'.err = mgr.err /\ mgr'.busy = mgr.busy
      BY <1>3, <2>3, GoesOn, Counts DEF Load, Count
    <3>2. ASSUME NEW c \in Calls, Done(c) \/ c = Now
          PROVE  Done(c)'
      BY <2>1, <3>1, <3>2 DEF Done, Applied, Removed, Stays, Exists
    <3> QED BY <2>1, <3>1, <3>2, PassProceeds
  <2> QED BY <2>2, <2>3
<1>4. CASE Panic
  <2>1. mgr.step <= Last /\ Now.do = "panic"
    BY <1>4 DEF Panic, Doing
  <2>2. Now \in PlanSet(mgr.copy)
    BY <1>0, <2>1, NowIs
  <2>3. ~mgr.copy.deleting /\ ~NoNil(mgr.copy.spec)
    BY <1>0, <2>1, <2>2, CallsAre
  <2>4. mgr'.step = Last + 1 /\ mgr'.copy = mgr.copy /\ Last \in Nat
    BY <1>0, <1>4, Unwinds
  <2>5. ~Clear' /\ Last' = Last
    BY <2>3, <2>4, PlanSame DEF Clear
  <2> QED BY <2>4, <2>5 DEF PassInv
<1>5. ASSUME NEW x \in Touchable, Touch(x) PROVE PassInv'
  <2>1. OnlyAt(x) /\ x \in excused' /\ mgr' = mgr
    BY <1>5, TouchIs
  <2>2. \A c \in Calls : Done(c) => Done(c)'
    <3> SUFFICES ASSUME NEW c \in Calls, Done(c) PROVE Done(c)'
      OBVIOUS
    <3>1. CASE c.obj = x
      BY <2>1, <3>1 DEF Done, Applied, Removed
    <3>2. CASE c.obj # x
      BY <2>1, <3>2, DoneElsewhere
    <3> QED BY <3>1, <3>2
  <2> QED BY <2>1, <2>2, PassStays
<1>6. CASE Begin \/ End \/ Crash
  <2>1. ~mgr'.busy \/ mgr'.step = 1
    BY <1>6, EndIs, IdleIs, Numbers DEF Begin, Crash
  <2>2. \A i \in 1..Last' : ~(i < 1)
    OBVIOUS
  <2> QED BY <2>1, <2>2 DEF PassInv
<1>7. CASE (\E s \in Specs : Update(s)) \/ Delete \/ Join \/ Sync \/ UNCHANGED vars
  <2>1. mgr' = mgr /\ UNCHANGED <<store, excused>>
    BY <1>7 DEF Update, Delete, Join, Sync, vars
  <2>2. \A c \in Calls : Done(c) => Done(c)'
    BY <2>1 DEF Done, Applied, Removed, Stays, Exists
  <2> QED BY <2>1, <2>2, PassStays
<1> QED BY <1>1, <1>2, <1>3, <1>4, <1>5, <1>6, <1>7 DEF Next, ManagerStep

-----------------------------------------------------------------------------
(* The order of a pass: accounts, roles and config before the workloads *)

LEMMA BaseSets ==
    /\ WorkloadHasItsBase <=>
         \A w \in Daemons, o \in Bases :
            Exists(w) /\ ~Stays(w) /\ o \notin excused /\ w \notin excused =>
                Stays(o) \/ store[o].gen >= store[w].gen
    /\ Daemons \subseteq Objects /\ Bases \subseteq Kept /\ Kept \subseteq Objects
    /\ Daemons \cap Bases = {}
<1>1. Daemons = ToSet(Workloads)
  BY Lists DEF Daemons
<1>2. Daemons \subseteq Objects /\ Bases \subseteq Kept /\ Kept \subseteq Objects
  BY Lists DEF Daemons, Bases, Kept, Objects
<1>3. Daemons \cap Bases = {}
  BY DEF Daemons, Bases
<1> QED BY <1>1, <1>2, <1>3 DEF WorkloadHasItsBase, Bases

\* One pair of a workload and a base.
BaseOf(w, o) ==
    Exists(w) /\ ~Stays(w) /\ o \notin excused /\ w \notin excused =>
        Stays(o) \/ store[o].gen >= store[w].gen

LEMMA BasePairs == WorkloadHasItsBase <=> \A w \in Daemons, o \in Bases : BaseOf(w, o)
BY BaseSets DEF BaseOf

LEMMA BaseElsewhere ==
    ASSUME NEW x, OnlyAt(x), NEW w \in Daemons, NEW o \in Bases, x # w, x # o, BaseOf(w, o)
    PROVE  BaseOf(w, o)'
<1>1. w \in Objects \ {x} /\ o \in Objects \ {x}
  BY BaseSets
<1>2. store'[w] = store[w] /\ (w \in excused' <=> w \in excused)
  BY <1>1 DEF OnlyAt
<1>3. store'[o] = store[o] /\ (o \in excused' <=> o \in excused)
  BY <1>1 DEF OnlyAt
<1> QED BY <1>2, <1>3 DEF BaseOf, Exists, Stays

\* A workload is applied when its bases have been.
LEMMA BaseApplied ==
    ASSUME TypeOK, CopiesInv, PassInv, mgr.busy, mgr.step <= Last,
           Now.do = "apply", Now.obj \in Daemons, NEW o \in Bases
    PROVE  Applied(o)
<1> DEFINE base == CallOf("apply", o, "tunnel")
<1>1. mgr.step \in 1..Last /\ Last \in Nat /\ Now \in PlanSet(mgr.copy) /\ mgr.copy \in Clusters
  BY NowIs, Numbers DEF CopiesInv
<1>2. IsWorkload(Now)
  BY DEF IsWorkload, Daemons
<1>3. Now.part = "tunnel"
  BY <1>1, <1>2, CallsAre
<1>4. BasesFirst(Plan)
  BY <1>1, PlanIs DEF Prefix, Plan
<1>5. base \in BaseCalls
  BY DEF BaseCalls, CallOf
<1>6. PICK j \in 1..mgr.step - 1 : Plan[j] = base
  BY <1>1, <1>2, <1>4, <1>5 DEF BasesFirst, Now, Last
<1>7. base.part = "tunnel" /\ base.do = "apply" /\ base.obj = o
  BY DEF CallOf
<1>8. j \in 1..Last /\ j < mgr.step
  BY <1>1, <1>6
<1>9. Done(Plan[j])
  BY <1>3, <1>6, <1>7, <1>8 DEF PassInv
<1> QED BY <1>6, <1>7, <1>9 DEF Done

LEMMA BaseKept ==
    ASSUME TypeOK, CopiesInv, StoreInv, PassInv, WorkloadHasItsBase, Next \/ UNCHANGED vars
    PROVE  WorkloadHasItsBase'
<1>0. mgr.copy \in Clusters /\ mgr.step \in Nat /\ mgr.step >= 1 /\ mgr.copy.gen \in Nat
  BY Numbers DEF CopiesInv
<1> SUFFICES ASSUME NEW w \in Daemons, NEW o \in Bases, BaseOf(w, o)
             PROVE  BaseOf(w, o)'
  <2>1. WorkloadHasItsBase' <=> \A w \in Daemons, o \in Bases : BaseOf(w, o)'
    <3>1. Daemons = ToSet(Workloads) /\ Bases = {"serverAccount", "serverRole", "serverBinding", "serverCfg"}
      BY Lists DEF Daemons, Bases
    <3> QED BY <3>1 DEF WorkloadHasItsBase, BaseOf, Exists, Stays
  <2> QED BY <2>1, BasePairs
<1>1. w \in Objects /\ o \in Objects /\ w # o /\ o \in Kept
  BY BaseSets
<1>2. store[w].gen \in Nat /\ store[o].gen \in Nat /\ store[w].gen <= mgr.copy.gen
  BY <1>1, Numbers DEF StoreInv
<1>3. CASE Apply
  <2> DEFINE x == Now.obj
  <2>1. mgr.busy /\ mgr.step <= Last /\ Now.do = "apply" /\ x \in Objects /\ OnlyAt(x)
    BY <1>3, ApplyIs
  <2>2. Written(x).gen = mgr.copy.gen
    BY <2>1, WrittenType
  <2>3. \/ store'[x] = store[x] /\ (excused' = excused \/ store[x].skip)
        \/ store'[x] = Written(x) /\ (x \in excused' \/ excused' = excused \ {x})
        \/ store'[x] = Written(x) /\ excused' = excused
    <3>1. [store EXCEPT ![x] = Written(x)][x] = Written(x)
      BY <2>1, Numbers
    <3> QED BY <1>3, <3>1 DEF Apply
  <2>4. store[x].skip => store[x].gen # 0
    BY <2>1 DEF StoreInv
  <2>5. CASE x = o
    <3>1. store'[w] = store[w] /\ (w \in excused' <=> w \in excused)
      BY <1>1, <2>1, <2>5 DEF OnlyAt
    <3>2. CASE store'[x] = Written(x)
      BY <1>2, <2>2, <2>5, <3>1, <3>2 DEF BaseOf
    <3>3. CASE store'[x] = store[x] /\ (excused' = excused \/ store[x].skip)
      BY <2>4, <2>5, <3>1, <3>3 DEF BaseOf, Exists, Stays
    <3> QED BY <2>3, <3>2, <3>3
  <2>6. CASE x = w
    <3>1. store'[o] = store[o] /\ (o \in excused' <=> o \in excused)
      BY <1>1, <2>1, <2>6 DEF OnlyAt
    <3>2. CASE store'[x] = Written(x)
      <4>1. Applied(o)
        BY <2>1, <2>6, BaseApplied
      <4> QED BY <1>0, <2>2, <2>6, <3>1, <3>2, <4>1 DEF BaseOf, Applied, Exists, Stays
    <3>3. CASE store'[x] = store[x] /\ (excused' = excused \/ store[x].skip)
      BY <2>4, <2>6, <3>1, <3>3 DEF BaseOf, Exists, Stays
    <3> QED BY <2>3, <3>2, <3>3
  <2>7. CASE x # o /\ x # w
    BY <2>1, <2>7, BaseElsewhere
  <2> QED BY <2>5, <2>6, <2>7
<1>4. CASE DeleteObject
  <2> DEFINE x == Now.obj
  <2>1. mgr.step <= Last /\ Now.do = "delete" /\ x \in Objects /\ OnlyAt(x)
    BY <1>4, DeleteObjectIs
  <2>2. x # o
    <3>1. Now \in PlanSet(mgr.copy)
      BY <1>0, <2>1, NowIs
    <3>2. x \notin Kept
      BY <1>0, <2>1, <3>1, CallsAre DEF Unwanted
    <3> QED BY <1>1, <3>2
  <2>3. CASE x = w
    <3>1. store'[o] = store[o] /\ (o \in excused' <=> o \in excused)
      BY <1>1, <2>1, <2>3 DEF OnlyAt
    <3>2. CASE store'[x] = Absent
      BY <2>3, <3>2, AbsentType DEF BaseOf, Exists
    <3>3. CASE store'[x] = store[x] /\ (x \in excused' \/ store[x].skip \/ excused' = excused)
      <4>1. store[x].skip => store[x].gen # 0
        BY <2>1 DEF StoreInv
      <4> QED BY <2>3, <3>1, <3>3, <4>1 DEF BaseOf, Exists, Stays
    <3> QED BY <1>4, <3>2, <3>3, DeleteObjectIs
  <2>4. CASE x # w
    BY <2>1, <2>2, <2>4, BaseElsewhere
  <2> QED BY <2>3, <2>4
<1>5. ASSUME NEW x \in Touchable, Touch(x) PROVE BaseOf(w, o)'
  <2>1. OnlyAt(x) /\ x \in excused'
    BY <1>5, TouchIs
  <2>2. CASE x = w \/ x = o
    BY <2>1, <2>2 DEF BaseOf
  <2>3. CASE x # w /\ x # o
    BY <2>1, <2>3, BaseElsewhere
  <2> QED BY <2>2, <2>3
<1>6. CASE UNCHANGED <<store, excused>>
  BY <1>6 DEF BaseOf, Exists, Stays
<1>7. (Next \/ UNCHANGED vars) =>
        Apply \/ DeleteObject \/ (\E x \in Touchable : Touch(x)) \/ UNCHANGED <<store, excused>>
  BY DEF Next, ManagerStep, Update, Delete, Join, Sync, Crash, Begin, Load, Count, Panic, End, vars
<1> QED BY <1>3, <1>4, <1>5, <1>6, <1>7

-----------------------------------------------------------------------------
(* What a deletion leaves *)

Antecedent == yc.state = "gone" \/ Seen(yc) \/ Seen(cached) \/ Seen(mgr.copy)

\* A pass that ends without an error has done all of its plan.
LEMMA AllDoneAtEnd ==
    ASSUME TypeOK, PassInv, mgr.busy, mgr.step > Last, ~mgr.err, mgr.copy.deleting \/ NoNil(mgr.copy.spec)
    PROVE  /\ ~mgr.copy.deleting => \A o \in Wanted(mgr.copy.spec) : Applied(o)
           /\ \A o \in Unwanted(mgr.copy.spec, mgr.copy.deleting) : Removed(o)
<1>1. mgr.copy \in Clusters /\ mgr.step \in Nat
  BY Numbers
<1>2. Plan \in Seq(Calls) /\ CallsOf(Plan) = PlanSet(mgr.copy)
  BY <1>1, PlanIs DEF Prefix, Plan
<1>3. \A i \in 1..Last : Done(Plan[i])
  <2>1. Clear
    BY DEF Clear
  <2>2. Last \in Nat
    BY <1>2, LenProperties DEF Last
  <2> QED BY <1>1, <2>1, <2>2 DEF PassInv
<1>4. \A c \in PlanSet(mgr.copy) : Done(c)
  BY <1>2, <1>3 DEF CallsOf, Last
<1>5. ASSUME ~mgr.copy.deleting, NEW o \in Wanted(mgr.copy.spec) PROVE Applied(o)
  <2>1. PICK c \in PlanSet(mgr.copy) : c.do = "apply" /\ c.obj = o
    BY <1>1, <1>5, AllAreSeenTo
  <2> QED BY <1>4, <2>1 DEF Done
<1>6. ASSUME NEW o \in Unwanted(mgr.copy.spec, mgr.copy.deleting) PROVE Removed(o)
  <2>1. PICK c \in PlanSet(mgr.copy) : c.do = "delete" /\ c.obj = o
    BY <1>1, <1>6, AllAreSeenTo
  <2> QED BY <1>4, <2>1 DEF Done
<1> QED BY <1>5, <1>6

LEMMA CleanSame ==
    ASSUME CleanInv, UNCHANGED <<store, excused>>, mgr'.copy = mgr.copy, Antecedent' => Antecedent
    PROVE  CleanInv'
<1>1. Clean' <=> Clean
  BY DEF Clean, Removed, Stays, Exists
<1> QED BY <1>1 DEF CleanInv, Antecedent

LEMMA CleanKept ==
    ASSUME TypeOK, CopiesInv, StoreInv, PassInv, CleanInv, Next \/ UNCHANGED vars
    PROVE  CleanInv'
<1>0. /\ mgr.copy \in Clusters /\ cached \in Clusters /\ yc \in Clusters
      /\ yc.gen \in Nat /\ yc.obs \in Nat /\ mgr.copy.gen \in Nat /\ mgr.copy.obs \in Nat
      /\ mgr.step \in Nat /\ mgr.step >= 1
  BY Numbers DEF CopiesInv
<1>1. CASE (\E s \in Specs : Update(s)) \/ Delete
  <2>1. yc'.gen = yc.gen + 1 /\ yc'.obs = yc.obs /\ yc'.state = yc.state
    BY <1>0, <1>1, UpdateIs, DeleteIs
  <2>2. ~Seen(yc)'
    BY <1>0, <2>1 DEF Seen, CopiesInv
  <2>3. UNCHANGED <<cached, mgr, store, excused>>
    BY <1>1 DEF Update, Delete
  <2>4. Antecedent' => Antecedent
    BY <2>1, <2>2, <2>3 DEF Antecedent, Seen
  <2> QED BY <2>3, <2>4, CleanSame
<1>2. CASE Sync \/ Crash
  <2>1. cached' \in {yc, cached} /\ yc' = yc /\ mgr'.copy = mgr.copy /\ UNCHANGED <<store, excused>>
    BY <1>0, <1>2, IdleIs DEF Sync, Crash
  <2>2. Antecedent' => Antecedent
    BY <2>1 DEF Antecedent, Seen
  <2> QED BY <2>1, <2>2, CleanSame
<1>3. CASE Begin
  <2>1. mgr'.copy = cached /\ UNCHANGED <<yc, cached, store, excused>>
    BY <1>0, <1>3, IdleIs DEF Begin
  <2>2. Antecedent' => Antecedent
    BY <2>1 DEF Antecedent, Seen
  <2>3. mgr.copy.deleting => mgr'.copy.deleting
    BY <2>1 DEF CopiesInv, Aged
  <2>4. Clean' <=> Clean
    BY <2>1 DEF Clean, Removed, Stays, Exists
  <2> QED BY <2>2, <2>3, <2>4 DEF CleanInv, Antecedent
<1>4. CASE Join \/ Load \/ Count \/ Panic \/ UNCHANGED vars
  <2>1. mgr'.copy = mgr.copy
    BY <1>0, <1>4, GoesOn, Drops, Counts, Unwinds DEF Join, Load, Count, Panic, vars
  <2>2. UNCHANGED <<yc, cached, store, excused>>
    BY <1>4 DEF Join, Load, Count, Panic, PassFrame, vars
  <2>3. Antecedent' => Antecedent
    BY <2>1, <2>2 DEF Antecedent, Seen
  <2> QED BY <2>1, <2>2, <2>3, CleanSame
<1>5. ASSUME NEW x \in Touchable, Touch(x) PROVE CleanInv'
  <2>1. OnlyAt(x) /\ x \in excused' /\ UNCHANGED <<yc, cached, mgr>>
    BY <1>5, TouchIs
  <2>2. Clean => Clean'
    <3> SUFFICES ASSUME NEW o \in Objects \ Kept, Removed(o) PROVE Removed(o)'
      BY DEF Clean
    <3>1. CASE o = x
      BY <2>1, <3>1 DEF Removed
    <3>2. CASE o # x
      BY <2>1, <3>2, RemovedElsewhere
    <3> QED BY <3>1, <3>2
  <2>3. Antecedent' => Antecedent
    BY <2>1 DEF Antecedent, Seen
  <2> QED BY <2>1, <2>2, <2>3 DEF CleanInv, Antecedent
<1>6. CASE Apply
  <2>1. mgr.step <= Last /\ Now.do = "apply" /\ UNCHANGED <<yc, cached>>
    BY <1>6, ApplyIs
  <2>2. ~mgr.copy.deleting
    BY <1>0, <2>1, NowIs, CallsAre
  <2>3. mgr'.copy = mgr.copy
    BY <1>6, GoesOn, Drops DEF Apply
  <2>4. ~Antecedent /\ ~Antecedent'
    BY <2>1, <2>2, <2>3 DEF CleanInv, Antecedent, Seen
  <2> QED BY <2>4 DEF CleanInv, Antecedent
<1>7. CASE DeleteObject
  <2> DEFINE x == Now.obj
  <2>1. x \in Objects /\ OnlyAt(x) /\ UNCHANGED <<yc, cached>>
    BY <1>7, DeleteObjectIs
  <2>2. mgr'.copy = mgr.copy
    BY <1>7, GoesOn, Drops DEF DeleteObject
  <2>3. Clean => Clean'
    <3> SUFFICES ASSUME NEW o \in Objects \ Kept, Removed(o) PROVE Removed(o)'
      BY DEF Clean
    <3>1. CASE o = x
      <4>1. CASE store'[x] = Absent
        BY <3>1, <4>1, AbsentType DEF Removed, Exists
      <4>2. CASE store'[x] = store[x] /\ (x \in excused' \/ store[x].skip \/ excused' = excused)
        <5>1. store[x].skip => store[x].gen # 0
          BY <2>1 DEF StoreInv
        <5> QED BY <3>1, <4>2, <5>1 DEF Removed, Stays, Exists
      <4> QED BY <1>7, <4>1, <4>2, DeleteObjectIs
    <3>2. CASE o # x
      BY <2>1, <3>2, RemovedElsewhere
    <3> QED BY <3>1, <3>2
  <2>4. Antecedent' => Antecedent
    BY <2>1, <2>2 DEF Antecedent, Seen
  <2> QED BY <2>2, <2>3, <2>4 DEF CleanInv, Antecedent
<1>8. CASE End
  <2>1. /\ mgr.busy /\ mgr.step > Last /\ mgr'.copy = mgr.copy
        /\ UNCHANGED <<cached, store, excused>>
        /\ yc'.gen = yc.gen /\ yc'.deleting = yc.deleting
    BY <1>0, <1>8, EndIs, IdleIs
  <2>2. CASE Antecedent
    BY <2>1, <2>2, CleanSame
  <2>3. CASE ~Antecedent /\ Antecedent'
    <3>1. \/ mgr.copy.deleting /\ Observed = mgr.copy.gen
          \/ Seen(yc)' /\ Observed # mgr.copy.obs /\ yc'.obs = Observed
      BY <1>8, <2>1, <2>3, EndIs DEF Antecedent, Seen
    <3>2. Observed = mgr.copy.gen /\ ~mgr.err
      BY <2>3, <3>1 DEF Observed, Antecedent, Seen
    <3>3. mgr.copy.deleting
      BY <1>0, <2>1, <3>1, <3>2 DEF Seen, CopiesInv, Agree
    <3>4. \A o \in Unwanted(mgr.copy.spec, TRUE) : Removed(o)
      <4>1. mgr.copy.deleting = TRUE
        BY <3>3, Numbers
      <4> QED BY <2>1, <3>2, <4>1, AllDoneAtEnd
    <3>5. Clean
      BY <3>4 DEF Clean, Unwanted
    <3>6. Clean'
      BY <2>1, <3>5 DEF Clean, Removed, Stays, Exists
    <3> QED BY <2>1, <3>3, <3>6 DEF CleanInv
  <2>4. CASE ~Antecedent'
    BY <2>4 DEF CleanInv, Antecedent
  <2> QED BY <2>2, <2>3, <2>4
<1> QED BY <1>1, <1>2, <1>3, <1>4, <1>5, <1>6, <1>7, <1>8 DEF Next, ManagerStep

-----------------------------------------------------------------------------
(* The theorems *)

IInv == TypeOK /\ CopyInv /\ PassInv /\ WorkloadHasItsBase /\ CleanInv

LEMMA Starts == Init => IInv
<1> SUFFICES ASSUME Init PROVE IInv
  OBVIOUS
<1>1. /\ yc \in Clusters /\ yc.gen = 1 /\ yc.obs = 0 /\ yc.state = "present" /\ ~yc.deleting
      /\ cached = yc /\ mgr = Idle(yc)
  <2>1. yc \in [state: {"present"}, gen: {1}, spec: Specs, deleting: {FALSE}, obs: {0}]
    BY DEF Init
  <2>2. yc \in Clusters
    <3>1. PICK spec \in Specs :
            yc = [state |-> "present", gen |-> 1, spec |-> spec, deleting |-> FALSE, obs |-> 0]
      BY <2>1
    <3> QED BY <3>1 DEF Clusters
  <2>3. yc.gen = 1 /\ yc.obs = 0 /\ yc.state = "present" /\ ~yc.deleting
    BY <2>1
  <2> QED BY <2>2, <2>3 DEF Init
<1>2. mgr \in Managers /\ mgr.copy = yc /\ mgr.step = 1 /\ ~mgr.busy
  BY <1>1, IdleIs
<1>3. store \in [Objects -> Entry] /\ \A o \in Objects : store[o] = Absent
  BY AbsentType DEF Init
<1>4. TypeOK
  BY <1>1, <1>2, <1>3 DEF Init, TypeOK, Entry
<1>5. CopyInv
  BY <1>1, <1>2, <1>3, AbsentType DEF CopyInv
<1>6. PassInv
  BY <1>2 DEF PassInv
<1>7. WorkloadHasItsBase
  BY <1>3, AbsentType, BaseSets DEF Exists
<1>8. CleanInv
  BY <1>1, <1>2 DEF CleanInv, Seen
<1> QED BY <1>4, <1>5, <1>6, <1>7, <1>8 DEF IInv

LEMMA Goes == IInv /\ [Next]_vars => IInv'
<1> SUFFICES ASSUME IInv, [Next]_vars PROVE IInv'
  OBVIOUS
<1>1. TypeOK /\ CopiesInv /\ StoreInv /\ PassInv /\ WorkloadHasItsBase /\ CleanInv
  BY CopyInvIs DEF IInv
<1>2. TypeOK'
  BY <1>1, TypePass, TypeAround DEF Next, ManagerStep, CopiesInv
<1>3. CopyInv'
  <2>1. CopiesInv' /\ StoreInv'
    BY <1>1, CopiesKept, StoreKept
  <2> QED BY <2>1 DEF CopyInv, CopiesInv, StoreInv, Aged, Agree
<1>4. PassInv' /\ WorkloadHasItsBase' /\ CleanInv'
  BY <1>1, PassKept, BaseKept, CleanKept
<1> QED BY <1>2, <1>3, <1>4 DEF IInv

LEMMA Always == Spec => []IInv
BY Starts, Goes, PTL DEF Spec

\* Every variable of a pass and of the objects keeps its type, for any specs,
\* any control plane and any faults.
THEOREM TypeCorrect == Spec => []TypeOK
<1>1. IInv => TypeOK
  BY DEF IInv
<1> QED BY <1>1, Always, PTL

\* Whatever call of a pass fails, in whatever pass: no workload of the tunnel
\* server is there without its account, its roles and its config, nor newer
\* than they are.
THEOREM BasesFirstAlways == Spec => []WorkloadHasItsBase
<1>1. IInv => WorkloadHasItsBase
  BY DEF IInv
<1> QED BY <1>1, Always, PTL

\* A YurtCluster that is gone has left only what a deletion never removes,
\* annotated objects, and those that a failed read or an administrator excuses.
THEOREM LittleIsLeft == Spec => []GoneLeavesLittle
<1>1. IInv => GoneLeavesLittle
  BY DEF IInv, CleanInv, Clean, Removed, GoneLeavesLittle
<1> QED BY <1>1, Always, PTL

\* The observed generation stands for the objects: when it rises, each of them
\* is there at that generation, or gone, as the spec of that generation asks.
THEOREM ObservedIsThere == Spec => ObservedMeansObjects
<1> DEFINE Met ==
        LET c == mgr.copy IN
        /\ ~c.deleting /\ NoNil(c.spec) =>
             \A o \in Wanted(c.spec) \ excused : Stays(o) \/ store[o].gen = yc'.obs
        /\ c.deleting \/ NoNil(c.spec) =>
             \A o \in Unwanted(c.spec, c.deleting) \ excused : Stays(o) \/ ~Exists(o)
<1>1. ASSUME IInv, Next, yc'.obs > yc.obs PROVE Met
  <2>0. TypeOK /\ CopiesInv /\ PassInv
    BY <1>1, CopyInvIs DEF IInv
  <2>1. yc \in Clusters /\ yc.obs \in Nat
    BY <2>0, Numbers
  <2>2. CASE ~End
    <3>1. CASE (\E s \in Specs : Update(s)) \/ Delete
      BY <1>1, <2>1, <3>1, UpdateIs, DeleteIs
    <3>2. CASE ~((\E s \in Specs : Update(s)) \/ Delete)
      <4>1. yc' = yc
        BY <1>1, <2>2, <3>2
           DEF Next, ManagerStep, Join, Sync, Crash, Touch, Begin, Apply, DeleteObject, Load, Count, Panic, PassFrame
      <4> QED BY <1>1, <2>1, <4>1
    <3> QED BY <3>1, <3>2
  <2>3. CASE End
    <3>1. mgr.busy /\ mgr.step > Last /\ Observed # mgr.copy.obs /\ yc'.obs = Observed
      BY <1>1, <2>0, <2>1, <2>3, EndIs
    <3>2. ~mgr.err /\ yc'.obs = mgr.copy.gen
      BY <3>1 DEF Observed
    <3>3. mgr.copy.deleting \/ NoNil(mgr.copy.spec) =>
            /\ ~mgr.copy.deleting => \A o \in Wanted(mgr.copy.spec) : Applied(o)
            /\ \A o \in Unwanted(mgr.copy.spec, mgr.copy.deleting) : Removed(o)
      BY <2>0, <3>1, <3>2, AllDoneAtEnd
    <3> QED BY <3>2, <3>3 DEF Applied, Removed
  <2> QED BY <2>2, <2>3
<1>2. IInv /\ [Next]_vars => [yc'.obs > yc.obs => Met]_vars
  BY <1>1
<1>3. [][yc'.obs > yc.obs => Met]_vars <=> ObservedMeansObjects
  BY PTL DEF ObservedMeansObjects
<1> HIDE DEF Met
<1>4. Spec => [][yc'.obs > yc.obs => Met]_vars
  BY <1>2, Always, PTL DEF Spec
<1> QED BY <1>3, <1>4

-----------------------------------------------------------------------------
(* The contract of the manager *)

\* A pass works on an object that was there when it was seen, and what is
\* recorded has been seen.
SeenInv ==
    /\ mgr.busy => mgr.copy.state = "present"
    /\ yc.obs <= mgr.copy.gen

\* What a copy asks of the objects of a unit.
Asked(c, u) == ~c.deleting /\ (u = "hub" \/ (u = "server" /\ c.spec.server = "on")
                                         \/ (u = "agent" /\ c.spec.agent = "on"))
Due(c, u) == IF Asked(c, u) THEN c.gen ELSE 0

\* The objects of a unit are wanted or unwanted together.
LEMMA UnitObjectsAre ==
    ASSUME NEW c \in Clusters, NEW u \in Units, NEW o \in UnitObjects(u)
    PROVE  /\ o \in Objects /\ o \notin Kept
           /\ ~c.deleting => (o \in Wanted(c.spec) <=> Asked(c, u))
           /\ o \in Unwanted(c.spec, c.deleting) <=> ~Asked(c, u)
<1>1. o \in Objects /\ o \notin Kept
  BY Lists DEF Units, UnitObjects, Objects, Kept, Templates
<1>2. o \in Wanted(c.spec) <=>
        u = "hub" \/ (u = "server" /\ c.spec.server = "on") \/ (u = "agent" /\ c.spec.agent = "on")
  <2>1. CASE u = "hub"
    BY <2>1, Lists DEF UnitObjects, Wanted
  <2>2. CASE u = "server"
    BY <2>2, Lists DEF UnitObjects, Wanted, Templates, Bases
  <2>3. CASE u = "agent"
    BY <2>3, Lists DEF UnitObjects, Wanted, Templates, Bases
  <2> QED
    BY <2>1, <2>2, <2>3 DEF Units
<1> QED
  BY <1>1, <1>2 DEF Unwanted, Asked

\* What the contract has of a version of the YurtCluster.
LEMMA AbstractIs ==
    ASSUME NEW c \in Clusters, c.state = "present"
    PROVE  LET a == AbstractCluster(c) IN
           /\ a \in Contract!Clusters
           /\ a.state = "present" /\ a.gen = c.gen /\ a.deleting = c.deleting
           /\ a.approved = TRUE /\ a.obs = c.obs
           /\ a.whole = NoNil(c.spec) /\ a.wants \in SUBSET Units
           /\ \A u \in Units : Contract!Goal(a, u) = Due(c, u)
<1>1. c.gen \in Nat /\ c.obs \in Nat /\ c.deleting \in BOOLEAN /\ NoNil(c.spec) \in BOOLEAN
  BY DEF Clusters, NoNil
<1> DEFINE wants == {"hub"} \cup {u \in {"server", "agent"} : c.spec[u] = "on"}
<1>2. AbstractCluster(c) =
        [state |-> "present", gen |-> c.gen, deleting |-> c.deleting, approved |-> TRUE,
         whole |-> NoNil(c.spec), obs |-> c.obs, wants |-> wants]
  BY DEF AbstractCluster
<1>3. wants \in SUBSET Units
  BY DEF Units
<1>4. \A u \in Units : u \in wants <=> u = "hub" \/ (u = "server" /\ c.spec.server = "on")
                                                 \/ (u = "agent" /\ c.spec.agent = "on")
  BY DEF Units
<1> HIDE DEF wants
<1> QED
  BY <1>1, <1>2, <1>3, <1>4 DEF Contract!Clusters, Contract!Goal, Due, Asked

\* One that is gone is nothing.
LEMMA AbstractGone ==
    ASSUME NEW c, c.state = "gone"
    PROVE  AbstractCluster(c) = Contract!Nothing("gone")
BY DEF AbstractCluster, NoCluster, Contract!Nothing

\* A pass works on what it has seen.
LEMMA AbstractPassIs ==
    ASSUME TypeOK
    PROVE  /\ AbstractPass.busy = mgr.busy
           /\ mgr.busy => AbstractPass = [busy |-> TRUE, copy |-> AbstractCluster(mgr.copy)]
           /\ ~mgr.busy => AbstractPass = Contract!Idle
<1>1. mgr.busy \in BOOLEAN
  BY DEF TypeOK, Managers
<1>2. NoCluster("absent") = Contract!Nothing("absent")
  BY DEF NoCluster, Contract!Nothing
<1> QED
  BY <1>1, <1>2 DEF AbstractPass, Contract!Idle

\* Objects in hand that change come to what the copy asks for.
Nears(c) ==
    \A u \in Units : \A o \in UnitObjects(u) :
        InHands(o)' =>
            (InHands(o) /\ store'[o].gen = store[o].gen) \/ store'[o].gen = Due(c, u)

\* What the contract has of such a step.
LEMMA MovesIs ==
    ASSUME TypeOK, TypeOK', NEW c \in Clusters, c.state = "present", Nears(c)
    PROVE  Contract!Moves(AbstractCluster(c))
<1> DEFINE a == AbstractCluster(c)
<1>1. \A u \in Units : \A o \in UnitObjects(u) : store'[o].gen \in Nat
  BY UnitObjectsAre DEF TypeOK
<1>2. \A u \in Units : /\ AbstractUnits[u] = {store[o].gen : o \in {x \in UnitObjects(u) : InHands(x)}}
                       /\ AbstractUnits'[u] = {store'[o].gen : o \in {x \in UnitObjects(u) : InHands(x)'}}
  BY DEF AbstractUnits
<1>3. AbstractUnits' \in [Units -> SUBSET Nat]
  BY <1>1 DEF AbstractUnits
<1>4. ASSUME NEW u \in Units
      PROVE  AbstractUnits'[u] \subseteq AbstractUnits[u] \cup {Contract!Goal(a, u)}
  <2>1. Contract!Goal(a, u) = Due(c, u)
    BY AbstractIs
  <2> QED
    BY <1>2, <2>1 DEF Nears
<1>5. a.approved = TRUE
  BY AbstractIs
<1> HIDE DEF a
<1>6. Contract!Moves(a)
  BY <1>3, <1>4, <1>5 DEF Contract!Moves
<1> QED
  BY <1>6 DEF a

\* Each call writes what it renders, or nothing, or an object that is no longer
\* in hand.
LEMMA CallsNear ==
    ASSUME TypeOK, CopiesInv, StoreInv, Apply \/ DeleteObject
    PROVE  Nears(mgr.copy) /\ mgr.busy /\ mgr'.busy = mgr.busy /\ mgr'.copy = mgr.copy
<1>0. PICK x : x = Now.obj
  OBVIOUS
<1>1. /\ mgr.busy /\ mgr.step <= Last /\ x \in Objects /\ OnlyAt(x)
      /\ mgr.step >= 1 /\ mgr.copy \in Clusters
  BY <1>0, ApplyIs, DeleteObjectIs, Numbers DEF CopiesInv
<1>2. mgr'.busy = mgr.busy /\ mgr'.copy = mgr.copy
  BY GoesOn, Drops DEF Apply, DeleteObject
<1>3. Now \in PlanSet(mgr.copy)
  BY <1>1, NowIs
<1>4. store[x].skip => Stays(x)
  BY <1>1 DEF StoreInv, Stays, Exists
<1>5. \/ ~InHands(x)'
      \/ store'[x] = store[x] /\ InHands(x)
      \/ /\ ~mgr.copy.deleting /\ x \in Wanted(mgr.copy.spec)
         /\ store'[x] = Written(x)
      \/ x \in Unwanted(mgr.copy.spec, mgr.copy.deleting) /\ store'[x] = Absent
  <2>1. CASE Apply
    <3>1. Now.do = "apply"
      BY <2>1 DEF Apply, Doing
    <3>2. ~mgr.copy.deleting /\ x \in Wanted(mgr.copy.spec)
      BY <1>0, <1>1, <1>3, <3>1, CallsAre
    <3>3. \/ store' = store /\ (excused' = excused \/ store[x].skip)
          \/ store' = [store EXCEPT ![x] = Written(x)]
      BY <1>0, <2>1 DEF Apply
    <3>4. CASE store' = [store EXCEPT ![x] = Written(x)]
      <4>1. store'[x] = Written(x)
        BY <1>1, <3>4, Numbers
      <4> QED
        BY <3>2, <4>1
    <3>5. CASE store' = store /\ (excused' = excused \/ store[x].skip)
      BY <1>4, <3>5 DEF InHands, Stays, Exists
    <3> QED
      BY <3>3, <3>4, <3>5
  <2>2. CASE DeleteObject
    <3>1. Now.do = "delete"
      BY <2>2 DEF DeleteObject, Doing
    <3>2. x \in Unwanted(mgr.copy.spec, mgr.copy.deleting)
      BY <1>0, <1>1, <1>3, <3>1, CallsAre
    <3>3. \/ store'[x] = Absent
          \/ /\ store'[x] = store[x]
             /\ x \in excused' \/ store[x].skip \/ excused' = excused
      BY <1>0, <2>2, DeleteObjectIs
    <3>4. CASE store'[x] = store[x] /\ (x \in excused' \/ store[x].skip \/ excused' = excused)
      BY <1>4, <3>4 DEF InHands, Stays, Exists
    <3> QED
      BY <3>2, <3>3, <3>4
  <2> QED
    BY <2>1, <2>2
<1>6. Nears(mgr.copy)
  <2> SUFFICES ASSUME NEW u \in Units, NEW o \in UnitObjects(u), InHands(o)'
               PROVE  \/ InHands(o) /\ store'[o].gen = store[o].gen
                      \/ store'[o].gen = Due(mgr.copy, u)
    BY DEF Nears
  <2>1. o \in Objects
    BY <1>1, UnitObjectsAre
  <2>2. CASE o # x
    BY <1>1, <2>1, <2>2 DEF OnlyAt, InHands, Stays, Exists
  <2>3. CASE o = x
    <3>1. /\ ~mgr.copy.deleting /\ x \in Wanted(mgr.copy.spec) => Asked(mgr.copy, u)
          /\ x \in Unwanted(mgr.copy.spec, mgr.copy.deleting) => ~Asked(mgr.copy, u)
      BY <1>1, <2>3, UnitObjectsAre
    <3>2. Written(x).gen = mgr.copy.gen
      BY <1>1, WrittenType
    <3> QED
      BY <1>5, <2>3, <3>1, <3>2, AbsentType DEF Due
  <2> QED
    BY <2>2, <2>3
<1> QED
  BY <1>1, <1>2, <1>6

\* An administrator takes one object in hand, or did before.
LEMMA TouchKeepsContract ==
    ASSUME TypeOK, TypeOK', NEW x \in Touchable, Touch(x)
    PROVE  Contract!Next \/ UNCHANGED Contract!vars
<1>1. OnlyAt(x) /\ x \in excused' /\ UNCHANGED <<yc, cached, mgr>>
  BY TouchIs
<1>2. UNCHANGED <<AbstractCluster(yc), AbstractCluster(cached), AbstractPass>>
  BY <1>1 DEF AbstractPass
<1>3. ASSUME NEW u \in Units, NEW o \in UnitObjects(u), InHands(o)'
      PROVE  InHands(o) /\ store'[o].gen = store[o].gen /\ store'[o].gen \in Nat
  <2>1. o \in Objects /\ o # x
    <3>1. mgr.copy \in Clusters
      BY Numbers
    <3> QED
      BY <1>1, <1>3, <3>1, UnitObjectsAre DEF InHands
  <2> QED
    BY <1>1, <1>3, <2>1 DEF OnlyAt, InHands, Stays, Exists, TypeOK
<1>4. AbstractUnits' \in [Units -> SUBSET Nat]
  BY <1>3 DEF AbstractUnits
<1>5. \A u \in Units : AbstractUnits'[u] \subseteq AbstractUnits[u]
  BY <1>3 DEF AbstractUnits
<1>6. CASE AbstractUnits' = AbstractUnits
  BY <1>2, <1>6 DEF Contract!vars
<1>7. CASE AbstractUnits' # AbstractUnits
  BY <1>2, <1>4, <1>5, <1>7 DEF Contract!Lose, Contract!Next
<1> QED
  BY <1>6, <1>7

\* So it stays.
LEMMA SeenKept ==
    ASSUME TypeOK, CopiesInv, SeenInv, Next \/ UNCHANGED vars
    PROVE  SeenInv'
<1>0. /\ mgr.copy \in Clusters /\ cached \in Clusters /\ yc \in Clusters
      /\ yc.obs \in Nat /\ mgr.copy.gen \in Nat /\ mgr.copy.obs \in Nat /\ cached.gen \in Nat
  BY Numbers
<1>1. CASE (\E s \in Specs : Update(s)) \/ Delete
  <2>1. yc'.obs = yc.obs /\ mgr' = mgr
    BY <1>0, <1>1, UpdateIs, DeleteIs DEF Update, Delete
  <2> QED
    BY <2>1 DEF SeenInv
<1>2. CASE Begin
  <2>1. mgr'.copy = cached /\ cached.state = "present" /\ yc' = yc
    BY <1>0, <1>2, IdleIs DEF Begin
  <2>2. mgr.copy.gen <= cached.gen
    BY DEF CopiesInv, Aged
  <2> QED
    BY <1>0, <2>1, <2>2 DEF SeenInv
<1>3. CASE \/ Sync \/ Join \/ Apply \/ DeleteObject \/ Load \/ Count \/ Panic \/ UNCHANGED vars
           \/ \E x \in Touchable : Touch(x)
  <2>1. mgr'.copy = mgr.copy /\ mgr'.busy = mgr.busy
    BY <1>3, GoesOn, Drops, Counts, Unwinds
       DEF Sync, Join, Touch, Apply, DeleteObject, Load, Count, Panic, vars, CopiesInv
  <2>2. yc' = yc
    BY <1>3 DEF Sync, Join, Touch, Apply, DeleteObject, Load, Count, Panic, PassFrame, vars
  <2> QED
    BY <2>1, <2>2 DEF SeenInv
<1>4. CASE Crash
  <2>1. mgr'.copy = mgr.copy /\ ~mgr'.busy /\ yc' = yc
    BY <1>0, <1>4, IdleIs DEF Crash
  <2> QED
    BY <2>1 DEF SeenInv
<1>5. CASE End
  <2>1. mgr'.copy = mgr.copy /\ ~mgr'.busy
    BY <1>0, <1>5, EndIs, IdleIs
  <2>2. yc'.obs = yc.obs \/ (Observed # mgr.copy.obs /\ yc'.obs = Observed)
    BY <1>5, EndIs
  <2>3. yc'.obs <= mgr.copy.gen
    BY <1>0, <2>2 DEF Observed, SeenInv
  <2> QED
    BY <2>1, <2>3 DEF SeenInv
<1> QED
  BY <1>1, <1>2, <1>3, <1>4, <1>5 DEF Next, ManagerStep

-----------------------------------------------------------------------------
(* Every step keeps the contract *)

\* Users edit and delete.
LEMMA UserKeepsContract ==
    ASSUME TypeOK, TypeOK', (\E s \in Specs : Update(s)) \/ Delete
    PROVE  Contract!Edit
<1> DEFINE a == AbstractCluster(yc)
           b == AbstractCluster(yc')
<1>1. yc \in Clusters /\ yc' \in Clusters /\ yc.state = "present" /\ yc'.state = "present"
  <2>1. yc \in Clusters /\ yc' \in Clusters /\ yc.state = "present"
    BY DEF TypeOK, Update, Delete
  <2> QED
    BY <2>1, UpdateIs, DeleteIs
<1>2. UNCHANGED <<AbstractCluster(cached), AbstractPass, AbstractUnits>>
  <2>1. cached' = cached /\ mgr' = mgr /\ store' = store
    BY DEF Update, Delete
  <2>2. excused' = excused
    BY DEF Update, Delete
  <2> QED
    BY <2>1, <2>2 DEF AbstractPass, AbstractUnits, InHands, Stays, Exists
<1>3. a \in Contract!Clusters /\ b \in Contract!Clusters /\ a.state = "present" /\ a.approved = TRUE
  BY <1>1, AbstractIs
<1>4. CASE \E s \in Specs : Update(s)
  <2>1. yc'.gen = yc.gen + 1 /\ yc'.deleting = yc.deleting /\ yc'.obs = yc.obs
    BY <1>1, <1>4, UpdateIs
  <2>2. /\ b.state = a.state /\ b.gen = a.gen + 1 /\ b.deleting = a.deleting
        /\ b.approved = a.approved /\ b.obs = a.obs
    BY <1>1, <2>1, AbstractIs
  <2> HIDE DEF a, b
  <2>3. b = [a EXCEPT !.whole = b.whole, !.wants = b.wants, !.gen = @ + 1]
    BY <1>3, <2>2 DEF Contract!Clusters
  <2>4. b.whole \in BOOLEAN /\ b.wants \in SUBSET Units
    BY <1>3 DEF Contract!Clusters
  <2>5. \E whole \in BOOLEAN, wants \in SUBSET Units :
            b = [a EXCEPT !.whole = whole, !.wants = wants, !.gen = @ + 1]
    BY <2>3, <2>4
  <2>6. b.gen > a.gen
    BY <1>3, <2>2 DEF Contract!Clusters
  <2> QED
    BY <1>2, <1>3, <2>5, <2>6 DEF Contract!Edit, a, b
<1>5. CASE Delete
  <2>1. /\ yc'.gen = yc.gen + 1 /\ yc'.deleting = TRUE /\ yc'.obs = yc.obs /\ yc'.spec = yc.spec
        /\ yc.deleting = FALSE
    BY <1>1, <1>5 DEF Delete, Clusters
  <2>2. /\ b.state = a.state /\ b.gen = a.gen + 1 /\ b.deleting = TRUE /\ a.deleting = FALSE
        /\ b.approved = a.approved /\ b.obs = a.obs
    BY <1>1, <2>1, AbstractIs
  <2>3. b.wants = a.wants /\ b.whole = a.whole
    BY <1>1, <2>1 DEF AbstractCluster
  <2> HIDE DEF a, b
  <2>4. b = [a EXCEPT !.deleting = TRUE, !.gen = @ + 1]
    BY <1>3, <2>2, <2>3 DEF Contract!Clusters
  <2>5. b.gen > a.gen
    BY <1>3, <2>2 DEF Contract!Clusters
  <2> QED
    BY <1>2, <1>3, <2>2, <2>4, <2>5 DEF Contract!Edit, a, b
<1> QED
  BY <1>4, <1>5

\* A pass begins, makes its calls, or is cut off.
LEMMA PassKeepsContract ==
    ASSUME TypeOK, TypeOK', CopiesInv, StoreInv, SeenInv,
           Begin \/ Apply \/ DeleteObject \/ Crash
    PROVE  Contract!Next
<1>0. mgr.copy \in Clusters /\ cached \in Clusters
  BY Numbers
<1>1. CASE Begin
  <2>1. /\ ~mgr.busy /\ cached.state = "present" /\ mgr'.busy /\ mgr'.copy = cached
        /\ UNCHANGED <<yc, cached, store, excused>>
    <3>1. mgr' = [Idle(cached) EXCEPT !.busy = TRUE]
      BY <1>1 DEF Begin
    <3>2. mgr'.busy
      BY <3>1 DEF Idle
    <3> QED
      BY <1>0, <1>1, <3>1, <3>2, IdleIs DEF Begin
  <2>2. Contract!Moves(AbstractCluster(cached))
    BY <1>0, <2>1, MovesIs DEF Nears, InHands, Stays, Exists
  <2>3. ~AbstractPass.busy /\ AbstractPass' = [busy |-> TRUE, copy |-> AbstractCluster(cached)]
    BY <2>1, AbstractPassIs DEF AbstractPass
  <2>4. AbstractCluster(cached).state = "present"
    BY <1>0, <2>1, AbstractIs
  <2>5. UNCHANGED <<AbstractCluster(yc), AbstractCluster(cached)>>
    BY <2>1
  <2> QED
    BY <2>2, <2>3, <2>4, <2>5 DEF Contract!Begin, Contract!Next
<1>2. CASE Apply \/ DeleteObject
  <2>1. Nears(mgr.copy) /\ mgr.busy /\ mgr'.busy = mgr.busy /\ mgr'.copy = mgr.copy
    BY <1>2, CallsNear
  <2>2. mgr.copy.state = "present"
    BY <2>1 DEF SeenInv
  <2>3. Contract!Moves(AbstractCluster(mgr.copy))
    BY <1>0, <2>1, <2>2, MovesIs
  <2>4. AbstractPass' = AbstractPass /\ AbstractPass.busy /\ AbstractPass.copy = AbstractCluster(mgr.copy)
    BY <2>1 DEF AbstractPass
  <2>5. UNCHANGED <<AbstractCluster(yc), AbstractCluster(cached)>>
    BY <1>2 DEF Apply, DeleteObject, PassFrame
  <2> QED
    BY <2>3, <2>4, <2>5 DEF Contract!Work, Contract!Next
<1>3. CASE Crash
  <2>1. mgr.busy /\ ~mgr'.busy /\ UNCHANGED <<yc, cached, store, excused>>
    BY <1>0, <1>3, IdleIs DEF Crash
  <2>2. AbstractPass.busy /\ AbstractPass' = Contract!Idle
    <3>1. mgr.busy = TRUE /\ mgr'.busy = FALSE
      BY <2>1 DEF TypeOK, Managers
    <3> QED
      BY <3>1 DEF AbstractPass, NoCluster, Contract!Idle, Contract!Nothing
  <2>3. UNCHANGED <<AbstractCluster(cached), AbstractCluster(yc), AbstractUnits>>
    BY <2>1 DEF AbstractUnits, InHands, Stays, Exists
  <2> QED
    BY <2>2, <2>3 DEF Contract!Record, Contract!Next
<1> QED
  BY <1>1, <1>2, <1>3

\* It ends, with a record, with a release, or with nothing.
LEMMA EndKeepsContract ==
    ASSUME TypeOK, TypeOK', CopiesInv, PassInv, SeenInv, CleanInv', End
    PROVE  Contract!Next
<1> DEFINE a == AbstractCluster(yc)
           b == AbstractCluster(yc')
           copy == AbstractCluster(mgr.copy)
<1>1. /\ mgr.busy /\ mgr.step > Last /\ mgr' = Idle(mgr.copy) /\ ~mgr'.busy
      /\ UNCHANGED <<cached, store, excused>>
      /\ mgr.copy \in Clusters /\ yc \in Clusters /\ yc' \in Clusters
      /\ mgr.copy.state = "present"
  BY EndIs, IdleIs, Numbers DEF SeenInv
<1>2. AbstractPass.busy /\ AbstractPass.copy = copy /\ AbstractPass' = Contract!Idle
  <2>1. mgr.busy = TRUE /\ mgr'.busy = FALSE
    BY <1>1 DEF TypeOK, Managers
  <2> HIDE DEF copy
  <2>2. AbstractPass.busy /\ AbstractPass.copy = copy
    BY <2>1 DEF AbstractPass, copy
  <2>3. AbstractPass' = Contract!Idle
    BY <2>1 DEF AbstractPass, NoCluster, Contract!Idle, Contract!Nothing
  <2> QED
    BY <2>2, <2>3
<1>3. UNCHANGED <<AbstractCluster(cached), AbstractUnits>>
  BY <1>1 DEF AbstractUnits, InHands, Stays, Exists
<1>4. \A u \in Units : AbstractUnits[u] = {store[o].gen : o \in {x \in UnitObjects(u) : InHands(x)}}
  BY DEF AbstractUnits
<1>5. \A u \in Units : Contract!Goal(copy, u) = Due(mgr.copy, u)
  BY <1>1, AbstractIs
<1>6. \/ yc' = yc
      \/ mgr.copy.deleting /\ Observed = mgr.copy.gen /\ yc' = [yc EXCEPT !.state = "gone"]
      \/ /\ yc.state # "gone" /\ Observed # mgr.copy.obs
         /\ yc' = [yc EXCEPT !.obs = Observed]
  <2>1. [yc EXCEPT !.obs = yc.obs] = yc
    BY <1>1 DEF Clusters
  <2> QED
    BY <2>1 DEF End
<1>7. CASE b = a
  <2> HIDE DEF a, b, copy
  <2> QED
    BY <1>2, <1>3, <1>7 DEF Contract!Record, Contract!Next, a, b
<1>8. CASE b # a /\ mgr.copy.deleting /\ Observed = mgr.copy.gen /\ yc' = [yc EXCEPT !.state = "gone"]
  <2>1. yc'.state = "gone" /\ b = Contract!Nothing("gone")
    BY <1>1, <1>8, AbstractGone DEF Clusters
  <2>2. yc.state = "present"
    BY <1>1, <1>8, <2>1, AbstractGone DEF Clusters
  <2>3. Contract!AtGoal(copy)
    <3>1. Clean'
      BY <2>1 DEF CleanInv
    <3>2. ASSUME NEW u \in Units, NEW o \in UnitObjects(u), InHands(o)
          PROVE  store[o].gen = Due(mgr.copy, u)
      <4>1. o \in Objects \ Kept
        BY <1>1, UnitObjectsAre
      <4>2. store[o].gen = 0
        BY <1>1, <3>1, <3>2, <4>1 DEF Clean, Removed, Stays, Exists, InHands
      <4> QED
        BY <1>8, <4>2 DEF Due, Asked
    <3> HIDE DEF copy
    <3> QED
      BY <1>4, <1>5, <3>2 DEF Contract!AtGoal
  <2>4. copy.approved = TRUE /\ copy.deleting = mgr.copy.deleting /\ a.state = "present"
    BY <1>1, <2>2, AbstractIs
  <2> HIDE DEF a, b, copy
  <2>5. Contract!Release
    BY <1>2, <1>3, <1>8, <2>1, <2>3, <2>4 DEF Contract!Release, a, b
  <2> QED
    BY <2>5 DEF Contract!Next
<1>9. CASE /\ b # a /\ yc.state # "gone" /\ Observed # mgr.copy.obs
           /\ yc' = [yc EXCEPT !.obs = Observed]
  <2>1. ~mgr.err /\ Observed = mgr.copy.gen
    BY <1>9 DEF Observed
  <2>2. /\ yc.state = "present" /\ yc'.state = "present" /\ yc'.gen = yc.gen
        /\ yc'.deleting = yc.deleting /\ yc'.spec = yc.spec /\ yc'.obs = mgr.copy.gen
    BY <1>1, <1>9, <2>1 DEF Clusters
  <2>3. yc.obs < mgr.copy.gen
    <3>1. yc.obs # mgr.copy.gen
      BY <1>1, <1>9, <2>1, <2>2 DEF Clusters
    <3> QED
      BY <3>1, Numbers DEF SeenInv
  <2>4. b = [a EXCEPT !.obs = copy.gen]
    <3>1. a \in Contract!Clusters /\ b \in Contract!Clusters
      BY <1>1, <2>2, AbstractIs
    <3>2. /\ b.state = a.state /\ b.gen = a.gen /\ b.deleting = a.deleting
          /\ b.approved = a.approved /\ b.obs = copy.gen
      BY <1>1, <2>2, AbstractIs
    <3>3. b.wants = a.wants /\ b.whole = a.whole
      BY <2>2 DEF AbstractCluster
    <3> HIDE DEF a, b, copy
    <3> QED
      BY <3>1, <3>2, <3>3 DEF Contract!Clusters
  <2>5. ASSUME mgr.copy.deleting \/ NoNil(mgr.copy.spec)
        PROVE  Contract!AtGoal(copy)
    <3>1. /\ ~mgr.copy.deleting => \A o \in Wanted(mgr.copy.spec) : Applied(o)
          /\ \A o \in Unwanted(mgr.copy.spec, mgr.copy.deleting) : Removed(o)
      BY <1>1, <2>1, <2>5, AllDoneAtEnd
    <3>2. ASSUME NEW u \in Units, NEW o \in UnitObjects(u), InHands(o)
          PROVE  store[o].gen = Due(mgr.copy, u)
      <4>1. /\ o \in Objects
            /\ ~mgr.copy.deleting => (o \in Wanted(mgr.copy.spec) <=> Asked(mgr.copy, u))
            /\ o \in Unwanted(mgr.copy.spec, mgr.copy.deleting) <=> ~Asked(mgr.copy, u)
        BY <1>1, UnitObjectsAre
      <4>2. CASE Asked(mgr.copy, u)
        <5>1. Applied(o)
          BY <3>1, <4>1, <4>2 DEF Asked
        <5> QED
          BY <3>2, <4>2, <5>1 DEF Applied, InHands, Due
      <4>3. CASE ~Asked(mgr.copy, u)
        <5>1. Removed(o)
          BY <3>1, <4>1, <4>3
        <5> QED
          BY <3>2, <4>3, <5>1 DEF Removed, InHands, Exists, Due
      <4> QED
        BY <4>2, <4>3
    <3> HIDE DEF copy
    <3> QED
      BY <1>4, <1>5, <3>2 DEF Contract!AtGoal
  <2>6. copy.approved /\ (copy.deleting \/ copy.whole) => Contract!AtGoal(copy)
    <3>1. copy.deleting = mgr.copy.deleting /\ copy.whole = NoNil(mgr.copy.spec)
      BY <1>1, AbstractIs
    <3> QED
      BY <2>5, <3>1
  <2>7. a.state = "present" /\ a.obs < copy.gen
    BY <1>1, <2>2, <2>3, AbstractIs
  <2> HIDE DEF a, b, copy
  <2>8. Contract!Record
    BY <1>2, <1>3, <2>4, <2>6, <2>7 DEF Contract!Record, a, b
  <2> QED
    BY <2>8 DEF Contract!Next
<1> QED
  BY <1>6, <1>7, <1>8, <1>9

\* Every step, of whomever, is one of the contract or none.
LEMMA ObjectsKeepContract ==
    ASSUME IInv, IInv', SeenInv, [Next]_vars
    PROVE  Contract!Next \/ UNCHANGED Contract!vars
<1>0. /\ TypeOK /\ TypeOK' /\ CopiesInv /\ StoreInv /\ PassInv /\ CleanInv'
      /\ mgr.copy \in Clusters
  BY CopyInvIs, Numbers DEF IInv
<1>1. CASE (\E s \in Specs : Update(s)) \/ Delete
  BY <1>0, <1>1, UserKeepsContract DEF Contract!Next
<1>2. CASE Begin \/ Apply \/ DeleteObject \/ Crash
  BY <1>0, <1>2, PassKeepsContract
<1>3. CASE End
  BY <1>0, <1>3, EndKeepsContract
<1>4. CASE Sync
  <2>1. AbstractCluster(cached)' = AbstractCluster(yc) /\ UNCHANGED <<yc, mgr, store, excused>>
    BY <1>4 DEF Sync
  <2>2. UNCHANGED <<AbstractCluster(yc), AbstractPass, AbstractUnits>>
    BY <2>1 DEF AbstractPass, AbstractUnits, InHands, Stays, Exists
  <2> QED
    BY <2>1, <2>2 DEF Contract!Sync, Contract!Next
<1>5. CASE Join \/ Load \/ Count \/ Panic \/ UNCHANGED vars
  <2>1. mgr'.copy = mgr.copy /\ mgr'.busy = mgr.busy
    BY <1>0, <1>5, GoesOn, Drops, Counts, Unwinds DEF Join, Load, Count, Panic, vars, CopiesInv
  <2>2. UNCHANGED <<yc, cached, store, excused>>
    BY <1>5 DEF Join, Load, Count, Panic, PassFrame, vars
  <2>3. UNCHANGED <<AbstractCluster(yc), AbstractCluster(cached), AbstractPass, AbstractUnits>>
    BY <2>1, <2>2 DEF AbstractPass, AbstractUnits, InHands, Stays, Exists
  <2> QED
    BY <2>3 DEF Contract!vars
<1> QED
  BY <1>0, <1>1, <1>2, <1>3, <1>4, <1>5, TouchKeepsContract DEF Next, ManagerStep

\* Call by call, whichever of them fails or is swallowed, wherever the manager is
\* cut off and whatever administrators do with their objects: those in the
\* manager's hands keep the contract that YurtOperator's resources keep.
THEOREM ContractImplemented == Spec => ImplementsContract
<1>1. Init => Contract!Init /\ SeenInv
  <2> SUFFICES ASSUME Init PROVE Contract!Init /\ SeenInv
    OBVIOUS
  <2>1. /\ yc \in Clusters /\ yc.state = "present" /\ yc.gen = 1 /\ ~yc.deleting /\ yc.obs = 0
        /\ cached = yc /\ mgr = Idle(yc) /\ TypeOK
    <3>1. TypeOK
      BY Starts DEF IInv
    <3> QED
      BY <3>1 DEF Init, TypeOK
  <2>2. Contract!Fresh(AbstractCluster(yc)) /\ AbstractCluster(yc).approved
    BY <2>1, AbstractIs DEF Contract!Fresh
  <2>3. ~mgr.busy /\ mgr.copy = yc
    BY <2>1, IdleIs
  <2>4. AbstractPass = Contract!Idle
    BY <2>1, <2>3, AbstractPassIs
  <2>5. \A o \in Objects : store[o] = Absent
    BY DEF Init
  <2>6. AbstractUnits = Contract!Nowhere
    <3>1. \A u \in Units : \A o \in UnitObjects(u) : store[o].gen = 0
      BY <2>1, <2>5, AbsentType, UnitObjectsAre
    <3>2. \A u \in Units : \A o \in UnitObjects(u) : InHands(o)
      BY <2>1, <3>1 DEF InHands, Stays, Exists, Init
    <3>3. \A u \in Units : UnitObjects(u) # {}
      BY DEF Units, UnitObjects
    <3>4. \A u \in Units : {store[o].gen : o \in {x \in UnitObjects(u) : InHands(x)}} = {0}
      BY <3>1, <3>2, <3>3
    <3> QED
      BY <3>4 DEF AbstractUnits, Contract!Nowhere
  <2>7. SeenInv
    BY <2>1, <2>3 DEF SeenInv
  <2> QED
    BY <2>1, <2>2, <2>4, <2>6, <2>7 DEF Contract!Init
<1>2. IInv /\ SeenInv /\ [Next]_vars => SeenInv'
  BY SeenKept, CopyInvIs DEF IInv
<1>3. IInv /\ IInv' /\ SeenInv /\ [Next]_vars => [Contract!Next]_(Contract!vars)
  BY ObjectsKeepContract
<1> QED
  BY <1>1, <1>2, <1>3, Always, PTL DEF Spec, ImplementsContract, Contract!Spec
=============================================================================
