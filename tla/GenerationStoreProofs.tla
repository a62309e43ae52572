----------------------- MODULE GenerationStoreProofs -----------------------
(***************************************************************************)
(* Proofs about the generation store: as long as no exception ends the     *)
(* pruning, current.json points to a complete folder whatever is killed or *)
(* fails, and requests are answered from a generation at least as new as   *)
(* the one that was current when they came in.                             *)
(***************************************************************************)
EXTENDS GenerationStore, FiniteSetTheorems, WellFoundedInduction, TLAPS

-----------------------------------------------------------------------------
(* Numbers *)

LEMMA LeastExists ==
  ASSUME NEW T \in SUBSET Nat, T # {}
  PROVE  \E x \in T : \A y \in T : x <= y
<1>1. PICK x \in T : \A y \in T : ~(<<y, x>> \in OpToRel(<, Nat))
  BY NatLessThanWellFounded, WFMin, Zenon
<1>2. \A y \in T : ~(y < x)
  BY <1>1, Zenon DEF OpToRel
<1>3. \A y \in T : x <= y
  <2>1. x \in Nat /\ T \subseteq Nat
    OBVIOUS
  <2> QED BY <1>2, <2>1
<1> QED BY <1>3, Zenon

LEMMA GreatestExists ==
  ASSUME NEW n \in Nat, NEW T \in SUBSET (0..n), T # {}
  PROVE  \E x \in T : \A y \in T : y <= x
<1> DEFINE U == {k \in Nat : n - k \in T}
<1>1. U # {}
  <2>1. PICK t \in T : TRUE
    OBVIOUS
  <2>2. n - t \in Nat /\ n - (n - t) = t
    OBVIOUS
  <2> QED BY <2>1, <2>2
<1>2. PICK k \in U : \A j \in U : k <= j
  <2> HIDE DEF U
  <2>1. U \in SUBSET Nat
    BY DEF U
  <2> QED BY <1>1, <2>1, LeastExists
<1>3. ASSUME NEW y \in T PROVE y <= n - k
  <2>1. n - y \in U /\ n - y \in Nat /\ n - (n - y) = y
    OBVIOUS
  <2>2. k <= n - y
    BY <2>1, <1>2
  <2> QED BY <2>1, <2>2
<1> QED BY <1>3

LEMMA MinIsThere ==
  ASSUME NEW T \in SUBSET Nat, T # {}
  PROVE  Min(T) \in T
BY LeastExists DEF Min

-----------------------------------------------------------------------------
(* Types *)

LEMMA InitType == Init => TypeOK
BY StoreAssumption DEF Init, TypeOK, Generations, RefreshType, RequestType, IdleRequest, RequestAt, EmptyCache

LEMMA GoType ==
  ASSUME TypeOK, NEW r \in Requests,
         NEW step \in {"idle", "stat", "compare", "lock", "manifest", "index", "stamp", "return",
                       "pick", "seek"},
         Go(r, step)
  PROVE  request' \in [Requests -> RequestType]
BY DEF TypeOK, Go, RequestType

LEMMA ReplyType ==
  ASSUME TypeOK, NEW r \in Requests, NEW g \in 0..MaxGenerations, Reply(r, g)
  PROVE  /\ request' \in [Requests -> RequestType]
         /\ answer' \in [Requests -> 0..MaxGenerations]
BY StoreAssumption DEF TypeOK, Reply, Finish, RequestType, IdleRequest, RequestAt

(* Several fields of one request change at a time. *)
LEMMA EditType ==
  ASSUME NEW q \in RequestType, NEW g \in 0..MaxGenerations
  PROVE  /\ [q EXCEPT !.pc = "compare", !.stamp = g, !.look = "good"] \in RequestType
         /\ [q EXCEPT !.pc = "manifest", !.read = g] \in RequestType
         /\ [q EXCEPT !.pc = "return", !.look = "failed"] \in RequestType
         /\ [q EXCEPT !.pc = "stat", !.loads = 1] \in RequestType
BY DEF RequestType

LEMMA TypeStep == TypeOK /\ [Next]_vars => TypeOK'
<1> SUFFICES ASSUME TypeOK, [Next]_vars PROVE TypeOK'
  OBVIOUS
<1> USE StoreAssumption
<1>1. CASE Timer
  <2>1. CASE Start
    <3>1. NextGeneration \in Generations /\ Generations \subseteq 0..MaxGenerations
      BY <2>1 DEF Start, Generations
    <3>2. refresh' \in RefreshType /\ folder' \in [Generations -> {"none", "partial", "whole"}]
      BY <2>1, <3>1 DEF Start, TypeOK, RefreshType
    <3> QED BY <1>1, <2>1, <3>2 DEF Timer, Start, TypeOK, web
  <2>2. CASE Kill
    <3>1. refresh' \in RefreshType /\ folder' \in [Generations -> {"none", "partial", "whole"}]
      BY <2>2 DEF Kill, TypeOK, RefreshType
    <3> QED BY <1>1, <2>2, <3>1 DEF Timer, Kill, TypeOK, web
  <2> QED BY <1>1, <2>1, <2>2 DEF Timer
<1>2. CASE Refresh
  <2>0. UNCHANGED web
    BY <1>2 DEF Refresh
  <2>1. CASE Walk
    BY <2>0, <2>1 DEF Walk, TypeOK, RefreshType, web
  <2>2. CASE Promote
    BY <2>0, <2>2 DEF Promote, TypeOK, RefreshType, web
  <2>3. CASE PromoteFails \/ PruningFails \/ Pruned \/ ReportFails
    BY <2>0, <2>3 DEF PromoteFails, PruningFails, Pruned, ReportFails, TypeOK, RefreshType, web
  <2>4. CASE List
    <3>1. Oldest(Present) \subseteq Generations
      BY DEF Oldest, Present
    <3> QED BY <2>0, <2>4, <3>1 DEF List, TypeOK, RefreshType, web
  <2>5. CASE Prune
    <3>1. Min(refresh.todo) \in Generations
      <4>1. refresh.todo \in SUBSET Nat /\ refresh.todo \subseteq Generations
        BY DEF TypeOK, RefreshType, Generations
      <4>2. refresh.todo # {}
        BY <2>5 DEF Prune
      <4> QED BY <4>1, <4>2, MinIsThere
    <3> QED BY <2>0, <2>5, <3>1 DEF Prune, TypeOK, RefreshType, web
  <2>6. CASE Report \/ Blame
    BY <2>0, <2>6 DEF Report, Blame, TypeOK, RefreshType, web
  <2>7. CASE Clean
    BY <2>0, <2>7 DEF Clean, Removable, TypeOK, RefreshType, web
  <2> QED BY <1>2, <2>1, <2>2, <2>3, <2>4, <2>5, <2>6, <2>7 DEF Refresh
<1>3. CASE Restart
  BY <1>3 DEF Restart, TypeOK, RequestType, IdleRequest, RequestAt, EmptyCache, disk
<1>4. CASE \E r \in Requests : Visit(r)
  <2>1. PICK r \in Requests : Visit(r)
    BY <1>4
  <2>2. \A kind \in {"page", "event"} : RequestAt("stat", kind, current) \in RequestType
    BY DEF TypeOK, RequestType, RequestAt
  <2>3. request' \in [Requests -> RequestType]
    BY <2>1, <2>2 DEF Visit, Ask, TypeOK
  <2> QED BY <2>1, <2>3 DEF Visit, Ask, TypeOK, disk
<1>5. ASSUME NEW r \in Requests, Serve(r) PROVE TypeOK'
  <2>0. UNCHANGED disk
    BY <1>5 DEF Serve
  <2>1. CASE Stat(r)
    <3>1. CASE current = 0
      BY <2>0, <2>1, <3>1, ReplyType DEF Stat, TypeOK, disk
    <3>2. CASE current # 0
      <4>1. [request[r] EXCEPT !.pc = "compare", !.stamp = current, !.look = "good"] \in RequestType
        BY EditType DEF TypeOK
      <4> QED BY <2>0, <2>1, <3>2, <4>1 DEF Stat, TypeOK, disk
    <3> QED BY <3>1, <3>2
  <2>2. CASE Compare(r)
    BY <2>0, <2>2, GoType DEF Compare, TypeOK, disk
  <2>3. CASE Read(r)
    <3>1. CASE cache.stamp = request[r].stamp
      BY <2>0, <2>3, <3>1, GoType DEF Read, TypeOK, disk
    <3>2. CASE cache.stamp # request[r].stamp
      <4>1. [request[r] EXCEPT !.pc = "manifest", !.read = current] \in RequestType
        BY EditType DEF TypeOK
      <4> QED BY <2>0, <2>3, <3>2, <4>1 DEF Read, TypeOK, disk
    <3> QED BY <3>1, <3>2
  <2>4. CASE ReadFails(r)
    <3>0. [request[r] EXCEPT !.pc = "return", !.look = "failed"] \in RequestType
      BY EditType DEF TypeOK
    <3>1. request' \in [Requests -> RequestType]
      BY <2>4, <3>0 DEF ReadFails, TypeOK
    <3> QED BY <2>0, <2>4, <3>1 DEF ReadFails, TypeOK, disk
  <2>5. CASE SetManifest(r) \/ SetIndex(r) \/ SetStamp(r)
    <3>1. request' \in [Requests -> RequestType]
      BY <2>5, GoType DEF SetManifest, SetIndex, SetStamp
    <3>2. request[r] \in RequestType
      BY DEF TypeOK
    <3> QED BY <2>0, <2>5, <3>1, <3>2 DEF SetManifest, SetIndex, SetStamp, TypeOK, disk, RequestType
  <2>6. CASE Return(r)
    <3>1. CASE Reply(r, 0) \/ Reply(r, cache.manifest)
      <4>1. 0 \in 0..MaxGenerations /\ cache.manifest \in 0..MaxGenerations
        BY DEF TypeOK
      <4>2. /\ request' \in [Requests -> RequestType]
            /\ answer' \in [Requests -> 0..MaxGenerations]
        BY <3>1, <4>1, ReplyType
      <4> QED BY <2>0, <2>6, <4>2 DEF Return, TypeOK, disk
    <3>2. CASE Go(r, "pick") /\ UNCHANGED answer
      BY <2>0, <2>6, <3>2, GoType DEF Return, TypeOK, disk
    <3>3. CASE /\ request' = [request EXCEPT ![r] = [@ EXCEPT !.pc = "stat", !.loads = 1]]
               /\ UNCHANGED answer
      <4>0. [request[r] EXCEPT !.pc = "stat", !.loads = 1] \in RequestType
        BY EditType DEF TypeOK
      <4>1. request' \in [Requests -> RequestType]
        BY <3>3, <4>0 DEF TypeOK
      <4> QED BY <2>0, <2>6, <3>3, <4>1 DEF Return, TypeOK, disk
    <3> QED BY <2>6, <3>1, <3>2, <3>3 DEF Return
  <2>7. CASE Pick(r)
    <3>0. cache.index \in 0..MaxGenerations
      BY DEF TypeOK
    <3>1. CASE Reply(r, cache.index)
      BY <2>0, <2>7, <3>0, <3>1, ReplyType DEF Pick, TypeOK, disk
    <3>2. CASE /\ request' = [request EXCEPT ![r] = RequestAt("seek", "page", 0)]
               /\ answer' = [answer EXCEPT ![r] = cache.index]
      <4>1. RequestAt("seek", "page", 0) \in RequestType
        BY DEF RequestType, RequestAt
      <4>2. /\ request' \in [Requests -> RequestType]
            /\ answer' \in [Requests -> 0..MaxGenerations]
        BY <3>0, <3>2, <4>1 DEF TypeOK
      <4> QED BY <2>0, <2>7, <4>2 DEF Pick, TypeOK, disk
    <3> QED BY <2>7, <3>1, <3>2 DEF Pick
  <2>8. CASE Seek(r)
    BY <2>0, <2>8 DEF Seek, Finish, TypeOK, disk, RequestType, IdleRequest, RequestAt
  <2> QED BY <1>5, <2>1, <2>2, <2>3, <2>4, <2>5, <2>6, <2>7, <2>8 DEF Serve
<1>6. CASE UNCHANGED vars
  BY <1>6 DEF vars, TypeOK
<1> QED BY <1>1, <1>2, <1>3, <1>4, <1>5, <1>6 DEF Next

-----------------------------------------------------------------------------
(* Folders *)

LEMMA InitFolders == Init => FoldersOK
BY StoreAssumption DEF Init, FoldersOK, CurrentIsWhole, At, Generations

(* All that is there is as old as the refresh. *)
LEMMA PresentOnes ==
  ASSUME TypeOK, FoldersOK
  PROVE  /\ Present \subseteq 1..refresh.gen
         /\ IsFiniteSet(Present)
         /\ \A S \in SUBSET Present : IsFiniteSet(S) /\ Cardinality(S) \in Nat
<1>1. refresh.gen \in Nat /\ Generations \subseteq Nat /\ Generations = 1..MaxGenerations
  BY StoreAssumption DEF TypeOK, RefreshType, Generations
<1>2. Present \subseteq 1..refresh.gen
  BY <1>1 DEF Present, FoldersOK
<1>3. IsFiniteSet(1..refresh.gen)
  BY <1>1, FS_Interval
<1> QED BY <1>2, <1>3, FS_Subset, FS_CardinalityType

(* The newest is never among the oldest. *)
LEMMA NewestIsKept ==
  ASSUME TypeOK, FoldersOK, At("list")
  PROVE  current \notin Oldest(Present)
<1>1. {h \in Present : h > current} = {}
  BY PresentOnes DEF FoldersOK, TypeOK, RefreshType
<1>2. Cardinality({h \in Present : h > current}) = 0
  BY <1>1, FS_EmptySet
<1> QED BY <1>2 DEF Oldest, Keep

(* If the previous one is among the oldest, one between the two newest stays. *)
LEMMA OneBetweenIsKept ==
  ASSUME TypeOK, FoldersOK, At("list"), previous # 0, previous \in Oldest(Present)
  PROVE  Between \ Oldest(Present) # {}
<1> DEFINE Newer == {h \in Present : h > previous} \ {current}
<1>1. Present \subseteq 1..current /\ current \in Nat /\ current \in Generations
  BY PresentOnes DEF FoldersOK, TypeOK, RefreshType, Generations
<1>2. Newer # {}
  <2>1. SUFFICES ASSUME Newer = {} PROVE FALSE
    OBVIOUS
  <2>2. {h \in Present : h > previous} \subseteq {current}
    BY <2>1
  <2>3. Cardinality({current}) = 1 /\ IsFiniteSet({current})
    BY FS_Singleton
  <2>4. Cardinality({h \in Present : h > previous}) <= 1
    BY <2>2, <2>3, FS_Subset
  <2>5. Cardinality({h \in Present : h > previous}) >= 2
    BY DEF Oldest, Keep
  <2>6. Cardinality({h \in Present : h > previous}) \in Nat
    BY PresentOnes
  <2> QED BY <2>4, <2>5, <2>6
<1>3. PICK m \in Newer : \A h \in Newer : h <= m
  <2>1. Newer \in SUBSET (0..current)
    <3>1. \A h \in Present : h \in 0..current
      BY <1>1
    <3> QED BY <3>1
  <2> HIDE DEF Newer
  <2> QED BY <1>1, <1>2, <2>1, GreatestExists
<1>4. m \in Between
  BY <1>1, <1>3 DEF Between, Present
<1>5. m \notin Oldest(Present)
  <2>1. {h \in Present : h > m} \subseteq {current}
    <3>1. ASSUME NEW h \in Present, h > m PROVE h = current
      <4>1. h \in Nat /\ m \in Nat /\ previous \in Nat /\ m > previous
        BY <1>1, <1>3 DEF TypeOK
      <4>2. h > previous
        BY <3>1, <4>1
      <4> QED BY <1>3, <3>1, <4>1, <4>2
    <3> QED BY <3>1
  <2>2. Cardinality({h \in Present : h > m}) <= 1
    <3>1. Cardinality({current}) = 1 /\ IsFiniteSet({current})
      BY FS_Singleton
    <3> QED BY <2>1, <3>1, FS_Subset
  <2>3. Cardinality({h \in Present : h > m}) \in Nat
    BY PresentOnes
  <2> QED BY <2>2, <2>3 DEF Oldest, Keep
<1> QED BY <1>4, <1>5

LEMMA FoldersStep ==
  ASSUME ~PruningRaises, TypeOK, FoldersOK, [Next]_vars
  PROVE  FoldersOK'
<1> USE StoreAssumption
<1>0. /\ current \in Nat /\ previous \in Nat /\ refresh.gen \in Nat /\ MaxGenerations \in Nat
      /\ Generations = 1..MaxGenerations
      /\ refresh.gen <= MaxGenerations /\ current <= MaxGenerations
  BY DEF TypeOK, RefreshType, Generations
<1>1. CASE UNCHANGED disk
  BY <1>1 DEF disk, FoldersOK, CurrentIsWhole, Between, At
<1>2. CASE Timer
  <2>1. CASE Start
    <3>1. /\ refresh'.gen = refresh.gen + 1 /\ refresh'.gen \in Generations
          /\ refresh'.pc \in {"walk", "blame"} /\ refresh'.todo = refresh.todo
          /\ refresh.todo = {}
      BY <2>1 DEF Start, NextGeneration, FoldersOK, At, TypeOK, RefreshType
    <3>2. \A g \in Generations : g # refresh.gen + 1 => folder'[g] = folder[g]
      BY <2>1 DEF Start, NextGeneration, TypeOK
    <3>3. \A g \in Generations : g > refresh.gen + 1 => folder'[g] = "none"
      BY <1>0, <3>2 DEF FoldersOK
    <3>4. current' = current /\ previous' = previous
      BY <2>1 DEF Start
    <3>5. CurrentIsWhole'
      BY <1>0, <3>2, <3>4 DEF FoldersOK, CurrentIsWhole
    <3>6. previous' # 0 => folder'[previous'] = folder[previous] /\ Between' = Between
      BY <1>0, <3>2, <3>4 DEF FoldersOK, Between
    <3>7. (previous # 0 => \/ previous \notin refresh.todo /\ folder[previous] = "whole"
                           \/ Between \ refresh.todo # {})'
      BY <3>1, <3>4, <3>6 DEF FoldersOK
    <3> QED BY <1>0, <3>1, <3>3, <3>4, <3>5, <3>7 DEF FoldersOK, At
  <2>2. CASE Kill
    <3>1. refresh'.pc = "idle" /\ refresh'.gen = refresh.gen /\ refresh'.todo = {}
      BY <2>2 DEF Kill, TypeOK, RefreshType
    <3>2. current' = current /\ previous' = previous
      BY <2>2 DEF Kill
    <3>3. CASE UNCHANGED folder
      BY <3>1, <3>2, <3>3 DEF FoldersOK, CurrentIsWhole, Between, At
    <3>4. CASE At("clean") /\ folder' = [folder EXCEPT ![refresh.gen] = "partial"]
      <4>1. /\ current < refresh.gen /\ refresh.gen \in Generations
        BY <1>0, <3>4 DEF FoldersOK, At
      <4>2. \A g \in Generations : g # refresh.gen => folder'[g] = folder[g]
        BY <3>4 DEF TypeOK
      <4>3. Between' = Between
        BY <1>0, <3>2, <4>1, <4>2 DEF Between
      <4> QED BY <1>0, <3>1, <3>2, <4>1, <4>2, <4>3 DEF FoldersOK, CurrentIsWhole, At
    <3> QED BY <2>2, <3>3, <3>4 DEF Kill
  <2> QED BY <1>2, <2>1, <2>2 DEF Timer
<1>3. CASE Walk
  <2>1. /\ current < refresh.gen /\ refresh.gen \in Generations /\ refresh.todo = {}
    BY <1>0, <1>3 DEF Walk, FoldersOK, At
  <2>2. refresh'.pc \in {"promote", "clean"} /\ refresh'.gen = refresh.gen /\ refresh'.todo = {}
    BY <1>3, <2>1 DEF Walk, TypeOK, RefreshType
  <2>3. \A g \in Generations : g # refresh.gen => folder'[g] = folder[g]
    BY <1>3 DEF Walk, TypeOK
  <2>4. refresh'.pc = "promote" => folder'[refresh.gen] = "whole"
    BY <1>3, <2>1 DEF Walk, TypeOK, RefreshType
  <2>5. current' = current /\ previous' = previous
    BY <1>3 DEF Walk
  <2>6. Between' = Between
    BY <1>0, <2>1, <2>3, <2>5 DEF Between
  <2> QED BY <1>0, <2>1, <2>2, <2>3, <2>4, <2>5, <2>6 DEF FoldersOK, CurrentIsWhole, At
<1>4. CASE Promote
  <2>1. /\ current < refresh.gen /\ refresh.gen \in Generations /\ refresh.todo = {}
        /\ folder[refresh.gen] = "whole"
    BY <1>0, <1>4 DEF Promote, FoldersOK, At
  <2>2. refresh'.pc = "list" /\ refresh'.gen = refresh.gen /\ refresh'.todo = {}
    BY <1>4, <2>1 DEF Promote, TypeOK, RefreshType
  <2>3. current' = refresh.gen /\ previous' = current /\ folder' = folder
    BY <1>4 DEF Promote
  <2>4. current # 0 => folder[current] = "whole"
    BY DEF FoldersOK, CurrentIsWhole
  <2> QED BY <1>0, <2>1, <2>2, <2>3, <2>4 DEF FoldersOK, CurrentIsWhole, At
<1>5. CASE PromoteFails \/ Pruned \/ Report \/ ReportFails \/ Blame
  <2>1. folder' = folder /\ current' = current /\ previous' = previous
    BY <1>5 DEF PromoteFails, Pruned, Report, ReportFails, Blame
  <2>2. refresh'.gen = refresh.gen /\ refresh'.todo = {} /\ refresh.todo = {}
    BY <1>5 DEF PromoteFails, Pruned, Report, ReportFails, Blame, TypeOK, RefreshType, FoldersOK, At
  <2>3. \/ refresh'.pc \in {"idle", "blame"}
        \/ refresh'.pc = "clean" /\ At("promote")
        \/ refresh'.pc = "report" /\ At("prune")
    BY <1>5 DEF PromoteFails, Pruned, Report, ReportFails, Blame, TypeOK, RefreshType
  <2>4. ~At("idle")
    BY <1>5 DEF PromoteFails, Pruned, Report, ReportFails, Blame, At
  <2>5. Between' = Between
    BY <2>1 DEF Between
  <2> QED BY <2>1, <2>2, <2>3, <2>4, <2>5 DEF FoldersOK, CurrentIsWhole, At
<1>6. CASE List
  <2>1. /\ refresh'.pc = "prune" /\ refresh'.gen = refresh.gen
        /\ refresh'.todo = Oldest(Present)
    BY <1>6 DEF List, TypeOK, RefreshType
  <2>2. folder' = folder /\ current' = current /\ previous' = previous /\ At("list")
    BY <1>6 DEF List
  <2>3. \A g \in Oldest(Present) : g < current
    <3>1. Oldest(Present) \subseteq Present /\ current \notin Oldest(Present)
      BY <2>2, NewestIsKept DEF Oldest
    <3> QED BY <1>0, <2>2, <3>1, PresentOnes DEF FoldersOK, At
  <2>4. previous # 0 => \/ previous \notin Oldest(Present) /\ folder[previous] = "whole"
                        \/ Between \ Oldest(Present) # {}
    <3>1. SUFFICES ASSUME previous # 0, previous \notin Oldest(Present), folder[previous] # "whole"
                   PROVE  Between \ Oldest(Present) # {}
      BY <2>2, OneBetweenIsKept
    <3>2. PICK h \in Between : TRUE
      BY <2>2, <3>1 DEF FoldersOK, At
    <3> HIDE DEF Between
    <3>3. Between \subseteq Generations /\ h \in Generations
      BY <3>2 DEF Between
    <3> DEFINE B == Between
    <3>4. PICK m \in B : \A k \in B : k <= m
      <4>1. B \in SUBSET (0..MaxGenerations) /\ B # {}
        BY <1>0, <3>2, <3>3
      <4> HIDE DEF B
      <4> QED BY <1>0, <4>1, GreatestExists
    <3>5. {k \in Present : k > m} \subseteq {current}
      <4>1. ASSUME NEW k \in Present, k > m PROVE k = current
        <5>1. k \in 1..refresh.gen /\ refresh.gen = current /\ k \in Generations /\ folder[k] # "none"
          BY PresentOnes, <2>2 DEF FoldersOK, At, Present
        <5>2. m \in Nat /\ previous < m
          BY <1>0, <3>3, <3>4 DEF Between
        <5>3. k < current => k \in B
          BY <1>0, <4>1, <5>1, <5>2 DEF Between
        <5> QED BY <1>0, <3>4, <4>1, <5>1, <5>2, <5>3
      <4> QED BY <4>1
    <3>6. Cardinality({k \in Present : k > m}) <= 1
      <4>1. Cardinality({current}) = 1 /\ IsFiniteSet({current})
        BY FS_Singleton
      <4> QED BY <3>5, <4>1, FS_Subset
    <3>7. Cardinality({k \in Present : k > m}) \in Nat
      BY PresentOnes
    <3>8. m \notin Oldest(Present)
      BY <3>6, <3>7 DEF Oldest, Keep
    <3> QED BY <3>4, <3>8
  <2>5. Between' = Between
    BY <2>2 DEF Between
  <2> QED BY <2>1, <2>2, <2>3, <2>4, <2>5 DEF FoldersOK, CurrentIsWhole, At
<1>7. CASE Prune
  <2> DEFINE g == Min(refresh.todo)
  <2>1. /\ At("prune") /\ current' = current /\ previous' = previous
        /\ refresh'.pc = "prune" /\ refresh'.gen = refresh.gen
    BY <1>7 DEF Prune, At, TypeOK, RefreshType
  <2>2. g \in refresh.todo /\ g \in Generations /\ refresh.todo \subseteq Generations
    <3>1. refresh.todo \in SUBSET Nat /\ refresh.todo \subseteq Generations
      BY DEF TypeOK, RefreshType, Generations
    <3>2. refresh.todo # {}
      BY <1>7 DEF Prune
    <3> QED BY <3>1, <3>2, MinIsThere
  <2> HIDE DEF g
  <2>3. \/ /\ folder' = [folder EXCEPT ![g] = "partial"] /\ refresh'.todo = refresh.todo
        \/ /\ folder' \in {folder, [folder EXCEPT ![g] = "none"]}
           /\ refresh'.todo = refresh.todo \ {g}
    BY <1>7 DEF Prune, TypeOK, RefreshType, g
  <2>4. \A h \in Generations : h # g => folder'[h] = folder[h]
    BY <2>3 DEF TypeOK
  <2>5. refresh'.todo \subseteq refresh.todo /\ refresh.todo \ refresh'.todo \subseteq {g}
    BY <2>3
  <2>6. g < current /\ \A h \in refresh'.todo : h < current
    BY <2>2, <2>5 DEF FoldersOK
  <2>7. CurrentIsWhole'
    BY <1>0, <2>1, <2>2, <2>4, <2>6 DEF FoldersOK, CurrentIsWhole, Generations
  <2>8. \A h \in Generations : h > refresh.gen => folder'[h] = "none"
    BY <1>0, <2>1, <2>2, <2>4, <2>6 DEF FoldersOK
  <2>9. previous # 0 => \/ previous \notin refresh'.todo /\ folder'[previous] = "whole"
                        \/ Between' \ refresh'.todo # {}
    <3>1. CASE previous # 0 /\ previous \notin refresh.todo /\ folder[previous] = "whole"
      BY <1>0, <2>2, <2>4, <2>5, <3>1 DEF FoldersOK
    <3>2. ASSUME NEW m \in Between \ refresh.todo
          PROVE  m \in Between' \ refresh'.todo
      <4>1. m \in Generations /\ previous < m /\ m < current /\ folder[m] # "none"
        BY DEF Between
      <4>2. m # g
        BY <2>2, <3>2
      <4> QED BY <2>1, <2>4, <2>5, <3>2, <4>1, <4>2 DEF Between
    <3> QED BY <3>1, <3>2 DEF FoldersOK
  <2> QED BY <1>0, <2>1, <2>6, <2>7, <2>8, <2>9 DEF FoldersOK, At
<1>8. CASE Clean
  <2>1. /\ current < refresh.gen /\ refresh.gen \in Generations /\ refresh.todo = {}
    BY <1>0, <1>8 DEF Clean, FoldersOK, At
  <2>2. refresh'.pc = "blame" /\ refresh'.gen = refresh.gen /\ refresh'.todo = {}
    BY <1>8, <2>1 DEF Clean, TypeOK, RefreshType
  <2>3. \A g \in Generations : g # refresh.gen => folder'[g] = folder[g]
    BY <1>8 DEF Clean, TypeOK
  <2>4. current' = current /\ previous' = previous
    BY <1>8 DEF Clean
  <2>5. Between' = Between
    BY <1>0, <2>1, <2>3, <2>4 DEF Between
  <2> QED BY <1>0, <2>1, <2>2, <2>3, <2>4, <2>5 DEF FoldersOK, CurrentIsWhole, At
<1>9. ~PruningFails
  BY DEF PruningFails
<1>10. CASE Restart \/ \E r \in Requests : Visit(r) \/ Serve(r)
  BY <1>1, <1>10 DEF Restart, Visit, Serve
<1>11. CASE UNCHANGED vars
  BY <1>1, <1>11 DEF vars, disk
<1> QED
  BY <1>2, <1>3, <1>4, <1>5, <1>6, <1>7, <1>8, <1>9, <1>10, <1>11 DEF Next, Refresh


-----------------------------------------------------------------------------
(* The cache and the requests *)

WebOK == CacheOK /\ \A r \in Requests : RequestOK(r)

LEMMA InitWeb == Init => WebOK
BY DEF Init, WebOK, CacheOK, RequestOK, EmptyCache, IdleRequest, RequestAt, On, InLock

(* What is current only grows. *)
LEMMA CurrentGrows ==
  ASSUME TypeOK, FoldersOK, [Next]_vars
  PROVE  current' \in Nat /\ current \in Nat /\ current <= current'
<1>1. current \in Nat /\ refresh.gen \in Nat
  BY StoreAssumption DEF TypeOK, RefreshType
<1>2. CASE Promote
  BY <1>1, <1>2 DEF Promote, FoldersOK, At
<1>3. CASE ~Promote
  <2>1. current' = current
    BY <1>3 DEF Next, Refresh, Timer, Start, Kill, Walk, PromoteFails, List, PruningFails, Prune,
                Pruned, Report, ReportFails, Clean, Blame, Restart, Visit, Serve, disk, vars
  <2> QED BY <1>1, <2>1
<1> QED BY <1>2, <1>3

(* A step of the refresh leaves the web server alone. *)
LEMMA WebStays ==
  ASSUME TypeOK, WebOK, UNCHANGED web, current' \in Nat, current <= current'
  PROVE  WebOK'
<1>1. /\ current \in Nat
      /\ cache.stamp \in Nat /\ cache.index \in Nat /\ cache.manifest \in Nat
  BY StoreAssumption DEF TypeOK
<1>2. cache' = cache /\ request' = request
  BY DEF web
<1>3. CacheOK'
  BY <1>1, <1>2 DEF WebOK, CacheOK, InLock, On
<1>4. ASSUME NEW r \in Requests PROVE RequestOK(r)'
  <2>1. /\ request[r].floor \in Nat /\ request[r].stamp \in Nat /\ request[r].read \in Nat
    BY StoreAssumption DEF TypeOK, RequestType
  <2>2. RequestOK(r)
    BY DEF WebOK
  <2> QED BY <1>1, <1>2, <2>1, <2>2 DEF RequestOK, InLock, On
<1> QED BY <1>3, <1>4 DEF WebOK

(* A request other than r does not see a step of r that leaves the cache alone  *)
(* and does not give r the lock.                                                *)
LEMMA OthersStay ==
  ASSUME TypeOK, WebOK, NEW r \in Requests, NEW q \in RequestType,
         request' = [request EXCEPT ![r] = q],
         UNCHANGED <<cache, current>>,
         ~(q.pc \in {"manifest", "index", "stamp"}) \/ InLock(r) \/ LockFree,
         RequestOK(r)'
  PROVE  WebOK'
<1>1. \A s \in Requests : s # r => request'[s] = request[s]
  BY DEF TypeOK
<1>2. request'[r] = q
  BY DEF TypeOK
<1>3. \A s \in Requests : s # r => (InLock(s)' <=> InLock(s))
  BY <1>1 DEF InLock, On
<1>4. InLock(r)' => InLock(r) \/ LockFree
  BY <1>2 DEF InLock, On
<1>5. \A s, t \in Requests : (InLock(s) /\ InLock(t))' => s = t
  BY <1>3, <1>4 DEF WebOK, CacheOK, LockFree
<1>6. CacheOK'
  BY <1>5 DEF WebOK, CacheOK
<1>7. ASSUME NEW s \in Requests, s # r PROVE RequestOK(s)'
  <2>1. RequestOK(s)
    BY DEF WebOK
  <2> QED BY <1>1, <1>7, <2>1 DEF RequestOK, InLock, On
<1> QED BY <1>6, <1>7 DEF WebOK


LEMMA ServeStep ==
  ASSUME TypeOK, WebOK, NEW r \in Requests, Serve(r)
  PROVE  WebOK'
<1> USE StoreAssumption
<1>0. /\ current' = current /\ current \in Nat /\ current <= current
      /\ cache.stamp \in Nat /\ cache.index \in Nat /\ cache.manifest \in Nat
      /\ request[r].floor \in Nat /\ request[r].stamp \in Nat /\ request[r].read \in Nat
  BY DEF Serve, disk, TypeOK, RequestType
<1>1. /\ request[r] \in RequestType /\ RequestOK(r)
      /\ cache.stamp <= cache.index /\ cache.index <= cache.manifest /\ cache.manifest <= current
  BY DEF TypeOK, WebOK, CacheOK
<1>2. \A q : request' = [request EXCEPT ![r] = q] => request'[r] = q
  BY DEF TypeOK
<1>3. CASE request' = [request EXCEPT ![r] = IdleRequest] /\ UNCHANGED cache
  <2>1. IdleRequest \in RequestType /\ IdleRequest.pc = "idle" /\ IdleRequest.floor = 0
        /\ IdleRequest.stamp = 0 /\ IdleRequest.look = "good"
    BY DEF IdleRequest, RequestAt, RequestType
  <2>2. request'[r] = IdleRequest
    BY <1>2, <1>3
  <2>3. RequestOK(r)'
    BY <1>0, <2>1, <2>2 DEF RequestOK, InLock, On
  <2> QED BY <1>0, <1>3, <2>1, <2>3, OthersStay
<1>4. CASE Stat(r)
  <2>1. CASE current = 0
    BY <1>3, <1>4, <2>1 DEF Stat, Reply, Finish
  <2>2. CASE current # 0
    <3> DEFINE q == [request[r] EXCEPT !.pc = "compare", !.stamp = current, !.look = "good"]
    <3>1. q \in RequestType
      BY <1>1, EditType DEF TypeOK
    <3>2. request' = [request EXCEPT ![r] = q] /\ cache' = cache
      BY <1>4, <2>2 DEF Stat
    <3>3. q.pc = "compare" /\ q.stamp = current /\ q.look = "good" /\ q.floor = request[r].floor
      BY <1>1 DEF RequestType
    <3> HIDE DEF q
    <3>4. RequestOK(r)'
      BY <1>0, <1>1, <1>2, <3>2, <3>3 DEF RequestOK, InLock, On
    <3> QED BY <1>0, <3>1, <3>2, <3>3, <3>4, OthersStay
  <2> QED BY <2>1, <2>2
<1>5. ASSUME NEW step \in {"return", "lock", "pick"}, Go(r, step), UNCHANGED cache,
             step = "lock" => On(r, "compare"),
             step = "return" => /\ On(r, "compare") \/ On(r, "lock")
                                /\ cache.stamp = request[r].stamp,
             step = "pick" => On(r, "return")
      PROVE  WebOK'
  <2> DEFINE q == [request[r] EXCEPT !.pc = step]
  <2>1. q \in RequestType
    BY <1>1 DEF RequestType
  <2>2. request' = [request EXCEPT ![r] = q]
    BY <1>5 DEF Go
  <2>3. /\ q.pc = step /\ q.stamp = request[r].stamp /\ q.look = request[r].look
        /\ q.floor = request[r].floor
    BY <1>1 DEF RequestType
  <2> HIDE DEF q
  <2>4. RequestOK(r)'
    BY <1>0, <1>1, <1>2, <1>5, <2>2, <2>3 DEF RequestOK, InLock, On
  <2> QED BY <1>0, <1>5, <2>1, <2>2, <2>3, <2>4, OthersStay
<1>6. CASE Compare(r)
  BY <1>5, <1>6 DEF Compare
<1>7. CASE Read(r)
  <2>1. CASE cache.stamp = request[r].stamp
    BY <1>5, <1>7, <2>1 DEF Read
  <2>2. CASE cache.stamp # request[r].stamp
    <3> DEFINE q == [request[r] EXCEPT !.pc = "manifest", !.read = current]
    <3>1. q \in RequestType
      BY <1>1, EditType DEF TypeOK
    <3>2. request' = [request EXCEPT ![r] = q] /\ cache' = cache /\ LockFree
      BY <1>7, <2>2 DEF Read
    <3>3. /\ q.pc = "manifest" /\ q.read = current /\ q.look = request[r].look
          /\ q.stamp = request[r].stamp /\ q.floor = request[r].floor
      BY <1>1 DEF RequestType
    <3> HIDE DEF q
    <3>4. RequestOK(r)'
      BY <1>0, <1>1, <1>2, <1>7, <3>2, <3>3 DEF RequestOK, InLock, On, Read
    <3> QED BY <1>0, <3>1, <3>2, <3>3, <3>4, OthersStay
  <2> QED BY <2>1, <2>2
<1>8. CASE ReadFails(r)
  <2> DEFINE q == [request[r] EXCEPT !.pc = "return", !.look = "failed"]
  <2>1. q \in RequestType
    BY <1>1, EditType DEF TypeOK
  <2>2. request' = [request EXCEPT ![r] = q] /\ cache' = cache /\ ReadsFail
    BY <1>8 DEF ReadFails
  <2>3. /\ q.pc = "return" /\ q.look = "failed"
        /\ q.stamp = request[r].stamp /\ q.floor = request[r].floor
    BY <1>1 DEF RequestType
  <2> HIDE DEF q
  <2>4. RequestOK(r)'
    BY <1>0, <1>1, <1>2, <2>2, <2>3 DEF RequestOK, InLock, On
  <2> QED BY <1>0, <2>1, <2>2, <2>3, <2>4, OthersStay
<1>9. ASSUME NEW step \in {"index", "stamp", "return"}, Go(r, step), InLock(r),
             cache' = CASE step = "index" -> [cache EXCEPT !.manifest = request[r].read]
                        [] step = "stamp" -> [cache EXCEPT !.index = request[r].read]
                        [] OTHER -> [cache EXCEPT !.stamp = request[r].stamp],
             step = "index" => On(r, "manifest"),
             step = "stamp" => On(r, "index"),
             step = "return" => On(r, "stamp")
      PROVE  WebOK'
  <2>1. /\ request'[r].pc = step /\ request'[r].stamp = request[r].stamp
        /\ request'[r].read = request[r].read /\ request'[r].floor = request[r].floor
        /\ request'[r].look = request[r].look
    BY <1>1, <1>9 DEF Go, TypeOK, RequestType
  <2>2. \A q \in Requests : q # r => request'[q] = request[q] /\ ~InLock(q)
    BY <1>9 DEF Go, TypeOK, WebOK, CacheOK
  <2>3. /\ cache'.manifest = IF step = "index" THEN request[r].read ELSE cache.manifest
        /\ cache'.index = IF step = "stamp" THEN request[r].read ELSE cache.index
        /\ cache'.stamp = IF step = "return" THEN request[r].stamp ELSE cache.stamp
    <3>1. CASE step = "index"
      BY <1>9, <3>1 DEF TypeOK
    <3>2. CASE step = "stamp"
      BY <1>9, <3>2 DEF TypeOK
    <3>3. CASE step = "return"
      BY <1>9, <3>3 DEF TypeOK
    <3> QED BY <3>1, <3>2, <3>3
  <2>4. /\ request[r].floor <= request[r].stamp /\ request[r].stamp <= request[r].read
        /\ request[r].read <= current /\ cache.manifest <= request[r].read
    BY <1>1, <1>9 DEF RequestOK
  <2>5. /\ cache'.stamp <= cache'.index /\ cache'.index <= cache'.manifest
        /\ cache'.manifest <= current /\ cache.index <= cache'.index
    BY <1>0, <1>1, <1>9, <2>3, <2>4 DEF RequestOK
  <2>6. \A s, t \in Requests : (InLock(s) /\ InLock(t))' => s = t
    BY <2>2 DEF InLock, On
  <2>7. CacheOK'
    BY <1>0, <2>5, <2>6 DEF CacheOK
  <2>8. RequestOK(r)'
    BY <1>0, <1>1, <1>9, <2>1, <2>3, <2>4, <2>5 DEF RequestOK, InLock, On
  <2>9. ASSUME NEW q \in Requests, q # r PROVE RequestOK(q)'
    <3>1. request'[q] = request[q] /\ ~InLock(q) /\ RequestOK(q) /\ request[q].floor \in Nat
      BY <2>2, <2>9 DEF WebOK, TypeOK, RequestType
    <3>2. cache'.index \in Nat /\ cache.index <= cache'.index
      BY <1>0, <2>3, <2>5
    <3> QED BY <1>0, <3>1, <3>2 DEF RequestOK, InLock, On
  <2> QED BY <2>7, <2>8, <2>9 DEF WebOK
<1>10. CASE SetManifest(r)
  BY <1>9, <1>10 DEF SetManifest, InLock
<1>11. CASE SetIndex(r)
  BY <1>9, <1>11 DEF SetIndex, InLock
<1>12. CASE SetStamp(r)
  BY <1>9, <1>12 DEF SetStamp, InLock
<1>13. CASE Return(r)
  <2>1. CASE Reply(r, 0) \/ Reply(r, cache.manifest)
    BY <1>3, <1>13, <2>1 DEF Return, Reply, Finish
  <2>2. CASE Go(r, "pick")
    BY <1>5, <1>13, <2>2 DEF Return
  <2>3. CASE request' = [request EXCEPT ![r] = [@ EXCEPT !.pc = "stat", !.loads = 1]]
    <3> DEFINE q == [request[r] EXCEPT !.pc = "stat", !.loads = 1]
    <3>1. q \in RequestType
      BY <1>1, EditType DEF TypeOK
    <3>2. request' = [request EXCEPT ![r] = q] /\ cache' = cache
      BY <1>13, <2>3 DEF Return
    <3>3. /\ q.pc = "stat" /\ q.look = request[r].look
          /\ q.stamp = request[r].stamp /\ q.floor = request[r].floor
      BY <1>1 DEF RequestType
    <3> HIDE DEF q
    <3>4. RequestOK(r)'
      BY <1>0, <1>1, <1>2, <3>2, <3>3 DEF RequestOK, InLock, On
    <3> QED BY <1>0, <3>1, <3>2, <3>3, <3>4, OthersStay
  <2> QED BY <1>13, <2>1, <2>2, <2>3 DEF Return
<1>14. CASE Pick(r)
  <2>1. CASE Reply(r, cache.index)
    BY <1>3, <1>14, <2>1 DEF Pick, Reply, Finish
  <2>2. CASE request' = [request EXCEPT ![r] = RequestAt("seek", "page", 0)]
    <3> DEFINE q == RequestAt("seek", "page", 0)
    <3>1. q \in RequestType /\ q.pc = "seek" /\ q.floor = 0 /\ q.stamp = 0 /\ q.look = "good"
      BY DEF RequestAt, RequestType
    <3> HIDE DEF q
    <3>2. request' = [request EXCEPT ![r] = q] /\ cache' = cache
      BY <1>14, <2>2 DEF Pick, q
    <3>3. request'[r] = q
      BY <1>2, <3>2
    <3>4. RequestOK(r)'
      BY <1>0, <3>1, <3>3 DEF RequestOK, InLock, On
    <3> QED BY <1>0, <3>1, <3>2, <3>4, OthersStay
  <2> QED BY <1>14, <2>1, <2>2 DEF Pick
<1>15. CASE Seek(r)
  BY <1>3, <1>15 DEF Seek, Finish
<1> QED
  BY <1>4, <1>6, <1>7, <1>8, <1>10, <1>11, <1>12, <1>13, <1>14, <1>15 DEF Serve

LEMMA WebStep ==
  ASSUME TypeOK, FoldersOK, WebOK, [Next]_vars
  PROVE  WebOK'
<1> USE StoreAssumption
<1>1. CASE UNCHANGED web
  BY <1>1, CurrentGrows, WebStays
<1>2. CASE Restart
  <2>1. /\ cache' = EmptyCache /\ current' = current /\ current \in Nat
        /\ \A r \in Requests : request'[r] = IdleRequest
    BY <1>2 DEF Restart, disk, TypeOK
  <2>2. /\ IdleRequest.pc = "idle" /\ IdleRequest.floor = 0
        /\ IdleRequest.stamp = 0 /\ IdleRequest.look = "good"
    BY DEF IdleRequest, RequestAt
  <2> QED BY <2>1, <2>2 DEF WebOK, CacheOK, RequestOK, EmptyCache, InLock, On
<1>3. ASSUME NEW r \in Requests, Visit(r) PROVE WebOK'
  <2>1. PICK kind \in {"page", "event"} :
          request' = [request EXCEPT ![r] = RequestAt("stat", kind, current)]
    BY <1>3 DEF Visit, Ask
  <2> DEFINE q == RequestAt("stat", kind, current)
  <2>2. /\ q \in RequestType /\ q.pc = "stat" /\ q.floor = current /\ q.stamp = 0
        /\ q.look = "good"
    BY DEF RequestAt, RequestType, TypeOK
  <2> HIDE DEF q
  <2>3. request' = [request EXCEPT ![r] = q]
    BY <2>1 DEF q
  <2>4. cache' = cache /\ current' = current /\ current \in Nat
    BY <1>3 DEF Visit, Ask, disk, TypeOK
  <2>5. request'[r] = q
    BY <2>3 DEF TypeOK
  <2>6. RequestOK(r)'
    BY <2>2, <2>4, <2>5 DEF RequestOK, InLock, On
  <2> QED BY <2>2, <2>3, <2>4, <2>6, OthersStay
<1>4. ASSUME NEW r \in Requests, Serve(r) PROVE WebOK'
  BY <1>4, ServeStep
<1>5. CASE Refresh \/ Timer \/ UNCHANGED vars
  BY <1>1, <1>5 DEF Refresh, Timer, vars, web
<1> QED BY <1>2, <1>3, <1>4, <1>5 DEF Next


-----------------------------------------------------------------------------
(* The invariant holds, whatever is killed, fails to be written or resists its  *)
(* removal, provided the pruning after a promotion does not raise               *)
(* (dashboard/storage.py:54).                                                   *)
THEOREM GenerationInvariantHolds ==
  ASSUME ~PruningRaises
  PROVE  Spec => []GenerationInvariant
<1>1. Init => GenerationInvariant
  BY InitType, InitFolders, InitWeb DEF GenerationInvariant, WebOK
<1>2. GenerationInvariant /\ [Next]_vars => GenerationInvariant'
  BY TypeStep, FoldersStep, WebStep DEF GenerationInvariant, WebOK
<1> QED BY <1>1, <1>2, PTL DEF Spec

(* current.json points into a complete folder (write_generation). *)
THEOREM CurrentStaysWhole ==
  ASSUME ~PruningRaises
  PROVE  Spec => []CurrentIsWhole
<1>1. GenerationInvariant => CurrentIsWhole
  BY DEF GenerationInvariant, FoldersOK
<1> QED BY <1>1, GenerationInvariantHolds, PTL

(* The generation before the last promotion stays readable, unless a folder     *)
(* that was never current took its place (prune_generations).                   *)
THEOREM PreviousStaysReadable ==
  ASSUME ~PruningRaises
  PROVE  Spec => []PreviousReadable
<1>1. GenerationInvariant => PreviousReadable
  BY DEF GenerationInvariant, FoldersOK, PreviousReadable, Between
<1> QED BY <1>1, GenerationInvariantHolds, PTL

(* A look at current.json that succeeded shows what was there when the request  *)
(* came in, or newer (PolymarketRepository.load).                               *)
THEOREM LoadsSeePromotions ==
  ASSUME ~PruningRaises
  PROVE  Spec => []SeesPromotion
<1>1. ASSUME GenerationInvariant PROVE SeesPromotion
  <2>1. cache.index \in Nat /\ cache.manifest \in Nat /\ cache.index <= cache.manifest
    BY <1>1, StoreAssumption DEF GenerationInvariant, TypeOK, CacheOK
  <2>2. ASSUME NEW r \in Requests
        PROVE  /\ RequestOK(r) /\ request[r].floor \in Nat
    BY <1>1, StoreAssumption DEF GenerationInvariant, TypeOK, RequestType
  <2> QED BY <2>1, <2>2 DEF SeesPromotion, RequestOK
<1> QED BY <1>1, GenerationInvariantHolds, PTL

-----------------------------------------------------------------------------
(* The refinement *)

LEMMA InitImplements == Init => Latest!Init
BY DEF Init, Latest!Init, On, IdleRequest, RequestAt

LEMMA StepImplements ==
  ASSUME ~ReadsFail, GenerationInvariant, [Next]_vars
  PROVE  [Latest!Next]_(Latest!vars)
<1> USE StoreAssumption
<1> DEFINE waiting == {r \in Requests : ~On(r, "idle") /\ ~On(r, "seek")}
           came == [r \in Requests |-> request[r].floor]
<1>0. /\ TypeOK /\ FoldersOK /\ CacheOK /\ WebOK /\ current \in Nat
      /\ cache.index \in Nat /\ cache.manifest \in Nat
      /\ answer \in [Requests -> 0..MaxGenerations]
      /\ request \in [Requests -> RequestType]
  BY DEF GenerationInvariant, WebOK, TypeOK
<1>1. CASE Promote /\ UNCHANGED web
  <2>1. current' = refresh.gen /\ current < refresh.gen /\ refresh.gen \in Nat
    BY <1>0, <1>1 DEF Promote, FoldersOK, At, TypeOK, RefreshType
  <2>2. waiting' = waiting /\ came' = came /\ answer' = answer
    BY <1>1 DEF web, On
  <2> QED BY <2>1, <2>2 DEF Latest!Next, Latest!Publish
<1>2. CASE UNCHANGED web /\ current' = current
  <2>1. waiting' = waiting /\ came' = came /\ answer' = answer
    BY <1>2 DEF web, On
  <2> QED BY <1>2, <2>1 DEF Latest!vars
<1>3. CASE Restart
  <2>1. \A r \in Requests : request'[r].pc = "idle" /\ request'[r].floor = 0
    BY <1>3 DEF Restart, IdleRequest, RequestAt
  <2>2. waiting' = {} /\ came' = [r \in Requests |-> 0]
    BY <2>1 DEF On
  <2>3. current' = current /\ answer' = [r \in Requests |-> 0]
    BY <1>3 DEF Restart, disk
  <2> QED BY <2>2, <2>3 DEF Latest!Next, Latest!Lose
<1>4. ASSUME NEW r \in Requests, Visit(r) PROVE [Latest!Next]_(Latest!vars)
  <2>1. /\ On(r, "idle") /\ current' = current /\ answer' = [answer EXCEPT ![r] = 0]
    BY <1>4 DEF Visit, Ask, disk
  <2>2. /\ request'[r].pc = "stat" /\ request'[r].floor = current
        /\ \A q \in Requests : q # r => request'[q] = request[q]
    BY <1>0, <1>4 DEF Visit, Ask, RequestAt
  <2>3. waiting' = waiting \cup {r} /\ r \notin waiting
    BY <2>1, <2>2 DEF On
  <2>4. came' = [came EXCEPT ![r] = current]
    BY <2>2
  <2> QED BY <2>1, <2>3, <2>4 DEF Latest!Next, Latest!Ask
<1>5. ASSUME NEW r \in Requests, NEW q, NEW g \in Nat, r \in waiting,
             request' = [request EXCEPT ![r] = q], q.pc \in {"idle", "seek"}, q.floor = 0,
             answer' = [answer EXCEPT ![r] = g], current' = current,
             request[r].floor <= g, g <= current
      PROVE  [Latest!Next]_(Latest!vars)
  <2>1. /\ request'[r] = q
        /\ \A s \in Requests : s # r => request'[s] = request[s]
    BY <1>0, <1>5
  <2>2. waiting' = waiting \ {r}
    BY <1>5, <2>1 DEF On
  <2>3. came' = [came EXCEPT ![r] = 0]
    <3>1. came' = [s \in Requests |-> request'[s].floor]
      OBVIOUS
    <3>2. \A s \in Requests : request'[s].floor = IF s = r THEN 0 ELSE request[s].floor
      BY <1>5, <2>1
    <3> QED BY <3>1, <3>2
  <2>4. g \in came[r]..current
    <3>1. request[r].floor \in Nat
      BY <1>0 DEF RequestType
    <3> QED BY <1>0, <1>5, <3>1
  <2>5. Latest!Answer(r)
    BY <1>5, <2>2, <2>3, <2>4 DEF Latest!Answer
  <2> QED BY <2>5 DEF Latest!Next
<1>6. ASSUME NEW r \in Requests, NEW q, request' = [request EXCEPT ![r] = q],
             q.floor = request[r].floor, q.pc \notin {"idle", "seek"}, r \in waiting,
             UNCHANGED <<answer, current>>
      PROVE  [Latest!Next]_(Latest!vars)
  <2>1. /\ request'[r] = q
        /\ \A s \in Requests : s # r => request'[s] = request[s]
    BY <1>0, <1>6
  <2>2. waiting' = waiting
    BY <1>6, <2>1 DEF On
  <2>3. came' = came
    BY <1>6, <2>1
  <2> QED BY <1>6, <2>2, <2>3 DEF Latest!vars
<1>7. ASSUME NEW r \in Requests, Serve(r) PROVE [Latest!Next]_(Latest!vars)
  <2>0. /\ current' = current /\ request[r] \in RequestType /\ request[r].floor \in Nat
        /\ IdleRequest.pc = "idle" /\ IdleRequest.floor = 0
    BY <1>0, <1>7 DEF Serve, disk, RequestType, IdleRequest, RequestAt
  <2>1. RequestOK(r) /\ request[r].look = "good"
    BY <1>0 DEF WebOK, RequestOK
  <2>2. cache.index <= cache.manifest /\ cache.manifest <= current
    BY <1>0 DEF CacheOK
  <2>3. ASSUME NEW step \in {"return", "lock", "pick", "index", "stamp"}, r \in waiting,
               Go(r, step), UNCHANGED answer
        PROVE  [Latest!Next]_(Latest!vars)
    <3> DEFINE q == [request[r] EXCEPT !.pc = step]
    <3>1. q.floor = request[r].floor /\ q.pc = step
      BY <2>0 DEF RequestType
    <3>2. request' = [request EXCEPT ![r] = q]
      BY <2>3 DEF Go
    <3> HIDE DEF q
    <3> QED BY <1>6, <2>0, <2>3, <3>1, <3>2
  <2>4. CASE Stat(r)
    <3>1. r \in waiting
      BY <2>4 DEF Stat, On
    <3>2. CASE current = 0
      <4>1. request[r].floor <= 0
        BY <2>1, <3>2 DEF RequestOK
      <4> QED BY <1>0, <1>5, <2>0, <2>4, <3>1, <3>2, <4>1 DEF Stat, Reply, Finish
    <3>3. CASE current # 0
      <4> DEFINE q == [request[r] EXCEPT !.pc = "compare", !.stamp = current, !.look = "good"]
      <4>1. q.floor = request[r].floor /\ q.pc = "compare"
        BY <2>0 DEF RequestType
      <4>2. request' = [request EXCEPT ![r] = q] /\ answer' = answer
        BY <2>4, <3>3 DEF Stat
      <4> HIDE DEF q
      <4> QED BY <1>6, <2>0, <3>1, <4>1, <4>2
    <3> QED BY <3>2, <3>3
  <2>5. CASE Compare(r)
    <3>1. r \in waiting
      BY <2>5 DEF Compare, On
    <3> QED BY <2>3, <2>5, <3>1 DEF Compare
  <2>6. CASE Read(r)
    <3>1. r \in waiting
      BY <2>6 DEF Read, On
    <3>2. CASE cache.stamp = request[r].stamp
      BY <2>3, <2>6, <3>1, <3>2 DEF Read
    <3>3. CASE cache.stamp # request[r].stamp
      <4> DEFINE q == [request[r] EXCEPT !.pc = "manifest", !.read = current]
      <4>1. q.floor = request[r].floor /\ q.pc = "manifest"
        BY <2>0 DEF RequestType
      <4>2. request' = [request EXCEPT ![r] = q] /\ answer' = answer
        BY <2>6, <3>3 DEF Read
      <4> HIDE DEF q
      <4> QED BY <1>6, <2>0, <3>1, <4>1, <4>2
    <3> QED BY <3>2, <3>3
  <2>7. CASE SetManifest(r) \/ SetIndex(r) \/ SetStamp(r)
    <3>1. r \in waiting
      BY <2>7 DEF SetManifest, SetIndex, SetStamp, On
    <3> QED BY <2>3, <2>7, <3>1 DEF SetManifest, SetIndex, SetStamp
  <2>8. CASE Return(r)
    <3>1. r \in waiting /\ On(r, "return") /\ request[r].floor <= cache.index
      BY <2>1, <2>8 DEF Return, On, RequestOK
    <3>2. CASE cache.manifest = 0 /\ Reply(r, 0)
      <4>1. request[r].floor <= 0
        BY <1>0, <2>0, <2>2, <3>1, <3>2
      <4>2. 0 <= current /\ 0 \in Nat
        BY <1>0
      <4> QED BY <1>5, <2>0, <3>1, <3>2, <4>1, <4>2 DEF Reply, Finish
    <3>3. CASE Reply(r, cache.manifest)
      <4>1. request[r].floor <= cache.manifest
        BY <1>0, <2>0, <2>2, <3>1
      <4> QED BY <1>0, <1>5, <2>0, <2>2, <3>1, <3>3, <4>1 DEF Reply, Finish
    <3>4. CASE Go(r, "pick") /\ UNCHANGED answer
      BY <2>3, <3>1, <3>4
    <3>5. CASE /\ request' = [request EXCEPT ![r] = [@ EXCEPT !.pc = "stat", !.loads = 1]]
               /\ UNCHANGED answer
      <4> DEFINE q == [request[r] EXCEPT !.pc = "stat", !.loads = 1]
      <4>1. q.floor = request[r].floor /\ q.pc = "stat"
        BY <2>0 DEF RequestType
      <4>2. request' = [request EXCEPT ![r] = q] /\ answer' = answer
        BY <3>5
      <4> HIDE DEF q
      <4> QED BY <1>6, <2>0, <3>1, <4>1, <4>2
    <3> QED BY <2>8, <3>2, <3>3, <3>4, <3>5 DEF Return
  <2>9. CASE Pick(r)
    <3>1. r \in waiting /\ request[r].floor <= cache.index
      BY <2>1, <2>9 DEF Pick, On, RequestOK
    <3>2. cache.index <= current
      BY <1>0, <2>2
    <3>3. CASE Reply(r, cache.index)
      BY <1>0, <1>5, <2>0, <3>1, <3>2, <3>3 DEF Reply, Finish
    <3>4. CASE /\ request' = [request EXCEPT ![r] = RequestAt("seek", "page", 0)]
               /\ answer' = [answer EXCEPT ![r] = cache.index]
      <4>1. RequestAt("seek", "page", 0).pc = "seek" /\ RequestAt("seek", "page", 0).floor = 0
        BY DEF RequestAt
      <4> QED BY <1>0, <1>5, <2>0, <3>1, <3>2, <3>4, <4>1
    <3> QED BY <2>9, <3>3, <3>4 DEF Pick
  <2>10. CASE Seek(r)
    <3>1. /\ request'[r] = IdleRequest /\ answer' = answer /\ On(r, "seek")
          /\ \A q \in Requests : q # r => request'[q] = request[q]
      BY <1>0, <2>10 DEF Seek, Finish
    <3>2. request[r].floor = 0 /\ request'[r].floor = 0 /\ request'[r].pc = "idle"
      BY <2>0, <2>1, <3>1 DEF RequestOK
    <3>3. waiting' = waiting /\ came' = came
      BY <3>1, <3>2 DEF On
    <3> QED BY <2>0, <3>1, <3>3 DEF Latest!vars
  <2>11. ~ReadFails(r)
    BY DEF ReadFails
  <2> QED
    BY <1>7, <2>4, <2>5, <2>6, <2>7, <2>8, <2>9, <2>10, <2>11 DEF Serve
<1>8. CASE (Refresh /\ ~Promote) \/ Timer \/ UNCHANGED vars
  <2>1. UNCHANGED web
    BY <1>8 DEF Refresh, Timer, vars, web
  <2>2. current' = current
    BY <1>8 DEF Refresh, Timer, Start, Kill, Walk, PromoteFails, List, PruningFails, Prune,
                Pruned, Report, ReportFails, Clean, Blame, vars
  <2> QED BY <1>2, <2>1, <2>2
<1>9. CASE Refresh /\ Promote
  BY <1>1, <1>9 DEF Refresh
<1> QED BY <1>3, <1>4, <1>7, <1>8, <1>9 DEF Next

(* The pages never go back: while no exception ends the pruning and current.json *)
(* can be read, every answer of the store is one of the register that a single   *)
(* publisher writes (load() and its cache, write_generation and its files).      *)
THEOREM StoreImplementsLatest ==
  ASSUME ~PruningRaises, ~ReadsFail PROVE Spec => ImplementsLatest
<1>1. Spec => []GenerationInvariant
  BY GenerationInvariantHolds
<1>2. GenerationInvariant /\ [Next]_vars => [Latest!Next]_(Latest!vars)
  BY StepImplements
<1>3. Init => Latest!Init
  BY InitImplements
<1> QED BY <1>1, <1>2, <1>3, PTL DEF Spec, ImplementsLatest, Latest!Spec
=============================================================================
