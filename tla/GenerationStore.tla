-------------------------- MODULE GenerationStore --------------------------
(***************************************************************************)
(* The generations of the Polymarket dashboard (services/web/polymarket).  *)
(* A one-shot walks the source every four hours, writes a folder of detail *)
(* shards and a manifest, replaces current.json last and removes all but   *)
(* the two newest folders.  The web server, another process, reads         *)
(* current.json when its modification time changes and reads a detail row  *)
(* from the folder of the generation its event belongs to.                 *)
(*                                                                         *)
(* A generation is a number in the order of its name, which is the time of *)
(* its start.  The modification time of current.json is the generation it  *)
(* holds: each is promoted once.  systemd runs one refresh at a time; it   *)
(* may kill it anywhere (memory or time limit).  A file is replaced in one *)
(* step.  The web server answers in threads: load() gives way between any  *)
(* two of its reads and writes of the repository's fields.                 *)
(*                                                                         *)
(* Left out: what is in a generation, what status.json says of a refresh   *)
(* (its write is a step), the budget that lets a refresh skip its turn and *)
(* write nothing else.                                                     *)
(***************************************************************************)
EXTENDS Naturals, FiniteSets, FiniteSetsExt

CONSTANTS
  Requests,        \* threads of the web server
  MaxGenerations,  \* bound: refreshes that begin to write
  MaxKills,        \* bound: refreshes that are killed
  PruningRaises,   \* whether prune_generations may raise (iterdir, Ctrl-C)
  RemovalFails,    \* whether a folder may resist its removal
  ReadsFail        \* whether the web server may fail to read current.json

ASSUME StoreAssumption ==
  /\ MaxGenerations \in Nat
  /\ MaxKills \in Nat
  /\ {PruningRaises, RemovalFails, ReadsFail} \subseteq BOOLEAN

VARIABLES
  folder,     \* folder[g]: generations/<g>
  current,    \* the generation in current.json, 0 if there is none
  refresh,    \* the one-shot: its next step, its generation, folders to remove
  cache,      \* PolymarketRepository: _manifest, _events_by_id, _mtime_ns
  request,    \* request[r]: where its thread is
  kills,
  \* history
  previous,   \* what current.json held before its last replacement
  answer      \* answer[r]: the generation of r's page or event, 0 before there is one

vars == <<folder, current, refresh, cache, request, kills, previous, answer>>

-----------------------------------------------------------------------------
Generations == 1..MaxGenerations

(* KEEP_GENERATIONS *)
Keep == 2

Present == {g \in Generations : folder[g] # "none"}

At(step) == refresh.pc = step

(* defect: one folder less is kept *)
OldestButOne(set) == {g \in set : Cardinality({h \in set : h > g}) + 1 >= Keep}

(* The names of existing[:-keep] *)
Oldest(set) == {g \in set : Cardinality({h \in set : h > g}) >= Keep}

Removable == IF RemovalFails THEN {"none", "partial"} ELSE {"none"}

(* The next generation_id is a later time than all before it *)
NextGeneration == refresh.gen + 1

On(r, step) == request[r].pc = step

Go(r, step) == request' = [request EXCEPT ![r].pc = step]

(* PolymarketRepository._lock is held while the fields are read anew *)
InLock(r) == On(r, "manifest") \/ On(r, "index") \/ On(r, "stamp")

LockFree == \A r \in Requests : ~InLock(r)

RequestAt(step, kind, floor) ==
  [pc |-> step, kind |-> kind, loads |-> 2, floor |-> floor, stamp |-> 0, read |-> 0,
   look |-> "good"]

IdleRequest == RequestAt("idle", "page", 0)

EmptyCache == [manifest |-> 0, index |-> 0, stamp |-> 0]

Init ==
  /\ folder = [g \in Generations |-> "none"]
  /\ current = 0
  /\ refresh = [pc |-> "idle", gen |-> 0, todo |-> {}]
  /\ cache = EmptyCache
  /\ request = [r \in Requests |-> IdleRequest]
  /\ kills = 0
  /\ previous = 0
  /\ answer = [r \in Requests |-> 0]

web == <<cache, request, answer>>

-----------------------------------------------------------------------------
(* refresh(), write_generation() and prune_generations() *)

(* generation_dir.mkdir, which may fail *)
Start ==
  /\ At("idle")
  /\ NextGeneration \in Generations
  /\ \/ /\ folder' = [folder EXCEPT ![NextGeneration] = "partial"]
        /\ refresh' = [refresh EXCEPT !.pc = "walk", !.gen = NextGeneration]
     \/ /\ refresh' = [refresh EXCEPT !.pc = "blame", !.gen = NextGeneration]
        /\ UNCHANGED folder
  /\ UNCHANGED <<current, kills, previous>>

(* defect: what the walk raised is swallowed, and its generation promoted *)
WalkCarriesOn ==
  /\ At("walk")
  /\ \/ folder' = [folder EXCEPT ![refresh.gen] = "whole"]
     \/ UNCHANGED folder
  /\ refresh' = [refresh EXCEPT !.pc = "promote"]
  /\ UNCHANGED <<current, kills, previous>>

(* Shards and manifest.json are complete, or the walk, a check of the sums or   *)
(* a write raised.                                                              *)
Walk ==
  /\ At("walk")
  /\ \/ /\ folder' = [folder EXCEPT ![refresh.gen] = "whole"]
        /\ refresh' = [refresh EXCEPT !.pc = "promote"]
     \/ /\ refresh' = [refresh EXCEPT !.pc = "clean"]
        /\ UNCHANGED folder
  /\ UNCHANGED <<current, kills, previous>>

Promote ==
  /\ At("promote")
  /\ current' = refresh.gen
  /\ previous' = current
  /\ refresh' = [refresh EXCEPT !.pc = "list"]
  /\ UNCHANGED <<folder, kills>>

PromoteFails ==
  /\ At("promote")
  /\ refresh' = [refresh EXCEPT !.pc = "clean"]
  /\ UNCHANGED <<folder, current, kills, previous>>

List ==
  /\ At("list")
  /\ refresh' = [refresh EXCEPT !.pc = "prune", !.todo = Oldest(Present)]
  /\ UNCHANGED <<folder, current, kills, previous>>

(* Only rmtree and only OSError are guarded: what else is raised reaches the    *)
(* handler of write_generation.                                                 *)
PruningFails ==
  /\ PruningRaises
  /\ At("list") \/ At("prune")
  /\ refresh' = [refresh EXCEPT !.pc = "clean", !.todo = {}]
  /\ UNCHANGED <<folder, current, kills, previous>>

(* rmtree takes a folder apart file by file; if it raises, the next one follows *)
Prune ==
  /\ At("prune")
  /\ refresh.todo # {}
  /\ LET g == Min(refresh.todo) IN
       \/ /\ folder' = [folder EXCEPT ![g] = "partial"]
          /\ UNCHANGED refresh
       \/ /\ folder' = [folder EXCEPT ![g] = "none"]
          /\ refresh' = [refresh EXCEPT !.todo = @ \ {g}]
       \/ /\ RemovalFails
          /\ refresh' = [refresh EXCEPT !.todo = @ \ {g}]
          /\ UNCHANGED folder
  /\ UNCHANGED <<current, kills, previous>>

Pruned ==
  /\ At("prune")
  /\ refresh.todo = {}
  /\ refresh' = [refresh EXCEPT !.pc = "report"]
  /\ UNCHANGED <<folder, current, kills, previous>>

(* The second check of the sums and status.json *)
Report ==
  /\ At("report")
  /\ refresh' = [refresh EXCEPT !.pc = "idle"]
  /\ UNCHANGED <<folder, current, kills, previous>>

ReportFails ==
  /\ At("report")
  /\ refresh' = [refresh EXCEPT !.pc = "blame"]
  /\ UNCHANGED <<folder, current, kills, previous>>

(* shutil.rmtree(generation_dir, ignore_errors=True) *)
Clean ==
  /\ At("clean")
  /\ \E left \in Removable : folder' = [folder EXCEPT ![refresh.gen] = left]
  /\ refresh' = [refresh EXCEPT !.pc = "blame"]
  /\ UNCHANGED <<current, kills, previous>>

(* The handler of refresh(): status.json, whose write may fail as well *)
Blame ==
  /\ At("blame")
  /\ refresh' = [refresh EXCEPT !.pc = "idle"]
  /\ UNCHANGED <<folder, current, kills, previous>>

(* A removal that is cut short may have taken files of the folder *)
Kill ==
  /\ ~At("idle")
  /\ kills < MaxKills
  /\ kills' = kills + 1
  /\ refresh' = [refresh EXCEPT !.pc = "idle", !.todo = {}]
  /\ \/ UNCHANGED folder
     \/ At("clean") /\ folder' = [folder EXCEPT ![refresh.gen] = "partial"]
  /\ UNCHANGED <<current, previous>>

Refresh ==
  /\ \/ Walk \/ Promote \/ PromoteFails \/ List \/ PruningFails \/ Prune \/ Pruned
     \/ Report \/ ReportFails \/ Clean \/ Blame
  /\ UNCHANGED web

Timer == (Start \/ Kill) /\ UNCHANGED web

-----------------------------------------------------------------------------
(* Threads of the web server.  A request calls load() twice: once to see that   *)
(* there is a manifest at all, once for its page or event.                      *)

disk == <<folder, current, refresh, kills, previous>>

Ask(r) ==
  /\ On(r, "idle")
  /\ \E kind \in {"page", "event"} :
       request' = [request EXCEPT ![r] = RequestAt("stat", kind, current)]
  /\ answer' = [answer EXCEPT ![r] = 0]
  /\ UNCHANGED cache

Finish(r) == request' = [request EXCEPT ![r] = IdleRequest]

Reply(r, g) ==
  /\ Finish(r)
  /\ answer' = [answer EXCEPT ![r] = g]

(* path.stat().st_mtime_ns; without a file load() is empty and the answer is 503 *)
Stat(r) ==
  /\ On(r, "stat")
  /\ IF current = 0
     THEN Reply(r, 0)
     ELSE /\ request' = [request EXCEPT ![r] = [@ EXCEPT !.pc = "compare", !.stamp = current,
                                                       !.look = "good"]]
          /\ UNCHANGED answer
  /\ UNCHANGED cache

Compare(r) ==
  /\ On(r, "compare")
  /\ Go(r, IF cache.stamp = request[r].stamp THEN "return" ELSE "lock")
  /\ UNCHANGED <<cache, answer>>

(* defect: the fields are read anew without the lock *)
ReadUnlocked(r) ==
  /\ On(r, "lock")
  /\ IF cache.stamp = request[r].stamp
     THEN Go(r, "return")
     ELSE request' = [request EXCEPT ![r] = [@ EXCEPT !.pc = "manifest", !.read = current]]
  /\ UNCHANGED <<cache, answer>>

(* defect: a thread that finds the work done waits for the lock again *)
ReadAgain(r) ==
  /\ On(r, "lock")
  /\ LockFree
  /\ cache.stamp # request[r].stamp
  /\ request' = [request EXCEPT ![r] = [@ EXCEPT !.pc = "manifest", !.read = current]]
  /\ UNCHANGED <<cache, answer>>

(* The second comparison, under the lock, and the reading of current.json *)
Read(r) ==
  /\ On(r, "lock")
  /\ LockFree
  /\ IF cache.stamp = request[r].stamp
     THEN Go(r, "return")
     ELSE request' = [request EXCEPT ![r] = [@ EXCEPT !.pc = "manifest", !.read = current]]
  /\ UNCHANGED <<cache, answer>>

(* An unreadable file counts as empty: the fields stay as they are *)
ReadFails(r) ==
  /\ ReadsFail
  /\ On(r, "lock")
  /\ LockFree
  /\ cache.stamp # request[r].stamp
  /\ request' = [request EXCEPT ![r] = [@ EXCEPT !.pc = "return", !.look = "failed"]]
  /\ UNCHANGED <<cache, answer>>

SetManifest(r) ==
  /\ On(r, "manifest")
  /\ cache' = [cache EXCEPT !.manifest = request[r].read]
  /\ Go(r, "index")
  /\ UNCHANGED answer

SetIndex(r) ==
  /\ On(r, "index")
  /\ cache' = [cache EXCEPT !.index = request[r].read]
  /\ Go(r, "stamp")
  /\ UNCHANGED answer

SetStamp(r) ==
  /\ On(r, "stamp")
  /\ cache' = [cache EXCEPT !.stamp = request[r].stamp]
  /\ Go(r, "return")
  /\ UNCHANGED answer

(* return self._manifest, after the lock was let go *)
Return(r) ==
  /\ On(r, "return")
  /\ \/ /\ request[r].loads = 2
        /\ cache.manifest = 0
        /\ Reply(r, 0)
     \/ /\ request[r].loads = 2
        /\ cache.manifest # 0
        /\ request' = [request EXCEPT ![r] = [@ EXCEPT !.pc = "stat", !.loads = 1]]
        /\ UNCHANGED answer
     \/ /\ request[r].loads = 1
        /\ request[r].kind = "page"
        /\ Reply(r, cache.manifest)
     \/ /\ request[r].loads = 1
        /\ request[r].kind = "event"
        /\ Go(r, "pick")
        /\ UNCHANGED answer
  /\ UNCHANGED cache

(* self._events_by_id.get(event_id): the event, or 404 *)
Pick(r) ==
  /\ On(r, "pick")
  /\ \/ /\ cache.index # 0
        /\ request' = [request EXCEPT ![r] = RequestAt("seek", "page", 0)]
        /\ answer' = [answer EXCEPT ![r] = cache.index]
     \/ Reply(r, cache.index)
  /\ UNCHANGED cache

(* read_detail in the folder of answer[r]: the row, or an error without a shard *)
Seek(r) ==
  /\ On(r, "seek")
  /\ Finish(r)
  /\ UNCHANGED <<cache, answer>>

Serve(r) ==
  /\ \/ Stat(r) \/ Compare(r) \/ Read(r) \/ ReadFails(r)
     \/ SetManifest(r) \/ SetIndex(r) \/ SetStamp(r)
     \/ Return(r) \/ Pick(r) \/ Seek(r)
  /\ UNCHANGED disk

Visit(r) == Ask(r) /\ UNCHANGED disk

(* The web server is started anew *)
Restart ==
  /\ cache' = EmptyCache
  /\ request' = [r \in Requests |-> IdleRequest]
  /\ answer' = [r \in Requests |-> 0]
  /\ UNCHANGED disk

Next == Refresh \/ Timer \/ Restart \/ \E r \in Requests : Visit(r) \/ Serve(r)

Spec == Init /\ [][Next]_vars

(* A thread that was given a request goes on; nothing makes a visitor ask, a    *)
(* timer fire, a refresh reach its end or the server end.                       *)
FairSpec ==
  /\ Spec
  /\ \A r \in Requests : WF_vars(Serve(r))
-----------------------------------------------------------------------------
RefreshType ==
  [pc : {"idle", "walk", "promote", "list", "prune", "report", "clean", "blame"},
   gen : 0..MaxGenerations, todo : SUBSET Generations]

RequestType ==
  [pc : {"idle", "stat", "compare", "lock", "manifest", "index", "stamp", "return", "pick", "seek"},
   kind : {"page", "event"}, loads : {1, 2}, look : {"good", "failed"},
   floor : 0..MaxGenerations, stamp : 0..MaxGenerations,
   read : 0..MaxGenerations]

(* Every variable has its type. *)
TypeOK ==
  /\ folder \in [Generations -> {"none", "partial", "whole"}]
  /\ current \in 0..MaxGenerations
  /\ refresh \in RefreshType
  /\ cache \in [manifest : 0..MaxGenerations, index : 0..MaxGenerations, stamp : 0..MaxGenerations]
  /\ request \in [Requests -> RequestType]
  /\ kills \in 0..MaxKills
  /\ previous \in 0..MaxGenerations
  /\ answer \in [Requests -> 0..MaxGenerations]

(* Whatever is killed, fails or is removed, the shards that current.json points *)
(* into are complete (write_generation: current last, its own folder cleaned).  *)
CurrentIsWhole ==
  current # 0 => folder[current] = "whole"

(* Requests that hold events of the generation before the last promotion find   *)
(* their shards, unless a folder that was never current took its place among    *)
(* the two that are kept.                                                       *)
PreviousReadable ==
  previous # 0 =>
    \/ folder[previous] = "whole"
    \/ \E g \in Generations : previous < g /\ g < current /\ folder[g] # "none"

(* What the comment at dashboard/storage.py:21 keeps the second folder for:     *)
(* a request that took its event before a promotion can still seek after it.    *)
KeepsSeeking ==
  \A r \in Requests :
    On(r, "seek") /\ answer[r] \in {current, previous} => folder[answer[r]] = "whole"

(* A thread that has looked for a newer file returns what current.json held     *)
(* when its request came in, or newer: no interleaving of loads labels old      *)
(* fields with a new modification time.                                         *)
SeesPromotion ==
  \A r \in Requests :
    /\ On(r, "return") /\ request[r].look = "good" => cache.manifest >= request[r].floor
    /\ On(r, "pick") /\ request[r].look = "good" => cache.index >= request[r].floor

(* The pages seen from outside: a register that one publisher writes. *)
Latest == INSTANCE LatestGeneration WITH
  latest <- current,
  open <- {r \in Requests : ~On(r, "idle") /\ ~On(r, "seek")},
  asked <- [r \in Requests |-> request[r].floor]

ImplementsLatest == Latest!Spec

(* A request ends, whoever waits for the lock and whatever is promoted. *)
Answered ==
  \A r \in Requests : ~On(r, "idle") ~> On(r, "idle")

-----------------------------------------------------------------------------
(* Why the properties hold.  Folders: names grow, so what is promoted is newer  *)
(* than all that is there and never among the oldest; the previous generation   *)
(* is removed only if a folder between the two stays.                           *)
Between == {g \in Generations : previous < g /\ g < current /\ folder[g] # "none"}

FoldersOK ==
  /\ \A g \in Generations : g > refresh.gen => folder[g] = "none"
  /\ current <= refresh.gen
  /\ previous < current \/ previous = 0
  /\ CurrentIsWhole
  /\ ~At("idle") => refresh.gen > 0
  /\ At("walk") \/ At("promote") \/ At("clean") => current < refresh.gen
  /\ At("promote") => folder[refresh.gen] = "whole"
  /\ At("list") \/ At("prune") \/ At("report") => current = refresh.gen
  /\ ~At("prune") => refresh.todo = {}
  /\ \A g \in refresh.todo : g < current
  /\ previous # 0 => \/ previous \notin refresh.todo /\ folder[previous] = "whole"
                     \/ Between \ refresh.todo # {}

(* Cache: the fields were filled in the order manifest, index, stamp, so each   *)
(* is as new as the next, and only the holder of the lock has a newer one.      *)
CacheOK ==
  /\ cache.stamp <= cache.index /\ cache.index <= cache.manifest /\ cache.manifest <= current
  /\ \A q, r \in Requests : InLock(q) /\ InLock(r) => q = r

RequestOK(r) ==
  /\ request[r].floor <= current /\ request[r].stamp <= current
  /\ On(r, "compare") \/ On(r, "lock") \/ InLock(r) => request[r].floor <= request[r].stamp
  /\ InLock(r) => /\ request[r].stamp <= request[r].read
                  /\ request[r].read <= current
                  /\ cache.manifest <= request[r].read
  /\ On(r, "index") \/ On(r, "stamp") => cache.manifest = request[r].read
  /\ On(r, "stamp") => cache.index = request[r].read
  /\ (On(r, "return") \/ On(r, "pick")) /\ request[r].look = "good" =>
       request[r].floor <= cache.index
  /\ On(r, "seek") => request[r].floor = 0
  /\ ReadsFail \/ request[r].look = "good"

(* All of it together is inductive when no exception ends the pruning. *)
GenerationInvariant ==
  /\ TypeOK
  /\ FoldersOK
  /\ CacheOK
  /\ \A r \in Requests : RequestOK(r)
=============================================================================
