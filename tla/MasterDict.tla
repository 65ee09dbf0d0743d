----------------------------- MODULE MasterDict ------------------------------
(***************************************************************************)
(* The master dictionaries of a program (word_db_master2.cpp).  A          *)
(* dictionary is two leveldb databases: the master, with the count of each *)
(* word, and its cast, with the weight of each word, which is its count    *)
(* divided by the greatest one and kept to six decimals.  A program opens  *)
(* its dictionaries one after the other when it starts (loadMaster of the  *)
(* segmenters) and casts those that have no cast yet.  leveldb lets one    *)
(* process at a time hold a database, keeps what was put with sync over a  *)
(* crash, and walks the keys in order.                                     *)
(***************************************************************************)
EXTENDS Naturals, Sequences, FiniteSets

CONSTANTS
  Procs,       \* the programs that share the directory
  Tools,       \* those that end when they have loaded: tools/castdb.cpp
  Dbs,         \* the dictionaries in the order loadMaster opens them
  Keys,        \* the words they may hold
  Key,         \* the order of leveldb's iterator
  Masters,     \* what the operator may put in place: counts by database
  Unit,        \* 10^6: the weights are multiples of 1 / Unit
  MaxCrashes,  \* bound: programs that die
  MaxDeploys   \* bound: masters the operator replaces

DbSet == {Dbs[i] : i \in DOMAIN Dbs}

ASSUME DictAssumption ==
  /\ Tools \subseteq Procs
  /\ Dbs \in Seq(DbSet)
  /\ \A i, j \in DOMAIN Dbs : Dbs[i] = Dbs[j] => i = j
  /\ IsFiniteSet(Keys)
  /\ Key \in [Keys -> Nat]
  /\ \A k, l \in Keys : Key[k] = Key[l] => k = l
  /\ \A m \in Masters : DOMAIN m = DbSet
  /\ \A m \in Masters : \A d \in DbSet :
       /\ DOMAIN m[d] \subseteq Keys
       /\ m[d] \in [DOMAIN m[d] -> Nat \ {0}]
  /\ Unit \in Nat \ {0}
  /\ MaxCrashes \in Nat /\ MaxDeploys \in Nat

VARIABLES
  master,      \* gMasterdb on the disk: for each database the counts
  cast,        \* gMasterDBCast on the disk: the weights
  existing,    \* the dictionaries whose cast is on the disk
  pc,          \* "down", "open", "look", "cast", "loaded", "refused"
  at,          \* the dictionary a program has got to
  toPut,       \* the words castMaster has not put yet
  crashes, deploys,
  interrupted, \* history: casts that a crash cut short
  replaced     \* history: casts whose master was replaced since

disk == <<master, cast, existing>>
history == <<crashes, deploys, interrupted, replaced>>
dictVars == <<disk, pc, at, toPut, history>>

DictInit ==
  /\ master \in Masters
  /\ cast = [d \in DbSet |-> <<>>] /\ existing = {}
  /\ pc = [p \in Procs |-> "down"]
  /\ at = [p \in Procs |-> 1]
  /\ toPut = [p \in Procs |-> {}]
  /\ crashes = 0 /\ deploys = 0
  /\ interrupted = {} /\ replaced = {}

(* A program holds what it has opened until it ends.                       *)
Holds(p, d) ==
  \E i \in DOMAIN Dbs :
    /\ Dbs[i] = d
    /\ \/ pc[p] # "down" /\ i < at[p]
       \/ pc[p] \in {"look", "cast"} /\ i = at[p]

-----------------------------------------------------------------------------
(* The weights *)

TopRank(counts) ==
  LET ranks == {counts[k] : k \in DOMAIN counts}
  IN CHOOSE r \in ranks : \A s \in ranks : s <= r

(* std::to_string(castWeight): the nearest multiple of 1 / Unit, which is  *)
(* zero for a word whose count is too far below the greatest.              *)
CastWeight(count, topRank) ==
  LET units == (count * Unit) \div topRank
      rest == (count * Unit) % topRank
  IN IF 2 * rest > topRank \/ (2 * rest = topRank /\ units % 2 = 1) THEN units + 1 ELSE units

-----------------------------------------------------------------------------
(* loadMaster *)

Start(p) ==
  /\ pc[p] = "down"
  /\ pc' = [pc EXCEPT ![p] = "open"]
  /\ at' = [at EXCEPT ![p] = 1]
  /\ UNCHANGED <<disk, toPut, history>>

(* loadMasterFromDB opens the master; what another process holds cannot be *)
(* opened, and loadMaster returns false.                                   *)
OpenMaster(p) ==
  /\ pc[p] = "open"
  /\ IF \E q \in Procs \ {p} : Holds(q, Dbs[at[p]])
     THEN pc' = [pc EXCEPT ![p] = "refused"]
     ELSE pc' = [pc EXCEPT ![p] = "look"]
  /\ UNCHANGED <<disk, at, toPut, history>>

(* On to the next dictionary, or done.                                     *)
NextDb(p) ==
  /\ at' = [at EXCEPT ![p] = @ + 1]
  /\ pc' = [pc EXCEPT ![p] = IF at[p] = Len(Dbs) THEN "loaded" ELSE "open"]

(* isExistsCastDB: a cast on the disk is taken as it is.  forceCast never  *)
(* reaches this point: the segmenters' loadMaster do not hand it on.       *)
TakeCast(p) ==
  /\ pc[p] = "look"
  /\ Dbs[at[p]] \in existing
  /\ NextDb(p)
  /\ UNCHANGED <<disk, toPut, history>>

(* castMasterDB creates the cast and castMaster takes its snapshot.        *)
CreateCast(p) ==
  /\ pc[p] = "look"
  /\ Dbs[at[p]] \notin existing
  /\ existing' = existing \cup {Dbs[at[p]]}
  /\ toPut' = [toPut EXCEPT ![p] = DOMAIN master[Dbs[at[p]]]]
  /\ pc' = [pc EXCEPT ![p] = "cast"]
  /\ UNCHANGED <<master, cast, at, history>>

(* Faulty variant: the words are put in no order.                          *)
PutUnordered(p) ==
  /\ pc[p] = "cast"
  /\ \E k \in toPut[p] :
       LET d == Dbs[at[p]]
           weight == CastWeight(master[d][k], TopRank(master[d]))
       IN /\ cast' = [cast EXCEPT ![d] =
                        [l \in DOMAIN @ \cup {k} |-> IF l = k THEN weight ELSE @[l]]]
          /\ toPut' = [toPut EXCEPT ![p] = @ \ {k}]
  /\ UNCHANGED <<master, existing, pc, at, history>>
(* One round of the second loop of castMaster, a Put with sync.            *)
PutCast(p) ==
  /\ pc[p] = "cast"
  /\ \E k \in toPut[p] :
       LET d == Dbs[at[p]]
           weight == CastWeight(master[d][k], TopRank(master[d]))
       IN /\ \A l \in toPut[p] : Key[k] <= Key[l]
          /\ cast' = [cast EXCEPT ![d] =
                        [l \in DOMAIN @ \cup {k} |-> IF l = k THEN weight ELSE @[l]]]
          /\ toPut' = [toPut EXCEPT ![p] = @ \ {k}]
  /\ UNCHANGED <<master, existing, pc, at, history>>

CastEnd(p) ==
  /\ pc[p] = "cast"
  /\ toPut[p] = {}
  /\ NextDb(p)
  /\ UNCHANGED <<disk, toPut, history>>

-----------------------------------------------------------------------------
(* The end of a program *)

GoDown(p) ==
  /\ pc' = [pc EXCEPT ![p] = "down"]
  /\ at' = [at EXCEPT ![p] = 1]
  /\ toPut' = [toPut EXCEPT ![p] = {}]

(* A tool has done its work, or a program gives up without dictionaries.   *)
Quit(p) ==
  /\ pc[p] = "refused" \/ (pc[p] = "loaded" /\ p \in Tools)
  /\ GoDown(p)
  /\ UNCHANGED <<disk, history>>

Crash(p) ==
  /\ pc[p] # "down"
  /\ crashes < MaxCrashes
  /\ crashes' = crashes + 1
  /\ interrupted' = IF toPut[p] = {} THEN interrupted ELSE interrupted \cup {Dbs[at[p]]}
  /\ GoDown(p)
  /\ UNCHANGED <<disk, deploys, replaced>>

(* The operator puts a newer master in place, and leaves the cast, which   *)
(* is a directory beside it.                                               *)
Deploy(d, m) ==
  /\ deploys < MaxDeploys
  /\ \A p \in Procs : ~Holds(p, d)
  /\ master' = [master EXCEPT ![d] = m[d]]
  /\ deploys' = deploys + 1
  /\ replaced' = IF d \in existing THEN replaced \cup {d} ELSE replaced
  /\ UNCHANGED <<cast, existing, pc, at, toPut, crashes, interrupted>>

Load(p) ==
  OpenMaster(p) \/ TakeCast(p) \/ CreateCast(p) \/ PutCast(p) \/ CastEnd(p)

-----------------------------------------------------------------------------
(* Look-ups *)

(* getDoublePred, in units: what a program did not open or does not find,  *)
(* and what was kept as zero, is no word.                                  *)
Pred(p, d, word) ==
  IF Holds(p, d) /\ word \in DOMAIN cast[d] THEN cast[d][word] ELSE 0

(* getRangeMin: the least weight of the cast, DBL_MAX when it has no word. *)
HasRange(p, d) == Holds(p, d) /\ DOMAIN cast[d] # {}
RangeMin(d) ==
  CHOOSE m \in {cast[d][k] : k \in DOMAIN cast[d]} : \A k \in DOMAIN cast[d] : m <= cast[d][k]

-----------------------------------------------------------------------------
(* Properties *)

(* A program that has loaded a dictionary finds every word of the master   *)
(* in it with the weight its count gives; after a crash in the middle of   *)
(* the cast, exactly the words before some word in key order, for ever.    *)
(* Unless the master was replaced: then the old weights stay.              *)
WholeOrPrefix ==
  \A p \in Procs, d \in DbSet :
    pc[p] = "loaded" /\ d \notin replaced =>
      /\ d \in existing
      /\ DOMAIN cast[d] \subseteq DOMAIN master[d]
      /\ \A k \in DOMAIN cast[d] : cast[d][k] = CastWeight(master[d][k], TopRank(master[d]))
      /\ \A k \in DOMAIN cast[d], l \in DOMAIN master[d] : Key[l] < Key[k] => l \in DOMAIN cast[d]
      /\ d \notin interrupted => DOMAIN cast[d] = DOMAIN master[d]
=============================================================================
