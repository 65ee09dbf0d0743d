-------------------------- MODULE PhoenixWord_proofs --------------------------
(***************************************************************************)
(* Proofs about the master dictionaries below the segmenters, for any      *)
(* number of programs, dictionaries, words, crashes and replaced masters,  *)
(* and about the selection of words, for any dictionary and stretch.       *)
(***************************************************************************)
EXTENDS PhoenixWord, TLAPS, FiniteSetTheorems, WellFoundedInduction, SequenceTheorems

Located ==
  /\ pc \in [Procs -> {"down", "open", "look", "cast", "loaded", "refused"}]
  /\ at \in [Procs -> Nat \ {0}]
  /\ \A p \in Procs : pc[p] \in {"open", "look", "cast", "refused"} => at[p] \in DOMAIN Dbs
  /\ \A p \in Procs : pc[p] = "loaded" => at[p] = Len(Dbs) + 1
  /\ DOMAIN toPut = Procs
  /\ \A p \in Procs : pc[p] # "cast" => toPut[p] = {}
  /\ DOMAIN master = DbSet /\ DOMAIN cast = DbSet
  /\ \A d \in DbSet : DOMAIN master[d] \subseteq Keys

(* leveldb's lock: one program at a time holds a dictionary.               *)
Exclusive == \A p, q \in Procs, d \in DbSet : Holds(p, d) /\ Holds(q, d) => p = q

(* What a program went past or casts has a cast; what has none is as it    *)
(* was put in place.                                                       *)
HaveCasts ==
  /\ \A p \in Procs, i \in DOMAIN Dbs : pc[p] # "down" /\ i < at[p] => Dbs[i] \in existing
  /\ \A p \in Procs : pc[p] = "cast" => Dbs[at[p]] \in existing
  /\ \A d \in DbSet \ existing : d \notin replaced \cup interrupted /\ DOMAIN cast[d] = {}

(* A cast under way lacks what is still to be put.                         *)
Casting ==
  \A p \in Procs : pc[p] = "cast" =>
    /\ Dbs[at[p]] \notin replaced \cup interrupted
    /\ DOMAIN cast[Dbs[at[p]]] = DOMAIN master[Dbs[at[p]]] \ toPut[p]
    /\ toPut[p] \subseteq DOMAIN master[Dbs[at[p]]]

Weighed(d) ==
  /\ DOMAIN cast[d] \subseteq DOMAIN master[d]
  /\ \A k \in DOMAIN cast[d] : cast[d][k] = CastWeight(master[d][k], TopRank(master[d]))
  /\ \A k \in DOMAIN cast[d], l \in DOMAIN master[d] : Key[l] < Key[k] => l \in DOMAIN cast[d]

InWork(d) == \E p \in Procs : pc[p] = "cast" /\ Dbs[at[p]] = d

WellWeighed == \A d \in existing \cap DbSet : d \notin replaced => Weighed(d)

Wholes ==
  \A d \in existing \cap DbSet :
    d \notin replaced \cup interrupted /\ ~InWork(d) => DOMAIN cast[d] = DOMAIN master[d]

DictInv == Located /\ Exclusive /\ HaveCasts /\ Casting /\ WellWeighed /\ Wholes

(* Only a worker that has loaded, or given up, has a text in hand.         *)
InHand == text # <<>> => pc[Worker] \in {"loaded", "refused"}

IInv == DictInv /\ InHand

-----------------------------------------------------------------------------
LEMMA DbsFacts ==
  /\ Len(Dbs) \in Nat /\ DOMAIN Dbs = 1..Len(Dbs) /\ 1 \in DOMAIN Dbs
  /\ \A i \in DOMAIN Dbs : Dbs[i] \in DbSet
  /\ \A d \in DbSet : \E i \in DOMAIN Dbs : Dbs[i] = d
  /\ \A i, j \in DOMAIN Dbs : Dbs[i] = Dbs[j] => i = j
<1>1. Dbs \in Seq(DbSet) /\ WordDb \in DbSet
  BY DictAssumption, PhoenixAssumption
<1>2. Len(Dbs) \in Nat /\ DOMAIN Dbs = 1..Len(Dbs)
  BY <1>1
<1>3. PICK i \in DOMAIN Dbs : Dbs[i] = WordDb
  BY <1>1 DEF DbSet
<1>4. 1 \in DOMAIN Dbs
  BY <1>2, <1>3
<1> QED
  BY <1>2, <1>4, DictAssumption DEF DbSet

(* What a program holds, by the place of the dictionary.                   *)
HoldsAt(p, i) ==
  \/ pc[p] # "down" /\ i < at[p]
  \/ pc[p] \in {"look", "cast"} /\ i = at[p]

LEMMA HoldsPlace ==
  ASSUME NEW p \in Procs, NEW i \in DOMAIN Dbs
  PROVE  Holds(p, Dbs[i]) <=> HoldsAt(p, i)
BY DbsFacts DEF Holds, HoldsAt

LEMMA ExclusivePlaces ==
  Exclusive <=> \A p, q \in Procs, i \in DOMAIN Dbs : HoldsAt(p, i) /\ HoldsAt(q, i) => p = q
BY DbsFacts, HoldsPlace DEF Exclusive

LEMMA HoldsPlaceNext ==
  ASSUME NEW p \in Procs, NEW i \in DOMAIN Dbs
  PROVE  Holds(p, Dbs[i])' <=> HoldsAt(p, i)'
BY DbsFacts DEF Holds, HoldsAt

LEMMA ExclusivePlacesNext ==
  Exclusive' <=> \A p, q \in Procs, i \in DOMAIN Dbs : HoldsAt(p, i)' /\ HoldsAt(q, i)' => p = q
BY DbsFacts, HoldsPlaceNext DEF Exclusive

(* Nobody comes to hold what he did not hold.                              *)
LEMMA FewerHold ==
  ASSUME Exclusive, \A p \in Procs, i \in DOMAIN Dbs : HoldsAt(p, i)' => HoldsAt(p, i)
  PROVE  Exclusive'
BY ExclusivePlaces, ExclusivePlacesNext

LEMMA InitDict == DictInit => DictInv
<1> SUFFICES ASSUME DictInit PROVE DictInv
  OBVIOUS
<1>1. Located
  BY DictAssumption DEF DictInit, Located
<1>2. Exclusive
  BY ExclusivePlaces DEF DictInit, HoldsAt
<1>3. HaveCasts /\ Casting /\ WellWeighed /\ Wholes
  BY DEF DictInit, HaveCasts, Casting, WellWeighed, Wholes
<1> QED
  BY <1>1, <1>2, <1>3 DEF DictInv

-----------------------------------------------------------------------------
(* Steps that leave the disk and the history alone, and end or begin no    *)
(* cast, keep what is known of the casts.                                  *)
LEMMA DiskKept ==
  ASSUME DictInv, UNCHANGED <<disk, history>>,
         Located', Exclusive',
         \A p \in Procs : pc'[p] = "cast" <=> pc[p] = "cast",
         \A p \in Procs : pc[p] = "cast" => at'[p] = at[p] /\ toPut'[p] = toPut[p],
         \A p \in Procs, i \in DOMAIN Dbs : pc'[p] # "down" /\ i < at'[p] => Dbs[i] \in existing
  PROVE  DictInv'
<1>1. HaveCasts'
  BY DEF DictInv, HaveCasts, disk, history
<1>2. Casting'
  BY DEF DictInv, Casting, disk, history
<1>3. WellWeighed'
  BY DEF DictInv, WellWeighed, Weighed, disk, history
<1>4. Wholes'
  BY DEF DictInv, Wholes, InWork, disk, history
<1> QED
  BY <1>1, <1>2, <1>3, <1>4 DEF DictInv

LEMMA StartStep ==
  ASSUME DictInv, NEW p \in Procs, Start(p)
  PROVE  DictInv'
<1>1. Located'
  BY DbsFacts DEF DictInv, Located, Start, disk, history
<1>2. \A q \in Procs, i \in DOMAIN Dbs : HoldsAt(q, i)' => HoldsAt(q, i)
  BY DbsFacts DEF DictInv, Located, Start, HoldsAt
<1>3. Exclusive'
  BY <1>2, FewerHold DEF DictInv
<1>4. /\ \A q \in Procs : pc'[q] = "cast" <=> pc[q] = "cast"
      /\ \A q \in Procs : pc[q] = "cast" => at'[q] = at[q] /\ toPut'[q] = toPut[q]
  BY DEF DictInv, Located, Start
<1>5. \A q \in Procs, i \in DOMAIN Dbs : pc'[q] # "down" /\ i < at'[q] => Dbs[i] \in existing
  BY DbsFacts DEF DictInv, Located, HaveCasts, Start
<1> QED
  BY <1>1, <1>3, <1>4, <1>5, DiskKept DEF Start

LEMMA OpenMasterStep ==
  ASSUME DictInv, NEW p \in Procs, OpenMaster(p)
  PROVE  DictInv'
<1>1. Located'
  BY DEF DictInv, Located, OpenMaster, disk, history
<1>2. Exclusive'
  <2>1. SUFFICES ASSUME NEW q \in Procs, NEW r \in Procs, NEW i \in DOMAIN Dbs,
                        HoldsAt(q, i)', HoldsAt(r, i)', q # r
                 PROVE  FALSE
    BY ExclusivePlacesNext
  <2>2. \A s \in Procs : HoldsAt(s, i)' => HoldsAt(s, i) \/ (s = p /\ i = at[p] /\ pc'[p] = "look")
    BY DEF DictInv, Located, OpenMaster, HoldsAt
  <2>3. ASSUME NEW s \in Procs \ {p}, pc'[p] = "look", i = at[p] PROVE ~HoldsAt(s, i)
    <3>1. ~Holds(s, Dbs[i])
      BY <2>3 DEF DictInv, Located, OpenMaster
    <3> QED
      BY <3>1, HoldsPlace
  <2>4. HoldsAt(q, i) /\ HoldsAt(r, i)
    BY <2>1, <2>2, <2>3
  <2> QED
    BY <2>1, <2>4, ExclusivePlaces DEF DictInv
<1>3. /\ \A q \in Procs : pc'[q] = "cast" <=> pc[q] = "cast"
      /\ \A q \in Procs : pc[q] = "cast" => at'[q] = at[q] /\ toPut'[q] = toPut[q]
  BY DEF DictInv, Located, OpenMaster
<1>4. \A q \in Procs, i \in DOMAIN Dbs : pc'[q] # "down" /\ i < at'[q] => Dbs[i] \in existing
  BY DEF DictInv, Located, HaveCasts, OpenMaster
<1> QED
  BY <1>1, <1>2, <1>3, <1>4, DiskKept DEF OpenMaster

(* On to the next dictionary.                                              *)
LEMMA NextDbFacts ==
  ASSUME Located, Exclusive, NEW p \in Procs, pc[p] \in {"look", "cast"}, NextDb(p), toPut' = toPut,
         pc[p] = "cast" => toPut[p] = {}, UNCHANGED <<master, DOMAIN cast>>
  PROVE  /\ Located' /\ Exclusive'
         /\ pc'[p] \in {"open", "loaded"} /\ at'[p] = at[p] + 1 /\ at[p] \in DOMAIN Dbs
         /\ \A q \in Procs \ {p} : pc'[q] = pc[q] /\ at'[q] = at[q]
<1>1. /\ at[p] \in 1..Len(Dbs) /\ at'[p] = at[p] + 1 /\ Len(Dbs) \in Nat
      /\ pc'[p] = IF at[p] = Len(Dbs) THEN "loaded" ELSE "open"
  BY DbsFacts DEF Located, NextDb
<1>2. \A q \in Procs \ {p} : pc'[q] = pc[q] /\ at'[q] = at[q]
  BY DEF Located, NextDb
<1>3. at'[p] \in Nat \ {0} /\ (pc'[p] = "open" => at'[p] \in DOMAIN Dbs)
      /\ (pc'[p] = "loaded" => at'[p] = Len(Dbs) + 1)
  BY <1>1, DbsFacts
<1>4. Located'
  <2>1. /\ pc' \in [Procs -> {"down", "open", "look", "cast", "loaded", "refused"}]
        /\ at' \in [Procs -> Nat \ {0}]
    BY <1>3 DEF Located, NextDb
  <2>2. \A q \in Procs : pc'[q] \in {"open", "look", "cast", "refused"} => at'[q] \in DOMAIN Dbs
    BY <1>1, <1>2, <1>3 DEF Located
  <2>3. \A q \in Procs : pc'[q] = "loaded" => at'[q] = Len(Dbs) + 1
    BY <1>2, <1>3 DEF Located
  <2>4. \A q \in Procs : pc'[q] # "cast" => toPut'[q] = {}
    BY <1>1, <1>2 DEF Located
  <2> QED
    BY <2>1, <2>2, <2>3, <2>4 DEF Located
<1>5. \A q \in Procs, i \in DOMAIN Dbs : HoldsAt(q, i)' => HoldsAt(q, i)
  <2>1. \A i \in DOMAIN Dbs : i < at[p] + 1 => i < at[p] \/ i = at[p]
    BY <1>1, DbsFacts
  <2> QED
    BY <1>1, <1>2, <2>1 DEF HoldsAt
<1>6. Exclusive'
  BY <1>5, FewerHold
<1> QED
  BY <1>1, <1>2, <1>4, <1>6, DbsFacts

LEMMA TakeCastStep ==
  ASSUME DictInv, NEW p \in Procs, TakeCast(p)
  PROVE  DictInv'
<1>1. /\ Located' /\ Exclusive'
      /\ pc'[p] \in {"open", "loaded"} /\ at'[p] = at[p] + 1 /\ at[p] \in DOMAIN Dbs
      /\ \A q \in Procs \ {p} : pc'[q] = pc[q] /\ at'[q] = at[q]
  BY NextDbFacts DEF DictInv, TakeCast, disk
<1>2. pc[p] = "look" /\ toPut' = toPut /\ UNCHANGED <<disk, history>> /\ Dbs[at[p]] \in existing
  BY DEF TakeCast
<1>3. /\ \A q \in Procs : pc'[q] = "cast" <=> pc[q] = "cast"
      /\ \A q \in Procs : pc[q] = "cast" => at'[q] = at[q] /\ toPut'[q] = toPut[q]
  BY <1>1, <1>2
<1>4. \A i \in DOMAIN Dbs : i < at[p] + 1 => i < at[p] \/ i = at[p]
  BY <1>1, DbsFacts
<1>5. \A q \in Procs, i \in DOMAIN Dbs : pc'[q] # "down" /\ i < at'[q] => Dbs[i] \in existing
  BY <1>1, <1>2, <1>4 DEF DictInv, HaveCasts
<1> QED
  BY <1>1, <1>2, <1>3, <1>5, DiskKept

LEMMA CreateCastStep ==
  ASSUME DictInv, NEW p \in Procs, CreateCast(p)
  PROVE  DictInv'
<1>0. PICK d : d = Dbs[at[p]]
  OBVIOUS
<1>1. /\ pc[p] = "look" /\ d \notin existing /\ existing' = existing \cup {d}
      /\ toPut' = [toPut EXCEPT ![p] = DOMAIN master[d]]
      /\ pc' = [pc EXCEPT ![p] = "cast"]
      /\ UNCHANGED <<master, cast, at, history>>
  BY <1>0 DEF CreateCast
<1>2. d \in DbSet
  BY <1>0, <1>1, DbsFacts DEF DictInv, Located
<1>3. Located'
  BY <1>1 DEF DictInv, Located
<1>4. Exclusive'
  <2>1. \A q \in Procs, i \in DOMAIN Dbs : HoldsAt(q, i)' => HoldsAt(q, i)
    BY <1>1 DEF DictInv, Located, HoldsAt
  <2> QED
    BY <2>1, FewerHold DEF DictInv
<1>5. d \notin replaced \cup interrupted /\ DOMAIN cast[d] = {}
  BY <1>1, <1>2 DEF DictInv, HaveCasts
<1>6. HaveCasts'
  BY <1>0, <1>1 DEF DictInv, Located, HaveCasts, history
<1>7. \A q \in Procs : pc[q] = "cast" => Dbs[at[q]] # d
  BY <1>1 DEF DictInv, HaveCasts
<1>8. Casting'
  <2>1. /\ pc'[p] = "cast" /\ toPut'[p] = DOMAIN master[d] /\ Dbs[at'[p]] = d
        /\ \A q \in Procs \ {p} : pc'[q] = pc[q] /\ toPut'[q] = toPut[q]
    BY <1>0, <1>1 DEF DictInv, Located
  <2>2. UNCHANGED <<master, cast, at, replaced, interrupted>>
    BY <1>1 DEF history
  <2> QED
    BY <1>5, <2>1, <2>2, SMTT(60) DEF DictInv, Casting
<1>9. WellWeighed'
  BY <1>1, <1>5 DEF DictInv, WellWeighed, Weighed, history
<1>10. Wholes'
  <2>1. InWork(d)'
    BY <1>0, <1>1 DEF InWork, DictInv, Located
  <2>2. \A e : InWork(e) => InWork(e)'
    BY <1>1 DEF InWork, DictInv, Located
  <2>3. UNCHANGED <<master, cast, replaced, interrupted>>
    BY <1>1 DEF history
  <2> QED
    BY <1>1, <2>1, <2>2, <2>3 DEF DictInv, Wholes
<1> QED
  BY <1>3, <1>4, <1>6, <1>8, <1>9, <1>10 DEF DictInv

(* A word put in key order leaves a prefix of the words.                   *)
LEMMA PutCastStep ==
  ASSUME DictInv, NEW p \in Procs, PutCast(p)
  PROVE  DictInv'
<1>0. PICK d : d = Dbs[at[p]]
  OBVIOUS
<1>1. PICK k \in toPut[p] :
        /\ \A l \in toPut[p] : Key[k] <= Key[l]
        /\ cast' = [cast EXCEPT ![d] = [l \in DOMAIN @ \cup {k} |->
                      IF l = k THEN CastWeight(master[d][k], TopRank(master[d])) ELSE @[l]]]
        /\ toPut' = [toPut EXCEPT ![p] = @ \ {k}]
  BY <1>0 DEF PutCast
<1>2. pc[p] = "cast" /\ UNCHANGED <<master, existing, pc, at, history>>
  BY DEF PutCast
<1>3. d \in DbSet /\ d \in existing
  BY <1>0, <1>2, DbsFacts DEF DictInv, Located, HaveCasts
<1>4. /\ d \notin replaced \cup interrupted
      /\ DOMAIN cast[d] = DOMAIN master[d] \ toPut[p] /\ toPut[p] \subseteq DOMAIN master[d]
  BY <1>0, <1>2 DEF DictInv, Casting
<1>5. /\ cast'[d] = [l \in DOMAIN cast[d] \cup {k} |->
                      IF l = k THEN CastWeight(master[d][k], TopRank(master[d])) ELSE cast[d][l]]
      /\ DOMAIN cast' = DbSet /\ \A e \in DbSet \ {d} : cast'[e] = cast[e]
  BY <1>1, <1>3 DEF DictInv, Located
<1>6. /\ DOMAIN toPut' = Procs /\ toPut'[p] = toPut[p] \ {k}
      /\ \A q \in Procs \ {p} : toPut'[q] = toPut[q]
  BY <1>1 DEF DictInv, Located
<1>7. Located'
  BY <1>2, <1>5, <1>6 DEF DictInv, Located
<1>8. Exclusive'
  <2>1. \A q \in Procs, i \in DOMAIN Dbs : HoldsAt(q, i)' => HoldsAt(q, i)
    BY <1>2 DEF HoldsAt
  <2> QED
    BY <2>1, FewerHold DEF DictInv
<1>9. HaveCasts'
  <2>1. UNCHANGED <<existing, pc, at, replaced, interrupted>>
    BY <1>2 DEF history
  <2> QED
    BY <1>3, <1>5, <2>1 DEF DictInv, HaveCasts
<1>10. \A q \in Procs \ {p} : pc[q] = "cast" => Dbs[at[q]] \in DbSet \ {d}
  <2>1. SUFFICES ASSUME NEW q \in Procs \ {p}, pc[q] = "cast", Dbs[at[q]] = d PROVE FALSE
    BY DbsFacts DEF DictInv, Located
  <2>2. at[q] \in DOMAIN Dbs /\ at[p] \in DOMAIN Dbs
    BY <1>2, <2>1 DEF DictInv, Located
  <2>3. at[q] = at[p]
    BY <1>0, <2>1, <2>2, DbsFacts
  <2>4. HoldsAt(q, at[p]) /\ HoldsAt(p, at[p])
    BY <1>2, <2>1, <2>3 DEF HoldsAt
  <2> QED
    BY <2>2, <2>4, ExclusivePlaces DEF DictInv
<1>11. Casting'
  <2>1. UNCHANGED <<pc, at, master, replaced, interrupted>>
    BY <1>2 DEF history
  <2>2. /\ Dbs[at[p]] = d
        /\ DOMAIN cast'[d] = DOMAIN master[d] \ toPut'[p] /\ toPut'[p] \subseteq DOMAIN master[d]
    BY <1>0, <1>4, <1>5, <1>6
  <2> QED
    BY <1>4, <1>5, <1>6, <1>10, <2>1, <2>2, SMTT(60) DEF DictInv, Casting
<1>12. Weighed(d)'
  <2>1. Weighed(d)
    BY <1>3, <1>4 DEF DictInv, WellWeighed
  <2>2. /\ DOMAIN cast'[d] = DOMAIN cast[d] \cup {k} /\ k \in DOMAIN master[d]
        /\ cast'[d][k] = CastWeight(master[d][k], TopRank(master[d]))
        /\ \A l \in DOMAIN cast[d] \ {k} : cast'[d][l] = cast[d][l]
    BY <1>4, <1>5
  <2>3. \A l \in DOMAIN master[d] : l \in Keys /\ Key[l] \in Nat
    BY <1>3, DictAssumption DEF DictInv, Located
  <2>4. \A l \in DOMAIN master[d] : Key[l] < Key[k] => l \in DOMAIN cast[d]
    BY <1>1, <1>4, <2>2, <2>3
  <2>5. \A j \in DOMAIN cast'[d], l \in DOMAIN master[d] : Key[l] < Key[j] => l \in DOMAIN cast'[d]
    BY <2>1, <2>2, <2>4 DEF Weighed
  <2>6. \A j \in DOMAIN cast'[d] : cast'[d][j] = CastWeight(master[d][j], TopRank(master[d]))
    BY <2>1, <2>2 DEF Weighed
  <2> QED
    BY <1>2, <2>1, <2>2, <2>5, <2>6 DEF Weighed
<1>13. WellWeighed'
  <2>1. UNCHANGED <<existing, replaced, master>>
    BY <1>2 DEF history
  <2>2. \A e \in DbSet \ {d} : Weighed(e) => Weighed(e)'
    BY <1>5, <2>1 DEF Weighed
  <2> QED
    BY <1>12, <2>1, <2>2 DEF DictInv, WellWeighed
<1>14. Wholes'
  <2>1. UNCHANGED <<existing, replaced, interrupted, master, pc, at>>
    BY <1>2 DEF history
  <2>2. InWork(d)
    BY <1>0, <1>2 DEF InWork
  <2>3. \A e : InWork(e)' <=> InWork(e)
    BY <2>1 DEF InWork
  <2> QED
    BY <1>5, <2>1, <2>2, <2>3 DEF DictInv, Wholes
<1> QED
  BY <1>7, <1>8, <1>9, <1>11, <1>13, <1>14 DEF DictInv

LEMMA CastEndStep ==
  ASSUME DictInv, NEW p \in Procs, CastEnd(p)
  PROVE  DictInv'
<1>0. PICK d : d = Dbs[at[p]]
  OBVIOUS
<1>1. pc[p] = "cast" /\ toPut[p] = {} /\ UNCHANGED <<disk, toPut, history>> /\ NextDb(p)
  BY DEF CastEnd
<1>2. /\ Located' /\ Exclusive'
      /\ pc'[p] \in {"open", "loaded"} /\ at'[p] = at[p] + 1 /\ at[p] \in DOMAIN Dbs
      /\ \A q \in Procs \ {p} : pc'[q] = pc[q] /\ at'[q] = at[q]
  BY <1>1, NextDbFacts DEF DictInv, disk
<1>3. d \in existing /\ DOMAIN cast[d] = DOMAIN master[d]
  BY <1>0, <1>1 DEF DictInv, HaveCasts, Casting
<1>4. UNCHANGED <<master, cast, existing, replaced, interrupted, toPut>>
  BY <1>1 DEF disk, history
<1>5. \A i \in DOMAIN Dbs : i < at[p] + 1 => i < at[p] \/ i = at[p]
  BY <1>2, DbsFacts
<1>6. HaveCasts'
  BY <1>1, <1>2, <1>3, <1>4, <1>5 DEF DictInv, HaveCasts
<1>7. Casting'
  BY <1>1, <1>2, <1>4 DEF DictInv, Casting
<1>8. WellWeighed'
  BY <1>4 DEF DictInv, WellWeighed, Weighed
<1>9. Wholes'
  <2>1. \A e : e # d /\ InWork(e) => InWork(e)'
    BY <1>0, <1>2 DEF InWork
  <2> QED
    BY <1>3, <1>4, <2>1 DEF DictInv, Wholes
<1> QED
  BY <1>2, <1>6, <1>7, <1>8, <1>9 DEF DictInv

LEMMA GoDownFacts ==
  ASSUME DictInv, NEW p \in Procs, GoDown(p), UNCHANGED disk
  PROVE  /\ Located' /\ Exclusive'
         /\ pc'[p] = "down"
         /\ \A q \in Procs \ {p} : pc'[q] = pc[q] /\ at'[q] = at[q] /\ toPut'[q] = toPut[q]
<1>1. pc'[p] = "down" /\ toPut'[p] = {}
  BY DEF DictInv, Located, GoDown
<1>2. \A q \in Procs \ {p} : pc'[q] = pc[q] /\ at'[q] = at[q] /\ toPut'[q] = toPut[q]
  BY DEF DictInv, Located, GoDown
<1>3. Located'
  BY <1>1, <1>2 DEF DictInv, Located, GoDown, disk
<1>4. \A q \in Procs, i \in DOMAIN Dbs : HoldsAt(q, i)' => HoldsAt(q, i)
  BY <1>1, <1>2 DEF HoldsAt
<1> QED
  BY <1>1, <1>2, <1>3, <1>4, FewerHold DEF DictInv

(* A program that ends while it casts nothing.                             *)
LEMMA GoDownStep ==
  ASSUME DictInv, NEW p \in Procs, GoDown(p), pc[p] # "cast", UNCHANGED <<disk, history>>
  PROVE  DictInv'
<1>1. /\ Located' /\ Exclusive'
      /\ pc'[p] = "down"
      /\ \A q \in Procs \ {p} : pc'[q] = pc[q] /\ at'[q] = at[q] /\ toPut'[q] = toPut[q]
  BY GoDownFacts
<1>2. \A q \in Procs, i \in DOMAIN Dbs : pc'[q] # "down" /\ i < at'[q] => Dbs[i] \in existing
  BY <1>1 DEF DictInv, HaveCasts
<1> QED
  BY <1>1, <1>2, DiskKept

LEMMA CrashStep ==
  ASSUME DictInv, NEW p \in Procs, Crash(p)
  PROVE  DictInv'
<1>0. PICK d : d = Dbs[at[p]]
  OBVIOUS
<1>1. /\ interrupted' = IF toPut[p] = {} THEN interrupted ELSE interrupted \cup {d}
      /\ GoDown(p) /\ UNCHANGED <<disk, replaced>>
  BY <1>0 DEF Crash
<1>2. /\ Located' /\ Exclusive'
      /\ pc'[p] = "down"
      /\ \A q \in Procs \ {p} : pc'[q] = pc[q] /\ at'[q] = at[q] /\ toPut'[q] = toPut[q]
  BY <1>1, GoDownFacts
<1>3. UNCHANGED <<master, cast, existing, replaced>>
  BY <1>1 DEF disk
<1>4. toPut[p] # {} => pc[p] = "cast" /\ d \in existing
  BY <1>0 DEF DictInv, Located, HaveCasts
<1>5. HaveCasts'
  BY <1>1, <1>2, <1>3, <1>4 DEF DictInv, HaveCasts
<1>6. Casting'
  <2>1. SUFFICES ASSUME NEW q \in Procs, pc'[q] = "cast"
                 PROVE  /\ Dbs[at'[q]] \notin replaced' \cup interrupted'
                        /\ DOMAIN cast'[Dbs[at'[q]]] = DOMAIN master'[Dbs[at'[q]]] \ toPut'[q]
                        /\ toPut'[q] \subseteq DOMAIN master'[Dbs[at'[q]]]
    BY DEF Casting
  <2>2. q # p /\ pc[q] = "cast" /\ at'[q] = at[q] /\ toPut'[q] = toPut[q]
    BY <1>2, <2>1
  <2>3. toPut[p] # {} => Dbs[at[q]] # d
    <3>1. SUFFICES ASSUME toPut[p] # {}, Dbs[at[q]] = Dbs[at[p]] PROVE FALSE
      BY <1>0
    <3>2. pc[p] = "cast" /\ at[p] \in DOMAIN Dbs /\ at[q] \in DOMAIN Dbs
      BY <1>4, <2>2, <3>1 DEF DictInv, Located
    <3>3. HoldsAt(p, at[p]) /\ HoldsAt(q, at[p])
      BY <2>2, <3>1, <3>2, DbsFacts DEF HoldsAt
    <3> QED
      BY <2>2, <3>2, <3>3, ExclusivePlaces DEF DictInv
  <2> QED
    BY <1>1, <1>3, <2>2, <2>3 DEF DictInv, Casting
<1>7. WellWeighed'
  BY <1>3 DEF DictInv, WellWeighed, Weighed
<1>8. Wholes'
  <2>1. \A e : InWork(e) => InWork(e)' \/ (e = d /\ pc[p] = "cast")
    BY <1>0, <1>2 DEF InWork
  <2>2. pc[p] = "cast" /\ toPut[p] = {} => DOMAIN cast[d] = DOMAIN master[d]
    BY <1>0 DEF DictInv, Casting
  <2>3. pc[p] = "cast" /\ toPut[p] # {} => d \in interrupted'
    BY <1>1
  <2>4. interrupted \subseteq interrupted'
    BY <1>1
  <2> QED
    BY <1>3, <2>1, <2>2, <2>3, <2>4 DEF DictInv, Wholes
<1> QED
  BY <1>2, <1>5, <1>6, <1>7, <1>8 DEF DictInv

(* A master that is replaced is no one's, and its cast, if there is one,   *)
(* is known to be old.                                                     *)
LEMMA DeployStep ==
  ASSUME DictInv, NEW d \in DbSet, NEW m \in Masters, Deploy(d, m)
  PROVE  DictInv'
<1>1. /\ master' = [master EXCEPT ![d] = m[d]]
      /\ replaced' = IF d \in existing THEN replaced \cup {d} ELSE replaced
      /\ UNCHANGED <<cast, existing, pc, at, toPut, interrupted>>
  BY DEF Deploy
<1>2. \A e \in DbSet \ {d} : master'[e] = master[e]
  BY <1>1 DEF DictInv, Located
<1>3. DOMAIN master' = DbSet /\ DOMAIN master'[d] \subseteq Keys
  BY <1>1, DictAssumption DEF DictInv, Located
<1>4. Located'
  BY <1>1, <1>2, <1>3 DEF DictInv, Located
<1>5. Exclusive'
  <2>1. \A q \in Procs, i \in DOMAIN Dbs : HoldsAt(q, i)' => HoldsAt(q, i)
    BY <1>1 DEF HoldsAt
  <2> QED
    BY <2>1, FewerHold DEF DictInv
<1>6. HaveCasts'
  BY <1>1 DEF DictInv, HaveCasts
<1>7. \A q \in Procs : pc[q] = "cast" => Dbs[at[q]] \in DbSet \ {d}
  <2>1. SUFFICES ASSUME NEW q \in Procs, pc[q] = "cast", Dbs[at[q]] = d PROVE FALSE
    BY DbsFacts DEF DictInv, Located
  <2>2. Holds(q, d)
    BY <2>1 DEF Holds, DictInv, Located
  <2> QED
    BY <2>2 DEF Deploy
<1>8. Casting'
  BY <1>1, <1>2, <1>7 DEF DictInv, Casting
<1>9. \A e \in existing : e \notin replaced' => e # d /\ e \notin replaced
  BY <1>1
<1>10. WellWeighed'
  <2>1. \A e \in DbSet \ {d} : Weighed(e) => Weighed(e)'
    BY <1>1, <1>2 DEF Weighed
  <2> QED
    BY <1>1, <1>9, <2>1 DEF DictInv, WellWeighed
<1>11. Wholes'
  <2>1. \A e : InWork(e)' <=> InWork(e)
    BY <1>1 DEF InWork
  <2> QED
    BY <1>1, <1>2, <1>9, <2>1 DEF DictInv, Wholes
<1> QED
  BY <1>4, <1>5, <1>6, <1>8, <1>10, <1>11 DEF DictInv

LEMMA StutterDict ==
  ASSUME DictInv, UNCHANGED dictVars
  PROVE  DictInv'
<1>1. Located'
  BY DEF DictInv, Located, dictVars, disk, history
<1>2. Exclusive'
  <2>1. \A q \in Procs, i \in DOMAIN Dbs : HoldsAt(q, i)' => HoldsAt(q, i)
    BY DEF HoldsAt, dictVars
  <2> QED
    BY <2>1, FewerHold DEF DictInv
<1>3. \A q \in Procs, i \in DOMAIN Dbs : pc'[q] # "down" /\ i < at'[q] => Dbs[i] \in existing
  BY DEF DictInv, HaveCasts, dictVars
<1> QED
  BY <1>1, <1>2, <1>3, DiskKept DEF dictVars

-----------------------------------------------------------------------------
LEMMA InitIInv == Init => IInv
BY InitDict DEF Init, IInv, InHand, Idle

LEMMA WorkerIsProc == Worker \in Procs
BY PhoenixAssumption

LEMMA StepIInv ==
  ASSUME IInv, [Next]_vars
  PROVE  IInv'
<1>1. ASSUME NEW p \in Procs, Start(p), UNCHANGED segmenting PROVE IInv'
  <2>1. DictInv'
    BY <1>1, StartStep DEF IInv
  <2>2. InHand'
    BY <1>1, WorkerIsProc DEF IInv, DictInv, Located, InHand, Start, segmenting
  <2> QED
    BY <2>1, <2>2 DEF IInv
<1>2. ASSUME NEW p \in Procs, Load(p), UNCHANGED segmenting PROVE IInv'
  <2>1. DictInv'
    BY <1>2, OpenMasterStep, TakeCastStep, CreateCastStep, PutCastStep, CastEndStep DEF IInv, Load
  <2>2. pc[p] \in {"open", "look", "cast"} /\ \A q \in Procs \ {p} : pc'[q] = pc[q]
    BY <1>2 DEF IInv, DictInv, Located, Load, OpenMaster, TakeCast, CreateCast, PutCast, CastEnd, NextDb
  <2>3. InHand'
    BY <1>2, <2>2, WorkerIsProc DEF IInv, InHand, segmenting
  <2> QED
    BY <2>1, <2>3 DEF IInv
<1>3. ASSUME NEW d \in DbSet, NEW m \in Masters, Deploy(d, m), UNCHANGED segmenting PROVE IInv'
  <2>1. DictInv'
    BY <1>3, DeployStep DEF IInv
  <2> QED
    BY <1>3, <2>1 DEF IInv, InHand, Deploy, segmenting
<1>4. ASSUME NEW p \in Procs, Ends(p) PROVE IInv'
  <2>1. CASE Quit(p)
    <3>1. DictInv'
      BY <2>1, GoDownStep DEF IInv, Quit
    <3> QED
      BY <1>4, <2>1, <3>1, WorkerIsProc
      DEF IInv, DictInv, Located, InHand, Ends, Quit, GoDown, segmenting
  <2>2. CASE Crash(p)
    <3>1. DictInv'
      BY <2>2, CrashStep DEF IInv
    <3> QED
      BY <1>4, <2>2, <3>1, WorkerIsProc
      DEF IInv, DictInv, Located, InHand, Ends, Crash, GoDown, segmenting
  <2> QED
    BY <1>4, <2>1, <2>2 DEF Ends
<1>5. ASSUME NEW t \in Texts, LearnNothing(t) \/ Read(t) PROVE IInv'
  <2>1. UNCHANGED dictVars /\ (UNCHANGED text \/ Ready)
    BY <1>5 DEF LearnNothing, Read, segmenting
  <2>2. DictInv'
    BY <2>1, StutterDict DEF IInv
  <2> QED
    BY <2>1, <2>2 DEF IInv, InHand, Ready, dictVars
<1>6. ASSUME Pick \/ JointPair \/ Answer \/ CommitArticle \/ UNCHANGED vars PROVE IInv'
  <2>1. UNCHANGED dictVars /\ (UNCHANGED text \/ text' = <<>>)
    BY <1>6 DEF Pick, JointPair, Answer, CommitArticle, SetDown, segmenting, vars
  <2>2. DictInv'
    BY <2>1, StutterDict DEF IInv
  <2> QED
    BY <2>1, <2>2 DEF IInv, InHand, dictVars
<1>7. ASSUME AnswerNothing PROVE IInv'
  <2>1. /\ text # <<>> /\ text' = <<>>
        /\ UNCHANGED dictVars \/ (GoDown(Worker) /\ UNCHANGED <<disk, history>>)
    BY <1>7 DEF AnswerNothing, Done, SetDown
  <2>2. pc[Worker] # "cast"
    BY <2>1 DEF IInv, InHand
  <2>3. DictInv'
    BY <2>1, <2>2, StutterDict, GoDownStep, WorkerIsProc DEF IInv
  <2> QED
    BY <2>1, <2>3 DEF IInv, InHand
<1> QED
  BY <1>1, <1>2, <1>3, <1>4, <1>5, <1>6, <1>7 DEF Next

(* The inductive invariant: leveldb's lock keeps every cast with one       *)
(* program, a cast under way lacks what is still to be put, and one that   *)
(* nobody works on is whole or was cut short.                              *)
THEOREM Invariance == Spec => []IInv
<1>1. Init => IInv
  BY InitIInv
<1>2. IInv /\ [Next]_vars => IInv'
  BY StepIInv
<1> QED
  BY <1>1, <1>2, PTL DEF Spec

LEMMA InvWhole == IInv => WholeOrPrefix
<1> SUFFICES ASSUME IInv, NEW p \in Procs, NEW d \in DbSet, pc[p] = "loaded", d \notin replaced
             PROVE  /\ d \in existing /\ Weighed(d)
                    /\ d \notin interrupted => DOMAIN cast[d] = DOMAIN master[d]
  BY DEF WholeOrPrefix, Weighed
<1>1. PICK i \in DOMAIN Dbs : Dbs[i] = d
  BY DbsFacts
<1>2. i < at[p]
  BY DbsFacts DEF IInv, DictInv, Located
<1>3. d \in existing
  BY <1>1, <1>2 DEF IInv, DictInv, HaveCasts
<1>4. ~InWork(d)
  <2>1. SUFFICES ASSUME NEW q \in Procs, pc[q] = "cast", Dbs[at[q]] = d PROVE FALSE
    BY DEF InWork
  <2>2. at[q] = i
    BY <1>1, <2>1, DbsFacts DEF IInv, DictInv, Located
  <2>3. HoldsAt(q, i) /\ HoldsAt(p, i)
    BY <1>2, <2>1, <2>2 DEF HoldsAt
  <2> QED
    BY <2>1, <2>3, ExclusivePlaces DEF IInv, DictInv
<1> QED
  BY <1>3, <1>4 DEF IInv, DictInv, WellWeighed, Wholes

(* A program that has loaded a dictionary finds it whole with the right    *)
(* weights, or, when a crash cut a cast short, a prefix of it, for any     *)
(* number of programs that start, load, cast and die at any moment.        *)
THEOREM CastsWholeOrPrefix == Spec => []WholeOrPrefix
<1>1. Spec => []IInv
  BY Invariance
<1>2. IInv => WholeOrPrefix
  BY InvWhole
<1> QED
  BY <1>1, <1>2, PTL

-----------------------------------------------------------------------------
(* The order of the hints *)

LEMMA LeastNatural ==
  ASSUME NEW T, T \subseteq Nat, T # {}
  PROVE  \E n \in T : \A m \in T : n <= m
<1> DEFINE R == OpToRel(<, Nat)
<1>1. IsWellFoundedOn(R, Nat)
  BY NatLessThanWellFounded
<1>2. PICK n \in T : \A m \in T : ~ (<<m, n>> \in R)
  <2> HIDE DEF R
  <2> QED BY <1>1, WFMin
<1>3. ASSUME NEW m \in T PROVE n <= m
  <2>1. n \in Nat /\ m \in Nat
    OBVIOUS
  <2>2. ~ (<<m, n>> \in R)
    BY <1>2
  <2>3. ~ (m < n)
    BY <2>1, <2>2 DEF OpToRel
  <2> QED BY <2>1, <2>3
<1> QED BY <1>2, <1>3

Spans == {h \in [from : Nat, to : Nat] : h.from <= h.to}

LEMMA BeforeOrder ==
  /\ \A g, h \in Spans : ~Before(g, h) /\ ~Before(h, g) => g = h
  /\ \A f, g, h \in Spans : ~Before(g, f) /\ ~Before(h, g) => ~Before(h, f)
  /\ \A f, g, h \in Spans : Before(f, g) /\ ~Before(h, g) => Before(f, h)
  /\ \A f, g, h \in Spans : ~Before(g, f) /\ Before(g, h) => Before(f, h)
  /\ \A g, h \in Spans : Before(g, h) => ~Before(h, g)
<1>1. \A g, h \in Spans : ~Before(g, h) /\ ~Before(h, g) => g = h
  BY DEF Spans, Before
<1> QED
  BY <1>1 DEF Spans, Before

LEMMA ForemostFacts ==
  ASSUME NEW S, S \subseteq Spans, S # {}
  PROVE  /\ Foremost(S) \in S
         /\ \A g \in S : ~Before(g, Foremost(S)) /\ Foremost(S).from <= g.from
<1>1. PICK m \in {g.from : g \in S} : \A k \in {g.from : g \in S} : m <= k
  <2>1. {g.from : g \in S} # {} /\ {g.from : g \in S} \subseteq Nat
    BY DEF Spans
  <2> QED
    BY <2>1, LeastNatural
<1>2. PICK e \in {g.to : g \in {f \in S : f.from = m}} :
         \A k \in {g.to : g \in {f \in S : f.from = m}} : e <= k
  <2>1. {g.to : g \in {f \in S : f.from = m}} # {} /\ {g.to : g \in {f \in S : f.from = m}} \subseteq Nat
    BY <1>1 DEF Spans
  <2> QED
    BY <2>1, LeastNatural
<1>3. PICK h \in S : h.from = m /\ h.to = e
  BY <1>2
<1>4. \A g \in S : ~Before(g, h)
  BY <1>1, <1>2, <1>3 DEF Spans, Before
<1>5. Foremost(S) \in S /\ \A g \in S : ~Before(g, Foremost(S))
  BY <1>3, <1>4 DEF Foremost
<1> QED
  BY <1>5 DEF Spans, Before

LEMMA HindmostFacts ==
  ASSUME NEW n \in Nat, NEW S, S \subseteq Spans, S # {}, \A h \in S : h.to <= n
  PROVE  /\ Hindmost(S) \in S
         /\ \A g \in S : ~Before(Hindmost(S), g) /\ g.from <= Hindmost(S).from
<1>0. \A h \in S : h.from \in 0..n /\ h.to \in 0..n
  BY DEF Spans
<1>1. PICK m \in {n - g.from : g \in S} : \A k \in {n - g.from : g \in S} : m <= k
  <2>1. {n - g.from : g \in S} # {} /\ {n - g.from : g \in S} \subseteq Nat
    BY <1>0
  <2> QED
    BY <2>1, LeastNatural
<1>2. PICK e \in {n - g.to : g \in {f \in S : n - f.from = m}} :
         \A k \in {n - g.to : g \in {f \in S : n - f.from = m}} : e <= k
  <2>1. {n - g.to : g \in {f \in S : n - f.from = m}} # {}
        /\ {n - g.to : g \in {f \in S : n - f.from = m}} \subseteq Nat
    BY <1>0, <1>1
  <2> QED
    BY <2>1, LeastNatural
<1>3. PICK h \in S : n - h.from = m /\ n - h.to = e
  BY <1>2
<1>4. ASSUME NEW g \in S PROVE ~Before(h, g)
  <2>1. m <= n - g.from
    BY <1>1
  <2>2. n - g.from = m => e <= n - g.to
    BY <1>2
  <2> QED
    BY <1>0, <1>3, <2>1, <2>2 DEF Before
<1>5. Hindmost(S) \in S /\ \A g \in S : ~Before(Hindmost(S), g)
  BY <1>3, <1>4 DEF Hindmost
<1> QED
  BY <1>5 DEF Spans, Before

-----------------------------------------------------------------------------
(* The hints and the clusters *)

(* A set of hints of a text of n characters.                               *)
Laid(S, n) == S \subseteq Spans /\ \A h \in S : h.to <= n

LEMMA RawRankLaid ==
  ASSUME NEW t \in Texts
  PROVE  Len(t) \in Nat /\ DOMAIN t = 1..Len(t) /\ Laid(RawRank(t), Len(t))
<1>1. Len(t) \in Nat /\ DOMAIN t = 1..Len(t)
  BY PhoenixAssumption
<1>2. \A h \in Runs(t) : h \in Spans /\ h.to <= Len(t)
  BY <1>1 DEF Runs, Spans
<1> QED
  BY <1>1, <1>2 DEF RawRank, Laid

LEMMA GapFacts ==
  ASSUME NEW n \in Nat, NEW S, Laid(S, n), NEW f \in Gaps(S)
  PROVE  \E g, h \in S : /\ Neighbours(S, g, h) /\ f = Gap(g, h) /\ g.to + 1 < h.from
                         /\ f \in Spans /\ f.from = g.to + 1 /\ f.to = h.from - 1 /\ f.to <= n
<1>1. PICK g \in S, h \in S : Neighbours(S, g, h) /\ f = Gap(g, h) /\ g.to + 1 < h.from
  BY DEF Gaps
<1>2. g \in Spans /\ h \in Spans /\ h.to <= n
  BY DEF Laid
<1>3. f = [from |-> g.to + 1, to |-> h.from - 1]
  BY <1>1 DEF Gap
<1>4. g.to + 1 \in Nat /\ h.from - 1 \in Nat /\ g.to + 1 <= h.from - 1 /\ h.from - 1 <= n
  BY <1>1, <1>2 DEF Spans
<1>5. f \in Spans /\ f.from = g.to + 1 /\ f.to = h.from - 1
  BY <1>3, <1>4 DEF Spans
<1> QED
  BY <1>1, <1>4, <1>5

LEMMA HintsLaid ==
  ASSUME NEW t \in Texts
  PROVE  Laid(Hints(t), Len(t))
<1>1. Len(t) \in Nat /\ Laid(RawRank(t), Len(t))
  BY RawRankLaid
<1>2. \A f \in Gaps(RawRank(t)) : f \in Spans /\ f.to <= Len(t)
  BY <1>1, GapFacts
<1> QED
  BY <1>1, <1>2 DEF Hints, Laid

(* Between two hints there is no place without one.                        *)
LEMMA NoHole ==
  ASSUME NEW n \in Nat, NEW S, Laid(S, n), NEW g \in S \cup Gaps(S), NEW h \in S \cup Gaps(S),
         NEW k \in Nat, g.from <= k, k < h.from
  PROVE  \E f \in S \cup Gaps(S) : f.from <= k /\ k <= f.to
<1> DEFINE A == {f \in S : f.from <= k}
           B == {f \in S : k < f.from}
<1>1. /\ Laid(A, n) /\ Laid(B, n) /\ A \cup B = S
      /\ \A f \in S : f \in Spans /\ f.from \in Nat /\ f.to \in Nat /\ f.from <= f.to
  BY DEF Laid, Spans
<1>2. A # {}
  <2>1. CASE g \in S
    BY <2>1
  <2>2. CASE g \in Gaps(S)
    <3>1. PICK p \in S : g.from = p.to + 1
      BY <2>2, GapFacts
    <3>2. p.from <= k
      BY <1>1, <3>1
    <3> QED
      BY <3>2
  <2> QED
    BY <2>1, <2>2
<1>3. B # {}
  <2>1. CASE h \in S
    BY <2>1
  <2>2. CASE h \in Gaps(S)
    <3>1. PICK p \in S : h.to = p.from - 1 /\ h \in Spans
      BY <2>2, GapFacts
    <3>2. k < p.from
      BY <1>1, <3>1 DEF Spans
    <3> QED
      BY <3>2
  <2> QED
    BY <2>1, <2>2
<1>4. PICK a \in A : \A f \in A : ~Before(a, f)
  <2> HIDE DEF A
  <2> QED
    BY <1>1, <1>2, HindmostFacts DEF Laid
<1>5. PICK b \in B : \A f \in B : ~Before(f, b)
  <2> HIDE DEF B
  <2> QED
    BY <1>1, <1>3, ForemostFacts DEF Laid
<1>6. CASE k <= a.to
  BY <1>4, <1>6
<1>7. CASE a.to < k
  <2>1. a \in S /\ b \in S /\ a.from \in Nat /\ a.to \in Nat /\ b.from \in Nat /\ a.from <= k /\ k < b.from
    BY <1>1, <1>4, <1>5
  <2>2. Neighbours(S, a, b)
    <3>1. Before(a, b)
      BY <2>1 DEF Before
    <3>2. \A f \in S : ~(Before(a, f) /\ Before(f, b))
      BY <1>1, <1>4, <1>5
    <3> QED
      BY <3>1, <3>2 DEF Neighbours
  <2>3. a.to + 1 < b.from
    BY <1>7, <2>1
  <2>4. Gap(a, b) \in Gaps(S)
    <3>1. <<a, b>> \in {r \in S \X S : Neighbours(S, r[1], r[2]) /\ r[1].to + 1 < r[2].from}
      BY <2>1, <2>2, <2>3
    <3>2. Gap(<<a, b>>[1], <<a, b>>[2]) \in Gaps(S)
      BY <3>1 DEF Gaps
    <3> QED
      BY <3>2
  <2>5. Gap(a, b).from <= k /\ k <= Gap(a, b).to
    BY <1>7, <2>1 DEF Gap
  <2> QED
    BY <2>4, <2>5
<1> QED
  BY <1>1, <1>4, <1>6, <1>7

(* A cluster begins with the hint it is made for, holds every hint from    *)
(* that one to the next such, and reaches no later one.                    *)
LEMMA ClusterFacts ==
  ASSUME NEW n \in Nat, NEW S, Laid(S, n), NEW h \in S, Boundary(S, h)
  PROVE  /\ ClusterOf(S, h) \subseteq S /\ h \in ClusterOf(S, h)
         /\ Foremost(ClusterOf(S, h)) = h
         /\ Laid(ClusterOf(S, h), n)
<1>1. ClusterOf(S, h) \subseteq S /\ Laid(ClusterOf(S, h), n)
  BY DEF ClusterOf, Laid
<1>2. h \in ClusterOf(S, h)
  BY BeforeOrder DEF ClusterOf, Laid
<1>3. \A g \in ClusterOf(S, h) : ~Before(g, h)
  BY DEF ClusterOf
<1>4. Foremost(ClusterOf(S, h)) = h
  <2>1. /\ ClusterOf(S, h) # {} /\ ClusterOf(S, h) \subseteq Spans
    BY <1>1, <1>2 DEF Laid
  <2>2. Foremost(ClusterOf(S, h)) \in ClusterOf(S, h) /\ ~Before(h, Foremost(ClusterOf(S, h)))
    BY <1>2, <2>1, ForemostFacts
  <2> QED
    BY <1>2, <1>3, <2>1, <2>2, BeforeOrder
<1> QED
  BY <1>1, <1>2, <1>4

LEMMA EveryHintClustered ==
  ASSUME NEW n \in Nat, NEW S, Laid(S, n), NEW f \in S
  PROVE  \E h \in S : Boundary(S, h) /\ f \in ClusterOf(S, h)
<1> DEFINE B == {b \in S : Boundary(S, b) /\ ~Before(f, b)}
<1>1. Foremost(S) \in B
  <2>1. S \subseteq Spans /\ S # {}
    BY DEF Laid
  <2>2. Foremost(S) \in S /\ \A g \in S : ~Before(g, Foremost(S))
    BY <2>1, ForemostFacts
  <2> QED
    BY <2>1, <2>2 DEF Boundary
<1>2. PICK h \in B : \A b \in B : ~Before(h, b)
  <2>1. Laid(B, n) /\ B # {}
    BY <1>1 DEF Laid
  <2> HIDE DEF B
  <2> QED
    BY <2>1, HindmostFacts DEF Laid
<1>3. \A b \in S : Boundary(S, b) /\ Before(h, b) => Before(f, b)
  BY <1>2
<1> QED
  BY <1>2, <1>3 DEF ClusterOf

(* The clusters lie one behind the other.                                  *)
LEMMA ClustersApart ==
  ASSUME NEW n \in Nat, NEW S, Laid(S, n), NEW g \in S, NEW h \in S, Boundary(S, g), Boundary(S, h),
         Before(g, h)
  PROVE  /\ \A f \in ClusterOf(S, g) : Before(f, h) /\ f.to < h.from
         /\ \A f \in ClusterOf(S, h) : h.from <= f.from
<1>1. \A f \in ClusterOf(S, g) : f \in S /\ Before(f, h)
  BY DEF ClusterOf
<1>2. \A f \in ClusterOf(S, h) : f \in Spans /\ h \in Spans /\ ~Before(f, h)
  BY DEF ClusterOf, Laid
<1> QED
  BY <1>1, <1>2 DEF Boundary, Before, Spans

-----------------------------------------------------------------------------
(* The ways through a cluster *)

Chained(p) == \A i \in 1..Len(p) - 1 : p[i + 1].from = p[i].to + 1

Ways(c, h, last) ==
  {p \in Seq(c) : p # <<>> /\ p[1] = h /\ Chained(p) /\ p[Len(p)].to = last}

LEMMA PrefixFacts ==
  ASSUME NEW c, NEW h \in c, NEW q \in Seq(c)
  PROVE  /\ <<h>> \o q \in Seq(c) /\ Len(<<h>> \o q) = Len(q) + 1 /\ (<<h>> \o q)[1] = h
         /\ \A i \in 1..Len(q) : (<<h>> \o q)[i + 1] = q[i]
OBVIOUS

LEMMA LongerWay ==
  ASSUME NEW c, NEW h \in c, NEW g \in c, NEW last, g.from = h.to + 1, NEW q \in Ways(c, g, last)
  PROVE  <<h>> \o q \in Ways(c, h, last)
<1>1. q \in Seq(c) /\ Len(q) \in Nat \ {0} /\ q[1] = g /\ Chained(q) /\ q[Len(q)].to = last
  BY DEF Ways
<1>2. PICK p : p = <<h>> \o q
  OBVIOUS
<1>3. /\ p \in Seq(c) /\ Len(p) = Len(q) + 1 /\ p[1] = h
      /\ \A i \in 1..Len(q) : p[i + 1] = q[i]
  BY <1>1, <1>2, PrefixFacts
<1>4. p # <<>> /\ p[Len(p)].to = last
  BY <1>1, <1>3
<1>5. ASSUME NEW i \in 1..Len(p) - 1 PROVE p[i + 1].from = p[i].to + 1
  <2>1. CASE i = 1
    BY <1>1, <1>3, <2>1
  <2>2. CASE i # 1
    <3>1. i - 1 \in 1..Len(q) - 1 /\ i - 1 \in 1..Len(q) /\ i \in 1..Len(q) /\ (i - 1) + 1 = i
      BY <1>1, <1>3, <2>2
    <3>2. q[(i - 1) + 1].from = q[i - 1].to + 1
      BY <1>1, <3>1 DEF Chained
    <3>3. p[i + 1] = q[i] /\ p[(i - 1) + 1] = q[i - 1]
      BY <1>3, <3>1
    <3> QED
      BY <3>1, <3>2, <3>3
  <2> QED
    BY <2>1, <2>2
<1> QED
  BY <1>2, <1>3, <1>4, <1>5 DEF Ways, Chained

LEMMA WaySplit ==
  ASSUME NEW c, NEW h \in c, NEW last, NEW p \in Ways(c, h, last)
  PROVE  \/ h.to = last /\ p = <<h>>
         \/ \E g \in c : g.from = h.to + 1 /\ \E q \in Ways(c, g, last) : p = <<h>> \o q
<1>1. p \in Seq(c) /\ Len(p) \in Nat \ {0} /\ p[1] = h /\ Chained(p) /\ p[Len(p)].to = last
  BY DEF Ways
<1>2. CASE Len(p) = 1
  BY <1>1, <1>2
<1>3. CASE Len(p) # 1
  <2>1. PICK q : q = Tail(p)
    OBVIOUS
  <2>2. /\ q \in Seq(c) /\ Len(q) = Len(p) - 1 /\ p = <<h>> \o q
        /\ \A i \in 1..Len(q) : q[i] = p[i + 1]
    BY <1>1, <2>1
  <2>3. p[2] \in c /\ p[2].from = h.to + 1 /\ q[1] = p[2] /\ q # <<>>
    BY <1>1, <1>3, <2>2 DEF Chained
  <2>4. q[Len(q)].to = last
    BY <1>1, <1>3, <2>2
  <2>5. ASSUME NEW i \in 1..Len(q) - 1 PROVE q[i + 1].from = q[i].to + 1
    <3>1. i \in 1..Len(q) /\ i + 1 \in 1..Len(q) /\ i + 1 \in 1..Len(p) - 1
      BY <1>1, <2>2
    <3>2. p[(i + 1) + 1].from = p[i + 1].to + 1
      BY <1>1, <3>1 DEF Chained
    <3> QED
      BY <2>2, <3>1, <3>2
  <2>6. q \in Ways(c, p[2], last)
    BY <2>2, <2>3, <2>4, <2>5 DEF Ways, Chained
  <2> QED
    BY <2>2, <2>3, <2>6
<1> QED
  BY <1>2, <1>3

(* The ways onward from each hint: the one solution there is of the        *)
(* equation by which Paths defines them.                                   *)
Onward(c, w) ==
  [h \in c |-> (IF h.to = PosLast(c) THEN {<<h>>} ELSE {})
     \cup {<<h>> \o p : p \in UNION {w[g] : g \in {f \in c : f.from = h.to + 1}}}]

LEMMA OnwardSolution ==
  ASSUME NEW n \in Nat, NEW c, Laid(c, n)
  PROVE  /\ [h \in c |-> Ways(c, h, PosLast(c))] = Onward(c, [h \in c |-> Ways(c, h, PosLast(c))])
         /\ \A v : v = Onward(c, v) => \A h \in c : v[h] = Ways(c, h, PosLast(c))
<1> DEFINE last == PosLast(c)
           Way == [h \in c |-> Ways(c, h, last)]
<1> HIDE DEF last
<1>1. ASSUME NEW w, NEW h \in c, \A g \in c : g.from = h.to + 1 => w[g] = Ways(c, g, last)
      PROVE  (IF h.to = last THEN {<<h>>} ELSE {})
               \cup {<<h>> \o p : p \in UNION {w[g] : g \in {f \in c : f.from = h.to + 1}}}
             = Ways(c, h, last)
  <2>1. PICK P : P = UNION {w[g] : g \in {f \in c : f.from = h.to + 1}}
    OBVIOUS
  <2>2. \A q : q \in P <=> \E g \in c : g.from = h.to + 1 /\ q \in Ways(c, g, last)
    BY <1>1, <2>1
  <2>3. ASSUME NEW p \in Ways(c, h, last) PROVE (h.to = last /\ p = <<h>>) \/ \E q \in P : p = <<h>> \o q
    BY <2>2, WaySplit
  <2>4. ASSUME NEW q \in P PROVE <<h>> \o q \in Ways(c, h, last)
    BY <2>2, LongerWay
  <2>5. h.to = last => <<h>> \in Ways(c, h, last)
    BY DEF Ways, Chained
  <2> QED
    BY <2>1, <2>3, <2>4, <2>5
<1>2. Way = Onward(c, Way)
  <2>1. \A h \in c : Way[h] = Ways(c, h, last)
    OBVIOUS
  <2>2. PICK w : w = Way
    OBVIOUS
  <2>3. ASSUME NEW h \in c
        PROVE  (IF h.to = last THEN {<<h>>} ELSE {})
                 \cup {<<h>> \o p : p \in UNION {w[g] : g \in {f \in c : f.from = h.to + 1}}}
               = Ways(c, h, last)
    <3>1. \A g \in c : g.from = h.to + 1 => w[g] = Ways(c, g, last)
      BY <2>1, <2>2
    <3> QED
      BY <1>1, <3>1
  <2>4. Onward(c, w) = [h \in c |-> Ways(c, h, last)]
    BY <2>3 DEF Onward, last
  <2> QED
    BY <2>2, <2>4
<1>3. ASSUME NEW v, v = Onward(c, v) PROVE \A h \in c : v[h] = Ways(c, h, last)
  <2> DEFINE Wrong == {h \in c : v[h] # Ways(c, h, last)}
  <2>1. SUFFICES ASSUME Wrong # {} PROVE FALSE
    OBVIOUS
  <2>2. PICK h \in Wrong : \A g \in Wrong : g.from <= h.from
    <3>1. Laid(Wrong, n)
      BY DEF Laid
    <3> HIDE DEF Wrong
    <3> QED
      BY <2>1, <3>1, HindmostFacts DEF Laid
  <2>3. h \in c /\ h \in Spans
    BY DEF Laid
  <2>4. \A g \in c : g.from = h.to + 1 => g \notin Wrong
    BY <2>2, <2>3 DEF Spans
  <2>5. \A g \in c : g.from = h.to + 1 => v[g] = Ways(c, g, last)
    BY <2>4
  <2>6. v[h] = (IF h.to = last THEN {<<h>>} ELSE {})
               \cup {<<h>> \o p : p \in UNION {v[g] : g \in {f \in c : f.from = h.to + 1}}}
    BY <1>3, <2>3 DEF Onward, last
  <2>7. v[h] = Ways(c, h, last)
    <3>1. PICK u : u = v /\ \A g \in c : g.from = h.to + 1 => u[g] = Ways(c, g, last)
      BY <2>5
    <3>2. (IF h.to = last THEN {<<h>>} ELSE {})
            \cup {<<h>> \o p : p \in UNION {u[g] : g \in {f \in c : f.from = h.to + 1}}}
          = Ways(c, h, last)
      BY ONLY <1>1, <2>3, <3>1, SMTT(60)
    <3> QED
      BY ONLY <2>6, <3>1, <3>2
  <2> QED
    BY <2>2, <2>7
<1> QED
  BY <1>2, <1>3 DEF last

LEMMA PathsAreWays ==
  ASSUME NEW n \in Nat, NEW c, Laid(c, n)
  PROVE  Paths(c) = UNION {Ways(c, h, PosLast(c)) : h \in {f \in c : f.from = Foremost(c).from}}
<1> DEFINE v == CHOOSE w : w = Onward(c, w)
<1>1. v = Onward(c, v)
  BY OnwardSolution
<1>2. \A h \in c : v[h] = Ways(c, h, PosLast(c))
  BY <1>1, OnwardSolution
<1>3. Paths(c) = UNION {v[h] : h \in {f \in c : f.from = Foremost(c).from}}
  BY DEF Paths, Onward
<1> HIDE DEF v
<1> QED
  BY <1>2, <1>3

LEMMA PathFacts ==
  ASSUME NEW n \in Nat, NEW c, Laid(c, n), NEW p \in Paths(c)
  PROVE  /\ p \in Seq(c) /\ Len(p) \in Nat \ {0} /\ Chained(p)
         /\ p[1] \in c /\ p[1].from = Foremost(c).from /\ p[Len(p)].to = PosLast(c)
<1>1. PICK h \in c : h.from = Foremost(c).from /\ p \in Ways(c, h, PosLast(c))
  BY PathsAreWays
<1> QED
  BY <1>1 DEF Ways

LEMMA ChainRises ==
  ASSUME NEW p \in Seq(Spans), Chained(p)
  PROVE  \A i, j \in 1..Len(p) : i < j => p[i].to < p[j].from
<1> DEFINE Wrong == {j \in 1..Len(p) : \E i \in 1..Len(p) : i < j /\ ~(p[i].to < p[j].from)}
<1>1. SUFFICES ASSUME Wrong # {} PROVE FALSE
  OBVIOUS
<1>2. PICK j \in Wrong : \A k \in Wrong : j <= k
  <2>1. Wrong \subseteq Nat
    OBVIOUS
  <2> HIDE DEF Wrong
  <2> QED
    BY <1>1, <2>1, LeastNatural
<1>3. PICK i \in 1..Len(p) : i < j /\ ~(p[i].to < p[j].from)
  OBVIOUS
<1>4. j - 1 \in 1..Len(p) - 1 /\ j - 1 \in 1..Len(p) /\ (j - 1) + 1 = j /\ j - 1 \notin Wrong
  BY <1>2, <1>3
<1>5. /\ p[j].from = p[j - 1].to + 1
      /\ \A k \in 1..Len(p) : p[k].from \in Nat /\ p[k].to \in Nat /\ p[k].from <= p[k].to
  <2>1. p[(j - 1) + 1].from = p[j - 1].to + 1
    BY ONLY Chained(p), <1>4 DEF Chained
  <2>2. \A k \in 1..Len(p) : p[k] \in Spans
    OBVIOUS
  <2>3. \A k \in 1..Len(p) : p[k].from \in Nat /\ p[k].to \in Nat /\ p[k].from <= p[k].to
    BY ONLY <2>2 DEF Spans
  <2> QED
    BY ONLY <1>4, <2>1, <2>3
<1>6. CASE i = j - 1
  BY <1>3, <1>4, <1>5, <1>6
<1>7. CASE i # j - 1
  <2>1. p[i].to < p[j - 1].from
    BY <1>3, <1>4, <1>7
  <2>2. p[j - 1].from <= p[j - 1].to /\ p[j - 1].from \in Nat /\ p[j - 1].to \in Nat /\ p[i].to \in Nat
    BY ONLY i \in 1..Len(p), <1>4, <1>5
  <2>3. p[j].from = p[j - 1].to + 1
    BY ONLY <1>5
  <2>4. PICK a \in Nat, b \in Nat, d \in Nat : a = p[i].to /\ b = p[j - 1].from /\ d = p[j - 1].to
    BY ONLY <2>2
  <2>5. a < b /\ b <= d
    BY ONLY <2>1, <2>2, <2>4, Zenon
  <2>6. a < d + 1
    BY ONLY <2>5, a \in Nat, b \in Nat, d \in Nat
  <2> QED
    BY ONLY <1>3, <2>3, <2>4, <2>6, Zenon
<1> QED
  BY <1>6, <1>7

-----------------------------------------------------------------------------
(* The selection *)

(* A hint that begins no sooner than the others goes behind them.          *)
LEMMA InsertBehind ==
  ASSUME NEW T, NEW seq \in Seq(T), NEW h, \A k \in 1..Len(seq) : seq[k].from <= h.from
  PROVE  Insert(seq, h) = seq \o <<h>>
<1>1. PICK n \in Nat : n = Len(seq) /\ DOMAIN seq = 1..n
  OBVIOUS
<1>2. {k \in DOMAIN seq : seq[k].from <= h.from} = 1..n
  BY <1>1
<1>3. Cardinality(1..n) = n
  BY FS_Interval
<1>4. Insert(seq, h) = InsertAt(seq, n + 1, h)
  BY <1>2, <1>3 DEF Insert
<1>5. SubSeq(seq, 1, (n + 1) - 1) = seq /\ SubSeq(seq, n + 1, n) = <<>>
  BY <1>1
<1>6. InsertAt(seq, n + 1, h) = seq \o <<h>> \o <<>>
  BY <1>1, <1>5 DEF InsertAt
<1> QED
  BY <1>4, <1>6

(* The words of a path behind what is selected already go behind it.       *)
Behind(seq, p) == \A k \in 1..Len(seq), i \in 1..Len(p) : seq[k].from <= p[i].from

LEMMA PartFacts ==
  ASSUME NEW T, NEW p \in Seq(T), NEW n \in Nat, n <= Len(p)
  PROVE  /\ SubSeq(p, 1, n) \in Seq(T) /\ Len(SubSeq(p, 1, n)) = n
         /\ \A i \in 1..n : SubSeq(p, 1, n)[i] = p[i]
OBVIOUS

LEMMA JoinFacts ==
  ASSUME NEW T, NEW p \in Seq(T), NEW q \in Seq(T)
  PROVE  /\ p \o q \in Seq(T) /\ Len(p \o q) = Len(p) + Len(q)
         /\ \A i \in 1..Len(p) : (p \o q)[i] = p[i]
         /\ \A i \in 1..Len(q) : (p \o q)[Len(p) + i] = q[i]
OBVIOUS

LEMMA JoinTwice ==
  ASSUME NEW T, NEW p \in Seq(T), NEW q \in Seq(T), NEW e \in T
  PROVE  (p \o q) \o <<e>> = p \o (q \o <<e>>)
OBVIOUS

LEMMA PartBehind ==
  ASSUME NEW seq \in Seq(Spans), NEW p \in Seq(Spans), Chained(p), Behind(seq, p),
         NEW n \in 0..Len(p) - 1
  PROVE  Insert(seq \o SubSeq(p, 1, n), p[n + 1]) = seq \o SubSeq(p, 1, n + 1)
<1>1. PICK part \in Seq(Spans) :
        /\ part = SubSeq(p, 1, n) /\ Len(part) = n
        /\ \A i \in 1..n : part[i] = p[i]
  <2>1. n \in Nat /\ n <= Len(p)
    OBVIOUS
  <2> QED
    <3>1. /\ SubSeq(p, 1, n) \in Seq(Spans) /\ Len(SubSeq(p, 1, n)) = n
          /\ \A i \in 1..n : SubSeq(p, 1, n)[i] = p[i]
      BY <2>1, PartFacts
    <3> QED
      BY <3>1, Zenon
<1>2. n + 1 \in 1..Len(p) /\ \A i \in 1..n : i \in 1..Len(p) /\ i < n + 1
  OBVIOUS
<1>3. \A i \in 1..n : part[i].from <= p[n + 1].from
  <2>1. \A i \in 1..Len(p) : p[i].from \in Nat /\ p[i].to \in Nat /\ p[i].from <= p[i].to
    BY DEF Spans
  <2> QED
    BY <1>1, <1>2, <2>1, ChainRises
<1>4. PICK got \in Seq(Spans) :
        /\ got = seq \o part /\ Len(got) = Len(seq) + n
        /\ \A k \in 1..Len(seq) : got[k] = seq[k]
        /\ \A i \in 1..n : got[Len(seq) + i] = part[i]
  <2>1. /\ seq \o part \in Seq(Spans) /\ Len(seq \o part) = Len(seq) + Len(part)
        /\ \A k \in 1..Len(seq) : (seq \o part)[k] = seq[k]
        /\ \A i \in 1..Len(part) : (seq \o part)[Len(seq) + i] = part[i]
    BY <1>1, JoinFacts
  <2>2. Len(part) = n
    BY <1>1
  <2> QED
    BY <2>1, <2>2, Zenon
<1>5. ASSUME NEW k \in 1..Len(got) PROVE got[k].from <= p[n + 1].from
  <2>1. CASE k \in 1..Len(seq)
    BY <1>2, <1>4, <2>1 DEF Behind
  <2>2. CASE k \notin 1..Len(seq)
    <3>1. k - Len(seq) \in 1..n /\ Len(seq) + (k - Len(seq)) = k
      BY <1>4, <2>2
    <3> QED
      BY <1>3, <1>4, <3>1
  <2> QED
    BY <2>1, <2>2
<1>6. Insert(got, p[n + 1]) = got \o <<p[n + 1]>>
  BY <1>5, InsertBehind
<1>7. SubSeq(p, 1, n + 1) = part \o <<p[n + 1]>>
  BY <1>1
<1>8. (seq \o part) \o <<p[n + 1]>> = seq \o (part \o <<p[n + 1]>>)
  <2>1. PICK e \in Spans : e = p[n + 1]
    BY <1>2
  <2>2. (seq \o part) \o <<e>> = seq \o (part \o <<e>>)
    BY ONLY seq \in Seq(Spans), part \in Seq(Spans), e \in Spans, JoinTwice, SMTT(60)
  <2> QED
    BY <2>1, <2>2
<1> QED
  BY <1>1, <1>4, <1>6, <1>7, <1>8

Selection(seq, t, c, p, w) ==
  [n \in 0..Len(p) |-> IF n = 0 THEN seq ELSE Insert(w[n - 1], Found(t, c, p[n]))]

LEMMA SelectedBehind ==
  ASSUME NEW seq \in Seq(Spans), NEW p \in Seq(Spans), Chained(p), Behind(seq, p),
         NEW t, NEW c, \A i \in 1..Len(p) : Found(t, c, p[i]) = p[i]
  PROVE  Selected(seq, t, c, p) = seq \o p
<1> DEFINE upTo == [n \in 0..Len(p) |-> seq \o SubSeq(p, 1, n)]
           v == CHOOSE w : w = Selection(seq, t, c, p, w)
<1>1. upTo = Selection(seq, t, c, p, upTo)
  <2>1. PICK w : w = upTo
    OBVIOUS
  <2>2. \A n \in 0..Len(p) : w[n] = seq \o SubSeq(p, 1, n)
    BY <2>1
  <2>3. ASSUME NEW n \in 0..Len(p)
        PROVE  (IF n = 0 THEN seq ELSE Insert(w[n - 1], Found(t, c, p[n]))) = seq \o SubSeq(p, 1, n)
    <3>1. CASE n = 0
      <4>1. SubSeq(p, 1, 0) = <<>> /\ seq \o <<>> = seq
        OBVIOUS
      <4> QED
        BY <3>1, <4>1
    <3>2. CASE n # 0
      <4>1. n - 1 \in 0..Len(p) - 1 /\ n - 1 \in 0..Len(p) /\ (n - 1) + 1 = n /\ n \in 1..Len(p)
        BY <3>2
      <4>2. Insert(seq \o SubSeq(p, 1, n - 1), p[(n - 1) + 1]) = seq \o SubSeq(p, 1, (n - 1) + 1)
        BY <4>1, PartBehind
      <4>3. w[n - 1] = seq \o SubSeq(p, 1, n - 1)
        BY <2>2, <4>1
      <4> QED
        BY <3>2, <4>1, <4>2, <4>3
    <3> QED
      BY <3>1, <3>2
  <2>4. Selection(seq, t, c, p, w) = [n \in 0..Len(p) |-> seq \o SubSeq(p, 1, n)]
    BY <2>3 DEF Selection
  <2> QED
    BY <2>1, <2>4
<1>2. v = Selection(seq, t, c, p, v)
  <2> HIDE DEF upTo
  <2> QED
    BY <1>1
<1>3. Selected(seq, t, c, p) = v[Len(p)]
  BY DEF Selected, Selection
<1> HIDE DEF v
<1>4. \A n \in 0..Len(p) : v[n] = IF n = 0 THEN seq ELSE Insert(v[n - 1], Found(t, c, p[n]))
  BY <1>2 DEF Selection
<1> DEFINE Wrong == {n \in 0..Len(p) : v[n] # seq \o SubSeq(p, 1, n)}
<1>5. ASSUME Wrong # {} PROVE FALSE
  <2>1. PICK n \in Wrong : \A k \in Wrong : n <= k
    <3>1. Wrong \subseteq Nat
      OBVIOUS
    <3> HIDE DEF Wrong
    <3> QED
      BY <1>5, <3>1, LeastNatural
  <2>2. n \in 0..Len(p)
    OBVIOUS
  <2>3. n # 0
    <3>1. SubSeq(p, 1, 0) = <<>> /\ seq \o <<>> = seq
      OBVIOUS
    <3> QED
      BY <1>4, <2>2, <3>1
  <2>4. n - 1 \in 0..Len(p) - 1 /\ n - 1 \in 0..Len(p) /\ (n - 1) + 1 = n /\ n \in 1..Len(p) /\ n - 1 \notin Wrong
    BY <2>1, <2>2, <2>3
  <2>5. v[n - 1] = seq \o SubSeq(p, 1, n - 1)
    BY <2>4
  <2>6. Insert(seq \o SubSeq(p, 1, n - 1), p[(n - 1) + 1]) = seq \o SubSeq(p, 1, (n - 1) + 1)
    BY <2>4, PartBehind
  <2>7. v[n] = seq \o SubSeq(p, 1, n)
    BY <1>4, <2>2, <2>3, <2>4, <2>5, <2>6
  <2> QED
    BY <2>1, <2>7
<1>6. v[Len(p)] = seq \o SubSeq(p, 1, Len(p))
  BY <1>5
<1>7. SubSeq(p, 1, Len(p)) = p
  OBVIOUS
<1> QED
  BY <1>3, <1>6, <1>7

-----------------------------------------------------------------------------
(* What the clusters seen so far leave behind *)

Lost(lost, k) == \E s \in lost : k \in s.from..s.to

Joined(seq, lost) ==
  \A i \in 1..Len(seq) - 1 :
    /\ seq[i].to < seq[i + 1].from
    /\ \A k \in (seq[i].to + 1)..(seq[i + 1].from - 1) : Lost(lost, k)

(* What is seen beyond the last selected word is lost.                     *)
Trailing(seq, lost, seen) ==
  seq # <<>> => \A h \in seen : \A k \in h.from..h.to : seq[Len(seq)].to < k => Lost(lost, k)

LaidOut(seq, lost, seen) == seq \in Seq(seen) /\ Joined(seq, lost) /\ Trailing(seq, lost, seen)

(* The clusters D still to come lie behind the others.                     *)
ToCome(t, D) ==
  /\ D \subseteq Clusters(t)
  /\ \A c \in Clusters(t) \ D, d \in D : Before(Foremost(c), Foremost(d))

Seen(t, D) == UNION (Clusters(t) \ D)

LEMMA ClusterPlace ==
  ASSUME NEW t \in Texts, NEW c \in Clusters(t)
  PROVE  /\ Foremost(c) \in Hints(t) /\ Boundary(Hints(t), Foremost(c))
         /\ c = ClusterOf(Hints(t), Foremost(c)) /\ Foremost(c) \in c /\ c \subseteq Hints(t)
         /\ Len(t) \in Nat /\ Laid(Hints(t), Len(t)) /\ Laid(c, Len(t))
<1>1. Len(t) \in Nat /\ Laid(Hints(t), Len(t))
  BY RawRankLaid, HintsLaid
<1>2. PICK h \in Hints(t) : Boundary(Hints(t), h) /\ c = ClusterOf(Hints(t), h)
  BY DEF Clusters
<1> QED
  BY <1>1, <1>2, ClusterFacts

LEMMA SeenBefore ==
  ASSUME NEW t \in Texts, NEW D, ToCome(t, D), NEW c \in D, \A d \in D : ~Before(Foremost(d), Foremost(c))
  PROVE  /\ \A h \in Seen(t, D) : h \in Hints(t) /\ h.to < Foremost(c).from
         /\ \A f \in Hints(t) : f.from < Foremost(c).from => f \in Seen(t, D)
         /\ Seen(t, D \ {c}) = Seen(t, D) \cup c
         /\ ToCome(t, D \ {c})
<1>1. PICK S : S = Hints(t)
  OBVIOUS
<1>2. PICK n \in Nat : n = Len(t)
  BY RawRankLaid
<1>3. \A d \in Clusters(t) : /\ Foremost(d) \in S /\ Boundary(S, Foremost(d))
                             /\ d = ClusterOf(S, Foremost(d)) /\ d \subseteq S
  BY <1>1, ClusterPlace
<1>4. Laid(S, n) /\ c \in Clusters(t)
  BY <1>1, <1>2, HintsLaid DEF ToCome
<1>5. ASSUME NEW h \in Seen(t, D) PROVE h \in S /\ h.to < Foremost(c).from
  <2>1. PICK d \in Clusters(t) \ D : h \in d
    BY DEF Seen
  <2>2. Before(Foremost(d), Foremost(c))
    BY <2>1 DEF ToCome
  <2> QED
    BY <1>3, <1>4, <2>1, <2>2, ClustersApart
<1>6. ASSUME NEW f \in S, f.from < Foremost(c).from PROVE f \in Seen(t, D)
  <2>1. PICK b \in S : Boundary(S, b) /\ f \in ClusterOf(S, b)
    BY <1>4, EveryHintClustered
  <2>2. PICK d \in Clusters(t) : d = ClusterOf(S, b) /\ f \in d
    BY <1>1, <2>1 DEF Clusters
  <2>3. Foremost(d) = b
    BY <1>4, <2>1, <2>2, ClusterFacts
  <2>4. b \in Spans /\ f \in Spans /\ Foremost(c) \in Spans /\ ~Before(f, b)
    BY <1>3, <1>4, <2>1 DEF Laid, ClusterOf
  <2>5. Before(b, Foremost(c))
    BY <1>6, <2>4 DEF Before, Spans
  <2>6. d \notin D
    BY <2>3, <2>5
  <2> QED
    BY <2>2, <2>6 DEF Seen
<1>7. Seen(t, D \ {c}) = Seen(t, D) \cup c
  BY <1>4 DEF Seen
<1>8. ToCome(t, D \ {c})
  <2>1. ASSUME NEW d \in D \ {c} PROVE Before(Foremost(c), Foremost(d))
    <3>1. d \in Clusters(t) /\ Foremost(d) # Foremost(c)
      BY <1>3, <1>4 DEF ToCome
    <3>2. Foremost(d) \in Spans /\ Foremost(c) \in Spans /\ ~Before(Foremost(d), Foremost(c))
      BY <1>3, <1>4, <3>1 DEF Laid
    <3> QED
      BY <3>1, <3>2, BeforeOrder
  <2> QED
    BY <2>1 DEF ToCome
<1> QED
  BY <1>1, <1>5, <1>6, <1>7, <1>8

LEMMA SpanOfCluster ==
  ASSUME NEW n \in Nat, NEW c, Laid(c, n), c # {}
  PROVE  \A h \in c : \A k \in h.from..h.to : k \in ClusterSpan(c).from..ClusterSpan(c).to
<1> DEFINE T == {h.to : h \in c}
<1>1. \A h \in c : h \in Spans /\ h.from \in Nat /\ h.to \in 0..n
  BY DEF Laid, Spans
<1>2. PICK m \in {n - e : e \in T} : \A k \in {n - e : e \in T} : m <= k
  <2>1. {n - e : e \in T} # {} /\ {n - e : e \in T} \subseteq Nat
    BY <1>1
  <2> QED
    BY <2>1, LeastNatural
<1>3. PICK e \in T : m = n - e
  BY <1>2
<1>4. \A k \in T : e >= k
  <2>1. \A k \in T : k \in 0..n
    BY <1>1
  <2>2. \A k \in T : n - e <= n - k
    BY <1>2, <1>3
  <2> HIDE DEF T
  <2> QED
    BY <1>3, <2>1, <2>2
<1>5. \A k \in T : Max(T) >= k
  <2> HIDE DEF T
  <2> QED
    BY <1>4 DEF Max
<1>6. Foremost(c) \in c /\ \A h \in c : Foremost(c).from <= h.from
  BY <1>1, ForemostFacts
<1>7. Max(T) \in T
  <2> HIDE DEF T
  <2> QED
    BY <1>4 DEF Max
<1>8. ClusterSpan(c).from = Foremost(c).from /\ ClusterSpan(c).to = Max(T)
  BY DEF ClusterSpan
<1>9. ASSUME NEW h \in c, NEW k \in h.from..h.to PROVE k \in Foremost(c).from..Max(T)
  <2>1. Max(T) >= h.to /\ Max(T) \in Nat /\ Foremost(c).from \in Nat /\ h.from \in Nat /\ h.to \in Nat
    BY <1>1, <1>5, <1>6, <1>7
  <2>2. Foremost(c).from <= h.from
    BY <1>6
  <2> HIDE DEF T
  <2> QED
    BY <2>1, <2>2
<1> QED
  BY <1>8, <1>9

(* A cluster without a path.                                               *)
LEMMA NothingSelected ==
  ASSUME NEW n \in Nat, NEW c, Laid(c, n), c # {}, NEW seq, NEW lost, NEW seen, LaidOut(seq, lost, seen)
  PROVE  LaidOut(seq, lost \cup {ClusterSpan(c)}, seen \cup c)
<1>1. seq \in Seq(seen \cup c)
  BY DEF LaidOut
<1>2. Joined(seq, lost \cup {ClusterSpan(c)})
  BY DEF LaidOut, Joined, Lost
<1>3. \A h \in c : \A k \in h.from..h.to : Lost(lost \cup {ClusterSpan(c)}, k)
  BY SpanOfCluster DEF Lost
<1>4. Trailing(seq, lost \cup {ClusterSpan(c)}, seen \cup c)
  BY <1>3 DEF LaidOut, Trailing, Lost
<1> QED
  BY <1>1, <1>2, <1>4 DEF LaidOut

LEMMA FoundItself ==
  ASSUME NEW t \in Texts, ~Ambiguous(t), NEW c \in Clusters(t), NEW h \in c
  PROVE  Found(t, c, h) = h
<1>1. CASE kind = "ja"
  <2>1. {g \in c : WordAt(t, g) = WordAt(t, h)} = {h}
    BY <1>1, ClusterPlace DEF Ambiguous
  <2>2. {h} \subseteq Spans
    BY ClusterPlace DEF Laid
  <2>3. Foremost({h}) = h
    BY <2>2, ForemostFacts
  <2> QED
    BY <1>1, <2>1, <2>3 DEF Found
<1>2. CASE kind # "ja"
  BY <1>2 DEF Found
<1> QED
  BY <1>1, <1>2

(* A path goes behind what is selected; the text between lies in hints seen*)
(* before, beyond the last word selected of them.                          *)
LEMMA PathSelected ==
  ASSUME NEW t \in Texts, ~Ambiguous(t),
         NEW D, ToCome(t, D), NEW c \in D, \A d \in D : ~Before(Foremost(d), Foremost(c)),
         NEW seq, NEW lost, LaidOut(seq, lost, Seen(t, D)), NEW p \in Paths(c),
         NEW lost2, lost \subseteq lost2, Ragged(c) => ClusterSpan(c) \in lost2
  PROVE  LaidOut(Selected(seq, t, c, p), lost2, Seen(t, D) \cup c)
<1>1. PICK n \in Nat : n = Len(t)
  BY RawRankLaid
<1>2. PICK seen : seen = Seen(t, D)
  OBVIOUS
<1>3. PICK first : first = Foremost(c)
  OBVIOUS
<1>4. c \in Clusters(t) /\ Laid(Hints(t), n) /\ Laid(c, n) /\ first \in c /\ c \subseteq Hints(t)
  BY <1>1, <1>3, ClusterPlace DEF ToCome
<1>5. /\ \A h \in seen : h \in Hints(t) /\ h.to < first.from
      /\ \A f \in Hints(t) : f.from < first.from => f \in seen
  BY <1>2, <1>3, SeenBefore
<1>6. /\ p \in Seq(c) /\ Len(p) \in Nat \ {0} /\ Chained(p)
      /\ p[1] \in c /\ p[1].from = first.from /\ p[Len(p)].to = PosLast(c)
  BY <1>1, <1>3, <1>4, PathFacts
<1>7. /\ c \subseteq Spans /\ seen \subseteq Spans
      /\ \A h \in Hints(t) : h.from \in Nat /\ h.to \in Nat /\ h.from <= h.to
  BY <1>4, <1>5 DEF Laid, Spans
<1>8. /\ seq \in Seq(seen) /\ Joined(seq, lost) /\ Trailing(seq, lost, seen)
      /\ seq \in Seq(Spans) /\ p \in Seq(Spans)
  BY <1>2, <1>6, <1>7 DEF LaidOut
<1>9. \A h \in c : first.from <= h.from
  BY <1>3, <1>4, <1>7, ForemostFacts
<1>10. Behind(seq, p)
  <2>1. SUFFICES ASSUME NEW k \in 1..Len(seq), NEW i \in 1..Len(p) PROVE seq[k].from <= p[i].from
    BY DEF Behind
  <2>2. PICK g \in seen : g = seq[k]
    BY <1>8
  <2>3. PICK h \in c : h = p[i]
    BY <1>6
  <2>4. g \in Hints(t) /\ h \in Hints(t) /\ first \in Hints(t) /\ g.to < first.from /\ first.from <= h.from
    BY <1>4, <1>5, <1>9
  <2>5. g.from <= h.from
    BY <1>7, <2>4
  <2> QED
    BY <2>2, <2>3, <2>5
<1>11. PICK got : got = seq \o p
  OBVIOUS
<1>12. Selected(seq, t, c, p) = got
  <2>1. \A i \in 1..Len(p) : Found(t, c, p[i]) = p[i]
    BY <1>4, <1>6, FoundItself
  <2> QED
    BY <1>6, <1>8, <1>10, <1>11, <2>1, SelectedBehind
<1>13. /\ got \in Seq(seen \cup c) /\ Len(got) = Len(seq) + Len(p)
       /\ \A i \in 1..Len(seq) : got[i] = seq[i]
       /\ \A i \in 1..Len(p) : got[Len(seq) + i] = p[i]
  <2>1. seq \in Seq(seen \cup c) /\ p \in Seq(seen \cup c)
    BY <1>6, <1>8
  <2> QED
    BY <1>11, <2>1, JoinFacts
<1>14. Joined(got, lost2)
  <2>1. SUFFICES ASSUME NEW i \in 1..Len(got) - 1
                 PROVE  /\ got[i].to < got[i + 1].from
                        /\ \A k \in (got[i].to + 1)..(got[i + 1].from - 1) : Lost(lost2, k)
    BY DEF Joined
  <2>2. Len(seq) \in Nat
    BY <1>8
  <2>3. CASE i < Len(seq)
    <3>1. i \in 1..Len(seq) - 1 /\ got[i] = seq[i] /\ got[i + 1] = seq[i + 1]
      BY <1>13, <2>2, <2>3
    <3> QED
      BY <1>8, <3>1 DEF Joined, Lost
  <2>4. CASE i = Len(seq)
    <3>1. got[i] = seq[i] /\ got[i + 1] = p[1] /\ seq[i] \in seen /\ seq # <<>>
      BY <1>6, <1>8, <1>13, <2>4
    <3>2. seq[i].to < first.from /\ seq[i] \in Hints(t)
      BY <1>5, <3>1
    <3>3. ASSUME NEW k \in (seq[i].to + 1)..(first.from - 1) PROVE Lost(lost2, k)
      <4>1. k \in Nat /\ seq[i].to < k /\ k < first.from /\ seq[i].from <= k
        BY <1>4, <1>7, <3>2, SMTT(60)
      <4>2. PICK f \in Hints(t) : f.from <= k /\ k <= f.to
        <5>1. first \in Hints(t)
          BY <1>4
        <5> QED
          BY <1>1, <3>2, <4>1, <5>1, NoHole, RawRankLaid DEF Hints
      <4>3. f \in seen
        BY <1>4, <1>5, <1>7, <4>1, <4>2
      <4>4. k \in f.from..f.to
        BY <1>7, <4>1, <4>2
      <4> QED
        BY <1>8, <2>4, <3>1, <4>1, <4>3, <4>4 DEF Trailing, Lost
    <3> QED
      BY <1>6, <3>1, <3>2, <3>3
  <2>5. CASE i > Len(seq)
    <3>1. PICK j \in 1..Len(p) - 1 : i = Len(seq) + j
      <4>1. i - Len(seq) \in 1..Len(p) - 1 /\ i = Len(seq) + (i - Len(seq))
        BY <1>6, <1>13, <2>2, <2>5
      <4> QED
        BY <4>1
    <3>2. j \in 1..Len(p) /\ j + 1 \in 1..Len(p) /\ i + 1 = Len(seq) + (j + 1)
      BY <1>6, <2>2, <3>1
    <3>3. got[i] = p[j] /\ got[i + 1] = p[j + 1] /\ p[j + 1].from = p[j].to + 1
      BY <1>6, <1>13, <3>1, <3>2 DEF Chained
    <3>4. p[j].to \in Nat
      BY <1>4, <1>6, <1>7, <3>2
    <3> QED
      BY <3>3, <3>4
  <2> QED
    BY <1>13, <2>2, <2>3, <2>4, <2>5
<1>15. Trailing(got, lost2, seen \cup c)
  <2>1. SUFFICES ASSUME NEW h \in seen \cup c, NEW k \in h.from..h.to, PosLast(c) < k
                 PROVE  Lost(lost2, k)
    <3>1. got[Len(got)] = p[Len(p)]
      BY <1>6, <1>8, <1>13
    <3> QED
      BY <1>6, <3>1 DEF Trailing
  <2>2. PosLast(c) \in Nat /\ first.from <= PosLast(c)
    <3>1. Hindmost(c) \in c
      BY <1>4, <1>7, HindmostFacts DEF Laid
    <3> QED
      BY <1>4, <1>7, <1>9, <3>1 DEF PosLast
  <2>3. h \in c
    BY <1>4, <1>5, <1>7, <2>1, <2>2
  <2>4. ClusterSpan(c) \in lost2
    BY <1>4, <1>7, <2>1, <2>2, <2>3 DEF Ragged
  <2>5. k \in ClusterSpan(c).from..ClusterSpan(c).to
    BY <1>4, <2>3, SpanOfCluster
  <2> QED
    BY <2>4, <2>5 DEF Lost
<1> QED
  BY <1>2, <1>12, <1>13, <1>14, <1>15 DEF LaidOut

-----------------------------------------------------------------------------
(* Steps of the worker and of the programs beside it *)

(* With a text in hand the worker's clusters are those of the text; the    *)
(* ones it has seen are selected, one word behind the other, or lost.      *)
Tiling ==
  /\ text = <<>> => clusters = {} /\ picked = <<>> /\ dropped = {}
  /\ text # <<>> =>
       /\ text \in Texts
       /\ ToCome(text, clusters)
       /\ ~Ambiguous(text) => LaidOut(picked, dropped, Seen(text, clusters))

(* The words and the phrases the worker knows.                             *)
SameWords ==
  /\ kind' = kind /\ pc'[Worker] = pc[Worker] /\ at'[Worker] = at[Worker]
  /\ \A d \in {WordDb, PhraseDb} : Holds(Worker, d) => cast'[d] = cast[d]

LEMMA HintsKept ==
  ASSUME SameWords, NEW t
  PROVE  /\ RawRank(t)' = RawRank(t) /\ Hints(t)' = Hints(t)
         /\ Clusters(t)' = Clusters(t) /\ (Ambiguous(t)' <=> Ambiguous(t))
<1>1. \A w : Pred(Worker, WordDb, w)' = Pred(Worker, WordDb, w)
  BY DEF SameWords, Pred, Holds
<1>2. RawRank(t)' = RawRank(t)
  BY <1>1 DEF RawRank
<1>3. Hints(t)' = Hints(t)
  BY <1>2 DEF Hints
<1>4. Clusters(t)' = Clusters(t)
  BY <1>3 DEF Clusters
<1>5. Ambiguous(t)' <=> Ambiguous(t)
  BY <1>3 DEF Ambiguous, SameWords
<1> QED
  BY <1>2, <1>3, <1>4, <1>5

LEMMA TilingKept ==
  ASSUME Tiling, UNCHANGED segmenting, text # <<>> => SameWords
  PROVE  Tiling'
<1>1. UNCHANGED <<text, clusters, picked, dropped>>
  BY DEF segmenting
<1>2. CASE text = <<>>
  BY <1>1, <1>2 DEF Tiling
<1>3. CASE text # <<>>
  <2>1. PICK t : t = text
    OBVIOUS
  <2>2. Clusters(t)' = Clusters(t) /\ (Ambiguous(t)' <=> Ambiguous(t))
    BY <1>3, HintsKept
  <2>3. Clusters(text)' = Clusters(text) /\ (Ambiguous(text)' <=> Ambiguous(text))
    BY <1>1, <2>1, <2>2
  <2>4. ToCome(text, clusters)' /\ Seen(text, clusters)' = Seen(text, clusters)
    BY <1>1, <1>3, <2>3 DEF Tiling, ToCome, Seen
  <2> QED
    BY <1>1, <1>3, <2>3, <2>4 DEF Tiling
<1> QED
  BY <1>2, <1>3

(* With a text in hand, no other program writes what the worker holds.     *)
LEMMA OthersStep ==
  ASSUME IInv, text # <<>>, kind' = kind,
         NEW p \in Procs, Start(p) \/ Load(p) \/ (p # Worker /\ (Quit(p) \/ Crash(p)))
  PROVE  SameWords
<1>1. pc[Worker] \in {"loaded", "refused"} /\ Worker \in Procs
  BY WorkerIsProc DEF IInv, InHand
<1>2. Located /\ Exclusive
  BY DEF IInv, DictInv
<1>3. p # Worker
  BY <1>1 DEF Start, Load, OpenMaster, TakeCast, CreateCast, PutCast, CastEnd
<1>4. pc'[Worker] = pc[Worker] /\ at'[Worker] = at[Worker]
  <2>1. CASE Start(p)
    BY <1>1, <1>2, <1>3, <2>1 DEF Start, Located
  <2>2. CASE OpenMaster(p)
    BY <1>1, <1>2, <1>3, <2>2 DEF OpenMaster, Located
  <2>3. CASE TakeCast(p)
    BY <1>1, <1>2, <1>3, <2>3 DEF TakeCast, NextDb, Located
  <2>4. CASE CreateCast(p)
    BY <1>1, <1>2, <1>3, <2>4 DEF CreateCast, Located
  <2>5. CASE PutCast(p)
    BY <2>5 DEF PutCast
  <2>6. CASE CastEnd(p)
    BY <1>1, <1>2, <1>3, <2>6 DEF CastEnd, NextDb, Located
  <2>7. CASE Quit(p) \/ Crash(p)
    BY <1>1, <1>2, <1>3, <2>7 DEF Quit, Crash, GoDown, Located
  <2> QED
    BY <2>1, <2>2, <2>3, <2>4, <2>5, <2>6, <2>7 DEF Load
<1>5. ASSUME NEW d \in {WordDb, PhraseDb}, Holds(Worker, d) PROVE cast'[d] = cast[d]
  <2>1. CASE PutCast(p)
    <3>1. Holds(p, Dbs[at[p]]) /\ Dbs[at[p]] \in DbSet
      BY <1>2, <2>1, DbsFacts DEF PutCast, Located, Holds
    <3>2. d \in DbSet
      BY PhoenixAssumption
    <3>3. Dbs[at[p]] # d
      BY <1>1, <1>3, <1>5, <3>1, <3>2, <1>2 DEF Exclusive
    <3> QED
      BY <1>2, <2>1, <3>2, <3>3 DEF PutCast, Located
  <2>2. CASE ~PutCast(p)
    <3>1. UNCHANGED cast
      BY <2>2 DEF Start, Load, OpenMaster, TakeCast, CreateCast, CastEnd, Quit, Crash, GoDown, disk
    <3> QED
      BY <3>1
  <2> QED
    BY <2>1, <2>2
<1> QED
  BY <1>4, <1>5 DEF SameWords

LEMMA ReadStep ==
  ASSUME Tiling, NEW t \in Texts, Read(t)
  PROVE  Tiling'
<1>1. SameWords
  BY DEF Read, SameWords, dictVars, disk
<1>2. Clusters(t)' = Clusters(t)
  BY <1>1, HintsKept
<1>3. /\ text' = t /\ t # <<>> /\ clusters' = Clusters(t)
      /\ picked' = <<>> /\ dropped' = {}
  BY PhoenixAssumption DEF Read, Tiling
<1>4. Clusters(text)' = Clusters(t)
  BY <1>2, <1>3
<1>5. ToCome(text, clusters)' /\ Seen(text, clusters)' = {}
  BY <1>3, <1>4 DEF ToCome, Seen
<1>6. LaidOut(picked, dropped, Seen(text, clusters))'
  <2>1. <<>> \in Seq({}) /\ Len(<<>>) = 0
    OBVIOUS
  <2>2. LaidOut(<<>>, {}, {})
    BY <2>1 DEF LaidOut, Joined, Trailing
  <2> QED
    BY <1>3, <1>5, <2>2 DEF LaidOut, Joined, Trailing, Lost
<1> QED
  BY <1>3, <1>5, <1>6 DEF Tiling

LEMMA NextClusterFacts ==
  ASSUME text \in Texts, ToCome(text, clusters), clusters # {}
  PROVE  NextCluster \in clusters /\ \A d \in clusters : ~Before(Foremost(d), Foremost(NextCluster))
<1> DEFINE F == {Foremost(d) : d \in clusters}
<1>1. F # {} /\ F \subseteq Spans
  BY ClusterPlace DEF ToCome, Laid
<1>2. PICK f \in F : \A g \in F : ~Before(g, f)
  <2> HIDE DEF F
  <2> QED
    BY <1>1, ForemostFacts
<1>3. \E c \in clusters : \A d \in clusters : ~Before(Foremost(d), Foremost(c))
  BY <1>2
<1> QED
  BY <1>3 DEF NextCluster

LEMMA PickStep ==
  ASSUME Tiling, Pick
  PROVE  Tiling'
<1>1. PICK c : c = NextCluster
  OBVIOUS
<1>2. PICK best : best = BestPaths(text, c) /\ best \subseteq Paths(c)
  <2>1. BestPaths(text, c) \subseteq Paths(c)
    <3>1. PICK all : all = Paths(c)
      OBVIOUS
    <3> QED
      BY <3>1 DEF BestPaths
  <2> QED
    BY <2>1
<1>3. /\ (best = {} /\ UNCHANGED picked) \/ \E p \in best : picked' = Selected(picked, text, c, p)
      /\ dropped' = IF best = {} \/ Ragged(c) THEN dropped \cup {ClusterSpan(c)} ELSE dropped
      /\ clusters' = clusters \ {c} /\ clusters # {} /\ UNCHANGED text
  BY <1>1, <1>2 DEF Pick
<1>4. SameWords
  BY DEF Pick, SameWords, dictVars, disk
<1>5. /\ text # <<>> /\ text \in Texts /\ ToCome(text, clusters)
      /\ ~Ambiguous(text) => LaidOut(picked, dropped, Seen(text, clusters))
  BY <1>3 DEF Tiling
<1>6. c \in clusters /\ \A d \in clusters : ~Before(Foremost(d), Foremost(c))
  BY <1>1, <1>3, <1>5, NextClusterFacts
<1>7. PICK t \in Texts : t = text
  BY <1>5
<1>8. PICK D : D = clusters
  OBVIOUS
<1>9. ToCome(t, D \ {c}) /\ Seen(t, D \ {c}) = Seen(t, D) \cup c
  BY <1>5, <1>6, <1>7, <1>8, SeenBefore
<1>10. Clusters(t)' = Clusters(t) /\ (Ambiguous(t)' <=> Ambiguous(t))
  BY <1>4, HintsKept
<1>11. /\ Clusters(text)' = Clusters(t) /\ (Ambiguous(text)' <=> Ambiguous(t))
       /\ clusters' = D \ {c} /\ text' = t
  BY <1>3, <1>7, <1>8, <1>10
<1>12. ToCome(text, clusters)' /\ Seen(text, clusters)' = Seen(t, D) \cup c
  BY <1>9, <1>11 DEF ToCome, Seen
<1>13. ASSUME ~Ambiguous(t) PROVE LaidOut(picked', dropped', Seen(t, D) \cup c)
  <2>1. LaidOut(picked, dropped, Seen(t, D))
    BY <1>5, <1>7, <1>8, <1>13
  <2>2. CASE best = {}
    <3>1. /\ Len(t) \in Nat /\ Laid(c, Len(t)) /\ c # {}
      BY <1>5, <1>6, <1>7, ClusterPlace DEF ToCome
    <3>2. picked' = picked /\ dropped' = dropped \cup {ClusterSpan(c)}
      BY <1>3, <2>2
    <3> QED
      BY <2>1, <3>1, <3>2, NothingSelected
  <2>3. CASE best # {}
    <3>1. PICK p \in best : picked' = Selected(picked, t, c, p)
      BY <1>3, <1>7, <2>3
    <3>2. dropped \subseteq dropped' /\ (Ragged(c) => ClusterSpan(c) \in dropped')
      BY <1>3
    <3>3. p \in Paths(c)
      BY <1>2
    <3> QED
      BY <1>5, <1>6, <1>7, <1>8, <1>13, <2>1, <3>1, <3>2, <3>3, PathSelected
  <2> QED
    BY <2>2, <2>3
<1>14. ~Ambiguous(text)' => LaidOut(picked, dropped, Seen(text, clusters))'
  BY <1>11, <1>12, <1>13 DEF LaidOut, Joined, Trailing, Lost
<1> QED
  BY <1>5, <1>7, <1>11, <1>12, <1>14 DEF Tiling

LEMMA StepTiling ==
  ASSUME IInv, Tiling, [Next]_vars
  PROVE  Tiling'
<1>1. ASSUME NEW p \in Procs, Start(p) \/ Load(p), UNCHANGED <<kind, segmenting>> PROVE Tiling'
  BY <1>1, OthersStep, TilingKept
<1>2. ASSUME NEW d \in DbSet, NEW m \in Masters, Deploy(d, m), UNCHANGED <<kind, segmenting>> PROVE Tiling'
  <2>1. SameWords
    BY <1>2 DEF Deploy, SameWords
  <2> QED
    BY <1>2, <2>1, TilingKept
<1>3. ASSUME NEW p \in Procs, Ends(p) PROVE Tiling'
  <2>1. CASE p = Worker
    BY <1>3, <2>1 DEF Ends, Tiling
  <2>2. CASE p # Worker
    <3>1. UNCHANGED segmenting /\ kind' = kind /\ (Quit(p) \/ Crash(p))
      BY <1>3, <2>2 DEF Ends
    <3> QED
      BY <2>2, <3>1, OthersStep, TilingKept
  <2> QED
    BY <2>1, <2>2
<1>4. ASSUME NEW t \in Texts, Read(t) PROVE Tiling'
  BY <1>4, ReadStep
<1>5. ASSUME Pick PROVE Tiling'
  BY <1>5, PickStep
<1>6. ASSUME JointPair \/ Answer \/ AnswerNothing PROVE Tiling'
  BY <1>6 DEF JointPair, Answer, AnswerNothing, Done, SetDown, Tiling
<1>7. ASSUME UNCHANGED <<dictVars, kind, segmenting>> PROVE Tiling'
  <2>1. SameWords
    BY <1>7 DEF SameWords, dictVars, disk
  <2> QED
    BY <1>7, <2>1, TilingKept
<1>8. \A t \in Texts : LearnNothing(t) => UNCHANGED <<dictVars, kind, segmenting>>
  BY DEF LearnNothing
<1>9. CommitArticle \/ UNCHANGED vars => UNCHANGED <<dictVars, kind, segmenting>>
  BY DEF CommitArticle, vars
<1> QED
  BY <1>1, <1>2, <1>3, <1>4, <1>5, <1>6, <1>7, <1>8, <1>9 DEF Next

LEMMA TilingTiled ==
  ASSUME Tiling
  PROVE  Tiled
<1> SUFFICES ASSUME Done, ~Ambiguous(text), NEW i \in 1..Len(picked) - 1
             PROVE  /\ picked[i].to < picked[i + 1].from
                    /\ \A k \in (picked[i].to + 1)..(picked[i + 1].from - 1) : \E s \in dropped : k \in s.from..s.to
  BY DEF Tiled
<1>1. Joined(picked, dropped)
  BY DEF Tiling, Done, LaidOut
<1> QED
  BY <1>1 DEF Joined, Lost

(* The selection of a stretch leaves no hole and overlaps nowhere, in any  *)
(* dictionary, for any stretch and any number of programs: what every      *)
(* cluster selects for itself fits behind what the clusters before it      *)
(* selected, but for text of clusters without a path or with hints beyond  *)
(* the end of their graph.                                                 *)
THEOREM SelectionIsTiled == Spec => []Tiled
<1>1. Init => Tiling
  BY DEF Init, Idle, Tiling
<1>2. IInv /\ Tiling /\ [Next]_vars => Tiling'
  BY StepTiling
<1>3. Tiling => Tiled
  BY TilingTiled
<1>4. Spec => []IInv
  BY Invariance
<1> QED
  BY <1>1, <1>2, <1>3, <1>4, PTL DEF Spec

-----------------------------------------------------------------------------
(* Letters *)

Times(c, t) == Cardinality({i \in DOMAIN t : t[i] = c})

(* As long, and each letter as often.                                      *)
SameLetters(s, t) == Len(s) = Len(t) /\ \A c : Times(c, s) = Times(c, t)

LEMMA TimesJoin ==
  ASSUME NEW T, NEW s \in Seq(T), NEW t \in Seq(T), NEW c
  PROVE  Times(c, s \o t) = Times(c, s) + Times(c, t) /\ Times(c, s) \in Nat
<1>1. PICK u \in Seq(T) : /\ u = s \o t /\ Len(u) = Len(s) + Len(t)
                          /\ \A i \in 1..Len(s) : u[i] = s[i]
                          /\ \A i \in 1..Len(t) : u[Len(s) + i] = t[i]
  <2>1. /\ s \o t \in Seq(T) /\ Len(s \o t) = Len(s) + Len(t)
        /\ \A i \in 1..Len(s) : (s \o t)[i] = s[i]
        /\ \A i \in 1..Len(t) : (s \o t)[Len(s) + i] = t[i]
    BY JoinFacts
  <2> QED
    BY <2>1, Zenon
<1>2. PICK m \in Nat, n \in Nat : /\ m = Len(s) /\ n = Len(t) /\ Len(u) = m + n
                                  /\ DOMAIN s = 1..m /\ DOMAIN t = 1..n /\ DOMAIN u = 1..m + n
  BY <1>1
<1> DEFINE A == {i \in 1..m : s[i] = c}
           B == {i \in 1..n : t[i] = c}
           C == {i \in 1..m + n : u[i] = c}
           D == {i \in m + 1..m + n : u[i] = c}
<1>3. IsFiniteSet(A) /\ IsFiniteSet(B) /\ IsFiniteSet(D)
  <2>1. IsFiniteSet(1..m) /\ IsFiniteSet(1..n) /\ IsFiniteSet(m + 1..m + n)
    BY FS_Interval
  <2>2. A \subseteq 1..m /\ B \subseteq 1..n /\ D \subseteq m + 1..m + n
    OBVIOUS
  <2> QED
    BY <2>1, <2>2, FS_Subset
<1>4. C = A \cup D /\ A \cap D = {}
  BY <1>1, <1>2
<1>5. Cardinality(C) = Cardinality(A) + Cardinality(D)
  <2>1. Cardinality(A \cap D) = 0
    BY <1>4, FS_EmptySet
  <2>2. Cardinality(A) \in Nat /\ Cardinality(D) \in Nat
    BY <1>3, FS_CardinalityType
  <2>3. Cardinality(A \cup D) = Cardinality(A) + Cardinality(D) - Cardinality(A \cap D)
    BY <1>3, FS_Union
  <2> HIDE DEF A, C, D
  <2> QED
    BY <1>4, <2>1, <2>2, <2>3
<1>6. Cardinality(B) = Cardinality(D)
  <2> DEFINE f == [i \in B |-> m + i]
  <2>1. f \in Bijection(B, D)
    <3>1. f \in [B -> D]
      BY <1>1, <1>2
    <3>2. \A i, j \in B : f[i] = f[j] => i = j
      BY <1>2
    <3>3. \A k \in D : \E i \in B : f[i] = k
      <4>1. SUFFICES ASSUME NEW k \in D PROVE \E i \in B : f[i] = k
        OBVIOUS
      <4>2. k - m \in 1..n /\ m + (k - m) = k
        BY <1>2
      <4>3. k - m \in B
        BY <1>1, <1>2, <4>2
      <4> QED
        BY <4>2, <4>3
    <3> QED
      BY <3>1, <3>2, <3>3 DEF Bijection, Injection, Surjection, IsInjective
  <2> HIDE DEF f, B, D
  <2> QED
    BY <1>3, <2>1, FS_Bijection DEF ExistsBijection
<1>7. Cardinality(A) \in Nat
  BY <1>3, FS_CardinalityType
<1>8. Times(c, s) = Cardinality(A) /\ Times(c, t) = Cardinality(B) /\ Times(c, s \o t) = Cardinality(C)
  BY <1>1, <1>2 DEF Times
<1> QED
  BY <1>5, <1>6, <1>7, <1>8

LEMMA LettersJoin ==
  ASSUME NEW T, NEW s \in Seq(T), NEW t \in Seq(T), NEW u \in Seq(T), NEW v \in Seq(T)
  PROVE  /\ SameLetters(s, t) /\ SameLetters(u, v) => SameLetters(s \o u, t \o v)
         /\ SameLetters((s \o t) \o u, (s \o u) \o t)
<1>1. /\ Len(s) \in Nat /\ Len(t) \in Nat /\ Len(u) \in Nat
      /\ Len(s \o u) = Len(s) + Len(u) /\ Len(t \o v) = Len(t) + Len(v)
      /\ Len((s \o t) \o u) = Len((s \o u) \o t)
      /\ s \o t \in Seq(T) /\ s \o u \in Seq(T)
  OBVIOUS
<1>2. \A c : /\ Times(c, s \o u) = Times(c, s) + Times(c, u) /\ Times(c, t \o v) = Times(c, t) + Times(c, v)
             /\ Times(c, s) \in Nat /\ Times(c, t) \in Nat /\ Times(c, u) \in Nat
             /\ Times(c, (s \o t) \o u) = (Times(c, s) + Times(c, t)) + Times(c, u)
             /\ Times(c, (s \o u) \o t) = (Times(c, s) + Times(c, u)) + Times(c, t)
  <2>1. PICK w \in Seq(T), x \in Seq(T) : w = s \o t /\ x = s \o u
    BY <1>1
  <2>2. \A c : /\ Times(c, s \o t) = Times(c, s) + Times(c, t) /\ Times(c, s \o u) = Times(c, s) + Times(c, u)
               /\ Times(c, s) \in Nat /\ Times(c, t) \in Nat
    BY TimesJoin
  <2>3. \A c : Times(c, t \o v) = Times(c, t) + Times(c, v) /\ Times(c, u) \in Nat
    BY TimesJoin
  <2>4. \A c : Times(c, w \o u) = Times(c, w) + Times(c, u) /\ Times(c, x \o t) = Times(c, x) + Times(c, t)
    BY TimesJoin
  <2> QED
    BY <2>1, <2>2, <2>3, <2>4
<1>3. \A c : Times(c, (s \o t) \o u) = Times(c, (s \o u) \o t)
  BY <1>2
<1> QED
  BY <1>1, <1>2, <1>3 DEF SameLetters

-----------------------------------------------------------------------------
(* Induction, and what FlattenSeq makes of a sequence of sequences *)

(* Induction over the natural numbers, for a property given as a set.      *)
LEMMA InductionFromZero ==
  ASSUME NEW P, 0 \in P, \A n \in Nat : n \in P => n + 1 \in P
  PROVE  \A n \in Nat : n \in P
<1> DEFINE T == Nat \ P
<1> SUFFICES ASSUME T # {} PROVE FALSE
  OBVIOUS
<1>1. PICK n \in T : \A m \in T : n <= m
  <2>1. T \subseteq Nat
    OBVIOUS
  <2> HIDE DEF T
  <2> QED BY <2>1, LeastNatural
<1>2. n # 0 /\ n \in Nat /\ n \notin P
  OBVIOUS
<1>3. n - 1 \in Nat /\ (n - 1) + 1 = n /\ ~ (n <= n - 1)
  BY <1>2
<1>4. n - 1 \in P
  BY <1>1, <1>3
<1> QED BY <1>2, <1>3, <1>4

(* The same from 1.                                                        *)
LEMMA Induction ==
  ASSUME NEW P, 1 \in P, \A n \in Nat \ {0} : n \in P => n + 1 \in P
  PROVE  \A n \in Nat \ {0} : n \in P
<1> DEFINE Q == P \cup {0}
<1>1. 0 \in Q
  OBVIOUS
<1>2. ASSUME NEW n \in Nat, n \in Q PROVE n + 1 \in Q
  <2>1. n = 0 \/ n \in Nat \ {0}
    OBVIOUS
  <2> QED BY <1>2, <2>1
<1>3. \A n \in Nat : n \in Q
  <2> HIDE DEF Q
  <2> QED BY <1>1, <1>2, InductionFromZero
<1> QED BY <1>3

(* What the function in FlattenSeq(q) says of its first n places.          *)
Flattened(q, u, k) == IF k = 1 THEN q[k] ELSE u[k - 1] \o q[k]
IsFlat(q, u, n) == \A k \in 1..n : u[k] = Flattened(q, u, k)

(* There is one.                                                           *)
LEMMA FlatExists ==
  ASSUME NEW S, NEW q \in Seq(Seq(S)), NEW n \in Nat \ {0}, n <= Len(q)
  PROVE  \E u \in [1..n -> Seq(S)] : IsFlat(q, u, n)
<1> DEFINE P == {m \in Nat \ {0} : m <= Len(q) => \E u \in [1..m -> Seq(S)] : IsFlat(q, u, m)}
<1>1. 1 \in P
  <2> SUFFICES ASSUME 1 <= Len(q) PROVE \E u \in [1..1 -> Seq(S)] : IsFlat(q, u, 1)
    OBVIOUS
  <2>1. PICK u : u = [k \in 1..1 |-> q[1]]
    OBVIOUS
  <2>2. q[1] \in Seq(S)
    BY ElementOfSeq
  <2> QED BY <2>1, <2>2 DEF IsFlat, Flattened
<1>2. ASSUME NEW m \in Nat \ {0}, m \in P PROVE m + 1 \in P
  <2> SUFFICES ASSUME m + 1 <= Len(q) PROVE \E v \in [1..m + 1 -> Seq(S)] : IsFlat(q, v, m + 1)
    OBVIOUS
  <2>1. Len(q) \in Nat
    BY LenProperties
  <2>2. PICK u \in [1..m -> Seq(S)] : IsFlat(q, u, m)
    BY <1>2, <2>1
  <2>3. PICK e : e = u[m] \o q[m + 1]
    OBVIOUS
  <2>4. e \in Seq(S)
    <3>1. m \in 1..m /\ m + 1 \in 1..Len(q)
      BY <2>1
    <3>2. u[m] \in Seq(S) /\ q[m + 1] \in Seq(S)
      BY <3>1, ElementOfSeq
    <3> QED BY <2>3, <3>2, ConcatProperties
  <2>5. PICK v : v = [k \in 1..m + 1 |-> IF k = m + 1 THEN e ELSE u[k]]
    OBVIOUS
  <2>6. v \in [1..m + 1 -> Seq(S)]
    BY <2>4, <2>5
  <2>7. ASSUME NEW k \in 1..m + 1 PROVE v[k] = Flattened(q, v, k)
    <3>1. CASE k = m + 1
      <4>1. k # 1 /\ k - 1 = m /\ m \in 1..m + 1 /\ m # m + 1
        BY <3>1
      <4>2. v[m] = u[m] /\ v[k] = e
        BY <2>5, <3>1, <4>1
      <4> QED BY <2>3, <3>1, <4>1, <4>2 DEF Flattened
    <3>2. CASE k # m + 1
      <4>1. k \in 1..m /\ v[k] = u[k] /\ u[k] = Flattened(q, u, k)
        BY <2>2, <2>5, <3>2 DEF IsFlat
      <4>2. k # 1 => k - 1 \in 1..m + 1 /\ k - 1 # m + 1 /\ v[k - 1] = u[k - 1]
        BY <2>5, <4>1
      <4> QED BY <4>1, <4>2 DEF Flattened
    <3> QED BY <3>1, <3>2
  <2> QED BY <2>6, <2>7 DEF IsFlat
<1>3. \A m \in Nat \ {0} : m \in P
  <2> HIDE DEF P
  <2> QED BY <1>1, <1>2, Induction
<1> QED BY <1>3

Agree(u, v, n) == \A k \in 1..n : u[k] = v[k]

(* Two of them agree, whatever follows in the sequences they are made of.  *)
LEMMA FlatUnique ==
  ASSUME NEW q, NEW r, NEW u, NEW v, NEW n \in Nat,
         Agree(q, r, n), IsFlat(q, u, n), IsFlat(r, v, n)
  PROVE  Agree(u, v, n)
<1> DEFINE P == {m \in Nat \ {0} : m <= n => u[m] = v[m]}
<1>1. 1 \in P
  BY DEF Agree, IsFlat, Flattened
<1>2. ASSUME NEW m \in Nat \ {0}, m \in P PROVE m + 1 \in P
  <2> SUFFICES ASSUME m + 1 <= n PROVE u[m + 1] = v[m + 1]
    OBVIOUS
  <2>1. m + 1 \in 1..n /\ m + 1 # 1 /\ (m + 1) - 1 = m
    OBVIOUS
  <2>2. u[m] = v[m] /\ q[m + 1] = r[m + 1]
    BY <1>2, <2>1 DEF Agree
  <2>3. u[m + 1] = Flattened(q, u, m + 1) /\ v[m + 1] = Flattened(r, v, m + 1)
    BY <2>1 DEF IsFlat
  <2>4. u[m + 1] = u[m] \o q[m + 1] /\ v[m + 1] = v[m] \o r[m + 1]
    BY <2>1, <2>3 DEF Flattened
  <2> QED BY <2>1, <2>2, <2>4
<1>3. \A m \in Nat \ {0} : m \in P
  <2> HIDE DEF P
  <2> QED BY <1>1, <1>2, Induction
<1> QED BY <1>3 DEF Agree

(* FlattenSeq returns its last value.                                      *)
LEMMA FlatIs ==
  ASSUME NEW S, NEW q \in Seq(Seq(S)), q # <<>>
  PROVE  \E u \in [1..Len(q) -> Seq(S)] : IsFlat(q, u, Len(q)) /\ FlattenSeq(q) = u[Len(q)]
<1>1. Len(q) \in Nat \ {0}
  BY EmptySeq
<1>2. PICK u \in [1..Len(q) -> Seq(S)] : IsFlat(q, u, Len(q))
  BY <1>1, FlatExists, SMTT(60)
<1> DEFINE Body(w) == [k \in 1..Len(q) |-> IF k = 1 THEN q[k] ELSE w[k - 1] \o q[k]]
           v == CHOOSE w : w = Body(w)
<1>3. u = Body(u)
  BY <1>2 DEF IsFlat, Flattened
<1>4. v = Body(v)
  BY <1>3
<1>5. IsFlat(q, v, Len(q))
  <2>1. ASSUME NEW k \in 1..Len(q) PROVE v[k] = Flattened(q, v, k)
    <3> DEFINE b == Body(v)
    <3>1. b[k] = Flattened(q, v, k)
      BY DEF Flattened
    <3> HIDE DEF v
    <3> QED BY <1>4, <3>1
  <2> QED BY <2>1 DEF IsFlat
<1>6. FlattenSeq(q) = v[Len(q)]
  BY <1>1 DEF FlattenSeq
<1>7. u[Len(q)] = v[Len(q)]
  <2> HIDE DEF v
  <2>1. Len(q) \in 1..Len(q)
    BY <1>1
  <2>2. Agree(q, q, Len(q)) /\ Len(q) \in Nat
    BY <1>1 DEF Agree
  <2>3. Agree(u, v, Len(q))
    BY <1>2, <1>5, <2>2, FlatUnique
  <2> QED BY <2>1, <2>3 DEF Agree
<1> QED BY <1>2, <1>6, <1>7

LEMMA FlattenEmpty == FlattenSeq(<<>>) = <<>>
BY DEF FlattenSeq

LEMMA FlattenType ==
  ASSUME NEW S, NEW q \in Seq(Seq(S))
  PROVE  FlattenSeq(q) \in Seq(S)
<1>1. CASE q = <<>>
  BY <1>1, FlattenEmpty, EmptySeq
<1>2. CASE q # <<>>
  <2>1. Len(q) \in 1..Len(q)
    BY <1>2, EmptySeq
  <2>2. PICK u \in [1..Len(q) -> Seq(S)] : FlattenSeq(q) = u[Len(q)]
    BY <1>2, FlatIs
  <2> QED BY <2>1, <2>2
<1> QED BY <1>1, <1>2

(* One more sequence comes at the end.                                     *)
LEMMA FlattenAppend ==
  ASSUME NEW S, NEW q \in Seq(Seq(S)), NEW e \in Seq(S)
  PROVE  FlattenSeq(Append(q, e)) = FlattenSeq(q) \o e
<1>1. PICK t : t = Append(q, e)
  OBVIOUS
<1>2. /\ t \in Seq(Seq(S)) /\ t # <<>> /\ Len(t) = Len(q) + 1 /\ Len(q) \in Nat
      /\ \A k \in 1..Len(q) : t[k] = q[k]
      /\ t[Len(q) + 1] = e
  BY <1>1, AppendProperties, LenProperties
<1>3. PICK v \in [1..Len(t) -> Seq(S)] : IsFlat(t, v, Len(t)) /\ FlattenSeq(t) = v[Len(t)]
  BY <1>2, FlatIs
<1>4. v[Len(t)] = Flattened(t, v, Len(q) + 1)
  BY <1>2, <1>3 DEF IsFlat
<1>5. CASE q = <<>>
  <2>1. Len(q) + 1 = 1
    BY <1>5
  <2>2. FlattenSeq(t) = e
    BY <1>2, <1>3, <1>4, <2>1 DEF Flattened
  <2> QED BY <1>1, <1>5, <2>2, FlattenEmpty, ConcatEmptySeq
<1>6. CASE q # <<>>
  <2>1. PICK u \in [1..Len(q) -> Seq(S)] : IsFlat(q, u, Len(q)) /\ FlattenSeq(q) = u[Len(q)]
    BY <1>6, FlatIs
  <2>2. Len(q) # 0 /\ Len(q) \in 1..Len(q) /\ (Len(q) + 1) - 1 = Len(q) /\ Len(q) + 1 # 1
    BY <1>2, <1>6, EmptySeq
  <2>3. IsFlat(t, v, Len(q))
    BY <1>2, <1>3 DEF IsFlat
  <2>4. u[Len(q)] = v[Len(q)]
    <3>1. Agree(q, t, Len(q))
      BY <1>2 DEF Agree
    <3>2. IsFlat(q, u, Len(q)) /\ Len(q) \in Nat
      BY <1>2, <2>1
    <3>3. Agree(u, v, Len(q))
      BY <2>3, <3>1, <3>2, FlatUnique
    <3> QED BY <2>2, <3>3 DEF Agree
  <2>5. v[Len(t)] = v[Len(q)] \o e
    BY <1>2, <1>4, <2>2 DEF Flattened
  <2> QED BY <1>1, <1>3, <2>1, <2>4, <2>5
<1> QED BY <1>5, <1>6

-----------------------------------------------------------------------------
(* The text a selection spells *)

(* The hints that fit in a text.                                           *)
Fits(t) == {h \in Spans : 1 <= h.from /\ h.to <= Len(t)}

WordsOf(t, seq) == [i \in DOMAIN seq |-> WordAt(t, seq[i])]
Cut(t, seq) == FlattenSeq(WordsOf(t, seq))

LEMMA WordAtType ==
  ASSUME NEW A, NEW t \in Seq(A), NEW h \in Fits(t)
  PROVE  WordAt(t, h) \in Seq(A)
BY DEF WordAt, Fits, Spans

LEMMA CutType ==
  ASSUME NEW A, NEW t \in Seq(A), NEW seq \in Seq(Fits(t))
  PROVE  WordsOf(t, seq) \in Seq(Seq(A)) /\ Cut(t, seq) \in Seq(A)
<1>1. Len(seq) \in Nat /\ DOMAIN seq = 1..Len(seq)
  OBVIOUS
<1>2. \A i \in 1..Len(seq) : seq[i] \in Fits(t)
  OBVIOUS
<1>3. \A i \in 1..Len(seq) : WordAt(t, seq[i]) \in Seq(A)
  BY <1>2, WordAtType
<1>4. PICK n, S : n \in Nat /\ n = Len(seq) /\ S = Seq(A)
  BY <1>1
<1>5. WordsOf(t, seq) \in [1..n -> S]
  BY <1>1, <1>3, <1>4 DEF WordsOf
<1>6. WordsOf(t, seq) \in Seq(S)
  BY <1>4, <1>5
<1> QED
  BY <1>4, <1>6, FlattenType DEF Cut

LEMMA CutAppend ==
  ASSUME NEW A, NEW t \in Seq(A), NEW seq \in Seq(Fits(t)), NEW h \in Fits(t)
  PROVE  Cut(t, Append(seq, h)) = Cut(t, seq) \o WordAt(t, h)
<1>1. PICK more \in Seq(Fits(t)) :
        /\ more = Append(seq, h) /\ Len(more) = Len(seq) + 1 /\ more[Len(seq) + 1] = h
        /\ \A i \in 1..Len(seq) : more[i] = seq[i]
  <2>1. /\ Append(seq, h) \in Seq(Fits(t)) /\ Len(Append(seq, h)) = Len(seq) + 1
        /\ Append(seq, h)[Len(seq) + 1] = h
        /\ \A i \in 1..Len(seq) : Append(seq, h)[i] = seq[i]
    BY AppendProperties
  <2> QED
    BY <2>1, Zenon
<1>2. PICK words \in Seq(Seq(A)), longer \in Seq(Seq(A)) : words = WordsOf(t, seq) /\ longer = WordsOf(t, more)
  BY CutType
<1>3. PICK w \in Seq(A) : w = WordAt(t, h)
  BY WordAtType
<1>4. PICK n \in Nat : n = Len(seq) /\ DOMAIN seq = 1..n /\ DOMAIN more = 1..n + 1
  BY <1>1
<1>5. longer = Append(words, w)
  <2>1. Len(words) = n /\ \A i \in 1..n : words[i] = WordAt(t, seq[i])
    BY <1>2, <1>4 DEF WordsOf
  <2>2. Len(longer) = n + 1 /\ \A i \in 1..n + 1 : longer[i] = WordAt(t, more[i])
    BY <1>2, <1>4 DEF WordsOf
  <2>3. /\ Append(words, w) \in Seq(Seq(A)) /\ Len(Append(words, w)) = n + 1
        /\ Append(words, w)[n + 1] = w /\ \A i \in 1..n : Append(words, w)[i] = words[i]
    BY <2>1, AppendProperties
  <2>4. \A i \in 1..n + 1 : longer[i] = Append(words, w)[i]
    <3>1. \A i \in 1..n + 1 : i \in 1..n \/ i = n + 1
      OBVIOUS
    <3> QED
      BY <1>1, <1>3, <1>4, <2>1, <2>2, <2>3, <3>1
  <2> QED
    BY <2>2, <2>3, <2>4, SeqEqual
<1>6. FlattenSeq(Append(words, w)) = FlattenSeq(words) \o w
  BY FlattenAppend
<1> QED
  BY <1>1, <1>2, <1>3, <1>5, <1>6 DEF Cut

LEMMA CutEmpty ==
  ASSUME NEW t
  PROVE  Cut(t, <<>>) = <<>>
<1>1. WordsOf(t, <<>>) = <<>>
  BY DEF WordsOf
<1> QED
  BY <1>1, FlattenEmpty DEF Cut

LEMMA CutOne ==
  ASSUME NEW A, NEW t \in Seq(A), NEW h \in Fits(t)
  PROVE  Cut(t, <<h>>) = WordAt(t, h)
<1>1. PICK w \in Seq(A) : w = WordAt(t, h)
  BY WordAtType
<1>2. Append(<<>>, h) = <<h>> /\ <<>> \in Seq(Fits(t)) /\ <<>> \o w = w
  OBVIOUS
<1>3. Cut(t, Append(<<>>, h)) = Cut(t, <<>>) \o WordAt(t, h)
  BY <1>2, CutAppend
<1> QED
  BY <1>1, <1>2, <1>3, CutEmpty

LEMMA OnePart ==
  ASSUME NEW T, NEW p \in Seq(T), NEW i \in 1..Len(p)
  PROVE  SubSeq(p, i, i) = <<p[i]>>
<1>1. PICK e \in T : e = p[i]
  BY ElementOfSeq
<1>2. PICK one \in Seq(T) : one = SubSeq(p, i, i) /\ Len(one) = 1 /\ one[1] = e
  <2>1. i \in Int /\ (i - i) + 1 = 1 /\ (i + 1) - 1 = i /\ \A k \in i..i : p[k] \in T
    BY <1>1
  <2>2. /\ SubSeq(p, i, i) \in Seq(T) /\ Len(SubSeq(p, i, i)) = 1
        /\ \A k \in 1..1 : SubSeq(p, i, i)[k] = p[(i + k) - 1]
    BY <2>1, SubSeqProperties
  <2>3. SubSeq(p, i, i)[1] = e
    BY <1>1, <2>1, <2>2
  <2> QED
    BY <2>2, <2>3, Zenon
<1>3. one = <<e>>
  <2>1. PICK two \in Seq(T) : two = <<e>> /\ Len(two) = 1 /\ two[1] = e
    <3>1. <<e>> \in Seq(T) /\ Len(<<e>>) = 1 /\ <<e>>[1] = e
      OBVIOUS
    <3> QED
      BY <3>1, Zenon
  <2>2. \A k \in 1..Len(one) : one[k] = two[k]
    BY <1>2, <2>1
  <2> QED
    BY <1>2, <2>1, <2>2, SeqEqual
<1> QED
  BY <1>1, <1>2, <1>3

Join(u, v) == u \o v

LEMMA JoinThrice ==
  ASSUME NEW A, NEW u \in Seq(A), NEW v \in Seq(A), NEW w \in Seq(A)
  PROVE  Join(Join(u, v), w) = Join(u, Join(v, w))
BY ConcatAssociative, SMTT(60) DEF Join

LEMMA CutJoin ==
  ASSUME NEW A, NEW t \in Seq(A), NEW seq \in Seq(Fits(t)), NEW more \in Seq(Fits(t))
  PROVE  Cut(t, seq \o more) = Cut(t, seq) \o Cut(t, more)
<1> DEFINE P == {n \in Nat : n <= Len(more) =>
                   Cut(t, seq \o SubSeq(more, 1, n)) = Cut(t, seq) \o Cut(t, SubSeq(more, 1, n))}
<1>1. 0 \in P
  <2>1. SubSeq(more, 1, 0) = <<>> /\ seq \o <<>> = seq
    OBVIOUS
  <2>2. Cut(t, seq) \o <<>> = Cut(t, seq)
    BY CutType, ConcatEmptySeq
  <2> QED
    BY <2>1, <2>2, CutEmpty
<1>2. ASSUME NEW n \in Nat, n \in P PROVE n + 1 \in P
  <2> SUFFICES ASSUME n + 1 <= Len(more)
               PROVE  Cut(t, seq \o SubSeq(more, 1, n + 1)) = Cut(t, seq) \o Cut(t, SubSeq(more, 1, n + 1))
    OBVIOUS
  <2>1. PICK part \in Seq(Fits(t)) : part = SubSeq(more, 1, n)
    <3>1. n \in Nat /\ n <= Len(more)
      BY LenProperties
    <3>2. SubSeq(more, 1, n) \in Seq(Fits(t))
      BY <3>1, PartFacts
    <3> QED
      BY <3>2
  <2>2. PICK h \in Fits(t) : h = more[n + 1]
    <3>1. n + 1 \in 1..Len(more)
      BY LenProperties
    <3> QED
      BY <3>1, ElementOfSeq
  <2>3. SubSeq(more, 1, n + 1) = Append(part, h)
    BY <2>1, <2>2
  <2>4. seq \o Append(part, h) = Append(seq \o part, h) /\ seq \o part \in Seq(Fits(t))
    OBVIOUS
  <2>5. Cut(t, seq \o part) = Cut(t, seq) \o Cut(t, part)
    BY <1>2, <2>1
  <2>6. Cut(t, Append(seq \o part, h)) = Cut(t, seq \o part) \o WordAt(t, h)
    BY <2>4, CutAppend
  <2>7. Cut(t, Append(part, h)) = Cut(t, part) \o WordAt(t, h)
    BY CutAppend
  <2>8. (Cut(t, seq) \o Cut(t, part)) \o WordAt(t, h) = Cut(t, seq) \o (Cut(t, part) \o WordAt(t, h))
    <3>1. PICK u \in Seq(A), v \in Seq(A), w \in Seq(A) :
            u = Cut(t, seq) /\ v = Cut(t, part) /\ w = WordAt(t, h)
      BY CutType, WordAtType
    <3>2. Join(Join(u, v), w) = Join(u, Join(v, w))
      BY JoinThrice
    <3> QED
      BY <3>1, <3>2 DEF Join
  <2> QED
    BY <2>3, <2>4, <2>5, <2>6, <2>7, <2>8
<1>3. \A n \in Nat : n \in P
  <2> HIDE DEF P
  <2> QED
    BY <1>1, <1>2, InductionFromZero
<1>4. PICK n \in Nat : n = Len(more) /\ SubSeq(more, 1, n) = more
  OBVIOUS
<1>5. Cut(t, seq \o SubSeq(more, 1, n)) = Cut(t, seq) \o Cut(t, SubSeq(more, 1, n))
  BY <1>3, <1>4
<1> QED
  BY <1>4, <1>5

(* Words that follow each other spell the text from the first to the last. *)
LEMMA CutChained ==
  ASSUME NEW A, NEW t \in Seq(A), NEW p \in Seq(Fits(t)), p # <<>>, Chained(p)
  PROVE  Cut(t, p) = SubSeq(t, p[1].from, p[Len(p)].to)
<1> DEFINE P == {n \in Nat \ {0} : n <= Len(p) =>
                   Cut(t, SubSeq(p, 1, n)) = SubSeq(t, p[1].from, p[n].to)}
<1>0. /\ Len(p) \in Nat /\ Len(t) \in Nat
      /\ \A i \in 1..Len(p) : /\ p[i] \in Fits(t) /\ p[i].from \in Nat /\ p[i].to \in Nat
                              /\ 1 <= p[i].from /\ p[i].from <= p[i].to /\ p[i].to <= Len(t)
  <2>1. \A i \in 1..Len(p) : p[i] \in Fits(t)
    OBVIOUS
  <2> QED
    BY <2>1 DEF Fits, Spans
<1>1. 1 \in P
  <2> SUFFICES ASSUME 1 <= Len(p) PROVE Cut(t, SubSeq(p, 1, 1)) = SubSeq(t, p[1].from, p[1].to)
    OBVIOUS
  <2>1. SubSeq(p, 1, 1) = <<p[1]>>
    BY <1>0, OnePart
  <2>2. p[1] \in Fits(t)
    BY <1>0
  <2> QED
    BY <2>1, <2>2, CutOne DEF WordAt
<1>2. ASSUME NEW n \in Nat \ {0}, n \in P PROVE n + 1 \in P
  <2> SUFFICES ASSUME n + 1 <= Len(p)
               PROVE  Cut(t, SubSeq(p, 1, n + 1)) = SubSeq(t, p[1].from, p[n + 1].to)
    OBVIOUS
  <2>1. PICK part \in Seq(Fits(t)) : part = SubSeq(p, 1, n)
    <3>1. n \in Nat /\ n <= Len(p)
      BY LenProperties
    <3>2. SubSeq(p, 1, n) \in Seq(Fits(t))
      BY <3>1, PartFacts
    <3> QED
      BY <3>2
  <2>2. PICK h \in Fits(t) : h = p[n + 1]
    <3>1. n + 1 \in 1..Len(p)
      BY LenProperties
    <3> QED
      BY <3>1, ElementOfSeq
  <2>3. SubSeq(p, 1, n + 1) = Append(part, h)
    BY <2>1, <2>2
  <2>4. Cut(t, part) = SubSeq(t, p[1].from, p[n].to)
    BY <1>0, <1>2, <2>1
  <2>5. h.from = p[n].to + 1
    BY <1>0, <2>2 DEF Chained
  <2>6. Cut(t, Append(part, h)) = Cut(t, part) \o WordAt(t, h)
    BY CutAppend
  <2>7. p[1].from <= p[n].to
    <3>1. p \in Seq(Spans)
      BY DEF Fits
    <3>2. \A i, j \in 1..Len(p) : i < j => p[i].to < p[j].from
      BY <3>1, ChainRises
    <3>3. CASE n = 1
      BY <1>0, <3>3
    <3>4. CASE n # 1
      <4>1. 1 \in 1..Len(p) /\ n \in 1..Len(p) /\ 1 < n
        BY <1>0, <3>4
      <4>2. p[1].to < p[n].from
        BY <3>2, <4>1
      <4> QED
        BY <1>0, <4>1, <4>2
    <3> QED
      BY <3>3, <3>4
  <2>8. PICK a \in Nat, b \in Nat, e \in Nat :
          a = p[1].from /\ b = p[n].to /\ e = p[n + 1].to /\ 1 <= a /\ a <= b /\ b + 1 <= e /\ e <= Len(t)
    <3>1. 1 \in 1..Len(p) /\ n \in 1..Len(p) /\ n + 1 \in 1..Len(p)
      BY <1>0
    <3> QED
      BY <1>0, <2>2, <2>5, <2>7, <3>1
  <2>9. SubSeq(t, a, b) \o SubSeq(t, b + 1, e) = SubSeq(t, a, e)
    <3>1. PICK m \in Nat : m = Len(t)
      BY <1>0
    <3>2. a \in 1..m + 1 /\ b \in a - 1..m /\ e \in b..m
      <4>1. 1 <= a /\ a <= b /\ b + 1 <= e /\ e <= m
        BY ONLY <2>8, <3>1
      <4> QED
        BY ONLY <4>1, a \in Nat, b \in Nat, e \in Nat, m \in Nat
    <3> QED
      BY <3>1, <3>2, ConcatAdjacentSubSeq
  <2> QED
    BY <2>2, <2>3, <2>4, <2>5, <2>6, <2>8, <2>9 DEF WordAt
<1>3. \A n \in Nat \ {0} : n \in P
  <2> HIDE DEF P
  <2> QED
    BY <1>1, <1>2, Induction
<1>4. PICK n \in Nat \ {0} : n = Len(p) /\ SubSeq(p, 1, n) = p
  OBVIOUS
<1>5. Cut(t, SubSeq(p, 1, n)) = SubSeq(t, p[1].from, p[n].to)
  BY <1>3, <1>4
<1> QED
  BY <1>4, <1>5

-----------------------------------------------------------------------------
(* The letters of a selection *)

Closed(S, G, n) == \A s \in S, i \in 1..n : G[i][s] \in S
Unfolds(v, first, G, n) == v[0] = first /\ \A i \in 1..n : v[i] = G[i][v[i - 1]]

(* A function given by its first value and by each next one exists.        *)
LEMMA Recursion ==
  ASSUME NEW S, NEW first \in S, NEW n \in Nat, NEW G, Closed(S, G, n)
  PROVE  \E v \in [0..n -> S] : Unfolds(v, first, G, n)
<1>0. SUFFICES \E v \in [0..n -> S] : v[0] = first /\ \A i \in 1..n : v[i] = G[i][v[i - 1]]
  BY DEF Unfolds
<1> DEFINE Built(m) == \E v \in [0..m -> S] : v[0] = first /\ \A i \in 1..m : v[i] = G[i][v[i - 1]]
           P == {m \in Nat : m <= n => Built(m)}
<1>1. 0 \in P
  <2>1. PICK v : v = [i \in 0..0 |-> first]
    OBVIOUS
  <2>2. v \in [0..0 -> S] /\ v[0] = first
    BY <2>1
  <2> QED
    BY <2>2
<1>2. ASSUME NEW m \in Nat, m \in P PROVE m + 1 \in P
  <2> HIDE DEF Built
  <2> SUFFICES ASSUME m + 1 <= n PROVE Built(m + 1)
    OBVIOUS
  <2>0. Built(m)
    BY <1>2
  <2> USE DEF Built
  <2>1. PICK u \in [0..m -> S] : u[0] = first /\ \A i \in 1..m : u[i] = G[i][u[i - 1]]
    BY <2>0
  <2>2. PICK e \in S : e = G[m + 1][u[m]]
    <3>1. u[m] \in S /\ m + 1 \in 1..n
      BY <2>1
    <3> QED
      BY <3>1 DEF Closed
  <2>3. PICK v : v = [i \in 0..m + 1 |-> IF i = m + 1 THEN e ELSE u[i]]
    OBVIOUS
  <2>4. v \in [0..m + 1 -> S] /\ v[0] = first /\ v[m + 1] = e /\ \A i \in 0..m : v[i] = u[i]
    BY <2>1, <2>2, <2>3
  <2>5. ASSUME NEW i \in 1..m + 1 PROVE v[i] = G[i][v[i - 1]]
    <3>1. CASE i = m + 1
      <4>1. i - 1 = m /\ m \in 0..m
        BY <3>1
      <4> QED
        BY <2>2, <2>4, <3>1, <4>1
    <3>2. CASE i # m + 1
      <4>1. i \in 1..m /\ i \in 0..m /\ i - 1 \in 0..m
        BY <3>2
      <4> QED
        BY <2>1, <2>4, <4>1
    <3> QED
      BY <3>1, <3>2
  <2> QED
    BY <2>4, <2>5
<1>3. \A m \in Nat : m \in P
  <2> HIDE DEF P
  <2> QED
    BY <1>1, <1>2, InductionFromZero
<1> QED
  BY <1>3

LEMMA SplitSeq ==
  ASSUME NEW T, NEW seq \in Seq(T), NEW m \in 0..Len(seq)
  PROVE  /\ SubSeq(seq, 1, m) \in Seq(T) /\ SubSeq(seq, m + 1, Len(seq)) \in Seq(T)
         /\ SubSeq(seq, 1, m) \o SubSeq(seq, m + 1, Len(seq)) = seq
<1>1. PICK n \in Nat : n = Len(seq)
  BY LenProperties
<1>2. 1 \in 1..n + 1 /\ m \in 1 - 1..n /\ n \in m..n
  BY <1>1
<1>3. SubSeq(seq, 1, m) \o SubSeq(seq, m + 1, n) = SubSeq(seq, 1, n)
  BY <1>1, <1>2, ConcatAdjacentSubSeq
<1>4. SubSeq(seq, 1, n) = seq
  BY <1>1
<1>5. SubSeq(seq, 1, m) \in Seq(T) /\ SubSeq(seq, m + 1, n) \in Seq(T)
  BY <1>1
<1> QED
  BY <1>1, <1>3, <1>4, <1>5

(* Wherever a hint is put, its letters are added.                          *)
LEMMA InsertLetters ==
  ASSUME NEW A, NEW t \in Seq(A), NEW seq \in Seq(Fits(t)), NEW h \in Fits(t)
  PROVE  /\ Insert(seq, h) \in Seq(Fits(t))
         /\ SameLetters(Cut(t, Insert(seq, h)), Cut(t, seq) \o WordAt(t, h))
<1>1. PICK n \in Nat : n = Len(seq) /\ DOMAIN seq = 1..n
  BY LenProperties
<1>2. PICK m \in 0..n : m = Cardinality({k \in DOMAIN seq : seq[k].from <= h.from})
  <2> DEFINE K == {k \in 1..n : seq[k].from <= h.from}
  <2>1. IsFiniteSet(1..n) /\ Cardinality(1..n) = n
    BY FS_Interval
  <2>2. K \subseteq 1..n
    OBVIOUS
  <2>3. IsFiniteSet(K) /\ Cardinality(K) <= n
    <3> HIDE DEF K
    <3> QED
      BY <2>1, <2>2, FS_Subset
  <2>4. Cardinality(K) \in Nat
    <3> HIDE DEF K
    <3> QED
      BY <2>3, FS_CardinalityType
  <2>5. Cardinality(K) \in 0..n
    <3> HIDE DEF K
    <3> QED
      BY <2>3, <2>4
  <2> QED
    BY <1>1, <2>5
<1>3. PICK a \in Seq(Fits(t)), b \in Seq(Fits(t)) :
        a = SubSeq(seq, 1, m) /\ b = SubSeq(seq, m + 1, n) /\ a \o b = seq
  <2>1. m \in 0..Len(seq)
    BY <1>1
  <2>2. /\ SubSeq(seq, 1, m) \in Seq(Fits(t)) /\ SubSeq(seq, m + 1, Len(seq)) \in Seq(Fits(t))
        /\ SubSeq(seq, 1, m) \o SubSeq(seq, m + 1, Len(seq)) = seq
    BY <2>1, SplitSeq
  <2> QED
    BY <1>1, <2>2
<1>4. PICK one \in Seq(Fits(t)) : one = <<h>>
  <2>1. <<h>> \in Seq(Fits(t))
    OBVIOUS
  <2> QED
    BY <2>1
<1>5. Insert(seq, h) = (a \o one) \o b
  <2>1. (m + 1) - 1 = m
    OBVIOUS
  <2>2. Insert(seq, h) = InsertAt(seq, m + 1, h)
    BY <1>2 DEF Insert
  <2> QED
    BY <1>1, <1>3, <1>4, <2>1, <2>2 DEF InsertAt
<1>6. a \o one \in Seq(Fits(t)) /\ (a \o one) \o b \in Seq(Fits(t))
  BY ConcatProperties
<1>7. PICK p \in Seq(A), q \in Seq(A), w \in Seq(A) :
        p = Cut(t, a) /\ q = Cut(t, b) /\ w = WordAt(t, h)
  BY CutType, WordAtType
<1>8. Cut(t, (a \o one) \o b) = (p \o w) \o q
  <2>1. Cut(t, (a \o one) \o b) = Cut(t, a \o one) \o Cut(t, b)
    BY <1>6, CutJoin
  <2>2. Cut(t, a \o one) = Cut(t, a) \o Cut(t, one)
    BY CutJoin
  <2>3. Cut(t, one) = WordAt(t, h)
    BY <1>4, CutOne
  <2> QED
    BY <1>7, <2>1, <2>2, <2>3
<1>9. Cut(t, seq) = p \o q
  BY <1>3, <1>7, CutJoin
<1>10. SameLetters((p \o w) \o q, (p \o q) \o w)
  BY LettersJoin
<1> QED
  BY <1>5, <1>6, <1>7, <1>8, <1>9, <1>10

LEMMA LettersOrder ==
  /\ \A s : SameLetters(s, s)
  /\ \A s, t, u : SameLetters(s, t) /\ SameLetters(t, u) => SameLetters(s, u)
BY DEF SameLetters

(* A path selected by words found in the cluster adds its letters.         *)
LEMMA SelectedLetters ==
  ASSUME NEW A, NEW t \in Seq(A), NEW seq \in Seq(Fits(t)), NEW c, NEW p \in Seq(Fits(t)),
         \A i \in 1..Len(p) : Found(t, c, p[i]) \in Fits(t) /\ WordAt(t, Found(t, c, p[i])) = WordAt(t, p[i])
  PROVE  /\ Selected(seq, t, c, p) \in Seq(Fits(t))
         /\ SameLetters(Cut(t, Selected(seq, t, c, p)), Cut(t, seq) \o Cut(t, p))
<1>1. PICK n \in Nat : n = Len(p)
  BY LenProperties
<1>2. PICK S : S = Seq(Fits(t))
  OBVIOUS
<1>3. PICK f : f = [i \in 1..n |-> Found(t, c, p[i])]
  OBVIOUS
<1>4. \A i \in 1..n : f[i] = Found(t, c, p[i]) /\ f[i] \in Fits(t) /\ WordAt(t, f[i]) = WordAt(t, p[i])
  BY <1>1, <1>3
<1>5. PICK v : v = Selection(seq, t, c, p, v) /\ Selected(seq, t, c, p) = v[n]
  <2>1. PICK G : G = [i \in 1..n |-> [s \in S |-> Insert(s, f[i])]]
    OBVIOUS
  <2>2. \A s \in S, i \in 1..n : G[i][s] = Insert(s, f[i])
    BY <2>1
  <2>3. \A s \in S, i \in 1..n : G[i][s] \in S
    BY <1>2, <1>4, <2>2, InsertLetters
  <2>4. seq \in S
    BY <1>2
  <2>5. PICK u \in [0..n -> S] : u[0] = seq /\ \A i \in 1..n : u[i] = G[i][u[i - 1]]
    <3>1. Closed(S, G, n)
      BY <2>3 DEF Closed
    <3>2. \E u \in [0..n -> S] : Unfolds(u, seq, G, n)
      BY <1>1, <2>4, <3>1, Recursion
    <3> QED
      BY <3>2 DEF Unfolds
  <2>6. ASSUME NEW k \in 0..n
        PROVE  u[k] = IF k = 0 THEN seq ELSE Insert(u[k - 1], Found(t, c, p[k]))
    <3>1. CASE k = 0
      BY <2>5, <3>1
    <3>2. CASE k # 0
      <4>1. k \in 1..n /\ k - 1 \in 0..n
        BY <3>2
      <4>2. u[k - 1] \in S
        BY <2>5, <4>1
      <4> QED
        BY <1>4, <2>2, <2>5, <3>2, <4>1, <4>2
    <3> QED
      BY <3>1, <3>2
  <2>7. u = Selection(seq, t, c, p, u)
    BY <1>1, <2>5, <2>6 DEF Selection
  <2> DEFINE w == CHOOSE x : x = Selection(seq, t, c, p, x)
  <2>8. w = Selection(seq, t, c, p, w)
    BY <2>7
  <2>9. Selected(seq, t, c, p) = w[n]
    BY <1>1 DEF Selected, Selection
  <2> QED
    BY <2>8, <2>9
<1>6. v[0] = seq /\ \A i \in 1..n : v[i] = Insert(v[i - 1], f[i])
  <2>1. \A k \in 0..n : v[k] = IF k = 0 THEN seq ELSE Insert(v[k - 1], Found(t, c, p[k]))
    BY <1>1, <1>5 DEF Selection
  <2>2. \A i \in 1..n : i \in 0..n /\ i # 0
    OBVIOUS
  <2> QED
    BY <1>4, <2>1, <2>2
<1> DEFINE P == {m \in Nat : m <= n =>
                   /\ v[m] \in Seq(Fits(t))
                   /\ SameLetters(Cut(t, v[m]), Cut(t, seq) \o Cut(t, SubSeq(p, 1, m)))}
<1>7. 0 \in P
  <2>1. SubSeq(p, 1, 0) = <<>>
    OBVIOUS
  <2>2. Cut(t, seq) \o <<>> = Cut(t, seq)
    BY CutType, ConcatEmptySeq
  <2> QED
    BY <1>6, <2>1, <2>2, CutEmpty, LettersOrder
<1>8. ASSUME NEW m \in Nat, m \in P PROVE m + 1 \in P
  <2> SUFFICES ASSUME m + 1 <= n
               PROVE  /\ v[m + 1] \in Seq(Fits(t))
                      /\ SameLetters(Cut(t, v[m + 1]), Cut(t, seq) \o Cut(t, SubSeq(p, 1, m + 1)))
    OBVIOUS
  <2>1. PICK part \in Seq(Fits(t)) : part = SubSeq(p, 1, m)
    <3>1. m \in Nat /\ m <= Len(p)
      BY <1>1
    <3>2. SubSeq(p, 1, m) \in Seq(Fits(t))
      BY <3>1, PartFacts
    <3> QED
      BY <3>2
  <2>2. PICK got \in Seq(Fits(t)) : got = v[m] /\ SameLetters(Cut(t, got), Cut(t, seq) \o Cut(t, part))
    BY <1>8, <2>1
  <2>3. m + 1 \in 1..n /\ m + 1 \in 1..Len(p) /\ (m + 1) - 1 = m
    BY <1>1
  <2>4. PICK h \in Fits(t) : h = p[m + 1]
    BY <2>3, ElementOfSeq
  <2>5. PICK g \in Fits(t) : g = f[m + 1] /\ WordAt(t, g) = WordAt(t, h)
    BY <1>4, <2>3, <2>4
  <2>6. v[m + 1] = Insert(got, g)
    BY <1>6, <2>2, <2>3, <2>5
  <2>7. SubSeq(p, 1, m + 1) = Append(part, h)
    BY <1>1, <2>1, <2>4
  <2>8. PICK a \in Seq(A), b \in Seq(A), d \in Seq(A), w \in Seq(A) :
          a = Cut(t, got) /\ b = Cut(t, seq) /\ d = Cut(t, part) /\ w = WordAt(t, h)
    BY CutType, WordAtType
  <2>9. Cut(t, SubSeq(p, 1, m + 1)) = d \o w
    BY <2>7, <2>8, CutAppend
  <2>10. Insert(got, g) \in Seq(Fits(t)) /\ SameLetters(Cut(t, Insert(got, g)), a \o w)
    BY <2>5, <2>8, InsertLetters
  <2>11. SameLetters(a \o w, (b \o d) \o w)
    <3>1. SameLetters(a, b \o d) /\ b \o d \in Seq(A) /\ SameLetters(w, w)
      BY <2>2, <2>8, LettersOrder
    <3> QED
      BY <3>1, LettersJoin
  <2>12. (b \o d) \o w = b \o (d \o w)
    <3>1. Join(Join(b, d), w) = Join(b, Join(d, w))
      BY JoinThrice
    <3> QED
      BY <3>1 DEF Join
  <2>13. SameLetters(Cut(t, Insert(got, g)), b \o (d \o w))
    BY <2>10, <2>11, <2>12, LettersOrder
  <2>14. Cut(t, seq) \o Cut(t, SubSeq(p, 1, m + 1)) = b \o (d \o w)
    BY <2>8, <2>9
  <2> QED
    BY <2>6, <2>10, <2>13, <2>14, Zenon
<1>9. \A m \in Nat : m \in P
  <2> HIDE DEF P
  <2> QED
    BY <1>7, <1>8, InductionFromZero
<1>10. SubSeq(p, 1, n) = p
  BY <1>1
<1>11. v[n] \in Seq(Fits(t)) /\ SameLetters(Cut(t, v[n]), Cut(t, seq) \o Cut(t, SubSeq(p, 1, n)))
  BY <1>9
<1> HIDE DEF P
<1> QED
  BY <1>5, <1>10, <1>11, Zenon

-----------------------------------------------------------------------------
(* A text each of whose characters is a word of the dictionary *)

One(k) == [from |-> k, to |-> k]
EachAWord(t) == \A k \in 1..Len(t) : One(k) \in RawRank(t)

LEMMA OneFacts ==
  ASSUME NEW k \in Nat
  PROVE  One(k) \in Spans /\ One(k).from = k /\ One(k).to = k
BY DEF One, Spans

(* Without a gap there are no more hints than words found.                 *)
LEMMA KnownHints ==
  ASSUME NEW t \in Texts, EachAWord(t)
  PROVE  Hints(t) = RawRank(t) /\ Hints(t) \subseteq Fits(t)
<1>1. /\ Len(t) \in Nat /\ DOMAIN t = 1..Len(t)
      /\ \A h \in RawRank(t) : h \in Spans /\ 1 <= h.from /\ h.to <= Len(t)
  BY RawRankLaid DEF RawRank, Runs, Laid
<1>2. PICK S : S = RawRank(t)
  OBVIOUS
<1>3. \A g, h \in S : Neighbours(S, g, h) => ~(g.to + 1 < h.from)
  <2>1. SUFFICES ASSUME NEW g \in S, NEW h \in S, Neighbours(S, g, h), g.to + 1 < h.from PROVE FALSE
    OBVIOUS
  <2>2. /\ g.from \in Nat /\ g.to \in Nat /\ g.from <= g.to /\ h.from \in Nat /\ h.to \in Nat
        /\ h.from <= h.to /\ h.to <= Len(t)
    BY <1>1, <1>2 DEF Spans
  <2>3. g.to + 1 \in 1..Len(t)
    BY <1>1, <2>1, <2>2
  <2>4. PICK f \in S : f.from = g.to + 1 /\ f.to = g.to + 1
    <3>1. One(g.to + 1) \in S
      BY <1>2, <2>3 DEF EachAWord
    <3> QED
      BY <2>2, <3>1, OneFacts
  <2>5. Before(g, f) /\ Before(f, h)
    BY <2>1, <2>2, <2>4 DEF Before
  <2> QED
    BY <2>1, <2>5 DEF Neighbours
<1>4. Gaps(S) = {}
  <2>1. SUFFICES ASSUME NEW f \in Gaps(S) PROVE FALSE
    OBVIOUS
  <2>2. PICK g \in S, h \in S : Neighbours(S, g, h) /\ g.to + 1 < h.from
    BY DEF Gaps
  <2> QED
    BY <1>3, <2>2
<1>5. Hints(t) = S
  BY <1>2, <1>4 DEF Hints
<1> QED
  BY <1>1, <1>2, <1>5 DEF Fits

(* A cluster then holds the characters of a stretch, and begins and ends   *)
(* with one.                                                               *)
Spanned(t, c, a, e) ==
  /\ a <= e /\ Foremost(c) = One(a) /\ PosLast(c) = e
  /\ \A k \in 1..Len(t) : One(k) \in c <=> a <= k /\ k <= e

LEMMA KnownCluster ==
  ASSUME NEW t \in Texts, EachAWord(t), NEW c \in Clusters(t)
  PROVE  c \subseteq Fits(t) /\ \E a, e \in 1..Len(t) : Spanned(t, c, a, e)
<1>1. PICK n \in Nat : n = Len(t)
  BY RawRankLaid
<1>2. PICK S : S = Hints(t) /\ S \subseteq Fits(t) /\ \A k \in 1..n : One(k) \in S
  BY <1>1, KnownHints DEF EachAWord
<1>3. PICK b : b = Foremost(c)
  OBVIOUS
<1>4. b \in S /\ Boundary(S, b) /\ c = ClusterOf(S, b) /\ b \in c /\ c \subseteq S /\ Laid(c, n)
  BY <1>1, <1>2, <1>3, ClusterPlace
<1>5. \A h \in S : h \in Spans /\ h.from \in 1..n /\ h.to \in 1..n /\ h.from <= h.to
  BY <1>1, <1>2 DEF Fits, Spans
<1>6. PICK a \in 1..n : a = b.from
  BY <1>4, <1>5
<1>7. b = One(a)
  <2>1. One(a) \in S /\ One(a) \in Spans /\ One(a).from = a /\ One(a).to = a /\ b \in Spans
    BY <1>2, <1>4, <1>5, <1>6, OneFacts
  <2>2. ~Before(One(a), b)
    BY <1>4, <1>6, <2>1 DEF Boundary
  <2>3. ~Before(b, One(a))
    BY <1>4, <1>5, <1>6, <2>1 DEF Before
  <2> QED
    BY <2>1, <2>2, <2>3, BeforeOrder
<1>8. PICK z \in c : z = Hindmost(c) /\ \A g \in c : ~Before(z, g)
  <2>1. c \subseteq Spans /\ c # {} /\ \A h \in c : h.to <= n
    BY <1>4 DEF Laid
  <2> QED
    BY <2>1, HindmostFacts
<1>9. PICK e \in 1..n : e = z.to /\ z.from <= e
  BY <1>4, <1>5, <1>8
<1>10. \A f \in S : Boundary(S, f) /\ Before(b, f) => e < f.from
  <2>1. \A f \in S : Boundary(S, f) /\ Before(b, f) => Before(z, f)
    BY <1>4, <1>8 DEF ClusterOf
  <2> QED
    BY <1>4, <1>8, <1>9, <2>1 DEF Boundary
<1>11. ASSUME NEW k \in 1..n, a <= k, k <= e PROVE One(k) \in c
  <2>1. One(k) \in S /\ One(k) \in Spans /\ One(k).from = k /\ One(k).to = k
    BY <1>2, OneFacts
  <2>2. b \in Spans /\ b.from = a /\ b.to = a
    BY <1>4, <1>5, <1>7, OneFacts
  <2>3. ~Before(One(k), b)
    BY <1>11, <2>1, <2>2 DEF Before
  <2>4. ASSUME NEW f \in S, Boundary(S, f), Before(b, f) PROVE Before(One(k), f)
    <3>1. e < f.from /\ f.from \in 1..n
      BY <1>5, <1>10, <2>4
    <3> QED
      BY <1>11, <2>1, <3>1 DEF Before
  <2> QED
    BY <1>4, <2>1, <2>3, <2>4 DEF ClusterOf
<1>12. a <= e
  <2>1. ~Before(z, b)
    BY <1>4, <1>8
  <2>2. z.from \in 1..n /\ b.from = a /\ b.to = a
    BY <1>4, <1>5, <1>7, <1>8, OneFacts
  <2> QED
    BY <1>9, <2>1, <2>2 DEF Before
<1>13. ASSUME NEW k \in 1..n, One(k) \in c PROVE a <= k /\ k <= e
  <2>1. One(k).from = k /\ One(k).to = k /\ b.from = a /\ b.to = a
    BY <1>7, OneFacts
  <2>2. ~Before(One(k), b) /\ ~Before(z, One(k)) /\ z.from \in 1..n
    BY <1>4, <1>5, <1>8, <1>13 DEF ClusterOf
  <2> QED
    BY <1>9, <2>1, <2>2 DEF Before
<1>14. PosLast(c) = e
  BY <1>8, <1>9 DEF PosLast
<1> QED
  BY <1>1, <1>2, <1>3, <1>4, <1>7, <1>11, <1>12, <1>13, <1>14 DEF Spanned

(* The characters themselves are a way through the cluster.                *)
LEMMA KnownPath ==
  ASSUME NEW t \in Texts, EachAWord(t), NEW c \in Clusters(t)
  PROVE  Paths(c) # {}
<1>1. PICK n \in Nat : n = Len(t) /\ Laid(c, n)
  BY ClusterPlace
<1>2. PICK a \in 1..n, e \in 1..n : Spanned(t, c, a, e)
  BY <1>1, KnownCluster
<1>3. PICK m \in Nat \ {0} : m = (e - a) + 1
  BY <1>2 DEF Spanned
<1>4. PICK p : p = [i \in 1..m |-> One(a + (i - 1))]
  OBVIOUS
<1>5. \A i \in 1..m : /\ a + (i - 1) \in 1..n /\ p[i] = One(a + (i - 1)) /\ p[i] \in c
                      /\ p[i].from = a + (i - 1) /\ p[i].to = a + (i - 1)
  <2>1. SUFFICES ASSUME NEW i \in 1..m
                 PROVE  /\ a + (i - 1) \in 1..n /\ p[i] = One(a + (i - 1)) /\ p[i] \in c
                        /\ p[i].from = a + (i - 1) /\ p[i].to = a + (i - 1)
    OBVIOUS
  <2>2. PICK k \in 1..n : k = a + (i - 1) /\ a <= k /\ k <= e
    BY <1>2, <1>3 DEF Spanned
  <2>3. p[i] = One(k)
    BY <1>4, <2>2
  <2>4. One(k) \in c /\ One(k).from = k /\ One(k).to = k
    BY <1>1, <1>2, <2>2, OneFacts DEF Spanned
  <2> QED
    BY <2>2, <2>3, <2>4
<1>6. p \in Seq(c) /\ Len(p) = m
  <2>1. p \in [1..m -> c]
    BY <1>4, <1>5
  <2>2. m \in Nat
    BY <1>3
  <2> QED
    BY <2>1, <2>2
<1>7. Chained(p)
  BY <1>3, <1>5, <1>6 DEF Chained
<1>8. 1 \in 1..m /\ m \in 1..m /\ a + (1 - 1) = a /\ a + (m - 1) = e
  BY <1>3
<1>9. p # <<>> /\ p[1] = One(a) /\ p[Len(p)].to = PosLast(c) /\ One(a) \in c
  <2>1. p[1] = One(a) /\ One(a) \in c
    BY <1>5, <1>8
  <2>2. p[m].to = e
    BY <1>5, <1>8
  <2> QED
    BY <1>2, <1>6, <2>1, <2>2 DEF Spanned
<1>10. p \in Ways(c, One(a), PosLast(c))
  BY <1>6, <1>7, <1>9 DEF Ways
<1>11. One(a) \in {f \in c : f.from = Foremost(c).from}
  BY <1>2, <1>9 DEF Spanned
<1>12. Paths(c) = UNION {Ways(c, h, PosLast(c)) : h \in {f \in c : f.from = Foremost(c).from}}
  BY <1>1, PathsAreWays
<1>13. p \in Paths(c)
  BY <1>10, <1>11, <1>12
<1> QED
  BY <1>13

(* Any way through it spells the stretch.                                  *)
LEMMA PathSpells ==
  ASSUME NEW A, NEW t \in Texts, t \in Seq(A), EachAWord(t), NEW c \in Clusters(t), NEW p \in Paths(c),
         NEW a \in 1..Len(t), NEW e \in 1..Len(t), Spanned(t, c, a, e)
  PROVE  p \in Seq(c) /\ p \in Seq(Fits(t)) /\ p # <<>> /\ Cut(t, p) = SubSeq(t, a, e)
<1>1. PICK n \in Nat : n = Len(t) /\ Laid(c, n)
  BY ClusterPlace
<1>2. c \subseteq Fits(t)
  BY KnownCluster
<1>3. /\ p \in Seq(c) /\ Len(p) \in Nat \ {0} /\ Chained(p)
      /\ p[1].from = Foremost(c).from /\ p[Len(p)].to = PosLast(c)
  BY <1>1, PathFacts
<1>4. p \in Seq(Fits(t)) /\ p # <<>>
  BY <1>2, <1>3
<1>5. p[1].from = a /\ p[Len(p)].to = e
  BY <1>1, <1>3, OneFacts DEF Spanned
<1> QED
  BY <1>3, <1>4, <1>5, CutChained

-----------------------------------------------------------------------------
(* Every path has a cost, and one of them the least                        *)

Priced ==
  /\ \A w : Pred(Worker, WordDb, w) \in 0..Unit
  /\ kind = "cn" => /\ RareCost \in Nat
                    /\ \A w : Pred(Worker, PhraseDb, w) \in 0..Unit

LEMMA Quotient ==
  ASSUME NEW m \in Nat, NEW n \in Nat, n > 0
  PROVE  m \div n \in Nat
OBVIOUS

LEMMA Product ==
  ASSUME NEW m \in Nat, NEW n \in Nat
  PROVE  m * n \in Nat
OBVIOUS

LEMMA InverseNatural ==
  ASSUME NEW w \in 1..Unit
  PROVE  Inv[w] \in 1..MissInv /\ Inv[w] \in Nat /\ MissInv \in Nat \ {0}
<1>1. Inv[w] \in 1..MissInv /\ MissInv \in Nat \ {0}
  BY PhoenixAssumption
<1> QED
  BY <1>1

(* The length of the shortest word of a stretch.                           *)
Least(t) == Min({Size(g) : g \in RawRank(t)})

LEMMA LeastFacts ==
  ASSUME NEW t \in Texts, RawRank(t) # {}
  PROVE  /\ Least(t) \in 1..gWordLength
         /\ \A h \in RawRank(t) : Size(h) \in 1..gWordLength /\ Least(t) <= Size(h)
<1>1. \A g \in RawRank(t) : Size(g) \in 1..gWordLength
  <2>1. SUFFICES ASSUME NEW g \in RawRank(t) PROVE Size(g) \in 1..gWordLength
    OBVIOUS
  <2>2. g.from \in Nat /\ g.to \in Nat /\ g.from <= g.to /\ Size(g) <= gWordLength
    BY RawRankLaid DEF RawRank, Laid, Spans
  <2> QED
    BY <2>2, PhoenixAssumption DEF Size
<1> DEFINE Sizes == {Size(g) : g \in RawRank(t)}
<1>2. Sizes \subseteq 1..gWordLength /\ Sizes # {}
  BY <1>1
<1>3. Sizes \subseteq Nat
  BY <1>2
<1>4. PICK n \in Sizes : \A m \in Sizes : n <= m
  <2> HIDE DEF Sizes
  <2> QED
    BY <1>2, <1>3, LeastNatural
<1>5. Min(Sizes) \in Sizes /\ \A m \in Sizes : Min(Sizes) <= m
  <2> HIDE DEF Sizes
  <2> QED
    BY <1>4 DEF Min
<1>6. Least(t) \in Sizes /\ \A m \in Sizes : Least(t) <= m
  BY <1>5 DEF Least
<1> QED
  BY <1>1, <1>2, <1>6

(* What a word, or a gap no longer than one, costs.                        *)
LEMMA WordCostNatural ==
  ASSUME NEW t \in Texts, Priced, RawRank(t) # {}, NEW h, Size(h) \in 1..gWordLength
  PROVE  /\ WordCost(t, h) \in Nat \ {0}
         /\ h \in RawRank(t) =>
              /\ Pred(Worker, WordDb, WordAt(t, h)) \in 1..Unit
              /\ WordCost(t, h) = Inv[Pred(Worker, WordDb, WordAt(t, h))] * InvGain[Least(t)][Size(h)]
         /\ h \notin RawRank(t) => WordCost(t, h) = MissInv * InvGain[Least(t)][Size(h)]
<1>1. Least(t) \in 1..gWordLength
  BY LeastFacts
<1>2. PICK factor \in Nat \ {0} : factor = InvGain[Least(t)][Size(h)]
  BY <1>1, PhoenixAssumption
<1>3. PICK price : price = IF h \in RawRank(t) THEN Inv[Pred(Worker, WordDb, WordAt(t, h))] ELSE MissInv
  OBVIOUS
<1>4. h \in RawRank(t) => Pred(Worker, WordDb, WordAt(t, h)) \in 1..Unit
  <2>1. SUFFICES ASSUME h \in RawRank(t) PROVE Pred(Worker, WordDb, WordAt(t, h)) \in 1..Unit
    OBVIOUS
  <2>2. PICK pred \in 0..Unit : pred = Pred(Worker, WordDb, WordAt(t, h))
    BY DEF Priced
  <2>3. pred > 0
    BY <2>1, <2>2 DEF RawRank
  <2> QED
    BY <2>2, <2>3
<1>5. price \in Nat \ {0}
  <2>1. MissInv \in Nat \ {0}
    BY PhoenixAssumption
  <2>2. h \in RawRank(t) => Inv[Pred(Worker, WordDb, WordAt(t, h))] \in Nat \ {0}
    BY <1>4, InverseNatural
  <2> QED
    BY <1>3, <2>1, <2>2
<1>6. WordCost(t, h) = price * factor
  BY <1>2, <1>3 DEF WordCost, Least
<1>7. price * factor \in Nat \ {0}
  BY <1>2, <1>5
<1> QED
  BY <1>2, <1>3, <1>4, <1>6, <1>7

LEMMA PhraseNatural ==
  ASSUME Priced, kind = "cn", NEW t, NEW g, NEW h
  PROVE  PhraseCost(t, g, h) \in Nat /\ (RareCost # 0 => PhraseCost(t, g, h) # 0)
<1>1. PICK rare \in Nat : rare = RareCost
  BY DEF Priced
<1>2. PICK pred \in 0..Unit : pred = Pred(Worker, PhraseDb, WordAt(t, g) \o <<Dash>> \o WordAt(t, h))
  BY DEF Priced
<1>3. PhraseCost(t, g, h) = IF pred > 0 THEN Inv[pred] ELSE rare
  BY <1>1, <1>2 DEF PhraseCost
<1>4. CASE pred > 0
  <2>1. pred \in 1..Unit
    BY <1>2, <1>4
  <2>2. PICK inverse : inverse = Inv[pred] /\ inverse \in 1..MissInv /\ inverse \in Nat
    BY <2>1, InverseNatural
  <2> QED
    BY <1>3, <1>4, <2>2
<1>5. CASE ~(pred > 0)
  BY <1>1, <1>3, <1>5
<1> QED
  BY <1>4, <1>5

EdgeCost(t, p, i) ==
  IF kind = "cn"
  THEN WordCost(t, p[i]) * (IF i = Len(p) THEN RareCost ELSE PhraseCost(t, p[i], p[i + 1]))
  ELSE IF i = Len(p) THEN 0 ELSE WordCost(t, p[i])

FirstCost(t, p) == IF kind = "cn" THEN 0 ELSE WordCost(t, p[1])

Costs(t, p, w) ==
  [i \in 0..Len(p) |-> IF i = 0 THEN (IF kind = "cn" THEN 0 ELSE WordCost(t, p[1]))
                       ELSE w[i - 1] + EdgeCost(t, p, i)]

Short(c) == \A h \in c : Size(h) \in 1..gWordLength

LEMMA EdgeNatural ==
  ASSUME NEW t \in Texts, Priced, RawRank(t) # {}, NEW c, Short(c), NEW p \in Seq(c), NEW i \in 1..Len(p)
  PROVE  EdgeCost(t, p, i) \in Nat
<1>1. Size(p[i]) \in 1..gWordLength
  BY ElementOfSeq DEF Short
<1>2. PICK word \in Nat : word = WordCost(t, p[i])
  BY <1>1, WordCostNatural
<1>3. CASE kind # "cn"
  BY <1>2, <1>3 DEF EdgeCost
<1>4. CASE kind = "cn"
  <2>1. RareCost \in Nat /\ PhraseCost(t, p[i], p[i + 1]) \in Nat
    BY <1>4, PhraseNatural DEF Priced
  <2>2. PICK phrase \in Nat : phrase = IF i = Len(p) THEN RareCost ELSE PhraseCost(t, p[i], p[i + 1])
    BY <2>1
  <2>3. EdgeCost(t, p, i) = word * phrase
    BY <1>2, <1>4, <2>2 DEF EdgeCost
  <2> QED
    BY <2>3, Product
<1> QED
  BY <1>3, <1>4

(* The cost of a path is that of its start and, one after the other, of    *)
(* its edges.                                                              *)
LEMMA PathCostUnfolds ==
  ASSUME NEW t \in Texts, Priced, RawRank(t) # {}, NEW c, Short(c), NEW p \in Seq(c), p # <<>>
  PROVE  /\ FirstCost(t, p) \in Nat
         /\ \E v : /\ PathCost(t, p) = v[Len(p)]
                   /\ v[0] = FirstCost(t, p)
                   /\ \A i \in 1..Len(p) : v[i] = v[i - 1] + EdgeCost(t, p, i)
<1>1. PICK n \in Nat : n = Len(p) /\ 1 \in 1..Len(p)
  BY EmptySeq, LenProperties
<1>2. PICK first \in Nat : first = FirstCost(t, p)
  <2>1. Size(p[1]) \in 1..gWordLength
    BY <1>1, ElementOfSeq DEF Short
  <2>2. WordCost(t, p[1]) \in Nat
    BY <2>1, WordCostNatural
  <2> QED
    BY <2>2 DEF FirstCost
<1>3. PICK f : f = [i \in 1..n |-> EdgeCost(t, p, i)]
  OBVIOUS
<1>4. \A i \in 1..n : f[i] = EdgeCost(t, p, i) /\ f[i] \in Nat
  BY <1>1, <1>3, EdgeNatural
<1>5. PICK v : v = Costs(t, p, v) /\ PathCost(t, p) = v[n]
  <2>1. PICK G : G = [i \in 1..n |-> [s \in Nat |-> s + f[i]]]
    OBVIOUS
  <2>2. \A s \in Nat, i \in 1..n : G[i][s] = s + f[i]
    BY <2>1
  <2>3. Closed(Nat, G, n)
    BY <1>4, <2>2, SMTT(60) DEF Closed
  <2>4. PICK u \in [0..n -> Nat] : Unfolds(u, first, G, n)
    BY <2>3, Recursion
  <2>5. ASSUME NEW k \in 0..n
        PROVE  u[k] = IF k = 0 THEN FirstCost(t, p) ELSE u[k - 1] + EdgeCost(t, p, k)
    <3>1. CASE k = 0
      BY <1>2, <2>4, <3>1 DEF Unfolds
    <3>2. CASE k # 0
      <4>1. k \in 1..n /\ k - 1 \in 0..n
        BY <3>2
      <4>2. u[k - 1] \in Nat
        BY <2>4, <4>1
      <4>3. u[k] = G[k][u[k - 1]]
        BY <2>4, <4>1 DEF Unfolds
      <4> QED
        BY <1>4, <2>2, <3>2, <4>1, <4>2, <4>3
    <3> QED
      BY <3>1, <3>2
  <2>6. u = Costs(t, p, u)
    BY <1>1, <2>4, <2>5 DEF Costs, FirstCost
  <2> DEFINE w == CHOOSE x : x = Costs(t, p, x)
  <2>7. w = Costs(t, p, w)
    BY <2>6
  <2>8. PathCost(t, p) = w[n]
    BY <1>1 DEF PathCost, Costs, EdgeCost
  <2> QED
    BY <2>7, <2>8
<1>6. v[0] = first /\ \A i \in 1..n : v[i] = v[i - 1] + EdgeCost(t, p, i)
  <2>1. \A k \in 0..n : v[k] = IF k = 0 THEN FirstCost(t, p) ELSE v[k - 1] + EdgeCost(t, p, k)
    BY <1>1, <1>5 DEF Costs, FirstCost
  <2>2. \A i \in 1..n : i \in 0..n /\ i # 0
    OBVIOUS
  <2> QED
    BY <1>2, <2>1, <2>2
<1> QED
  BY <1>1, <1>2, <1>5, <1>6

(* So it is a number, no less than what the start, the first edge and the  *)
(* last one cost.                                                          *)
LEMMA PathCostFacts ==
  ASSUME NEW t \in Texts, Priced, RawRank(t) # {}, NEW c, Short(c), NEW p \in Seq(c), p # <<>>
  PROVE  /\ PathCost(t, p) \in Nat
         /\ Len(p) = 1 => PathCost(t, p) = FirstCost(t, p) + EdgeCost(t, p, 1)
         /\ Len(p) > 1 => FirstCost(t, p) + EdgeCost(t, p, 1) + EdgeCost(t, p, Len(p)) <= PathCost(t, p)
<1>1. PICK n \in Nat \ {0} : n = Len(p)
  BY EmptySeq, LenProperties
<1>2. PICK v : /\ PathCost(t, p) = v[n] /\ v[0] = FirstCost(t, p)
               /\ \A i \in 1..n : v[i] = v[i - 1] + EdgeCost(t, p, i)
  BY <1>1, PathCostUnfolds
<1>3. PICK f : f = [i \in 1..n |-> EdgeCost(t, p, i)]
  OBVIOUS
<1>4. \A i \in 1..n : f[i] = EdgeCost(t, p, i) /\ f[i] \in Nat
  BY <1>1, <1>3, EdgeNatural
<1>5. PICK first \in Nat : first = FirstCost(t, p)
  BY PathCostUnfolds
<1>6. v[1] = first + f[1] /\ \A i \in 1..n : v[i] = v[i - 1] + f[i]
  <2>1. 1 \in 1..n /\ 1 - 1 = 0
    BY <1>1
  <2> QED
    BY <1>2, <1>4, <1>5, <2>1
<1> DEFINE P == {m \in Nat \ {0} : m <= n => v[m] \in Nat /\ v[1] <= v[m]}
<1>7. 1 \in P
  BY <1>1, <1>4, <1>5, <1>6
<1>8. ASSUME NEW m \in Nat \ {0}, m \in P PROVE m + 1 \in P
  <2> SUFFICES ASSUME m + 1 <= n PROVE v[m + 1] \in Nat /\ v[1] <= v[m + 1]
    OBVIOUS
  <2>1. m + 1 \in 1..n /\ 1 \in 1..n /\ (m + 1) - 1 = m /\ v[m] \in Nat /\ v[1] <= v[m]
    BY <1>8
  <2>2. v[m + 1] = v[m] + f[m + 1] /\ f[m + 1] \in Nat /\ v[1] \in Nat
    BY <1>4, <1>5, <1>6, <2>1
  <2> QED
    BY <2>1, <2>2
<1>9. \A m \in Nat \ {0} : m \in P
  <2> HIDE DEF P
  <2> QED
    BY <1>7, <1>8, Induction
<1>10. v[n] \in Nat
  BY <1>9
<1>11. CASE n = 1
  BY <1>1, <1>2, <1>4, <1>5, <1>6, <1>10, <1>11
<1>12. CASE n # 1
  <2>1. n - 1 \in Nat \ {0} /\ n \in 1..n /\ 1 \in 1..n
    BY <1>12
  <2>2. v[n - 1] \in Nat /\ v[1] <= v[n - 1]
    BY <1>9, <2>1
  <2>3. v[n] = v[n - 1] + f[n]
    BY <1>6, <2>1
  <2>4. f[1] = EdgeCost(t, p, 1) /\ f[n] = EdgeCost(t, p, n) /\ f[1] \in Nat /\ f[n] \in Nat
    BY <1>4, <2>1
  <2>5. first + f[1] + f[n] <= v[n]
    BY <1>6, <2>2, <2>3, <2>4
  <2> QED
    BY <1>1, <1>2, <1>5, <1>10, <1>12, <2>4, <2>5
<1> QED
  BY <1>11, <1>12

(* So the cluster of a known text has a best path.                         *)
LEMMA BestExists ==
  ASSUME NEW t \in Texts, EachAWord(t), Priced, NEW c \in Clusters(t)
  PROVE  BestPaths(t, c) # {}
<1>1. Laid(c, Len(t)) /\ Len(t) \in Nat /\ c \subseteq RawRank(t)
  BY ClusterPlace, KnownHints
<1>2. PICK all : all = Paths(c)
  OBVIOUS
<1>3. \A p \in all : PathCost(t, p) \in Nat
  <2>1. SUFFICES ASSUME NEW p \in all PROVE PathCost(t, p) \in Nat
    OBVIOUS
  <2>2. p \in Seq(c) /\ Len(p) \in Nat \ {0}
    BY <1>1, <1>2, PathFacts
  <2>3. p \in Seq(RawRank(t)) /\ p # <<>> /\ RawRank(t) # {}
    <3>1. p[1] \in c
      BY <2>2
    <3> QED
      BY <1>1, <2>2, <3>1
  <2>4. Short(RawRank(t))
    BY <2>3, LeastFacts DEF Short
  <2> QED
    BY <2>3, <2>4, PathCostFacts
<1>4. all # {}
  BY <1>2, KnownPath
<1>5. PICK p \in all : \A q \in all : PathCost(t, p) <= PathCost(t, q)
  <2> DEFINE T == {PathCost(t, p) : p \in all}
  <2>1. T \subseteq Nat /\ T # {}
    BY <1>3, <1>4
  <2>2. PICK m \in T : \A k \in T : m <= k
    <3> HIDE DEF T
    <3> QED
      BY <2>1, LeastNatural
  <2> QED
    BY <2>2
<1>6. ~(kind = "cn" /\ RareCost = None)
  BY PhoenixAssumption DEF Priced
<1>7. BestPaths(t, c) = {r \in all : \A q \in all : PathCost(t, r) <= PathCost(t, q)}
  BY <1>2, <1>6 DEF BestPaths
<1> QED
  BY <1>5, <1>7

-----------------------------------------------------------------------------
(* The weights of a worker that could load                                 *)

LEMMA GreatestNatural ==
  ASSUME NEW S, S \subseteq Nat, S # {}, IsFiniteSet(S)
  PROVE  \E r \in S : \A s \in S : s <= r
<1> DEFINE Topped(T) == \E r \in T : \A s \in T : s <= r
           P == {n \in Nat : \A T \in SUBSET Nat :
                   IsFiniteSet(T) /\ Cardinality(T) = n /\ T # {} => Topped(T)}
<1>1. 0 \in P
  BY FS_EmptySet
<1>2. ASSUME NEW n \in Nat, n \in P PROVE n + 1 \in P
  <2> SUFFICES ASSUME NEW T \in SUBSET Nat, IsFiniteSet(T), Cardinality(T) = n + 1, T # {}
               PROVE  Topped(T)
    OBVIOUS
  <2>1. PICK x \in T : x \in Nat
    OBVIOUS
  <2>2. PICK U : U = T \ {x}
    OBVIOUS
  <2>3. IsFiniteSet(U) /\ Cardinality(U) = n /\ U \in SUBSET Nat
    <3>1. IsFiniteSet(T \ {x}) /\ Cardinality(T \ {x}) = Cardinality(T) - 1
      BY FS_RemoveElement
    <3> QED
      BY <2>2, <3>1
  <2>4. CASE U = {}
    BY <2>1, <2>2, <2>4
  <2>5. CASE U # {}
    <3>1. PICK r \in U : \A s \in U : s <= r
      BY <1>2, <2>3, <2>5
    <3>2. r \in Nat /\ r \in T /\ \A s \in T : s = x \/ s \in U
      BY <2>2
    <3>3. CASE x <= r
      BY <3>1, <3>2, <3>3
    <3>4. CASE r < x
      <4>1. \A s \in T : s <= x
        BY <2>1, <3>1, <3>2, <3>4
      <4> QED
        BY <2>1, <4>1
    <3> QED
      BY <2>1, <3>2, <3>3, <3>4
  <2> QED
    BY <2>4, <2>5
<1>3. \A n \in Nat : n \in P
  <2> HIDE DEF P
  <2> QED
    BY <1>1, <1>2, InductionFromZero
<1>4. PICK n \in Nat : n = Cardinality(S)
  BY FS_CardinalityType
<1> QED
  BY <1>3, <1>4

(* The counts are those of a master an operator put in place.              *)
Counted == \A d \in DbSet : \E m \in Masters : master[d] = m[d]

LEMMA InitCounted == Init => Counted
BY DEF Init, DictInit, Counted

LEMMA StepCounted ==
  ASSUME IInv, Counted, [Next]_vars
  PROVE  Counted'
<1>1. CASE \E d \in DbSet, m \in Masters : Deploy(d, m)
  <2>1. PICK d \in DbSet, m \in Masters : master' = [master EXCEPT ![d] = m[d]]
    BY <1>1 DEF Deploy
  <2>2. DOMAIN master = DbSet
    BY DEF IInv, DictInv, Located
  <2> QED
    BY <2>1, <2>2 DEF Counted
<1>2. CASE ~\E d \in DbSet, m \in Masters : Deploy(d, m)
  <2>1. master' = master
    BY <1>2 DEF Next, Start, Load, OpenMaster, TakeCast, CreateCast, PutCast, CastEnd, Ends, Quit, Crash,
       LearnNothing, Read, Pick, JointPair, Answer, AnswerNothing, CommitArticle, disk, dictVars, vars
  <2> QED
    BY <2>1 DEF Counted
<1> QED
  BY <1>1, <1>2

LEMMA CountFacts ==
  ASSUME Counted, NEW d \in DbSet
  PROVE  /\ \A k \in DOMAIN master[d] : master[d][k] \in Nat \ {0}
         /\ DOMAIN master[d] # {} => TopRank(master[d]) \in Nat \ {0}
         /\ \A k \in DOMAIN master[d] : master[d][k] <= TopRank(master[d])
<1>1. PICK m \in Masters : master[d] = m[d]
  BY DEF Counted
<1>2. DOMAIN m[d] \subseteq Keys /\ \A k \in DOMAIN m[d] : m[d][k] \in Nat \ {0}
  BY DictAssumption
<1> DEFINE ranks == {master[d][k] : k \in DOMAIN master[d]}
<1>3. ranks \subseteq Nat /\ 0 \notin ranks
  BY <1>1, <1>2
<1>4. IsFiniteSet(ranks)
  <2>1. IsFiniteSet(DOMAIN master[d])
    BY <1>1, <1>2, DictAssumption, FS_Subset
  <2>2. PICK f : f = [k \in DOMAIN master[d] |-> master[d][k]]
    OBVIOUS
  <2>3. f \in Surjection(DOMAIN master[d], ranks)
    BY <2>2 DEF Surjection
  <2> HIDE DEF ranks
  <2> QED
    BY <2>1, <2>3, FS_Surjection DEF ExistsSurjection
<1>5. ASSUME DOMAIN master[d] # {}
      PROVE  TopRank(master[d]) \in Nat \ {0} /\ \A s \in ranks : s <= TopRank(master[d])
  <2>1. ranks # {}
    BY <1>5
  <2>2. PICK r \in ranks : \A s \in ranks : s <= r
    <3> HIDE DEF ranks
    <3> QED
      BY <1>3, <1>4, <2>1, GreatestNatural
  <2>3. TopRank(master[d]) \in ranks /\ \A s \in ranks : s <= TopRank(master[d])
    BY <2>2 DEF TopRank
  <2> HIDE DEF ranks
  <2> QED
    BY <1>3, <2>3
<1> QED
  BY <1>1, <1>2, <1>5

LEMMA QuotientBound ==
  ASSUME NEW m \in Nat, NEW n \in Nat \ {0}, NEW u \in Nat, m <= u * n
  PROVE  m \div n <= u
OBVIOUS

LEMMA QuotientLow ==
  ASSUME NEW m \in Nat, NEW n \in Nat \ {0}
  PROVE  (m \div n) * n <= m
OBVIOUS

LEMMA WholeQuotient ==
  ASSUME NEW u \in Nat, NEW n \in Nat \ {0}
  PROVE  (u * n) % n = 0
OBVIOUS

(* A weight is at most 1, which is that of the word counted most often.    *)
LEMMA WeightBound ==
  ASSUME NEW top \in Nat \ {0}, NEW count \in 1..top
  PROVE  CastWeight(count, top) \in 0..Unit
<1>1. PICK one \in Nat : one = Unit
  BY DictAssumption
<1>2. PICK all \in Nat : all = count * one
  BY <1>1, Product
<1>3. PICK units \in Nat : units = all \div top
  BY <1>2, Quotient
<1>4. PICK rest : rest = all % top
  OBVIOUS
<1>5. all <= one * top
  <2>1. top - count \in Nat /\ (top - count) * one \in Nat
    OBVIOUS
  <2>2. (top - count) * one = one * top - count * one
    OBVIOUS
  <2> QED
    BY <1>2, <2>1, <2>2
<1>6. units <= one
  BY <1>3, <1>5, QuotientBound
<1>7. ASSUME units = one PROVE rest = 0
  <2>1. units * top <= all
    BY <1>3, QuotientLow
  <2>2. one * top \in Nat
    OBVIOUS
  <2>3. all = one * top
    BY <1>5, <1>7, <2>1, <2>2
  <2> QED
    BY <1>4, <2>3, WholeQuotient
<1>8. CastWeight(count, top) = IF 2 * rest > top \/ (2 * rest = top /\ units % 2 = 1) THEN units + 1 ELSE units
  BY <1>1, <1>2, <1>3, <1>4 DEF CastWeight
<1>9. CASE units = one
  BY <1>1, <1>7, <1>8, <1>9
<1>10. CASE units # one
  BY <1>1, <1>6, <1>8, <1>10
<1> QED
  BY <1>9, <1>10

(* So are the weights of every cast, finished or not, of whatever master.  *)
Rated == \A d \in DbSet : \A k \in DOMAIN cast[d] : cast[d][k] \in 0..Unit

LEMMA InitRated == Init => Rated
BY DEF Init, DictInit, Rated

LEMMA StepRated ==
  ASSUME IInv, Counted, Rated, [Next]_vars
  PROVE  Rated'
<1>1. CASE \E p \in Procs : PutCast(p)
  <2>1. PICK p \in Procs : PutCast(p)
    BY <1>1
  <2>2. PICK d \in DbSet : d = Dbs[at[p]]
    BY <2>1, DbsFacts DEF PutCast, IInv, DictInv, Located
  <2>3. PICK k \in toPut[p] :
          cast' = [cast EXCEPT ![d] = [l \in DOMAIN @ \cup {k} |->
                     IF l = k THEN CastWeight(master[d][k], TopRank(master[d])) ELSE @[l]]]
    BY <2>1, <2>2 DEF PutCast
  <2>4. k \in DOMAIN master[d]
    BY <2>1, <2>2, <2>3 DEF PutCast, IInv, DictInv, Casting
  <2>5. /\ TopRank(master[d]) \in Nat \ {0}
        /\ master[d][k] \in 1..TopRank(master[d])
    <3>1. /\ master[d][k] \in Nat \ {0} /\ TopRank(master[d]) \in Nat \ {0}
          /\ master[d][k] <= TopRank(master[d])
      BY <2>4, CountFacts
    <3> QED
      BY <3>1
  <2>6. PICK weight \in 0..Unit : weight = CastWeight(master[d][k], TopRank(master[d]))
    BY <2>5, WeightBound
  <2>7. /\ cast'[d] = [l \in DOMAIN cast[d] \cup {k} |-> IF l = k THEN weight ELSE cast[d][l]]
        /\ \A e \in DbSet \ {d} : cast'[e] = cast[e]
    BY <2>3, <2>6 DEF IInv, DictInv, Located
  <2> QED
    BY <2>6, <2>7 DEF Rated
<1>2. CASE ~\E p \in Procs : PutCast(p)
  <2>1. cast' = cast
    BY <1>2 DEF Next, Start, Load, OpenMaster, TakeCast, CreateCast, CastEnd, Ends, Quit, Crash, Deploy, GoDown,
       LearnNothing, Read, Pick, JointPair, Answer, AnswerNothing, CommitArticle, disk, dictVars, vars
  <2> QED
    BY <2>1 DEF Rated
<1> QED
  BY <1>1, <1>2

LEMMA LoadedWeights ==
  ASSUME IInv, Counted, pc[Worker] = "loaded", NEW d \in DbSet, Intact(d)
  PROVE  /\ Holds(Worker, d) /\ DOMAIN cast[d] = DOMAIN master[d]
         /\ \A k \in DOMAIN cast[d] : /\ cast[d][k] = CastWeight(master[d][k], TopRank(master[d]))
                                      /\ cast[d][k] \in 0..Unit
<1>1. Holds(Worker, d)
  <2>1. at[Worker] = Len(Dbs) + 1
    BY WorkerIsProc DEF IInv, DictInv, Located
  <2>2. PICK i \in DOMAIN Dbs : Dbs[i] = d /\ i < Len(Dbs) + 1
    BY DbsFacts
  <2> QED
    BY <2>1, <2>2 DEF Holds
<1>2. /\ DOMAIN cast[d] = DOMAIN master[d]
      /\ \A k \in DOMAIN cast[d] : cast[d][k] = CastWeight(master[d][k], TopRank(master[d]))
  BY InvWhole, WorkerIsProc DEF WholeOrPrefix, Intact
<1>3. ASSUME NEW k \in DOMAIN cast[d] PROVE cast[d][k] \in 0..Unit
  <2>1. /\ master[d][k] \in Nat \ {0} /\ TopRank(master[d]) \in Nat \ {0}
        /\ master[d][k] <= TopRank(master[d])
    BY <1>2, <1>3, CountFacts
  <2>2. master[d][k] \in 1..TopRank(master[d])
    BY <2>1
  <2> QED
    BY <1>2, <1>3, <2>1, <2>2, WeightBound
<1> QED
  BY <1>1, <1>2, <1>3

(* What KnownTextWhole asks of the dictionaries.                           *)
Known(t) ==
  /\ pc[Worker] = "loaded"
  /\ Intact(WordDb) /\ Intact(PhraseDb)
  /\ \A i \in DOMAIN t : SurvivesCast(WordDb, <<t[i]>>)
  /\ kind = "cn" => \A k \in DOMAIN master[PhraseDb] : SurvivesCast(PhraseDb, k)

LEMMA KnownWords ==
  ASSUME IInv, Counted, NEW t \in Texts, Known(t)
  PROVE  EachAWord(t)
<1>1. WordDb \in DbSet /\ gWordLength \in Nat \ {0}
  BY PhoenixAssumption
<1>2. /\ Holds(Worker, WordDb) /\ DOMAIN cast[WordDb] = DOMAIN master[WordDb]
      /\ \A k \in DOMAIN cast[WordDb] :
           cast[WordDb][k] = CastWeight(master[WordDb][k], TopRank(master[WordDb]))
  BY <1>1, LoadedWeights DEF Known
<1>3. DOMAIN t = 1..Len(t) /\ Len(t) \in Nat
  BY RawRankLaid
<1>4. ASSUME NEW i \in 1..Len(t) PROVE One(i) \in RawRank(t)
  <2>1. One(i) \in Runs(t) /\ One(i).from = i /\ One(i).to = i /\ Size(One(i)) = 1
    BY <1>3 DEF One, Runs, Size
  <2>2. WordAt(t, One(i)) = <<t[i]>>
    <3>1. t \in Seq(Range(t))
      BY PhoenixAssumption
    <3>2. SubSeq(t, i, i) = <<t[i]>>
      BY <3>1, OnePart
    <3> QED
      BY <2>1, <3>2 DEF WordAt
  <2>3. <<t[i]>> \in DOMAIN master[WordDb]
        /\ CastWeight(master[WordDb][<<t[i]>>], TopRank(master[WordDb])) > 0
    BY <1>3 DEF Known, SurvivesCast
  <2>4. Pred(Worker, WordDb, WordAt(t, One(i))) > 0
    BY <1>2, <2>2, <2>3 DEF Pred
  <2>5. Size(One(i)) <= gWordLength
    BY <1>1, <2>1
  <2> QED
    BY <2>1, <2>4, <2>5 DEF RawRank
<1> QED
  BY <1>4 DEF EachAWord

(* The least weight is one of those there are.                             *)
LEMMA RareNatural ==
  ASSUME \A k \in DOMAIN cast[PhraseDb] : cast[PhraseDb][k] \in 0..Unit
  PROVE  /\ RareCost \in Nat \cup {None}
         /\ RareCost = None => \E k \in DOMAIN cast[PhraseDb] : cast[PhraseDb][k] = 0
<1>1. CASE ~HasRange(Worker, PhraseDb)
  BY <1>1, PhoenixAssumption DEF RareCost
<1>2. CASE HasRange(Worker, PhraseDb)
  <2> DEFINE T == {cast[PhraseDb][k] : k \in DOMAIN cast[PhraseDb]}
  <2>1. T \subseteq 0..Unit /\ T # {} /\ T \subseteq Nat
    BY <1>2 DEF HasRange
  <2>2. PICK m \in T : \A n \in T : m <= n
    <3> HIDE DEF T
    <3> QED
      BY <2>1, LeastNatural
  <2>3. \A k \in DOMAIN cast[PhraseDb] : m <= cast[PhraseDb][k]
    BY <2>2
  <2>4. RangeMin(PhraseDb) \in T
    BY <2>3 DEF RangeMin
  <2>5. PICK least \in 0..Unit : least = RangeMin(PhraseDb)
    <3> HIDE DEF T
    <3> QED
      BY <2>1, <2>4
  <2>6. CASE least = 0
    BY <1>2, <2>4, <2>5, <2>6 DEF RareCost
  <2>7. CASE least # 0
    <3>1. least \in 1..Unit
      BY <2>5, <2>7
    <3>2. Inv[least] \in Nat
      BY <3>1, InverseNatural
    <3> QED
      BY <1>2, <2>5, <2>7, <3>2, PhoenixAssumption DEF RareCost
  <2> QED
    BY <2>6, <2>7
<1> QED
  BY <1>1, <1>2

LEMMA KnownPriced ==
  ASSUME IInv, Counted, NEW t \in Texts, Known(t)
  PROVE  Priced
<1>1. WordDb \in DbSet /\ PhraseDb \in DbSet /\ Unit \in Nat
  BY PhoenixAssumption, DictAssumption
<1>2. \A k \in DOMAIN cast[WordDb] : cast[WordDb][k] \in 0..Unit
  BY <1>1, LoadedWeights DEF Known
<1>3. \A k \in DOMAIN cast[PhraseDb] : cast[PhraseDb][k] \in 0..Unit
  BY <1>1, LoadedWeights DEF Known
<1>4. 0 \in 0..Unit
  BY <1>1
<1>5. \A w : Pred(Worker, WordDb, w) \in 0..Unit /\ Pred(Worker, PhraseDb, w) \in 0..Unit
  BY <1>2, <1>3, <1>4 DEF Pred
<1>6. ASSUME kind = "cn" PROVE RareCost \in Nat
  <2>1. ASSUME NEW k \in DOMAIN cast[PhraseDb], cast[PhraseDb][k] = 0 PROVE FALSE
    <3>1. k \in DOMAIN master[PhraseDb]
          /\ cast[PhraseDb][k] = CastWeight(master[PhraseDb][k], TopRank(master[PhraseDb]))
      BY <1>1, LoadedWeights DEF Known
    <3> QED
      BY <1>6, <2>1, <3>1 DEF Known, SurvivesCast
  <2> QED
    BY <1>3, <2>1, RareNatural
<1> QED
  BY <1>5, <1>6 DEF Priced

-----------------------------------------------------------------------------
(* What the clusters of a known text seen so far spell                     *)

SpeltTo(t, seen, seq, e) ==
  /\ \A k \in 1..Len(t) : One(k) \in seen <=> k <= e
  /\ seq \in Seq(Fits(t))
  /\ SameLetters(Cut(t, seq), SubSeq(t, 1, e))
  /\ ~Ambiguous(t) => Cut(t, seq) = SubSeq(t, 1, e)

LEMMA BehindSeen ==
  ASSUME NEW t \in Texts, NEW D, ToCome(t, D), NEW c \in D, \A d \in D : ~Before(Foremost(d), Foremost(c)),
         NEW seq \in Seq(Seen(t, D)), NEW p \in Paths(c)
  PROVE  Behind(seq, p) /\ seq \in Seq(Spans) /\ p \in Seq(Spans) /\ Chained(p)
<1>1. PICK n \in Nat : n = Len(t)
  BY RawRankLaid
<1>2. PICK seen : seen = Seen(t, D)
  OBVIOUS
<1>3. PICK first : first = Foremost(c)
  OBVIOUS
<1>4. c \in Clusters(t) /\ Laid(Hints(t), n) /\ Laid(c, n) /\ first \in c /\ c \subseteq Hints(t)
  BY <1>1, <1>3, ClusterPlace DEF ToCome
<1>5. \A h \in seen : h \in Hints(t) /\ h.to < first.from
  BY <1>2, <1>3, SeenBefore
<1>6. p \in Seq(c) /\ Chained(p)
  BY <1>1, <1>4, PathFacts
<1>7. /\ c \subseteq Spans /\ seen \subseteq Spans
      /\ \A h \in Hints(t) : h.from \in Nat /\ h.to \in Nat /\ h.from <= h.to
  BY <1>4, <1>5 DEF Laid, Spans
<1>8. seq \in Seq(seen) /\ seq \in Seq(Spans) /\ p \in Seq(Spans)
  BY <1>2, <1>6, <1>7
<1>9. \A h \in c : first.from <= h.from
  BY <1>3, <1>4, <1>7, ForemostFacts
<1>10. Behind(seq, p)
  <2>1. SUFFICES ASSUME NEW k \in 1..Len(seq), NEW i \in 1..Len(p) PROVE seq[k].from <= p[i].from
    BY DEF Behind
  <2>2. PICK g \in seen : g = seq[k]
    BY <1>8
  <2>3. PICK h \in c : h = p[i]
    BY <1>6
  <2>4. g \in Hints(t) /\ h \in Hints(t) /\ first \in Hints(t) /\ g.to < first.from /\ first.from <= h.from
    BY <1>4, <1>5, <1>9
  <2>5. g.from <= h.from
    BY <1>7, <2>4
  <2> QED
    BY <2>2, <2>3, <2>5
<1> QED
  BY <1>6, <1>8, <1>10

(* What is found again in the cluster spells the same.                     *)
LEMMA FoundSpells ==
  ASSUME NEW t \in Texts, NEW c \in Clusters(t), NEW h \in c
  PROVE  Found(t, c, h) \in c /\ WordAt(t, Found(t, c, h)) = WordAt(t, h)
<1>1. CASE kind = "ja"
  <2>1. PICK G : G = {g \in c : WordAt(t, g) = WordAt(t, h)}
    OBVIOUS
  <2>2. G # {} /\ G \subseteq Spans
    BY <2>1, ClusterPlace DEF Laid
  <2>3. Foremost(G) \in G
    BY <2>2, ForemostFacts
  <2> QED
    BY <1>1, <2>1, <2>3 DEF Found
<1>2. CASE kind # "ja"
  BY <1>2 DEF Found
<1> QED
  BY <1>1, <1>2

LEMMA PathSpelt ==
  ASSUME NEW t \in Texts, EachAWord(t),
         NEW D, ToCome(t, D), NEW c \in D, \A d \in D : ~Before(Foremost(d), Foremost(c)),
         NEW seq, NEW e \in 0..Len(t), SpeltTo(t, Seen(t, D), seq, e),
         ~Ambiguous(t) => seq \in Seq(Seen(t, D)), NEW p \in Paths(c)
  PROVE  \E e2 \in 0..Len(t) : SpeltTo(t, Seen(t, D) \cup c, Selected(seq, t, c, p), e2)
<1>1. PICK n \in Nat : n = Len(t) /\ Laid(Hints(t), n)
  BY RawRankLaid, HintsLaid
<1>2. PICK A : t \in Seq(A)
  BY PhoenixAssumption
<1>3. c \in Clusters(t)
  BY DEF ToCome
<1>4. PICK a \in 1..n, b \in 1..n : Spanned(t, c, a, b)
  BY <1>1, <1>3, KnownCluster
<1>5. PICK seen : seen = Seen(t, D)
  OBVIOUS
<1>6. /\ \A h \in seen : h.to < a
      /\ \A f \in Hints(t) : f.from < a => f \in seen
  <2>1. Foremost(c).from = a
    BY <1>4, OneFacts DEF Spanned
  <2> QED
    BY <1>5, <2>1, SeenBefore
<1>7. \A k \in 1..n : One(k) \in Hints(t) /\ One(k).from = k /\ One(k).to = k
  BY <1>1, KnownHints, OneFacts DEF EachAWord
<1>8. \A k \in 1..n : One(k) \in seen <=> k < a
  BY <1>6, <1>7
<1>9. e = a - 1
  <2>1. \A k \in 1..n : One(k) \in seen <=> k <= e
    BY <1>1, <1>5 DEF SpeltTo
  <2>2. e \in 0..n
    BY <1>1
  <2>3. \A k \in 1..n : k < a <=> k <= e
    BY <1>8, <2>1
  <2>4. ~(a <= e)
    BY <2>3
  <2>5. CASE a = 1
    BY <2>2, <2>4, <2>5
  <2>6. CASE a # 1
    <3>1. a - 1 \in 1..n /\ a - 1 < a
      BY <2>6
    <3>2. a - 1 <= e
      BY <2>3, <3>1
    <3> QED
      BY <2>2, <2>4, <3>2
  <2> QED
    BY <2>5, <2>6
<1>10. ASSUME NEW k \in 1..n PROVE One(k) \in seen \cup c <=> k <= b
  <2>1. One(k) \in c <=> a <= k /\ k <= b
    BY <1>1, <1>4 DEF Spanned
  <2>2. a <= b
    BY <1>4 DEF Spanned
  <2> QED
    BY <1>8, <2>1, <2>2
<1>11. p \in Seq(c) /\ p \in Seq(Fits(t)) /\ Cut(t, p) = SubSeq(t, a, b) /\ c \subseteq Fits(t)
  <2>1. a \in 1..Len(t) /\ b \in 1..Len(t)
    BY <1>1
  <2> QED
    BY <1>2, <1>3, <1>4, <2>1, PathSpells, KnownCluster
<1>12. \A i \in 1..Len(p) : p[i] \in c
  BY <1>11, ElementOfSeq
<1>13. PICK got : got = Selected(seq, t, c, p)
  OBVIOUS
<1>14. seq \in Seq(Fits(t)) /\ SameLetters(Cut(t, seq), SubSeq(t, 1, e))
  BY DEF SpeltTo
<1>15. got \in Seq(Fits(t)) /\ SameLetters(Cut(t, got), Cut(t, seq) \o Cut(t, p))
  <2>1. \A i \in 1..Len(p) : Found(t, c, p[i]) \in Fits(t) /\ WordAt(t, Found(t, c, p[i])) = WordAt(t, p[i])
    BY <1>3, <1>11, <1>12, FoundSpells
  <2> QED
    BY <1>2, <1>11, <1>13, <1>14, <2>1, SelectedLetters
<1>16. SubSeq(t, 1, e) \o SubSeq(t, a, b) = SubSeq(t, 1, b)
  <2>1. 1 \in 1..Len(t) + 1 /\ e \in 1 - 1..Len(t) /\ b \in e..Len(t) /\ e + 1 = a
    BY <1>1, <1>4, <1>9 DEF Spanned
  <2>2. SubSeq(t, 1, e) \o SubSeq(t, e + 1, b) = SubSeq(t, 1, b)
    BY <1>2, <2>1, ConcatAdjacentSubSeq
  <2> QED
    BY <2>1, <2>2
<1>17. PICK before \in Seq(A), here \in Seq(A), u \in Seq(A) :
         before = SubSeq(t, 1, e) /\ here = SubSeq(t, a, b) /\ u = Cut(t, seq)
  <2>1. SubSeq(t, 1, e) \in Seq(A) /\ SubSeq(t, a, b) \in Seq(A)
    BY <1>1, <1>2
  <2>2. Cut(t, seq) \in Seq(A)
    BY <1>2, <1>14, CutType
  <2> QED
    BY <2>1, <2>2
<1>18. SameLetters(Cut(t, got), SubSeq(t, 1, b))
  <2>1. SameLetters(u, before) /\ SameLetters(here, here)
    BY <1>14, <1>17, LettersOrder
  <2>2. SameLetters(u \o here, before \o here)
    BY <2>1, LettersJoin
  <2>3. Cut(t, seq) \o Cut(t, p) = u \o here
    BY <1>11, <1>17
  <2>4. SubSeq(t, 1, b) = before \o here
    BY <1>16, <1>17
  <2> QED
    BY <1>15, <2>2, <2>3, <2>4, LettersOrder
<1>19. ASSUME ~Ambiguous(t) PROVE Cut(t, got) = SubSeq(t, 1, b)
  <2>1. Behind(seq, p) /\ seq \in Seq(Spans) /\ p \in Seq(Spans) /\ Chained(p)
    BY <1>19, BehindSeen
  <2>2. \A i \in 1..Len(p) : Found(t, c, p[i]) = p[i]
    BY <1>3, <1>12, <1>19, FoundItself
  <2>3. got = seq \o p
    BY <1>13, <2>1, <2>2, SelectedBehind
  <2>4. Cut(t, seq \o p) = Cut(t, seq) \o Cut(t, p)
    BY <1>2, <1>11, <1>14, CutJoin
  <2>5. Cut(t, seq) = SubSeq(t, 1, e)
    BY <1>19 DEF SpeltTo
  <2> QED
    BY <1>11, <1>16, <2>3, <2>4, <2>5
<1>20. SpeltTo(t, seen \cup c, got, b)
  BY <1>1, <1>10, <1>15, <1>18, <1>19 DEF SpeltTo
<1>21. b \in 0..Len(t)
  BY <1>1
<1> QED
  BY <1>5, <1>13, <1>20, <1>21

-----------------------------------------------------------------------------
(* Steps with a known text in hand                                         *)

(* What is selected of a known text are the words of its beginning.        *)
Spelt ==
  text # <<>> /\ Known(text) => \E e \in 0..Len(text) : SpeltTo(text, Seen(text, clusters), picked, e)

(* No step repairs a cast, and none replaces a master the worker holds.    *)
LEMMA KnownBefore ==
  ASSUME IInv, [Next]_vars, NEW t, pc'[Worker] = pc[Worker], kind' = kind
  PROVE  Known(t)' => Known(t)
<1> SUFFICES ASSUME Known(t)' PROVE Known(t)
  OBVIOUS
<1>1. pc[Worker] = "loaded"
  BY DEF Known
<1>2. interrupted \subseteq interrupted' /\ replaced \subseteq replaced'
  BY DEF Next, Start, Load, OpenMaster, TakeCast, CreateCast, PutCast, CastEnd, Ends, Quit, Crash, Deploy,
     LearnNothing, Read, Pick, JointPair, Answer, AnswerNothing, CommitArticle, history, dictVars, vars
<1>3. master' = master
  <2>1. ASSUME NEW d \in DbSet, NEW m \in Masters, Deploy(d, m) PROVE FALSE
    <3>1. at[Worker] = Len(Dbs) + 1
      BY <1>1, WorkerIsProc DEF IInv, DictInv, Located
    <3>2. PICK i \in DOMAIN Dbs : Dbs[i] = d /\ i < Len(Dbs) + 1
      BY DbsFacts
    <3>3. Holds(Worker, d)
      BY <1>1, <3>1, <3>2 DEF Holds
    <3> QED
      BY <2>1, <3>3, WorkerIsProc DEF Deploy
  <2> QED
    BY <2>1 DEF Next, Start, Load, OpenMaster, TakeCast, CreateCast, PutCast, CastEnd, Ends, Quit, Crash,
       LearnNothing, Read, Pick, JointPair, Answer, AnswerNothing, CommitArticle, disk, dictVars, vars
<1>4. \A d : Intact(d)' => Intact(d)
  BY <1>2 DEF Intact
<1>5. \A d, k : SurvivesCast(d, k)' <=> SurvivesCast(d, k)
  BY <1>3 DEF SurvivesCast
<1> QED
  BY <1>1, <1>3, <1>4, <1>5 DEF Known

LEMMA SpeltKept ==
  ASSUME IInv, Spelt, [Next]_vars, UNCHANGED segmenting, text # <<>> => SameWords
  PROVE  Spelt'
<1> SUFFICES ASSUME text # <<>>, Known(text)'
             PROVE  \E e \in 0..Len(text)' : SpeltTo(text, Seen(text, clusters), picked, e)'
  BY DEF Spelt, segmenting
<1>1. UNCHANGED <<text, clusters, picked>> /\ SameWords
  BY DEF segmenting
<1>2. PICK t : t = text
  OBVIOUS
<1>3. Clusters(t)' = Clusters(t) /\ (Ambiguous(t)' <=> Ambiguous(t))
  BY <1>1, HintsKept
<1>4. text' = t /\ clusters' = clusters /\ picked' = picked
  BY <1>1, <1>2
<1>5. Known(t)'
  BY <1>1, <1>2 DEF Known
<1>6. Known(t)
  BY <1>1, <1>5, KnownBefore DEF SameWords
<1>7. PICK e \in 0..Len(t) : SpeltTo(t, Seen(t, clusters), picked, e)
  BY <1>2, <1>6 DEF Spelt
<1>8. Seen(text, clusters)' = Seen(t, clusters)
  BY <1>3, <1>4 DEF Seen
<1>9. SpeltTo(text, Seen(text, clusters), picked, e)'
  BY <1>3, <1>4, <1>7, <1>8 DEF SpeltTo
<1> QED
  BY <1>4, <1>7, <1>9

LEMMA ReadSpelt ==
  ASSUME Tiling, NEW t \in Texts, Read(t)
  PROVE  Spelt'
<1>1. SameWords
  BY DEF Read, SameWords, dictVars, disk
<1>2. Clusters(t)' = Clusters(t)
  BY <1>1, HintsKept
<1>3. text' = t /\ clusters' = Clusters(t) /\ picked' = <<>>
  BY DEF Read, Tiling
<1>4. Seen(text, clusters)' = {}
  BY <1>2, <1>3 DEF Seen
<1>5. Len(t) \in Nat
  BY RawRankLaid
<1>6. SubSeq(t, 1, 0) = <<>> /\ <<>> \in Seq(Fits(t))
  OBVIOUS
<1>7. Cut(t, <<>>) = SubSeq(t, 1, 0)
  BY <1>6, CutEmpty
<1>8. \A k \in 1..Len(t) : ~(k <= 0)
  OBVIOUS
<1>9. SpeltTo(text, Seen(text, clusters), picked, 0)'
  BY <1>3, <1>4, <1>6, <1>7, <1>8, LettersOrder DEF SpeltTo
<1>10. 0 \in 0..Len(text)'
  BY <1>3, <1>5
<1> QED
  BY <1>9, <1>10 DEF Spelt

LEMMA PickSpelt ==
  ASSUME IInv, Counted, Tiling, Spelt, Pick
  PROVE  Spelt'
<1> SUFFICES ASSUME Known(text)'
             PROVE  \E e \in 0..Len(text)' : SpeltTo(text, Seen(text, clusters), picked, e)'
  BY DEF Spelt
<1>1. PICK c : c = NextCluster
  OBVIOUS
<1>2. PICK t : t = text
  OBVIOUS
<1>3. PICK D : D = clusters
  OBVIOUS
<1>4. PICK best : best = BestPaths(t, c)
  OBVIOUS
<1>5. /\ (best = {} /\ UNCHANGED picked) \/ \E p \in best : picked' = Selected(picked, t, c, p)
      /\ clusters' = D \ {c} /\ D # {} /\ text' = t
  BY <1>1, <1>2, <1>3, <1>4 DEF Pick
<1>6. SameWords
  BY DEF Pick, SameWords, dictVars, disk
<1>7. /\ t # <<>> /\ t \in Texts /\ ToCome(t, D)
      /\ ~Ambiguous(t) => picked \in Seq(Seen(t, D))
  BY <1>2, <1>3, <1>5 DEF Tiling, LaidOut
<1>8. c \in D /\ \A d \in D : ~Before(Foremost(d), Foremost(c))
  BY <1>1, <1>2, <1>3, <1>5, <1>7, NextClusterFacts
<1>9. Seen(t, D \ {c}) = Seen(t, D) \cup c /\ c \in Clusters(t)
  BY <1>7, <1>8, SeenBefore DEF ToCome
<1>10. Clusters(t)' = Clusters(t) /\ (Ambiguous(t)' <=> Ambiguous(t))
  BY <1>6, HintsKept
<1>11. Known(t)
  <2>1. Known(t)'
    BY <1>5 DEF Known
  <2> QED
    BY <1>6, <2>1, KnownBefore DEF Next, SameWords
<1>12. EachAWord(t) /\ Priced
  BY <1>7, <1>11, KnownWords, KnownPriced
<1>13. PICK p \in best : picked' = Selected(picked, t, c, p)
  BY <1>4, <1>5, <1>7, <1>9, <1>12, BestExists
<1>14. p \in Paths(c)
  <2>1. PICK all : all = Paths(c)
    OBVIOUS
  <2>2. BestPaths(t, c) \subseteq all
    BY <2>1 DEF BestPaths
  <2> QED
    BY <1>4, <1>13, <2>1, <2>2
<1>15. PICK e \in 0..Len(t) : SpeltTo(t, Seen(t, D), picked, e)
  BY <1>2, <1>3, <1>7, <1>11 DEF Spelt
<1>16. PICK seq : seq = picked
  OBVIOUS
<1>17. PICK e2 \in 0..Len(t) : SpeltTo(t, Seen(t, D) \cup c, Selected(seq, t, c, p), e2)
  BY <1>7, <1>8, <1>12, <1>14, <1>15, <1>16, PathSpelt
<1>18. Seen(text, clusters)' = Seen(t, D) \cup c
  BY <1>5, <1>9, <1>10 DEF Seen
<1>19. SpeltTo(text, Seen(text, clusters), picked, e2)'
  BY <1>5, <1>10, <1>13, <1>16, <1>17, <1>18 DEF SpeltTo
<1> QED
  BY <1>5, <1>17, <1>19

LEMMA StepSpelt ==
  ASSUME IInv, Counted, Tiling, Spelt, [Next]_vars
  PROVE  Spelt'
<1>1. ASSUME NEW p \in Procs, Start(p) \/ Load(p), UNCHANGED <<kind, segmenting>> PROVE Spelt'
  BY <1>1, OthersStep, SpeltKept
<1>2. ASSUME NEW d \in DbSet, NEW m \in Masters, Deploy(d, m), UNCHANGED <<kind, segmenting>> PROVE Spelt'
  <2>1. SameWords
    BY <1>2 DEF Deploy, SameWords
  <2> QED
    BY <1>2, <2>1, SpeltKept
<1>3. ASSUME NEW p \in Procs, Ends(p) PROVE Spelt'
  <2>1. CASE p = Worker
    BY <1>3, <2>1 DEF Ends, Spelt
  <2>2. CASE p # Worker
    <3>1. UNCHANGED segmenting /\ kind' = kind /\ (Quit(p) \/ Crash(p))
      BY <1>3, <2>2 DEF Ends
    <3> QED
      BY <2>2, <3>1, OthersStep, SpeltKept
  <2> QED
    BY <2>1, <2>2
<1>4. ASSUME NEW t \in Texts, Read(t) PROVE Spelt'
  BY <1>4, ReadSpelt
<1>5. ASSUME Pick PROVE Spelt'
  BY <1>5, PickSpelt
<1>6. ASSUME JointPair \/ Answer \/ AnswerNothing PROVE Spelt'
  BY <1>6 DEF JointPair, Answer, AnswerNothing, SetDown, Spelt
<1>7. ASSUME UNCHANGED <<dictVars, kind, segmenting>> PROVE Spelt'
  <2>1. SameWords
    BY <1>7 DEF SameWords, dictVars, disk
  <2> QED
    BY <1>7, <2>1, SpeltKept
<1>8. \A t \in Texts : LearnNothing(t) => UNCHANGED <<dictVars, kind, segmenting>>
  BY DEF LearnNothing
<1>9. CommitArticle \/ UNCHANGED vars => UNCHANGED <<dictVars, kind, segmenting>>
  BY DEF CommitArticle, vars
<1> QED
  BY <1>1, <1>2, <1>3, <1>4, <1>5, <1>6, <1>7, <1>8, <1>9 DEF Next

LEMMA SpeltWhole ==
  ASSUME IInv, Counted, Tiling, Spelt
  PROVE  KnownTextWhole
<1> SUFFICES ASSUME Done, Known(text)
             PROVE  LET cut == Cut(text, picked)
                    IN IF Ambiguous(text)
                       THEN Len(cut) = Len(text) /\ \A c \in Range(text) : Times(c, cut) = Times(c, text)
                       ELSE cut = text
  BY DEF KnownTextWhole, Known, Cut, WordsOf, Times
<1>1. PICK t : t = text
  OBVIOUS
<1>2. t # <<>> /\ t \in Texts /\ clusters = {}
  BY <1>1 DEF Done, Tiling
<1>3. PICK n \in Nat : n = Len(t) /\ Laid(Hints(t), n)
  BY <1>2, RawRankLaid, HintsLaid
<1>4. PICK A : t \in Seq(A)
  BY <1>2, PhoenixAssumption
<1>5. n \in 1..n
  BY <1>2, <1>3, <1>4
<1>6. PICK e \in 0..n : SpeltTo(t, Seen(t, clusters), picked, e)
  BY <1>1, <1>2, <1>3 DEF Spelt
<1>7. One(n) \in Seen(t, clusters)
  <2>1. One(n) \in Hints(t)
    BY <1>1, <1>2, <1>3, <1>5, KnownWords, KnownHints DEF EachAWord
  <2>2. PICK h \in Hints(t) : Boundary(Hints(t), h) /\ One(n) \in ClusterOf(Hints(t), h)
    BY <1>3, <2>1, EveryHintClustered
  <2>3. ClusterOf(Hints(t), h) \in Clusters(t)
    BY <2>2 DEF Clusters
  <2> QED
    BY <1>2, <2>2, <2>3 DEF Seen
<1>8. e = n
  BY <1>3, <1>5, <1>6, <1>7 DEF SpeltTo
<1>9. SubSeq(t, 1, n) = t
  BY <1>3, <1>4
<1>10. SameLetters(Cut(t, picked), t) /\ (~Ambiguous(t) => Cut(t, picked) = t)
  BY <1>6, <1>8, <1>9 DEF SpeltTo
<1> QED
  BY <1>1, <1>10 DEF SameLetters

(* A stretch of known characters is selected whole by a worker that could  *)
(* load, whatever the weights of the words and the order in which programs *)
(* cast, die and are started again: every cluster has a best path, each    *)
(* path spells its stretch, and a word found again where another stands    *)
(* that reads the same takes or adds no letter.                            *)
THEOREM KnownTextIsWhole == Spec => []KnownTextWhole
<1>1. Init => IInv /\ Counted /\ Tiling /\ Spelt
  BY InitIInv, InitCounted DEF Init, Idle, Tiling, Spelt
<1>2. IInv /\ Counted /\ Tiling /\ Spelt /\ [Next]_vars => (IInv /\ Counted /\ Tiling /\ Spelt)'
  BY StepIInv, StepCounted, StepTiling, StepSpelt
<1>3. IInv /\ Counted /\ Tiling /\ Spelt => KnownTextWhole
  BY SpeltWhole
<1> QED
  BY <1>1, <1>2, <1>3, PTL DEF Spec

-----------------------------------------------------------------------------
(* A word that stays whole                                                 *)

Has(seq, h) == \E k \in 1..Len(seq) : seq[k] = h

(* Nothing selected is lost when a hint is put between.                    *)
LEMMA InsertKeeps ==
  ASSUME NEW T, NEW seq \in Seq(T), NEW h \in T
  PROVE  /\ Insert(seq, h) \in Seq(T)
         /\ Has(Insert(seq, h), h) /\ \A g \in T : Has(seq, g) => Has(Insert(seq, h), g)
<1>1. PICK n \in Nat : n = Len(seq) /\ DOMAIN seq = 1..n
  BY LenProperties
<1>2. PICK m \in 0..n : m = Cardinality({k \in DOMAIN seq : seq[k].from <= h.from})
  <2> DEFINE K == {k \in 1..n : seq[k].from <= h.from}
  <2>1. IsFiniteSet(1..n) /\ Cardinality(1..n) = n
    BY FS_Interval
  <2>2. K \subseteq 1..n
    OBVIOUS
  <2>3. IsFiniteSet(K) /\ Cardinality(K) <= n
    <3> HIDE DEF K
    <3> QED
      BY <2>1, <2>2, FS_Subset
  <2>4. Cardinality(K) \in Nat
    <3> HIDE DEF K
    <3> QED
      BY <2>3, FS_CardinalityType
  <2>5. Cardinality(K) \in 0..n
    <3> HIDE DEF K
    <3> QED
      BY <2>3, <2>4
  <2> QED
    BY <1>1, <2>5
<1>3. PICK a \in Seq(T), b \in Seq(T) :
        /\ a = SubSeq(seq, 1, m) /\ b = SubSeq(seq, m + 1, n)
        /\ Len(a) = m /\ Len(b) = n - m
        /\ \A k \in 1..m : a[k] = seq[k]
        /\ \A k \in 1..n - m : b[k] = seq[m + k]
  <2>1. m + 1 \in Int /\ n \in Int /\ m \in Nat /\ m <= n /\ n \in Nat /\ \A k \in m + 1..n : k \in 1..n
    <3>1. n \in Nat /\ m \in 0..n
      BY <1>1, <1>2
    <3> QED
      BY <3>1
  <2>2. \A k \in m + 1..n : seq[k] \in T
    BY <1>1, <2>1, ElementOfSeq
  <2>3. PICK b : b = SubSeq(seq, m + 1, n)
    OBVIOUS
  <2>4. /\ b \in Seq(T) /\ Len(b) = IF m + 1 <= n THEN n - (m + 1) + 1 ELSE 0
        /\ \A k \in 1..n - (m + 1) + 1 : b[k] = seq[m + 1 + k - 1]
    BY <2>1, <2>2, <2>3, SubSeqProperties
  <2>5. Len(b) = n - m /\ \A k \in 1..n - m : b[k] = seq[m + k]
    <3>1. n - (m + 1) + 1 = n - m /\ \A k \in 1..n - m : m + 1 + k - 1 = m + k
      BY <1>1, <2>1
    <3> QED
      BY <1>1, <2>1, <2>4, <3>1
  <2>6. PICK a : a = SubSeq(seq, 1, m)
    OBVIOUS
  <2>7. a \in Seq(T) /\ Len(a) = m /\ \A k \in 1..m : a[k] = seq[k]
    BY <1>1, <2>1, <2>6, PartFacts
  <2> QED
    BY <2>3, <2>4, <2>5, <2>6, <2>7
<1>4. Insert(seq, h) = (a \o <<h>>) \o b
  <2>1. (m + 1) - 1 = m
    OBVIOUS
  <2>2. Insert(seq, h) = InsertAt(seq, m + 1, h)
    BY <1>2 DEF Insert
  <2> QED
    BY <1>1, <1>3, <2>1, <2>2 DEF InsertAt
<1>5. PICK got \in Seq(T) :
        /\ got = (a \o <<h>>) \o b /\ Len(got) = n + 1
        /\ \A k \in 1..m : got[k] = a[k]
        /\ got[m + 1] = h
        /\ \A k \in 1..n - m : got[m + 1 + k] = b[k]
  <2>1. PICK one \in Seq(T) : one = <<h>> /\ Len(one) = 1 /\ one[1] = h
    <3>1. <<h>> \in Seq(T) /\ Len(<<h>>) = 1 /\ <<h>>[1] = h
      OBVIOUS
    <3> QED
      BY <3>1
  <2>2. PICK left : left = a \o one
    OBVIOUS
  <2>3. /\ left \in Seq(T) /\ Len(left) = Len(a) + Len(one)
        /\ \A k \in 1..Len(a) : left[k] = a[k]
        /\ \A k \in 1..Len(one) : left[Len(a) + k] = one[k]
    BY <2>2, JoinFacts, SMTT(60)
  <2>4. Len(left) = m + 1 /\ (\A k \in 1..m : left[k] = a[k]) /\ left[m + 1] = h
    BY <1>3, <2>1, <2>3
  <2>5. PICK got : got = left \o b
    OBVIOUS
  <2>6. /\ got \in Seq(T) /\ Len(got) = Len(left) + Len(b)
        /\ \A k \in 1..Len(left) : got[k] = left[k]
        /\ \A k \in 1..Len(b) : got[Len(left) + k] = b[k]
    <3>1. left \in Seq(T) /\ b \in Seq(T)
      BY <1>3, <2>3
    <3> QED
      BY <2>5, <3>1, JoinFacts
  <2>7. Len(got) = n + 1 /\ (\A k \in 1..m + 1 : got[k] = left[k]) /\ \A k \in 1..n - m : got[m + 1 + k] = b[k]
    <3>1. Len(left) = m + 1 /\ Len(b) = n - m /\ (m + 1) + (n - m) = n + 1
      BY <1>1, <1>2, <1>3, <2>4
    <3>2. Len(got) = n + 1
      BY ONLY <2>6, <3>1
    <3>3. \A k \in 1..m + 1 : got[k] = left[k]
      BY ONLY <2>6, <3>1
    <3>4. \A k \in 1..n - m : got[m + 1 + k] = b[k]
      BY ONLY <2>6, <3>1
    <3> QED
      BY ONLY <3>2, <3>3, <3>4
  <2>8. m + 1 \in 1..m + 1 /\ \A k \in 1..m : k \in 1..m + 1
    <3>1. m \in Nat
      BY <1>1, <1>2
    <3> QED
      BY <3>1
  <2>9. got[m + 1] = h /\ \A k \in 1..m : got[k] = a[k]
    BY <2>4, <2>7, <2>8
  <2>10. got = (a \o <<h>>) \o b
    BY <2>1, <2>2, <2>5
  <2> QED
    BY <2>6, <2>7, <2>9, <2>10
<1>6. Has(got, h)
  BY <1>5 DEF Has
<1>7. ASSUME NEW k \in 1..n PROVE Has(got, seq[k])
  <2>1. CASE k <= m
    BY <1>3, <1>5, <2>1 DEF Has
  <2>2. CASE m < k
    <3>1. PICK j \in 1..n - m : m + j = k /\ m + 1 + j \in 1..n + 1
      <4>1. k - m \in 1..n - m /\ m + (k - m) = k /\ m + 1 + (k - m) \in 1..n + 1
        BY <1>1, <1>2, <2>2
      <4> QED
        BY <4>1
    <3>2. got[m + 1 + j] = seq[k]
      BY <1>3, <1>5, <3>1
    <3> QED
      BY <1>5, <3>1, <3>2 DEF Has
  <2> QED
    BY <2>1, <2>2
<1>8. ASSUME NEW g \in T, Has(seq, g) PROVE Has(got, g)
  <2>1. PICK k \in 1..n : seq[k] = g
    BY <1>1, <1>8 DEF Has
  <2> QED
    BY <1>7, <2>1
<1>9. Insert(seq, h) = got
  BY ONLY <1>4, <1>5
<1> QED
  BY ONLY <1>5, <1>6, <1>8, <1>9

LEMMA SelectedUnfolds ==
  ASSUME NEW T, NEW seq \in Seq(T), NEW t, NEW c, NEW C, NEW p \in Seq(C),
         \A i \in 1..Len(p) : Found(t, c, p[i]) \in T
  PROVE  \E v : /\ Selected(seq, t, c, p) = v[Len(p)]
                /\ v[0] = seq
                /\ \A i \in 1..Len(p) : v[i] = Insert(v[i - 1], Found(t, c, p[i]))
<1>1. PICK n \in Nat : n = Len(p)
  BY LenProperties
<1>2. PICK S : S = Seq(T)
  OBVIOUS
<1>3. PICK f : f = [i \in 1..n |-> Found(t, c, p[i])]
  OBVIOUS
<1>4. \A i \in 1..n : f[i] = Found(t, c, p[i]) /\ f[i] \in T
  BY <1>1, <1>3
<1>5. PICK v : v = Selection(seq, t, c, p, v) /\ Selected(seq, t, c, p) = v[n]
  <2>1. PICK G : G = [i \in 1..n |-> [s \in S |-> Insert(s, f[i])]]
    OBVIOUS
  <2>2. \A s \in S, i \in 1..n : G[i][s] = Insert(s, f[i])
    BY <2>1
  <2>3. \A s \in S, i \in 1..n : G[i][s] \in S
    <3>1. SUFFICES ASSUME NEW s \in S, NEW i \in 1..n PROVE Insert(s, f[i]) \in S
      BY <2>2
    <3>2. s \in Seq(T) /\ f[i] \in T
      BY <1>2, <1>4
    <3>3. Insert(s, f[i]) \in Seq(T)
      BY <3>2, InsertKeeps
    <3> QED
      BY <1>2, <3>3
  <2>4. seq \in S
    BY <1>2
  <2>5. PICK u \in [0..n -> S] : u[0] = seq /\ \A i \in 1..n : u[i] = G[i][u[i - 1]]
    <3>1. Closed(S, G, n)
      BY <2>3 DEF Closed
    <3>2. \E u \in [0..n -> S] : Unfolds(u, seq, G, n)
      BY <1>1, <2>4, <3>1, Recursion
    <3> QED
      BY <3>2 DEF Unfolds
  <2>6. ASSUME NEW k \in 0..n
        PROVE  u[k] = IF k = 0 THEN seq ELSE Insert(u[k - 1], Found(t, c, p[k]))
    <3>1. CASE k = 0
      BY <2>5, <3>1
    <3>2. CASE k # 0
      <4>1. k \in 1..n /\ k - 1 \in 0..n
        BY <3>2
      <4>2. u[k - 1] \in S
        BY <2>5, <4>1
      <4> QED
        BY <1>4, <2>2, <2>5, <3>2, <4>1, <4>2
    <3> QED
      BY <3>1, <3>2
  <2>7. u = Selection(seq, t, c, p, u)
    BY <1>1, <2>5, <2>6 DEF Selection
  <2> DEFINE w == CHOOSE x : x = Selection(seq, t, c, p, x)
  <2>8. w = Selection(seq, t, c, p, w)
    BY <2>7
  <2>9. Selected(seq, t, c, p) = w[n]
    BY <1>1 DEF Selected, Selection
  <2> QED
    BY <2>8, <2>9
<1>6. \A k \in 0..n : v[k] = IF k = 0 THEN seq ELSE Insert(v[k - 1], Found(t, c, p[k]))
  BY <1>1, <1>5 DEF Selection
<1>7. \A i \in 1..n : i \in 0..n /\ i # 0
  OBVIOUS
<1>8. v[0] = seq /\ \A i \in 1..n : v[i] = Insert(v[i - 1], Found(t, c, p[i]))
  BY <1>6, <1>7
<1> QED
  BY <1>1, <1>5, <1>8

LEMMA SelectedKeeps ==
  ASSUME NEW T, NEW seq \in Seq(T), NEW t, NEW c, NEW C, NEW p \in Seq(C),
         \A i \in 1..Len(p) : Found(t, c, p[i]) \in T
  PROVE  /\ Selected(seq, t, c, p) \in Seq(T)
         /\ \A g \in T : Has(seq, g) => Has(Selected(seq, t, c, p), g)
         /\ \A i \in 1..Len(p) : Has(Selected(seq, t, c, p), Found(t, c, p[i]))
<1>1. PICK n \in Nat : n = Len(p)
  BY LenProperties
<1>2. PICK v : /\ Selected(seq, t, c, p) = v[n] /\ v[0] = seq
               /\ \A i \in 1..n : v[i] = Insert(v[i - 1], Found(t, c, p[i]))
  <2>1. \E v : /\ Selected(seq, t, c, p) = v[Len(p)]
               /\ v[0] = seq
               /\ \A i \in 1..Len(p) : v[i] = Insert(v[i - 1], Found(t, c, p[i]))
    BY SelectedUnfolds
  <2> QED
    BY <1>1, <2>1
<1>3. PICK f : f = [i \in 1..n |-> Found(t, c, p[i])]
  OBVIOUS
<1>4. \A i \in 1..n : f[i] = Found(t, c, p[i]) /\ f[i] \in T /\ v[i] = Insert(v[i - 1], f[i])
  BY <1>1, <1>2, <1>3
<1> DEFINE P == {m \in Nat : m <= n =>
                   /\ v[m] \in Seq(T)
                   /\ \A g \in T : Has(seq, g) => Has(v[m], g)
                   /\ \A i \in 1..m : Has(v[m], f[i])}
<1>5. 0 \in P
  BY <1>2
<1>6. ASSUME NEW m \in Nat, m \in P PROVE m + 1 \in P
  <2> SUFFICES ASSUME m + 1 <= n
               PROVE  /\ v[m + 1] \in Seq(T)
                      /\ \A g \in T : Has(seq, g) => Has(v[m + 1], g)
                      /\ \A i \in 1..m + 1 : Has(v[m + 1], f[i])
    OBVIOUS
  <2>1. m + 1 \in 1..n /\ (m + 1) - 1 = m
    OBVIOUS
  <2>2. PICK old \in Seq(T) : /\ old = v[m]
                              /\ \A g \in T : Has(seq, g) => Has(old, g)
                              /\ \A i \in 1..m : Has(old, f[i])
    BY <1>6
  <2>3. PICK h \in T : h = f[m + 1] /\ v[m + 1] = Insert(old, h)
    BY <1>4, <2>1, <2>2
  <2>4. \A i \in 1..m + 1 : i = m + 1 \/ (i \in 1..m /\ i \in 1..n)
    BY <2>1
  <2>5. \A i \in 1..m : f[i] \in T
    BY <1>4, <2>1
  <2>6. PICK next : next = Insert(old, h)
    OBVIOUS
  <2>7. /\ next \in Seq(T) /\ Has(next, h)
        /\ \A g \in T : Has(old, g) => Has(next, g)
    BY <2>6, InsertKeeps
  <2>8. \A i \in 1..m : Has(next, f[i])
    BY <2>2, <2>5, <2>7
  <2>9. Has(next, f[m + 1])
    BY <2>3, <2>7
  <2>10. \A i \in 1..m + 1 : Has(next, f[i])
    BY <2>4, <2>8, <2>9
  <2> QED
    BY <2>2, <2>3, <2>6, <2>7, <2>10
<1>7. \A m \in Nat : m \in P
  <2> HIDE DEF P
  <2> QED
    BY <1>5, <1>6, InductionFromZero
<1>8. /\ v[n] \in Seq(T)
      /\ \A g \in T : Has(seq, g) => Has(v[n], g)
      /\ \A i \in 1..n : Has(v[n], f[i])
  BY <1>7
<1> HIDE DEF P
<1> QED
  BY <1>1, <1>2, <1>4, <1>8

(* What WholeWordStays asks of a word.                                     *)
Near(t, h) == {g \in Hints(t) : g.from <= h.to /\ h.from <= g.to}
Weight(t, h) == Pred(Worker, WordDb, WordAt(t, h))

Within(t, h) == \A g \in Near(t, h) : h.from <= g.from /\ g.to <= h.to

Closing(t, h) ==
  \A g \in Near(t, h) : (\A f \in Near(t, h) : f.from <= g.from) => \E f \in Near(t, h) : f.from = g.from /\ f.to = h.to

Heavy(t, h) ==
  \A g \in Near(t, h) : Weight(t, g) <= Weight(t, h) * (IF 2 * Size(g) <= Size(h) THEN Gain ELSE 1)

Standing(t, h) == h \in RawRank(t) /\ Within(t, h) /\ Closing(t, h) /\ Heavy(t, h)

(* The hints near such a word are a cluster, whose graph ends with it.     *)
LEMMA StandingCluster ==
  ASSUME NEW t \in Texts, NEW h \in Hints(t), Within(t, h), Closing(t, h), NEW c \in Clusters(t), h \in c
  PROVE  /\ c = Near(t, h)
         /\ Foremost(c).from = h.from /\ PosLast(c) = h.to
<1>1. PICK n \in Nat : n = Len(t)
  BY RawRankLaid
<1>2. PICK S : S = Hints(t)
  OBVIOUS
<1>3. /\ Laid(S, n) /\ S \subseteq Spans /\ h \in S /\ c \subseteq S
      /\ \A g \in S : g.from \in Nat /\ g.to \in Nat /\ g.from <= g.to
  BY <1>1, <1>2, ClusterPlace, HintsLaid DEF Laid, Spans
<1>4. PICK b \in S : b = Foremost(c) /\ Boundary(S, b) /\ c = ClusterOf(S, b) /\ b \in c
  BY <1>2, ClusterPlace
<1>5. \A g \in S : g.from <= h.to /\ h.from <= g.to => h.from <= g.from /\ g.to <= h.to
  BY <1>2 DEF Within, Near
<1> DEFINE Here == {g \in S : g.from = h.from}
<1>6. PICK e \in S : e.from = h.from /\ \A g \in Here : ~Before(g, e)
  <2>1. Here \subseteq Spans /\ Here # {}
    BY <1>3
  <2>2. Foremost(Here) \in Here /\ \A g \in Here : ~Before(g, Foremost(Here))
    <3> HIDE DEF Here
    <3> QED
      BY <2>1, ForemostFacts
  <2> QED
    BY <2>2
<1>7. Boundary(S, e)
  <2>1. SUFFICES ASSUME NEW g \in S, Before(g, e) PROVE g.to < e.from
    BY DEF Boundary
  <2>2. g.from < h.from
    BY <1>3, <1>6, <2>1 DEF Before
  <2> QED
    BY <1>3, <1>5, <1>6, <2>2
<1>8. b = e
  <2>1. ~Before(h, b) /\ \A f \in S : Boundary(S, f) /\ Before(b, f) => Before(h, f)
    BY <1>4 DEF ClusterOf
  <2>2. ~Before(h, e)
    BY <1>3, <1>6
  <2>3. ~Before(b, e)
    BY <1>6, <1>7, <2>1, <2>2
  <2>4. ~Before(e, b)
    BY <1>3, <1>4, <1>6, <2>1 DEF Before, Boundary
  <2> QED
    BY <1>3, <2>3, <2>4, BeforeOrder
<1>9. ASSUME NEW g \in c PROVE g \in Near(t, h)
  <2>1. g \in S /\ ~Before(g, b) /\ h.from <= g.from
    <3>1. g \in ClusterOf(S, b)
      BY <1>4
    <3>2. g \in S /\ ~Before(g, b)
      BY ONLY <3>1 DEF ClusterOf
    <3>3. ~Before(g, e) /\ e.from = h.from /\ g.from \in Nat /\ h.from \in Nat
      BY ONLY <1>3, <1>6, <1>8, <3>2
    <3>4. h.from <= g.from
      BY ONLY <3>3 DEF Before
    <3> QED
      BY ONLY <3>2, <3>4
  <2>2. ASSUME h.to < g.from PROVE FALSE
    <3> DEFINE Behind2 == {x \in S : h.to < x.from}
    <3>1. PICK f \in Behind2 : \A x \in Behind2 : ~Before(x, f) /\ f.from <= x.from
      <4>1. Behind2 \subseteq Spans /\ Behind2 # {}
        BY <1>3, <2>1, <2>2
      <4> HIDE DEF Behind2
      <4> QED
        BY <4>1, ForemostFacts
    <3>2. Boundary(S, f)
      <4>1. SUFFICES ASSUME NEW x \in S, Before(x, f) PROVE x.to < f.from
        BY DEF Boundary
      <4>2. x.from <= h.to
        BY <1>3, <3>1, <4>1
      <4> QED
        BY <1>3, <1>5, <3>1, <4>2
    <3>3. Before(b, f)
      BY <1>3, <1>6, <1>8, <3>1 DEF Before
    <3>4. Before(g, f)
      BY <1>4, <3>1, <3>2, <3>3 DEF ClusterOf
    <3> QED
      BY <2>1, <2>2, <3>1, <3>4
  <2> QED
    BY <1>2, <1>3, <2>1, <2>2 DEF Near
<1>10. ASSUME NEW g \in Near(t, h) PROVE g \in c
  <2>1. g \in S /\ h.from <= g.from /\ g.to <= h.to
    BY <1>2, <1>5 DEF Near
  <2>2. ~Before(g, b)
    BY <1>3, <1>6, <1>8, <2>1 DEF Before
  <2>3. ASSUME NEW f \in S, Boundary(S, f), Before(b, f) PROVE Before(g, f)
    <3>1. Before(h, f)
      BY <1>4, <2>3 DEF ClusterOf
    <3>2. h.to < f.from
      BY <2>3, <3>1, <1>3 DEF Boundary
    <3> QED
      BY <1>3, <2>1, <3>2 DEF Before
  <2> QED
    BY <1>4, <2>1, <2>2, <2>3 DEF ClusterOf
<1>11. c = Near(t, h)
  BY <1>9, <1>10
<1>12. PosLast(c) = h.to
  <2>1. Hindmost(c) \in c /\ \A g \in c : ~Before(Hindmost(c), g) /\ g.from <= Hindmost(c).from
    <3>1. c \subseteq Spans /\ c # {} /\ \A g \in c : g.to <= n
      BY <1>3 DEF Laid
    <3> QED
      BY <3>1, HindmostFacts
  <2>2. PICK m \in c : m = Hindmost(c)
    BY <2>1
  <2>3. PICK f \in c : f.from = m.from /\ f.to = h.to
    BY <1>11, <2>1, <2>2 DEF Closing
  <2>4. ~Before(m, f) /\ m.to <= h.to
    BY <1>11, <2>1, <2>2 DEF Within
  <2>5. m.to = h.to
    BY <1>3, <2>3, <2>4 DEF Before
  <2> QED
    BY <2>2, <2>5 DEF PosLast
<1> QED
  BY <1>4, <1>6, <1>8, <1>11, <1>12

LEMMA ProductsOrdered ==
  ASSUME NEW a \in Nat, NEW b \in Nat, NEW c \in Nat, NEW d \in Nat, a <= b, c <= d
  PROVE  a * c <= b * d
<1>1. a * c <= b * c
  OBVIOUS
<1>2. b * c <= b * d
  OBVIOUS
<1>3. a * c \in Int /\ b * c \in Int /\ b * d \in Int
  OBVIOUS
<1> QED
  BY <1>1, <1>2, <1>3

(* No hint near such a word costs less than the word.                      *)
LEMMA StandingCost ==
  ASSUME NEW t \in Texts, Priced, NEW h \in Hints(t), Standing(t, h), NEW g \in Near(t, h)
  PROVE  /\ RawRank(t) # {} /\ Size(g) \in 1..gWordLength /\ Size(h) \in 1..gWordLength
         /\ WordCost(t, h) <= WordCost(t, g)
<1>1. h \in RawRank(t) /\ RawRank(t) # {}
  BY DEF Standing
<1>2. PICK least \in 1..gWordLength : least = Least(t) /\ \A f \in RawRank(t) : least <= Size(f)
  BY <1>1, LeastFacts
<1>3. PICK w \in 1..gWordLength : w = Size(h)
  BY <1>1, LeastFacts
<1>4. PICK v \in 1..gWordLength : v = Size(g) /\ v <= w
  <2>1. /\ g.from \in Nat /\ g.to \in Nat /\ g.from <= g.to /\ h.from \in Nat /\ h.to \in Nat
        /\ h.from <= g.from /\ g.to <= h.to
    BY HintsLaid DEF Laid, Spans, Standing, Within, Near
  <2>2. Size(g) \in Int /\ 1 <= Size(g) /\ Size(g) <= Size(h)
    BY <2>1 DEF Size
  <2>3. gWordLength \in Nat
    BY PhoenixAssumption
  <2> QED
    BY <1>3, <2>2, <2>3
<1>5. PICK wide \in Nat, narrow \in Nat :
        /\ wide = InvGain[least][w] /\ narrow = InvGain[least][v] /\ wide <= narrow
        /\ least <= v /\ 2 * v <= w => wide * Gain <= narrow
  BY <1>4, PhoenixAssumption
<1>6. PICK dear \in Nat : dear = Inv[Weight(t, h)] /\ dear <= MissInv /\ Weight(t, h) \in 1..Unit
                          /\ WordCost(t, h) = dear * wide
  <2>1. Weight(t, h) \in 1..Unit /\ WordCost(t, h) = Inv[Weight(t, h)] * wide
    BY <1>1, <1>2, <1>3, <1>5, WordCostNatural DEF Weight
  <2>2. Inv[Weight(t, h)] \in Nat /\ Inv[Weight(t, h)] <= MissInv
    <3>1. PICK weight \in 1..Unit : weight = Weight(t, h)
      BY <2>1
    <3>2. PICK inverse : inverse = Inv[weight] /\ inverse \in 1..MissInv /\ inverse \in Nat
      BY InverseNatural
    <3> QED
      BY <3>1, <3>2
  <2> QED
    BY <2>1, <2>2
<1>7. CASE g \notin RawRank(t)
  <2>1. WordCost(t, g) = MissInv * narrow
    BY <1>1, <1>2, <1>4, <1>5, <1>7, WordCostNatural
  <2>2. PICK miss \in Nat : miss = MissInv
    BY PhoenixAssumption
  <2>3. dear * wide <= miss * narrow
    BY <1>5, <1>6, <2>2, ProductsOrdered
  <2> QED
    BY <1>1, <1>3, <1>4, <1>6, <2>1, <2>2, <2>3
<1>8. CASE g \in RawRank(t)
  <2>1. PICK weight \in 1..Unit, heavy \in 1..Unit :
          /\ weight = Weight(t, g) /\ heavy = Weight(t, h)
          /\ WordCost(t, g) = Inv[weight] * narrow
    BY <1>1, <1>2, <1>4, <1>5, <1>6, <1>8, WordCostNatural DEF Weight
  <2>2. PICK cheap \in Nat : cheap = Inv[weight] /\ WordCost(t, g) = cheap * narrow
    <3>1. Inv[weight] \in Nat
      BY InverseNatural
    <3> QED
      BY <2>1, <3>1
  <2>3. PICK gain \in Nat : gain = Gain
    BY PhoenixAssumption
  <2>4. weight <= heavy * (IF 2 * v <= w THEN gain ELSE 1)
    BY <1>3, <1>4, <2>1, <2>3 DEF Standing, Heavy
  <2>5. CASE 2 * v <= w
    <3>1. dear <= cheap * gain
      <4>1. weight <= heavy * Gain
        BY <2>3, <2>4, <2>5
      <4>2. Inv[heavy] <= Inv[weight] * Gain
        BY <4>1, PhoenixAssumption
      <4> QED
        BY <1>6, <2>1, <2>2, <2>3, <4>2
    <3>2. wide * gain <= narrow
      BY <1>2, <1>4, <1>5, <1>8, <2>3, <2>5
    <3>3. dear * wide <= (cheap * gain) * wide
      BY <3>1, ProductsOrdered, Product
    <3>4. cheap * (wide * gain) <= cheap * narrow
      BY <3>2, ProductsOrdered, Product
    <3>5. (cheap * gain) * wide = cheap * (wide * gain)
      OBVIOUS
    <3>6. dear * wide \in Nat /\ (cheap * gain) * wide \in Nat /\ cheap * narrow \in Nat
      OBVIOUS
    <3>7. dear * wide <= cheap * narrow
      BY <3>3, <3>4, <3>5, <3>6
    <3> QED
      BY <1>1, <1>3, <1>4, <1>6, <2>2, <3>7
  <2>6. CASE ~(2 * v <= w)
    <3>1. weight <= heavy
      BY <2>4, <2>6
    <3>2. dear <= cheap
      BY <1>6, <2>1, <2>2, <3>1, PhoenixAssumption
    <3>3. dear * wide <= cheap * narrow
      BY <1>5, <3>2, ProductsOrdered
    <3> QED
      BY <1>1, <1>3, <1>4, <1>6, <2>2, <3>3
  <2> QED
    BY <2>5, <2>6
<1> QED
  BY <1>7, <1>8

LEMMA HintsFit ==
  ASSUME NEW t \in Texts
  PROVE  Hints(t) \subseteq Fits(t)
<1>1. PICK n \in Nat : n = Len(t) /\ DOMAIN t = 1..n /\ Laid(RawRank(t), n) /\ Laid(Hints(t), n)
  BY RawRankLaid, HintsLaid
<1>2. \A h \in RawRank(t) : h.from \in 1..n
  BY <1>1 DEF RawRank, Runs
<1>3. ASSUME NEW f \in Gaps(RawRank(t)) PROVE 1 <= f.from
  <2>1. PICK g \in RawRank(t) : f.from = g.to + 1 /\ g.to \in Nat
    <3>1. PICK g \in RawRank(t), h \in RawRank(t) : f.from = g.to + 1
      BY <1>1, GapFacts
    <3> QED
      BY <1>1, <3>1 DEF Laid, Spans
  <2> QED
    BY <2>1
<1>4. ASSUME NEW h \in Hints(t) PROVE h \in Fits(t)
  <2>1. 1 <= h.from
    BY <1>2, <1>3 DEF Hints
  <2> QED
    BY <1>1, <2>1 DEF Fits, Laid
<1> QED
  BY <1>4

(* It is found again even by name alone: nothing else near it is as long.  *)
LEMMA StandingFound ==
  ASSUME NEW t \in Texts, NEW h \in Hints(t), Within(t, h), Near(t, h) \in Clusters(t), h \in Near(t, h)
  PROVE  Found(t, Near(t, h), h) = h
<1>1. PICK c \in Clusters(t) : c = Near(t, h)
  OBVIOUS
<1>2. PICK f : f = Found(t, c, h)
  OBVIOUS
<1>3. f \in c /\ WordAt(t, f) = WordAt(t, h)
  BY <1>1, <1>2, FoundSpells
<1>4. f \in Fits(t) /\ h \in Fits(t) /\ h.from <= f.from /\ f.to <= h.to
  BY <1>1, <1>3, HintsFit DEF Within, Near
<1>5. PICK A : t \in Seq(A)
  BY PhoenixAssumption
<1>6. \A g \in Fits(t) : Len(WordAt(t, g)) = g.to - g.from + 1
  <2>1. SUFFICES ASSUME NEW g \in Fits(t) PROVE Len(WordAt(t, g)) = g.to - g.from + 1
    OBVIOUS
  <2>2. PICK a \in Nat, e \in Nat : a = g.from /\ e = g.to /\ 1 <= a /\ a <= e /\ e <= Len(t)
    BY DEF Fits, Spans
  <2>3. \A i \in a..e : t[i] \in A
    <3>1. \A i \in a..e : i \in 1..Len(t)
      BY <1>5, <2>2, LenProperties
    <3> QED
      BY <1>5, <3>1, ElementOfSeq
  <2>4. Len(SubSeq(t, a, e)) = IF a <= e THEN e - a + 1 ELSE 0
    BY <2>2, <2>3, SubSeqProperties
  <2> QED
    BY <2>2, <2>4 DEF WordAt
<1>7. f.to - f.from + 1 = h.to - h.from + 1
  BY <1>3, <1>4, <1>6
<1>8. f.from = h.from /\ f.to = h.to
  BY <1>4, <1>7 DEF Fits, Spans
<1>9. f = h
  BY <1>4, <1>8 DEF Fits, Spans
<1> QED
  BY <1>1, <1>2, <1>9

(* The word alone is the one best path of its cluster: any other has two   *)
(* words or more, the first of which is paid for twice, or with phrases    *)
(* for a phrase, and the last of which costs no less than the word.        *)
LEMMA StandingBest ==
  ASSUME NEW t \in Texts, Priced, kind = "cn" => RareCost # 0,
         NEW h \in Hints(t), Standing(t, h), NEW c \in Clusters(t), h \in c
  PROVE  BestPaths(t, c) = {<<h>>}
<1>1. c = Near(t, h) /\ Foremost(c).from = h.from /\ PosLast(c) = h.to
  BY StandingCluster DEF Standing
<1>2. Laid(c, Len(t)) /\ Len(t) \in Nat /\ c \subseteq Spans
  BY ClusterPlace DEF Laid
<1>3. PICK all : all = Paths(c)
  OBVIOUS
<1>4. <<h>> \in all
  <2>1. <<h>> \in Seq(c) /\ <<h>> # <<>> /\ Len(<<h>>) = 1 /\ <<h>>[1] = h
    OBVIOUS
  <2>2. Chained(<<h>>)
    BY <2>1 DEF Chained
  <2>3. <<h>> \in Ways(c, h, PosLast(c))
    BY <1>1, <2>1, <2>2 DEF Ways
  <2>4. all = UNION {Ways(c, f, PosLast(c)) : f \in {g \in c : g.from = Foremost(c).from}}
    BY <1>2, <1>3, PathsAreWays
  <2> QED
    BY <1>1, <2>3, <2>4
<1>5. RawRank(t) # {} /\ Short(c) /\ \A g \in c : WordCost(t, h) <= WordCost(t, g)
  BY <1>1, StandingCost DEF Short
<1>6. PICK price \in Nat \ {0} : price = WordCost(t, h)
  BY <1>5, WordCostNatural DEF Short
<1>7. \A g \in c : WordCost(t, g) \in Nat /\ price <= WordCost(t, g)
  BY <1>5, <1>6, WordCostNatural DEF Short
<1>8. kind = "cn" => RareCost \in Nat \ {0}
  BY DEF Priced
<1>9. PICK cost \in Nat : cost = PathCost(t, <<h>>) /\ cost = IF kind = "cn" THEN price * RareCost ELSE price
  <2>1. <<h>> \in Seq(c) /\ <<h>> # <<>> /\ Len(<<h>>) = 1 /\ <<h>>[1] = h
    OBVIOUS
  <2>2. PICK p \in Seq(c) : p = <<h>> /\ p # <<>> /\ Len(p) = 1 /\ p[1] = h
    BY <2>1
  <2>3. PathCost(t, p) \in Nat /\ PathCost(t, p) = FirstCost(t, p) + EdgeCost(t, p, 1)
    BY <1>5, <2>2, PathCostFacts
  <2>4. CASE kind = "cn"
    <3>1. PICK rare \in Nat : rare = RareCost
      BY <1>8, <2>4
    <3>2. FirstCost(t, p) = 0 /\ EdgeCost(t, p, 1) = price * rare
      BY <1>6, <2>2, <2>4, <3>1 DEF FirstCost, EdgeCost
    <3>3. price * rare \in Nat
      BY <1>6, Product
    <3> QED
      BY <2>2, <2>3, <2>4, <3>1, <3>2, <3>3
  <2>5. CASE kind # "cn"
    <3>1. FirstCost(t, p) = price /\ EdgeCost(t, p, 1) = 0
      BY <1>6, <2>2, <2>5 DEF FirstCost, EdgeCost
    <3> QED
      BY <2>2, <2>3, <2>5, <3>1
  <2> QED
    BY <2>4, <2>5
<1>10. ASSUME NEW p \in all, p # <<h>> PROVE PathCost(t, p) \in Nat /\ cost < PathCost(t, p)
  <2>1. /\ p \in Seq(c) /\ Len(p) \in Nat \ {0}
        /\ p[1] \in c /\ p[1].from = h.from /\ p[Len(p)].to = h.to
    BY <1>1, <1>2, <1>3, PathFacts
  <2>2. ASSUME Len(p) = 1 PROVE FALSE
    <3>1. p[1] = h
      BY <1>2, <2>1, <2>2 DEF Spans
    <3>2. p = <<p[1]>>
      <4>1. SubSeq(p, 1, 1) = <<p[1]>>
        <5>1. 1 \in 1..Len(p)
          BY <2>2
        <5> QED
          BY <2>1, <5>1, OnePart
      <4>2. SubSeq(p, 1, Len(p)) = p
        BY <2>1
      <4> QED
        BY <2>2, <4>1, <4>2
    <3> QED
      BY <1>10, <3>1, <3>2
  <2>3. PICK n \in Nat : n = Len(p) /\ n > 1 /\ n # 1 /\ p # <<>>
    <3>1. PICK n \in Nat \ {0} : n = Len(p)
      BY <2>1
    <3>2. n # 1 /\ p # <<>>
      BY <2>2, <3>1
    <3> QED
      BY <3>1, <3>2
  <2>4. PICK first \in Nat, last \in Nat :
          first = WordCost(t, p[1]) /\ last = WordCost(t, p[n]) /\ price <= first /\ price <= last
    <3>1. p[1] \in c /\ p[n] \in c
      BY <2>1, <2>3, ElementOfSeq
    <3> QED
      BY <1>7, <3>1
  <2>5. PICK total \in Nat :
          total = PathCost(t, p) /\ FirstCost(t, p) + EdgeCost(t, p, 1) + EdgeCost(t, p, n) <= total
    BY <1>5, <2>1, <2>3, PathCostFacts
  <2>6. CASE kind = "cn"
    <3>1. PICK rare \in Nat, phrase \in Nat \ {0} : rare = RareCost /\ phrase = PhraseCost(t, p[1], p[2])
      BY <1>8, <2>6, PhraseNatural
    <3>2. FirstCost(t, p) = 0 /\ EdgeCost(t, p, 1) = first * phrase /\ EdgeCost(t, p, n) = last * rare
      BY <2>3, <2>4, <2>6, <3>1 DEF FirstCost, EdgeCost
    <3>3. first * phrase \in Nat /\ 0 < first * phrase
      <4>1. first * phrase \in Nat /\ 1 * 1 <= first * phrase
        BY <1>6, <2>4, <3>1, Product, ProductsOrdered
      <4> QED
        BY <4>1
    <3>4. last * rare \in Nat /\ price * rare \in Nat /\ price * rare <= last * rare
      BY <1>6, <2>4, <3>1, Product, ProductsOrdered
    <3>5. cost = price * rare
      BY <1>9, <2>6, <3>1
    <3> QED
      BY <1>9, <2>5, <3>2, <3>3, <3>4, <3>5
  <2>7. CASE kind # "cn"
    <3>1. FirstCost(t, p) = first /\ EdgeCost(t, p, 1) = first /\ EdgeCost(t, p, n) = 0
      BY <2>3, <2>4, <2>7 DEF FirstCost, EdgeCost
    <3>2. cost = price
      BY <1>9, <2>7
    <3> QED
      BY <1>6, <2>4, <2>5, <3>1, <3>2
  <2> QED
    BY <2>6, <2>7
<1>11. BestPaths(t, c) = {p \in all : \A q \in all : PathCost(t, p) <= PathCost(t, q)}
  <2>1. ~(kind = "cn" /\ RareCost = None)
    BY PhoenixAssumption DEF Priced
  <2> QED
    BY <1>3, <2>1 DEF BestPaths
<1>12. \A q \in all : cost <= PathCost(t, q)
  BY <1>9, <1>10
<1>13. \A p \in all : p # <<h>> => ~(PathCost(t, p) <= cost)
  BY <1>9, <1>10
<1> QED
  BY <1>4, <1>9, <1>11, <1>12, <1>13

-----------------------------------------------------------------------------
(* Steps with a text in hand                                               *)

KnownRare == kind = "cn" => RareCost \notin {0, None}

(* The words of the clusters seen so far that are to stay whole did so.    *)
Stays ==
  text # <<>> =>
    /\ picked \in Seq(Hints(text))
    /\ KnownRare => \A h \in Seen(text, clusters) : Standing(text, h) => Has(picked, h)

LEMMA RatedPriced ==
  ASSUME Rated, KnownRare
  PROVE  Priced
<1>1. {WordDb, PhraseDb} \subseteq DbSet /\ Unit \in Nat
  BY PhoenixAssumption, DictAssumption
<1>2. /\ \A k \in DOMAIN cast[WordDb] : cast[WordDb][k] \in 0..Unit
      /\ \A k \in DOMAIN cast[PhraseDb] : cast[PhraseDb][k] \in 0..Unit
  BY <1>1 DEF Rated
<1>3. 0 \in 0..Unit
  BY <1>1
<1>4. \A w : Pred(Worker, WordDb, w) \in 0..Unit /\ Pred(Worker, PhraseDb, w) \in 0..Unit
  BY <1>2, <1>3 DEF Pred
<1>5. kind = "cn" => RareCost \in Nat
  BY <1>2, RareNatural DEF KnownRare
<1> QED
  BY <1>4, <1>5 DEF Priced

LEMMA StandingKept ==
  ASSUME SameWords, NEW t, NEW h
  PROVE  /\ Standing(t, h)' <=> Standing(t, h)
         /\ KnownRare' <=> KnownRare
<1>1. RawRank(t)' = RawRank(t) /\ Hints(t)' = Hints(t)
  BY HintsKept
<1>2. \A w : Pred(Worker, WordDb, w)' = Pred(Worker, WordDb, w)
  BY DEF SameWords, Pred, Holds
<1>3. Near(t, h)' = Near(t, h) /\ \A g : Weight(t, g)' = Weight(t, g)
  BY <1>1, <1>2 DEF Near, Weight
<1>4. /\ Within(t, h)' <=> Within(t, h)
      /\ Closing(t, h)' <=> Closing(t, h)
      /\ Heavy(t, h)' <=> Heavy(t, h)
  BY <1>3 DEF Within, Closing, Heavy
<1>5. Standing(t, h)' <=> Standing(t, h)
  BY <1>1, <1>4 DEF Standing
<1>6. Holds(Worker, PhraseDb)' <=> Holds(Worker, PhraseDb)
  BY DEF SameWords, Holds
<1>7. RareCost' = RareCost
  <2>1. CASE Holds(Worker, PhraseDb)
    <3>1. cast'[PhraseDb] = cast[PhraseDb]
      BY <2>1 DEF SameWords
    <3> QED
      BY <1>6, <3>1 DEF RareCost, HasRange, RangeMin
  <2>2. CASE ~Holds(Worker, PhraseDb)
    BY <1>6, <2>2 DEF RareCost, HasRange
  <2> QED
    BY <2>1, <2>2
<1>8. KnownRare' <=> KnownRare
  BY <1>7 DEF KnownRare, SameWords
<1> QED
  BY <1>5, <1>8

LEMMA StaysKept ==
  ASSUME Stays, UNCHANGED segmenting, text # <<>> => SameWords
  PROVE  Stays'
<1>1. UNCHANGED <<text, clusters, picked>>
  BY DEF segmenting
<1>2. CASE text = <<>>
  BY <1>1, <1>2 DEF Stays
<1>3. CASE text # <<>>
  <2>1. PICK t : t = text
    OBVIOUS
  <2>2. SameWords
    BY <1>3
  <2>3. Clusters(t)' = Clusters(t) /\ Hints(t)' = Hints(t)
    BY <2>2, HintsKept
  <2>4. (KnownRare' <=> KnownRare) /\ \A h : Standing(t, h)' <=> Standing(t, h)
    BY <2>2, StandingKept
  <2>5. text' = t /\ clusters' = clusters /\ picked' = picked
    BY <1>1, <2>1
  <2>6. Seen(text, clusters)' = Seen(t, clusters) /\ Hints(text)' = Hints(t)
    BY <2>3, <2>5 DEF Seen
  <2>7. \A h : Standing(text, h)' <=> Standing(t, h)
    BY <2>4, <2>5
  <2>8. \A h : Has(picked, h)' <=> Has(picked, h)
    BY <2>5 DEF Has
  <2> QED
    BY <1>3, <2>1, <2>4, <2>5, <2>6, <2>7, <2>8 DEF Stays
<1> QED
  BY <1>2, <1>3

LEMMA ReadStays ==
  ASSUME Tiling, NEW t \in Texts, Read(t)
  PROVE  Stays'
<1>1. SameWords
  BY DEF Read, SameWords, dictVars, disk
<1>2. Clusters(t)' = Clusters(t)
  BY <1>1, HintsKept
<1>3. text' = t /\ clusters' = Clusters(t) /\ picked' = <<>>
  BY DEF Read, Tiling
<1>4. Seen(text, clusters)' = {}
  BY <1>2, <1>3 DEF Seen
<1> QED
  BY <1>3, <1>4 DEF Stays

LEMMA PickStays ==
  ASSUME IInv, Rated, Tiling, Stays, Pick
  PROVE  Stays'
<1>1. PICK c : c = NextCluster
  OBVIOUS
<1>2. PICK t : t = text
  OBVIOUS
<1>3. PICK D : D = clusters
  OBVIOUS
<1>4. PICK best : best = BestPaths(t, c)
  OBVIOUS
<1>5. /\ (best = {} /\ UNCHANGED picked) \/ \E p \in best : picked' = Selected(picked, t, c, p)
      /\ clusters' = D \ {c} /\ D # {} /\ text' = t
  BY <1>1, <1>2, <1>3, <1>4 DEF Pick
<1>6. SameWords
  BY DEF Pick, SameWords, dictVars, disk
<1>7. t # <<>> /\ t \in Texts /\ ToCome(t, D)
  BY <1>2, <1>3, <1>5 DEF Tiling
<1>8. c \in D /\ \A d \in D : ~Before(Foremost(d), Foremost(c))
  BY <1>1, <1>2, <1>3, <1>5, <1>7, NextClusterFacts
<1>9. Seen(t, D \ {c}) = Seen(t, D) \cup c /\ c \in Clusters(t)
  BY <1>7, <1>8, SeenBefore DEF ToCome
<1>10. Clusters(t)' = Clusters(t) /\ Hints(t)' = Hints(t)
  BY <1>6, HintsKept
<1>11. (KnownRare' <=> KnownRare) /\ \A h : Standing(t, h)' <=> Standing(t, h)
  BY <1>6, StandingKept
<1>12. PICK seq \in Seq(Hints(t)) :
         seq = picked /\ (KnownRare => \A h \in Seen(t, D) : Standing(t, h) => Has(seq, h))
  BY <1>2, <1>3, <1>7 DEF Stays
<1>13. Laid(c, Len(t)) /\ Len(t) \in Nat /\ c \subseteq Hints(t)
  BY <1>7, <1>9, ClusterPlace
<1>14. PICK all : all = Paths(c) /\ best \subseteq all
  <2>1. PICK all : all = Paths(c)
    OBVIOUS
  <2> QED
    BY <1>4, <2>1 DEF BestPaths
<1>15. ASSUME NEW p \in best
       PROVE  /\ Selected(seq, t, c, p) \in Seq(Hints(t))
              /\ \A g \in Hints(t) : Has(seq, g) => Has(Selected(seq, t, c, p), g)
              /\ \A i \in 1..Len(p) : Has(Selected(seq, t, c, p), Found(t, c, p[i]))
  <2>1. p \in Seq(c)
    BY <1>13, <1>14, PathFacts
  <2>2. \A i \in 1..Len(p) : Found(t, c, p[i]) \in Hints(t)
    <3>1. SUFFICES ASSUME NEW i \in 1..Len(p) PROVE Found(t, c, p[i]) \in Hints(t)
      OBVIOUS
    <3>2. p[i] \in c
      BY <2>1, ElementOfSeq
    <3> QED
      BY <1>7, <1>9, <1>13, <3>2, FoundSpells
  <2> QED
    BY <2>1, <2>2, SelectedKeeps
<1>16. /\ picked' \in Seq(Hints(t))
       /\ \A g \in Hints(t) : Has(seq, g) => Has(picked', g)
  BY <1>5, <1>12, <1>15
<1>17. ASSUME KnownRare, NEW h \in c, Standing(t, h) PROVE Has(picked', h)
  <2>1. Priced /\ (kind = "cn" => RareCost # 0)
    BY <1>17, RatedPriced DEF KnownRare
  <2>2. best = {<<h>>}
    BY <1>4, <1>7, <1>9, <1>13, <1>17, <2>1, StandingBest
  <2>3. PICK p \in best : p = <<h>> /\ Len(p) = 1 /\ p[1] = h /\ picked' = Selected(seq, t, c, p)
    BY <1>5, <1>12, <2>2
  <2>4. Found(t, c, h) = h
    <3>1. c = Near(t, h)
      BY <1>7, <1>9, <1>13, <1>17, StandingCluster DEF Standing
    <3> QED
      BY <1>7, <1>9, <1>13, <1>17, <3>1, StandingFound DEF Standing
  <2> QED
    BY <1>15, <2>3, <2>4
<1>18. Seen(text, clusters)' = Seen(t, D) \cup c /\ Hints(text)' = Hints(t)
  BY <1>5, <1>9, <1>10 DEF Seen
<1>19. \A h : Standing(text, h)' <=> Standing(t, h)
  BY <1>5, <1>11
<1>20. Seen(t, D) \subseteq Hints(t)
  BY <1>7, <1>8, SeenBefore
<1>21. ASSUME KnownRare', NEW h \in Seen(t, D) \cup c, Standing(t, h) PROVE Has(picked', h)
  BY <1>11, <1>12, <1>16, <1>17, <1>20, <1>21
<1>22. \A h : Has(picked, h)' <=> Has(picked', h)
  BY DEF Has
<1> QED
  BY <1>16, <1>18, <1>19, <1>21, <1>22 DEF Stays

LEMMA StepStays ==
  ASSUME IInv, Rated, Tiling, Stays, [Next]_vars
  PROVE  Stays'
<1>1. ASSUME NEW p \in Procs, Start(p) \/ Load(p), UNCHANGED <<kind, segmenting>> PROVE Stays'
  BY <1>1, OthersStep, StaysKept
<1>2. ASSUME NEW d \in DbSet, NEW m \in Masters, Deploy(d, m), UNCHANGED <<kind, segmenting>> PROVE Stays'
  <2>1. SameWords
    BY <1>2 DEF Deploy, SameWords
  <2> QED
    BY <1>2, <2>1, StaysKept
<1>3. ASSUME NEW p \in Procs, Ends(p) PROVE Stays'
  <2>1. CASE p = Worker
    BY <1>3, <2>1 DEF Ends, Stays
  <2>2. CASE p # Worker
    <3>1. UNCHANGED segmenting /\ kind' = kind /\ (Quit(p) \/ Crash(p))
      BY <1>3, <2>2 DEF Ends
    <3> QED
      BY <2>2, <3>1, OthersStep, StaysKept
  <2> QED
    BY <2>1, <2>2
<1>4. ASSUME NEW t \in Texts, Read(t) PROVE Stays'
  BY <1>4, ReadStays
<1>5. ASSUME Pick PROVE Stays'
  BY <1>5, PickStays
<1>6. ASSUME JointPair \/ Answer \/ AnswerNothing PROVE Stays'
  BY <1>6 DEF JointPair, Answer, AnswerNothing, SetDown, Stays
<1>7. ASSUME UNCHANGED <<dictVars, kind, segmenting>> PROVE Stays'
  <2>1. SameWords
    BY <1>7 DEF SameWords, dictVars, disk
  <2> QED
    BY <1>7, <2>1, StaysKept
<1>8. \A t \in Texts : LearnNothing(t) => UNCHANGED <<dictVars, kind, segmenting>>
  BY DEF LearnNothing
<1>9. CommitArticle \/ UNCHANGED vars => UNCHANGED <<dictVars, kind, segmenting>>
  BY DEF CommitArticle, vars
<1> QED
  BY <1>1, <1>2, <1>3, <1>4, <1>5, <1>6, <1>7, <1>8, <1>9 DEF Next

LEMMA StaysWhole ==
  ASSUME Tiling, Stays
  PROVE  WholeWordStays
<1> SUFFICES ASSUME Done, KnownRare, NEW h \in Hints(text), Standing(text, h)
             PROVE  h \in Range(picked)
  BY DEF WholeWordStays, KnownRare, Standing, Near, Within, Closing, Heavy, Weight
<1>1. PICK t : t = text
  OBVIOUS
<1>2. t # <<>> /\ t \in Texts /\ clusters = {}
  BY <1>1 DEF Done, Tiling
<1>3. h \in Seen(t, clusters)
  <2>1. Laid(Hints(t), Len(t)) /\ Len(t) \in Nat
    BY <1>2, RawRankLaid, HintsLaid
  <2>2. PICK f \in Hints(t) : Boundary(Hints(t), f) /\ h \in ClusterOf(Hints(t), f)
    BY <1>1, <2>1, EveryHintClustered
  <2>3. ClusterOf(Hints(t), f) \in Clusters(t)
    BY <2>2 DEF Clusters
  <2> QED
    BY <1>2, <2>2, <2>3 DEF Seen
<1>4. Has(picked, h) /\ picked \in Seq(Hints(t))
  BY <1>1, <1>2, <1>3 DEF Stays
<1> QED
  BY <1>4 DEF Has, Range

(* A word that no other crosses, with which the words within it end and    *)
(* which weighs enough beside them, is selected in one piece by a worker   *)
(* of any kind, from any dictionary, finished or not, however programs     *)
(* cast, die and are started again: the hints it touches are a cluster of  *)
(* their own, and the word alone is the one best path of it.               *)
THEOREM WholeWordsStay == Spec => []WholeWordStays
<1>1. Init => IInv /\ Counted /\ Rated /\ Tiling /\ Stays
  BY InitIInv, InitCounted, InitRated DEF Init, Idle, Tiling, Stays
<1>2. IInv /\ Counted /\ Rated /\ Tiling /\ Stays /\ [Next]_vars => (IInv /\ Counted /\ Rated /\ Tiling /\ Stays)'
  BY StepIInv, StepCounted, StepRated, StepTiling, StepStays
<1>3. Tiling /\ Stays => WholeWordStays
  BY StaysWhole
<1> QED
  BY <1>1, <1>2, <1>3, PTL DEF Spec
=============================================================================
