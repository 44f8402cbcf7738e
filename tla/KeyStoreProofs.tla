--------------------------- MODULE KeyStoreProofs ---------------------------
(***************************************************************************)
(* Proofs about KeyStore for every tree of paths, every number of key      *)
(* stores, changes and restarts: the committed rows are closed upwards in  *)
(* the index and on disk, the files that a finished scan visited and that  *)
(* are listed have a known hash, a scan that nothing disturbed describes   *)
(* what it visited, and rows of other paths stay as they are.              *)
(***************************************************************************)
EXTENDS KeyStore, FiniteSetTheorems, TLAPS

AllVersions == UNION {Versions[p] : p \in Path}

Position == {"none", "listed", "stat", "lookup", "read", "insert", "readdir", "done"}

JobState == [at : Position, meta : AllVersions \cup {None}, data : Hash \cup {Link, NoData}]

IsKeys(k) == k = [new |-> k.new, old |-> k.old] /\ IsTable(k.new) /\ IsTable(k.old)

TypeInv ==
    /\ fs \in [Path -> AllVersions \cup {None}]
    /\ \A p \in Path : fs[p] \in Versions[p] \cup {None}
    /\ moved \in BOOLEAN
    /\ torn \in [Path -> SUBSET AllVersions]
    /\ \A p \in Path : torn[p] \subseteq Versions[p]
    /\ IsKeys(keys) /\ IsKeys(keyDisk)
    /\ known \subseteq Hash /\ durable \subseteq known
    /\ scan \in {"open", "walk", "cleanup", "scanned", "scanned_file"} /\ target \in Path
    /\ job \in [Path -> JobState]
    /\ \A p \in Path : job[p].meta \in Versions[p] \cup {None}

\* The local disk holds a tree, and no version under whose time a scan has
\* read something else.
FsInv ==
    /\ fs[Top] # None
    /\ \A p \in Path \ {Top} : fs[p] # None => fs[Parent[p]] # None /\ fs[Parent[p]].kind = "dir"
    /\ \A p \in Path : fs[p] \notin torn[p]

\* data may be in the index with the metadata of v.
Fits(p, v, data) ==
    /\ v.kind = "file" => /\ data \in Hash \cup {NoData}
                          /\ data = v.data \/ v \in torn[p] \/ p \in Unreadable
    /\ v.kind # "file" => data = v.data

RowsFit(t) ==
    \A p \in DOMAIN t : \E v \in Versions[p] : v.mtime = t[p].mtime /\ Fits(p, v, t[p].data)

RowsInv ==
    /\ RowsFit(keys.new) /\ RowsFit(keys.old)
    /\ RowsFit(keyDisk.new) /\ RowsFit(keyDisk.old)

\* What a worker remembers of the path it is at.
JobInv(p) ==
    /\ job[p].at \in {"stat", "lookup", "read", "insert", "readdir"} => job[p].meta # None
    /\ job[p].at \in {"none", "listed"} => job[p].meta = None
    /\ job[p].at = "read" => job[p].meta.kind = "file"
    /\ job[p].at = "readdir" => job[p].meta.kind = "dir"
    /\ job[p].at = "insert" => Fits(p, job[p].meta, job[p].data)

JobsInv == \A p \in Path : JobInv(p)

AllDone(t) == \A p \in DOMAIN t : t[p].tag = "Done"

\* Before a scan no row is reserved.
OpenInv == scan = "open" => AllDone(keys.new) /\ AllDone(keys.old)

\* The key store has replied for p, and the row that lookup finds is reserved.
Processed(p) == p # Top /\ job[p].at \in {"readdir", "done"} /\ job[p].meta # None
Live(p) == p \in Nodes(keys) /\ Lookup(p).tag = "Reserved"

\* The path that is scanned is there, and it and the directories on the way to
\* it are what they were when they were looked at, one after the other.
WalkTop ==
    /\ fs[target] # None
    /\ job[Top].at \in {"readdir", "done"}
    /\ \A q \in Lineage(target) :
          /\ job[q].at = "done" => job[q].meta # None
          /\ job[q].meta # None => job[q].meta.kind = fs[q].kind
          /\ q # Top /\ job[Parent[q]].at = "done" => job[q].at # "none"

\* A path is listed by its directory, which was inserted before.
WalkUp(p) ==
    p # Top /\ job[p].at # "none" =>
        /\ job[Parent[p]].at = "done" /\ job[Parent[p]].meta # None
        /\ p \in Lineage(target) \cup Below(target)

\* The rows that this scan reserved are those of the paths it has been at, with
\* what it found there, and their hashes are known.
WalkRow(p) ==
    /\ Live(p) <=> Processed(p)
    /\ p \in DOMAIN keys.old /\ keys.old[p].tag = "Reserved" => Live(p)
    /\ Live(p) /\ Lookup(p).data \in Hash => Lookup(p).data \in known
    /\ Live(p) => Lookup(p).mtime = job[p].meta.mtime
    /\ job[p].at = "insert" /\ job[p].data \in Hash => job[p].data \in known

WalkInv == scan = "walk" => WalkTop /\ \A p \in Path : WalkUp(p) /\ WalkRow(p)

\* While nothing moves the scan has found what is there.
Steady(p) ==
    /\ job[p].meta # None => job[p].meta = fs[p]
    /\ job[p].at = "done" /\ job[p].meta = None => fs[p] = None
    /\ p \in Below(target) \ {target} /\ fs[p] # None /\ job[Parent[p]].at = "done"
           => job[p].at # "none"

SteadyInv == scan = "walk" /\ ~moved => \A p \in Path : Steady(p)

\* The committed rows that the scan wants.
Kept == {p \in DOMAIN keys.old : keys.old[p].tag = "Reserved"}

Ending == scan \in {"cleanup", "scanned", "scanned_file"}

KeptInv ==
    Ending =>
        /\ AllDone(keys.new)
        /\ Lineage(target) \ {Top} \subseteq Kept
        /\ Kept \cap DOMAIN keys.new = {}
        /\ \A p \in Kept : keys.old[p].data \in Hash => keys.old[p].data \in known

\* They are those of what is there, if nothing has moved.
ExactInv ==
    Ending /\ ~moved =>
        /\ Kept = {p \in Visited : fs[p] # None}
        /\ \A p \in Kept : keys.old[p].mtime = fs[p].mtime

\* Below a directory whose level has been flushed nothing is left to be
\* cleaned up, if the directory and all above it, up to the path that is
\* scanned, are wanted.
CleanInv ==
    scan \in {"cleanup", "scanned"} =>
        /\ unflushed \subseteq Below(target)
        /\ \A p \in Below(target) : Between(p) \subseteq Kept /\ p \notin unflushed =>
              Children(p) \cap (unflushed \cup Unreserved(keys)) = {}
        /\ scan = "scanned" => target \notin unflushed

KeyInv ==
    /\ TypeInv /\ FsInv /\ RowsInv /\ ReferentialIntegrity
    /\ JobsInv /\ OpenInv /\ WalkInv /\ SteadyInv
    /\ KeptInv /\ ExactInv /\ CleanInv

-----------------------------------------------------------------------------
\* The tree of paths.

\* A set that has, with each path below Top, the directory that holds it.
IsUpward(S) == S \subseteq Path /\ \A r \in S \ {Top} : Parent[r] \in S

\* It has the lineage of what is in it, and Top.
LEMMA UpwardHasLineage ==
    ASSUME NEW S, IsUpward(S), NEW p \in S
    PROVE  Lineage(p) \subseteq S /\ Top \in S
<1>1. p \in Path /\ S \in SUBSET Path
    BY DEF IsUpward
<1>2. Lineage(p) \subseteq S
    BY <1>1 DEF IsUpward, Lineage, Ancestry
<1> QED  BY <1>1, <1>2, LineageAssumption

\* A lineage is a set of that kind.
LEMMA LineageFacts ==
    ASSUME NEW p \in Path
    PROVE  p \in Lineage(p) /\ Top \in Lineage(p) /\ IsUpward(Lineage(p))
<1>1. Lineage(p) = {q \in Path : \A S \in SUBSET Path :
                      p \in S /\ (\A r \in S \ {Top} : Parent[r] \in S) => q \in S}
    BY DEF Lineage, Ancestry
<1>2. p \in Lineage(p) /\ Lineage(p) \subseteq Path
    BY <1>1
<1>3. ASSUME NEW q \in Lineage(p) \ {Top} PROVE Parent[q] \in Lineage(p)
    <2>1. q \in Path \ {Top} /\ Parent[q] \in Path
        BY <1>2, KeyAssumption
    <2>2. ASSUME NEW S \in SUBSET Path, p \in S, \A r \in S \ {Top} : Parent[r] \in S
          PROVE  Parent[q] \in S
        <3>1. q \in S
            BY <1>1, <2>2
        <3> QED  BY <2>1, <2>2, <3>1
    <2> QED  BY <1>1, <2>1, <2>2
<1> QED  BY <1>2, <1>3, LineageAssumption DEF IsUpward

\* The lineage of a path is the path and the lineage of its directory.
LEMMA LineageStep ==
    ASSUME NEW p \in Path \ {Top}
    PROVE  /\ Parent[p] \in Path
           /\ Lineage(p) = {p} \cup Lineage(Parent[p])
<1>1. Parent[p] \in Path
    BY KeyAssumption
<1>2. Lineage(Parent[p]) \subseteq Lineage(p)
    <2>1. Parent[p] \in Lineage(p) /\ IsUpward(Lineage(p))
        BY LineageFacts DEF IsUpward
    <2> QED  BY <2>1, UpwardHasLineage
<1>3. IsUpward({p} \cup Lineage(Parent[p]))
    BY <1>1, LineageFacts DEF IsUpward
<1>4. Lineage(p) \subseteq {p} \cup Lineage(Parent[p])
    BY <1>3, UpwardHasLineage
<1> QED  BY <1>1, <1>2, <1>4, LineageFacts

\* Nothing is above Top.
LEMMA TopLineage == Lineage(Top) = {Top}
<1>1. IsUpward({Top}) /\ Top \in Path
    BY KeyAssumption DEF IsUpward
<1> QED  BY <1>1, UpwardHasLineage, LineageFacts

\* What is below a path: that path, not Top, with a path what is in it, and
\* not the directory that the path is in.
LEMMA BelowFacts ==
    ASSUME NEW p \in Path
    PROVE  /\ p \in Below(p)
           /\ \A q \in Path \ {Top} : Parent[q] \in Below(p) => q \in Below(p)
           /\ \A q \in Path \ {Top} : q \in Below(p) => q = p \/ Parent[q] \in Below(p)
           /\ p # Top => Top \notin Below(p) /\ Parent[p] \notin Below(p)
<1>1. p \in Below(p)
    BY LineageFacts DEF Below
<1>2. \A q \in Path \ {Top} : Parent[q] \in Below(p) => q \in Below(p)
    BY LineageStep DEF Below
<1>3. \A q \in Path \ {Top} : q \in Below(p) => q = p \/ Parent[q] \in Below(p)
    BY LineageStep DEF Below
<1>4. p # Top => Top \notin Below(p)
    BY TopLineage DEF Below
<1>5. ASSUME p # Top, Parent[p] \in Below(p) PROVE FALSE
    <2>1. IsUpward(Below(p))
        BY <1>3, <1>5 DEF IsUpward, Below
    <2>2. Top \in Below(p)
        BY <1>1, <2>1, UpwardHasLineage
    <2> QED  BY <1>4, <1>5, <2>2
<1> QED  BY <1>1, <1>2, <1>3, <1>4, <1>5

\* Of two paths only one is above the other.
LEMMA LineageOneWay ==
    ASSUME NEW p \in Path, NEW q \in Path, p \in Lineage(q), q \in Lineage(p)
    PROVE  p = q
<1> SUFFICES ASSUME p # q PROVE FALSE
    OBVIOUS
<1>1. q # Top
    BY TopLineage
<1>2. Parent[q] \in Path /\ p \in Lineage(Parent[q])
    BY <1>1, LineageStep
<1>3. q \in Lineage(Parent[q])
    BY <1>2, LineageFacts, UpwardHasLineage
<1>4. Parent[q] \in Below(q)
    BY <1>2, <1>3 DEF Below
<1> QED  BY <1>1, <1>4, BelowFacts

\* Below the target: not on the way to it, nor above what is on the way.
LEMMA TargetFacts ==
    ASSUME target \in Path
    PROVE  /\ target \in Below(target) /\ target \in Lineage(target) /\ Top \in Lineage(target)
           /\ Below(target) \subseteq Path /\ Lineage(target) \subseteq Path
           /\ \A q \in Lineage(target) \ {Top} : Parent[q] \in Lineage(target) /\ Parent[q] # target
           /\ \A q \in Below(target) \ {target} :
                 q # Top /\ q \in Path /\ q \notin Lineage(target) /\ Parent[q] \in Below(target)
           /\ \A q \in Path \ {Top} : Parent[q] \in Below(target) => q \in Below(target) \ {target}
<1>1. /\ target \in Below(target) /\ target \in Lineage(target) /\ Top \in Lineage(target)
      /\ Below(target) \subseteq Path /\ Lineage(target) \subseteq Path
    BY LineageFacts, BelowFacts DEF Below, IsUpward
<1>2. ASSUME NEW q \in Lineage(target) \ {Top}
      PROVE  Parent[q] \in Lineage(target) /\ Parent[q] # target
    <2>1. Parent[q] \in Lineage(target) /\ q \in Path
        BY <1>1, LineageFacts DEF IsUpward
    <2>2. Parent[q] \notin Below(q) /\ target \in Below(q)
        BY <2>1, BelowFacts DEF Below
    <2> QED  BY <2>1, <2>2
<1>3. ASSUME NEW q \in Below(target) \ {target}
      PROVE  q # Top /\ q \in Path /\ q \notin Lineage(target) /\ Parent[q] \in Below(target)
    <2>1. q \in Path /\ target \in Lineage(q)
        BY DEF Below
    <2>2. q # Top
        BY <2>1, TopLineage
    <2>3. q \notin Lineage(target)
        BY <2>1, LineageOneWay
    <2> QED  BY <2>1, <2>2, <2>3, BelowFacts
<1>4. ASSUME NEW q \in Path \ {Top}, Parent[q] \in Below(target)
      PROVE  q \in Below(target) \ {target}
    BY <1>4, BelowFacts
<1> QED  BY <1>1, <1>2, <1>3, <1>4

\* From the target down.
LEMMA BetweenFacts ==
    ASSUME target \in Path
    PROVE  /\ Between(target) = {}
           /\ \A q \in Below(target) \ {target} : Between(q) = {q} \cup Between(Parent[q])
<1>1. Between(target) = {}
    BY TargetFacts, LineageOneWay DEF Between, Below
<1>2. ASSUME NEW q \in Below(target) \ {target} PROVE Between(q) = {q} \cup Between(Parent[q])
    <2>1. q \in Path \ {Top}
        BY TargetFacts
    <2>2. Lineage(q) = {q} \cup Lineage(Parent[q])
        BY <2>1, LineageStep
    <2> QED  BY <2>2 DEF Between
<1> QED  BY <1>1, <1>2

\* What a scan is about has, with a path, the directories that hold it.
LEMMA VisitedFacts ==
    ASSUME target \in Path
    PROVE  IsUpward(Visited \cup {Top}) /\ Visited \subseteq Path \ {Top}
<1>1. Top \in Path
    BY KeyAssumption
<1>2. CASE scan = "scanned_file"
    <2>1. Visited \cup {Top} = Lineage(target)
        BY <1>2, TargetFacts DEF Visited
    <2> QED  BY <2>1, LineageFacts DEF IsUpward, Visited
<1>3. CASE scan # "scanned_file"
    <2>1. Visited \cup {Top} = Lineage(target) \cup Below(target) /\ Top \notin Visited
        BY <1>3, TargetFacts DEF Visited
    <2>2. \A q \in (Lineage(target) \cup Below(target)) \ {Top} :
              Parent[q] \in Lineage(target) \cup Below(target)
        BY TargetFacts
    <2> QED  BY <2>1, <2>2, TargetFacts DEF IsUpward
<1> QED  BY <1>2, <1>3

\* The directories on the way to something that is there are there.
LEMMA WayIsThere ==
    ASSUME FsInv, NEW p \in Path, fs[p] # None
    PROVE  /\ \A q \in Lineage(p) : q \in Path /\ fs[q] # None
           /\ \A q \in Lineage(p) \ {p} : fs[q].kind = "dir"
<1>1. PICK S : S = {p} \cup {r \in Path : fs[r] # None /\ fs[r].kind = "dir"}
    OBVIOUS
<1>2. IsUpward(S)
    BY <1>1, KeyAssumption DEF IsUpward, FsInv
<1> QED  BY <1>1, <1>2, UpwardHasLineage

-----------------------------------------------------------------------------
\* Tables.

\* A row gets a tag.
LEMMA TaggedFacts ==
    ASSUME NEW t, IsTable(t), NEW P, NEW tag \in {"Done", "Reserved"}
    PROVE  /\ IsTable(Tagged(t, P, tag)) /\ DOMAIN Tagged(t, P, tag) = DOMAIN t
           /\ \A q \in DOMAIN t :
                /\ Tagged(t, P, tag)[q].mtime = t[q].mtime
                /\ Tagged(t, P, tag)[q].data = t[q].data
                /\ Tagged(t, P, tag)[q].tag = IF q \in P THEN tag ELSE t[q].tag
                /\ q \notin P => Tagged(t, P, tag)[q] = t[q]
<1>1. /\ DOMAIN Tagged(t, P, tag) = DOMAIN t
      /\ Tagged(t, P, tag) = [q \in DOMAIN t |-> Tagged(t, P, tag)[q]]
      /\ \A q \in DOMAIN t : Tagged(t, P, tag)[q] = IF q \in P THEN [t[q] EXCEPT !.tag = tag] ELSE t[q]
    BY DEF Tagged
<1>2. \A q \in DOMAIN t : t[q] \in Row
    BY DEF IsTable
<1>3. \A x \in Row : /\ [x EXCEPT !.tag = tag] \in Row
                     /\ [x EXCEPT !.tag = tag].mtime = x.mtime
                     /\ [x EXCEPT !.tag = tag].data = x.data
                     /\ [x EXCEPT !.tag = tag].tag = tag
    BY DEF Row
<1>4. \A q \in DOMAIN t : Tagged(t, P, tag)[q] \in Row
    BY <1>1, <1>2, <1>3
<1>5. IsTable(Tagged(t, P, tag))
    BY <1>1, <1>4 DEF IsTable
<1>6. \A q \in DOMAIN t : /\ Tagged(t, P, tag)[q].mtime = t[q].mtime
                          /\ Tagged(t, P, tag)[q].data = t[q].data
                          /\ Tagged(t, P, tag)[q].tag = IF q \in P THEN tag ELSE t[q].tag
    BY <1>1, <1>2, <1>3
<1> QED  BY <1>1, <1>5, <1>6

\* A row is put.
LEMMA PutFacts ==
    ASSUME NEW t, IsTable(t), NEW p \in Path \ {Top}, NEW r \in Row
    PROVE  /\ IsTable(Put(t, p, r)) /\ DOMAIN Put(t, p, r) = DOMAIN t \cup {p}
           /\ Put(t, p, r)[p] = r
           /\ \A q \in DOMAIN t \ {p} : Put(t, p, r)[q] = t[q]
BY DEF Put, IsTable

\* Rows are taken away.
LEMMA DropFacts ==
    ASSUME NEW t, IsTable(t), NEW P
    PROVE  /\ IsTable(Drop(t, P)) /\ DOMAIN Drop(t, P) = DOMAIN t \ P
           /\ \A q \in DOMAIN t \ P : Drop(t, P)[q] = t[q]
BY DEF Drop, IsTable

-----------------------------------------------------------------------------
\* What goes on around the scan.

\* The rows stay as they are, and what was read under a wrong time is not
\* forgotten.
LEMMA RowsKept ==
    ASSUME RowsInv, UNCHANGED <<keys, keyDisk>>,
           IsKeys(keys), IsKeys(keyDisk), \A p \in Path : torn[p] \subseteq torn'[p]
    PROVE  RowsInv'
<1>1. \A p \in Path : \A v, d : Fits(p, v, d) => Fits(p, v, d)'
    BY DEF Fits
<1>2. ASSUME NEW t, IsTable(t), RowsFit(t) PROVE RowsFit(t)'
    BY <1>1, <1>2 DEF RowsFit, IsTable
<1>3. /\ RowsFit(keys.new)' /\ RowsFit(keys.old)'
      /\ RowsFit(keyDisk.new)' /\ RowsFit(keyDisk.old)'
    <2>1. /\ IsTable(keys.new) /\ IsTable(keys.old) /\ IsTable(keyDisk.new) /\ IsTable(keyDisk.old)
          /\ RowsFit(keys.new) /\ RowsFit(keys.old) /\ RowsFit(keyDisk.new) /\ RowsFit(keyDisk.old)
        BY DEF RowsInv, IsKeys
    <2>2. PICK a, b, c, d : a = keys.new /\ b = keys.old /\ c = keyDisk.new /\ d = keyDisk.old
        OBVIOUS
    <2>3. RowsFit(a)' /\ RowsFit(b)' /\ RowsFit(c)' /\ RowsFit(d)'
        BY <1>2, <2>1, <2>2
    <2> QED  BY <2>2, <2>3 DEF RowsFit, Fits
<1> QED  BY <1>3 DEF RowsInv

\* What is said of the index alone.
LEMMA IndexKept ==
    ASSUME UNCHANGED keys
    PROVE  /\ Kept' = Kept /\ Unreserved(keys)' = Unreserved(keys)
           /\ (AllDone(keys.new)' <=> AllDone(keys.new)) /\ (AllDone(keys.old)' <=> AllDone(keys.old))
           /\ \A p : (Live(p)' <=> Live(p)) /\ Lookup(p)' = Lookup(p)
BY DEF Kept, Unreserved, AllDone, Live, Lookup, Nodes

\* Something else is put at a path.
LEMMA ChangeKeepsInv ==
    ASSUME KeyInv, NEW p \in Path, Change(p)
    PROVE  KeyInv'
<1>1. UNCHANGED <<torn, keys, keyDisk, known, durable, scan, target, job, unflushed>> /\ moved' = TRUE
    BY DEF Change
<1>2. PICK v \in Versions[p] \cup {None} :
        /\ v \notin torn[p]
        /\ scan = "walk" /\ p = target => v # None /\ v.kind = fs[p].kind
        /\ fs' = [q \in Path |-> IF q = p THEN v ELSE IF q \in Below(p) THEN None ELSE fs[q]]
    BY DEF Change
<1>3. p # Top /\ fs[Parent[p]] # None /\ fs[Parent[p]].kind = "dir"
    BY DEF Change
<1>4. /\ Top \in Path
      /\ \A q \in Path : None \notin Versions[q]
      /\ \A q \in Path \ {Top} : Parent[q] \in Path
    BY KeyAssumption
<1>5. TypeInv'
    <2>1. \A q \in Path : fs'[q] \in Versions[q] \cup {None}
        BY <1>2 DEF KeyInv, TypeInv
    <2>2. fs' \in [Path -> AllVersions \cup {None}]
        BY <1>2, <2>1 DEF AllVersions
    <2> QED  BY <1>1, <2>1, <2>2 DEF KeyInv, TypeInv, IsKeys, IsTable
<1>6. fs'[Top] # None
    BY <1>2, <1>3, <1>4, BelowFacts DEF KeyInv, FsInv
<1>7. ASSUME NEW q \in Path \ {Top}, fs'[q] # None
      PROVE  fs'[Parent[q]] # None /\ fs'[Parent[q]].kind = "dir"
    <2>1. CASE q = p
        <3>1. Parent[p] \in Path /\ Parent[p] \notin Below(p) /\ Parent[p] # p
            BY <1>4, <2>1, BelowFacts
        <3> QED  BY <1>2, <1>3, <2>1, <3>1
    <2>2. CASE q # p
        <3>1. q \notin Below(p) /\ fs[q] = fs'[q]
            BY <1>2, <1>7, <2>2
        <3>2. Parent[q] \in Path /\ Parent[q] \notin Below(p) /\ Parent[q] # p
            BY <1>4, <3>1, BelowFacts
        <3> QED  BY <1>2, <1>7, <3>1, <3>2 DEF KeyInv, FsInv
    <2> QED  BY <2>1, <2>2
<1>8. \A q \in Path : fs'[q] \notin torn'[q]
    BY <1>1, <1>2, <1>4 DEF KeyInv, TypeInv, FsInv
<1>9. FsInv'
    BY <1>6, <1>7, <1>8 DEF FsInv
<1>10. RowsInv'
    BY <1>1, RowsKept DEF KeyInv, TypeInv
<1>11. ReferentialIntegrity' /\ JobsInv' /\ OpenInv'
    BY <1>1 DEF KeyInv, ReferentialIntegrity, Reachable, JobsInv, JobInv, Fits, OpenInv, AllDone
<1>12. WalkInv'
    <2> SUFFICES ASSUME scan = "walk" PROVE WalkTop' /\ \A q \in Path : WalkUp(q)' /\ WalkRow(q)'
        BY <1>1 DEF WalkInv
    <2>1. WalkTop /\ \A q \in Path : WalkUp(q) /\ WalkRow(q)
        BY DEF KeyInv, WalkInv
    <2>2. \A q \in Path : WalkUp(q)'
        BY <1>1, <2>1 DEF WalkUp
    <2>4. target \in Path /\ p \notin Lineage(target) \ {target}
        BY DEF KeyInv, TypeInv, Change, OnTheWay
    <2>5. ASSUME NEW q \in Lineage(target) PROVE fs'[q] # None /\ fs'[q].kind = fs[q].kind
        <3>1. q \in Path /\ fs[q] # None
            BY <2>1, <2>4, WayIsThere DEF KeyInv, WalkTop
        <3>2. CASE q = p
            BY <1>2, <2>4, <3>2
        <3>3. CASE q # p
            <4>1. ASSUME q \in Below(p) PROVE FALSE
                <5>1. p \in Lineage(q)
                    BY <4>1 DEF Below
                <5>2. p \in Lineage(target)
                    BY <2>4, <5>1, LineageFacts, UpwardHasLineage
                <5>3. p = target
                    BY <2>4, <5>2
                <5> QED  BY <3>1, <3>3, <5>1, <5>3, LineageOneWay
            <4> QED  BY <1>2, <3>1, <3>3, <4>1
        <3> QED  BY <3>2, <3>3
    <2>6. WalkTop'
        BY <1>1, <2>1, <2>4, <2>5, TargetFacts DEF WalkTop
    <2>3. \A q \in Path : WalkRow(q)'
        BY <1>1, <2>1 DEF WalkRow, Live, Processed, Lookup, Nodes
    <2> QED  BY <2>2, <2>3, <2>6
<1>13. SteadyInv' /\ ExactInv'
    BY <1>1 DEF SteadyInv, ExactInv
<1>14. KeptInv'
    BY <1>1, IndexKept DEF KeyInv, KeptInv, Ending
<1>15. CleanInv'
    BY <1>1, IndexKept DEF KeyInv, CleanInv, Between
<1> QED  BY <1>5, <1>9, <1>10, <1>11, <1>12, <1>13, <1>14, <1>15 DEF KeyInv

\* A collection, before a scan, and the commits of the hash index.
LEMMA HashesKeepInv ==
    ASSUME KeyInv, NEW h \in Hash, SaveHash(h) \/ Collect(h)
    PROVE  KeyInv'
<1>1. /\ UNCHANGED <<fs, moved, torn, keys, keyDisk, scan, target, job, unflushed>>
      /\ known' \subseteq Hash /\ durable' \subseteq known'
      /\ scan # "open" => known' = known
    BY DEF SaveHash, Collect, KeyInv, TypeInv
<1>2. TypeInv' /\ FsInv' /\ JobsInv' /\ ReferentialIntegrity'
    BY <1>1 DEF KeyInv, TypeInv, IsKeys, IsTable, FsInv, JobsInv, JobInv, Fits,
                ReferentialIntegrity, Reachable
<1>3. RowsInv'
    BY <1>1, RowsKept DEF KeyInv, TypeInv
<1>4. OpenInv' /\ KeptInv' /\ ExactInv' /\ CleanInv'
    BY <1>1, IndexKept DEF KeyInv, OpenInv, KeptInv, ExactInv, CleanInv, Ending, Visited, Between
<1>5. WalkInv'
    <2> SUFFICES ASSUME scan = "walk" PROVE WalkTop' /\ \A q \in Path : WalkUp(q)' /\ WalkRow(q)'
        BY <1>1 DEF WalkInv
    <2>1. WalkTop /\ \A q \in Path : WalkUp(q) /\ WalkRow(q)
        BY DEF KeyInv, WalkInv
    <2>2. WalkTop' /\ \A q \in Path : WalkUp(q)'
        BY <1>1, <2>1 DEF WalkTop, WalkUp
    <2>3. \A q \in Path : WalkRow(q)'
        BY <1>1, <2>1 DEF WalkRow, Live, Processed, Lookup, Nodes
    <2> QED  BY <2>2, <2>3
<1>6. SteadyInv'
    BY <1>1 DEF KeyInv, SteadyInv, Steady
<1> QED  BY <1>2, <1>3, <1>4, <1>5, <1>6 DEF KeyInv

-----------------------------------------------------------------------------
\* The walk.

\* A path's metadata tells the path's versions apart.
LEMMA VersionFacts ==
    ASSUME NEW p \in Path, NEW v \in Versions[p]
    PROVE  /\ v # None /\ v \in AllVersions /\ v.mtime \in Nat
           /\ v.kind \in {"dir", "file", "link"}
           /\ v.kind = "file" => v.data \in Hash
           /\ v.kind # "file" => v.data \in {Link, NoData} /\ v.data \notin Hash
           /\ (v.kind = "dir" => v.data = NoData) /\ (v.kind = "link" => v.data = Link)
           /\ \A w \in Versions[p] : v.mtime = w.mtime => v = w
BY KeyAssumption DEF AllVersions, Kind

\* A worker goes on with p, and the index stays as it is.
LEMMA WorkKeepsInv ==
    ASSUME KeyInv, NEW p \in Path, scan = "walk",
           job[p].at \in {"listed", "stat", "lookup", "read"},
           UNCHANGED <<fs, moved, keys, keyDisk, durable, scan, target, unflushed>>,
           known \subseteq known', known' \subseteq Hash,
           torn' \in [Path -> SUBSET AllVersions],
           \A q \in Path : /\ torn[q] \subseteq torn'[q] /\ torn'[q] \subseteq Versions[q]
                           /\ fs[q] \notin torn'[q],
           NEW j, job' = [job EXCEPT ![p] = j],
           j \in JobState,
           j.meta \in Versions[p] \cup {None},
           j.at \notin {"none", "readdir"},
           j.at = "done" => j.meta = None /\ fs[p] = None,
           j.meta # None => j.meta = job[p].meta \/ j.meta = fs[p],
           JobInv(p)',
           j.at = "insert" /\ j.data \in Hash => j.data \in known'
    PROVE  KeyInv'
<1>0. Top \in Path /\ \A q \in Path \ {Top} : Parent[q] \in Path
    BY KeyAssumption
<1>1. job'[p] = j /\ \A q \in Path \ {p} : job'[q] = job[q]
    BY DEF KeyInv, TypeInv
<1>2. TypeInv'
    <2>1. job' \in [Path -> JobState]
        BY DEF KeyInv, TypeInv
    <2>2. \A q \in Path : job'[q].meta \in Versions[q] \cup {None}
        BY <1>1 DEF KeyInv, TypeInv
    <2>3. durable' \subseteq known'
        BY DEF KeyInv, TypeInv
    <2> QED  BY <2>1, <2>2, <2>3 DEF KeyInv, TypeInv, IsKeys, IsTable
<1>3. FsInv'
    BY DEF KeyInv, FsInv
<1>4. RowsInv'
    BY RowsKept DEF KeyInv, TypeInv
<1>5. JobsInv'
    <2>1. \A q \in Path \ {p} : JobInv(q)'
        BY <1>1 DEF KeyInv, JobsInv, JobInv, Fits
    <2> QED  BY <2>1 DEF JobsInv
<1>6. ReferentialIntegrity' /\ OpenInv' /\ KeptInv' /\ ExactInv' /\ CleanInv'
    BY DEF KeyInv, ReferentialIntegrity, Reachable, OpenInv, AllDone, KeptInv, ExactInv,
           CleanInv, Ending
<1>7. WalkTop /\ \A q \in Path : WalkUp(q) /\ WalkRow(q)
    BY DEF KeyInv, WalkInv
<1>7a. target \in Path /\ p # Top /\ \A q \in Lineage(target) : q \in Path /\ fs[q] # None
    BY <1>7, WayIsThere DEF KeyInv, TypeInv, WalkTop
<1>8. WalkTop'
    <2>1. job'[Top].at \in {"readdir", "done"}
        BY <1>0, <1>1, <1>7, <1>7a DEF WalkTop
    <2>2. ASSUME NEW q \in Lineage(target)
          PROVE  /\ job'[q].at = "done" => job'[q].meta # None
                 /\ job'[q].meta # None => job'[q].meta.kind = fs[q].kind
                 /\ q # Top /\ job'[Parent[q]].at = "done" => job'[q].at # "none"
        <3>1. /\ job[q].at = "done" => job[q].meta # None
              /\ job[q].meta # None => job[q].meta.kind = fs[q].kind
              /\ q # Top /\ job[Parent[q]].at = "done" => job[q].at # "none"
            BY <1>7 DEF WalkTop
        <3>2. /\ job'[q].at = "done" => job'[q].meta # None
              /\ job'[q].meta # None => job'[q].meta.kind = fs[q].kind
            BY <1>1, <1>7a, <3>1
        <3>3. ASSUME q # Top, job'[Parent[q]].at = "done" PROVE job'[q].at # "none"
            <4>1. Parent[q] \in Path /\ Parent[q] \in Lineage(target)
                BY <1>0, <1>7a, <3>3, TargetFacts
            <4>2. Parent[q] # p
                BY <1>1, <1>7a, <3>3, <4>1
            <4>3. job[Parent[q]].at = "done"
                BY <1>1, <3>3, <4>1, <4>2
            <4> QED  BY <1>1, <1>7a, <3>1, <3>3, <4>3
        <3> QED  BY <3>2, <3>3
    <2> QED  BY <1>7, <2>1, <2>2 DEF WalkTop
<1>9. ASSUME NEW q \in Path PROVE WalkUp(q)'
    <2> SUFFICES ASSUME q # Top, job'[q].at # "none"
                 PROVE  /\ job'[Parent[q]].at = "done" /\ job'[Parent[q]].meta # None
                        /\ q \in Lineage(target) \cup Below(target)
        BY DEF WalkUp
    <2>1. job[q].at # "none"
        BY <1>1
    <2>2. /\ job[Parent[q]].at = "done" /\ job[Parent[q]].meta # None
          /\ q \in Lineage(target) \cup Below(target)
        BY <1>7, <2>1 DEF WalkUp
    <2>3. Parent[q] # p
        BY <2>2
    <2> QED  BY <1>0, <1>1, <2>2, <2>3
<1>10. ASSUME NEW q \in Path PROVE WalkRow(q)'
    <2>1. Processed(q)' <=> Processed(q)
        BY <1>1 DEF Processed
    <2>2. Live(q) => q # p
        BY <1>7 DEF WalkRow, Processed
    <2>3. /\ Live(q)' <=> Live(q)
          /\ Lookup(q)' = Lookup(q)
        BY DEF Live, Lookup, Nodes
    <2>4. job'[q].at = "insert" /\ job'[q].data \in Hash => job'[q].data \in known'
        BY <1>1, <1>7 DEF WalkRow
    <2>5. Live(q) => Lookup(q).mtime = job'[q].meta.mtime
        BY <1>1, <1>7, <2>2 DEF WalkRow
    <2>6. Live(q) /\ Lookup(q).data \in Hash => Lookup(q).data \in known'
        BY <1>7 DEF WalkRow
    <2> QED  BY <1>7, <2>1, <2>3, <2>4, <2>5, <2>6 DEF WalkRow
<1>11. WalkInv'
    BY <1>8, <1>9, <1>10 DEF WalkInv
<1>12. SteadyInv'
    <2> SUFFICES ASSUME ~moved, NEW q \in Path PROVE Steady(q)'
        BY DEF SteadyInv
    <2>1. \A r \in Path : Steady(r)
        BY DEF KeyInv, SteadyInv
    <2>2. job'[q].meta # None => job'[q].meta = fs[q]
        BY <1>1, <2>1 DEF Steady
    <2>3. job'[q].at = "done" /\ job'[q].meta = None => fs[q] = None
        BY <1>1, <2>1 DEF Steady
    <2>4. ASSUME q \in Below(target) \ {target}, fs[q] # None, job'[Parent[q]].at = "done"
          PROVE  job'[q].at # "none"
        <3>0. q # Top /\ Parent[q] \in Path
            BY <1>0, <1>7a, <2>4, TargetFacts
        <3>1. Parent[q] # p
            BY <1>1, <2>4, <3>0 DEF KeyInv, FsInv
        <3> QED  BY <1>1, <2>1, <2>4, <3>0, <3>1 DEF Steady
    <2> QED  BY <2>2, <2>3, <2>4 DEF Steady
<1> QED  BY <1>2, <1>3, <1>4, <1>5, <1>6, <1>11, <1>12 DEF KeyInv

\* Reading the metadata, waiting for a key store, and finding that there is
\* something to insert.
LEMMA StatKeepsInv ==
    ASSUME KeyInv, NEW p \in Path, Stat(p) \/ TakeStore(p) \/ MissEntry(p)
    PROVE  KeyInv'
<1>1. /\ scan = "walk" /\ job[p].at \in {"listed", "stat", "lookup"}
      /\ UNCHANGED <<fs, moved, torn, keys, keyDisk, known, durable, scan, target, unflushed>>
    BY DEF Stat, TakeStore, MissEntry
<1>2. /\ job \in [Path -> JobState]
      /\ job[p].meta \in Versions[p] \cup {None} /\ fs[p] \in Versions[p] \cup {None}
      /\ fs[p] \in AllVersions \cup {None}
      /\ JobInv(p)
    BY DEF KeyInv, TypeInv, JobsInv
<1>3. PICK j :
        /\ job' = [job EXCEPT ![p] = j]
        /\ j \in JobState
        /\ j.meta \in Versions[p] \cup {None}
        /\ \/ fs[p] = None /\ j.at = "done" /\ j.meta = None
           \/ fs[p] # None /\ j.at = "stat" /\ j.meta = fs[p]
           \/ j.at = "lookup" /\ j.meta = job[p].meta /\ j.meta # None
           \/ j.at = "read" /\ j.meta = job[p].meta /\ j.meta # None /\ j.meta.kind = "file"
           \/ /\ j.at = "insert" /\ j.meta = job[p].meta /\ j.meta # None /\ j.meta.kind # "file"
              /\ j.data = IF j.meta.kind = "link" THEN Link ELSE NoData
    <2>1. CASE Stat(p) /\ fs[p] = None
        <3>1. PICK j : j = [job[p] EXCEPT !.at = "done"]
            OBVIOUS
        <3>2. j.meta = None
            BY <1>2, <2>1, <3>1 DEF JobInv, Stat
        <3>3. job' = [job EXCEPT ![p] = j]
            BY <1>2, <2>1, <3>1 DEF Stat
        <3>4. j \in JobState /\ j.at = "done"
            BY <1>2, <3>1 DEF JobState, Position
        <3> QED  BY <2>1, <3>2, <3>3, <3>4
    <2>2. CASE Stat(p) /\ fs[p] # None
        <3>1. PICK j : j = [at |-> "stat", meta |-> fs[p], data |-> NoData]
            OBVIOUS
        <3>2. job' = [job EXCEPT ![p] = j]
            BY <2>2, <3>1 DEF Stat
        <3>3. j \in JobState /\ j.at = "stat" /\ j.meta = fs[p]
            BY <1>2, <3>1 DEF JobState, Position
        <3> QED  BY <1>2, <2>2, <3>2, <3>3
    <2>3. CASE TakeStore(p)
        <3>1. PICK j : j = [job[p] EXCEPT !.at = "lookup"]
            OBVIOUS
        <3>2. job' = [job EXCEPT ![p] = j]
            BY <1>2, <2>3, <3>1 DEF TakeStore, Goto
        <3>3. job[p].meta # None
            BY <1>2, <2>3 DEF TakeStore, JobInv
        <3>4. j \in JobState /\ j.at = "lookup" /\ j.meta = job[p].meta
            BY <1>2, <3>1 DEF JobState, Position
        <3> QED  BY <1>2, <3>2, <3>3, <3>4
    <2>4. CASE MissEntry(p)
        <3>1. PICK a, d : /\ a = IF job[p].meta.kind = "file" THEN "read" ELSE "insert"
                          /\ d = IF job[p].meta.kind = "link" THEN Link ELSE NoData
            OBVIOUS
        <3>2. PICK j : j = [job[p] EXCEPT !.at = a, !.data = d]
            OBVIOUS
        <3>3. job' = [job EXCEPT ![p] = j]
            BY <1>2, <2>4, <3>1, <3>2 DEF MissEntry
        <3>4. job[p].meta # None
            BY <1>2, <2>4 DEF MissEntry, JobInv
        <3>5. /\ j \in JobState
              /\ j.at = a /\ j.data = d /\ j.meta = job[p].meta
            BY <1>2, <3>1, <3>2 DEF JobState, Position
        <3> QED  BY <1>2, <3>1, <3>3, <3>4, <3>5
    <2> QED  BY <2>1, <2>2, <2>3, <2>4
<1>4. job'[p] = j
    BY <1>2, <1>3
<1>5. j.at = "insert" => Fits(p, j.meta, j.data) /\ j.data \notin Hash
    BY <1>3, VersionFacts, KeyAssumption DEF Fits
<1>6. JobInv(p)'
    BY <1>1, <1>3, <1>4, <1>5 DEF JobInv, Fits
<1>7. j.at \notin {"none", "readdir"} /\ (j.at = "done" => j.meta = None /\ fs[p] = None)
    BY <1>3
<1>8. j.meta # None => j.meta = job[p].meta \/ j.meta = fs[p]
    BY <1>3
<1>9. /\ known \subseteq known' /\ known' \subseteq Hash
      /\ torn' \in [Path -> SUBSET AllVersions]
      /\ \A q \in Path : /\ torn[q] \subseteq torn'[q] /\ torn'[q] \subseteq Versions[q]
                         /\ fs[q] \notin torn'[q]
    BY <1>1 DEF KeyInv, TypeInv, FsInv
<1> QED  BY <1>1, <1>3, <1>5, <1>6, <1>7, <1>8, <1>9, WorkKeepsInv

\* A file is read, perhaps not the one whose metadata was.
LEMMA ReadFileKeepsInv ==
    ASSUME KeyInv, NEW p \in Path, ReadFile(p)
    PROVE  KeyInv'
<1>1. /\ job \in [Path -> JobState] /\ job[p].meta \in Versions[p] \cup {None}
      /\ fs[p] \in Versions[p] \cup {None} /\ JobInv(p)
      /\ torn \in [Path -> SUBSET AllVersions]
      /\ \A q \in Path : torn[q] \subseteq Versions[q] /\ fs[q] \notin torn[q]
      /\ known \subseteq Hash
    BY DEF KeyInv, TypeInv, JobsInv, FsInv
<1>2. PICK d : d = IF fs[p] = None \/ p \in Unreadable THEN NoData
                   ELSE IF fs[p].kind = "file" THEN fs[p].data ELSE EmptyHash
    OBVIOUS
<1>3. /\ scan = "walk" /\ job[p].at = "read"
      /\ known' = known \cup ({d} \ {NoData})
      /\ job' = [job EXCEPT ![p].at = "insert", ![p].data = d]
      /\ torn' = IF fs[p] = job[p].meta THEN torn ELSE [torn EXCEPT ![p] = @ \cup {job[p].meta}]
      /\ UNCHANGED <<fs, moved, keys, keyDisk, durable, scan, target, unflushed>>
    BY <1>2 DEF ReadFile
<1>4. d \in Hash \cup {NoData} /\ NoData \notin Hash
    BY <1>1, <1>2, VersionFacts, KeyAssumption
<1>5. known \subseteq known' /\ known' \subseteq Hash /\ (d \in Hash => d \in known')
    BY <1>1, <1>3, <1>4
<1>6. job[p].meta \in Versions[p] /\ job[p].meta # None /\ job[p].meta.kind = "file"
    BY <1>1, <1>3 DEF JobInv
<1>7. /\ torn' \in [Path -> SUBSET AllVersions]
      /\ \A q \in Path : /\ torn[q] \subseteq torn'[q] /\ torn'[q] \subseteq Versions[q]
                         /\ fs[q] \notin torn'[q]
      /\ fs[p] # job[p].meta => job[p].meta \in torn'[p]
    <2>1. CASE fs[p] = job[p].meta
        BY <1>1, <1>3, <2>1
    <2>2. CASE fs[p] # job[p].meta
        <3>1. job[p].meta \in AllVersions
            BY <1>6, VersionFacts
        <3>2. /\ torn'[p] = torn[p] \cup {job[p].meta}
              /\ \A q \in Path \ {p} : torn'[q] = torn[q]
              /\ torn' \in [Path -> SUBSET AllVersions]
            BY <1>1, <1>3, <2>2, <3>1
        <3> QED  BY <1>1, <1>6, <2>2, <3>2
    <2> QED  BY <2>1, <2>2
<1>8. PICK j : j = [job[p] EXCEPT !.at = "insert", !.data = d]
    OBVIOUS
<1>9. j \in JobState /\ j.at = "insert" /\ j.data = d /\ j.meta = job[p].meta
    BY <1>1, <1>4, <1>8 DEF JobState, Position
<1>10. job' = [job EXCEPT ![p] = j] /\ job'[p] = j
    BY <1>1, <1>3, <1>8
<1>11. JobInv(p)'
    <2>1. d = job[p].meta.data \/ job[p].meta \in torn'[p] \/ p \in Unreadable
        BY <1>2, <1>6, <1>7
    <2> QED  BY <1>4, <1>6, <1>9, <1>10, <2>1 DEF JobInv, Fits
<1> QED  BY <1>1, <1>3, <1>5, <1>7, <1>9, <1>10, <1>11, WorkKeepsInv

\* The key store replies: p has a reserved row, with the metadata that was read.
LEMMA ReplyKeepsInv ==
    ASSUME KeyInv, NEW p \in Path, scan = "walk", job[p].at \in {"lookup", "insert"},
           UNCHANGED <<fs, moved, torn, known, durable, scan, target, unflushed>>,
           Goto(p, Replied(p)),
           IsKeys(keys'), DOMAIN keys'.old = DOMAIN keys.old,
           \A q \in Path \ {p} :
              /\ q \in DOMAIN keys'.new <=> q \in DOMAIN keys.new
              /\ q \in DOMAIN keys.new => keys'.new[q] = keys.new[q]
              /\ q \in DOMAIN keys.old => keys'.old[q] = keys.old[q],
           RowsFit(keys.new)', RowsFit(keys.old)',
           Live(p)', Lookup(p)'.mtime = job[p].meta.mtime,
           Lookup(p)'.data \in Hash => Lookup(p)'.data \in known,
           keyDisk' \in {keyDisk, keys'}
    PROVE  KeyInv'
<1>0. Top \in Path /\ \A q \in Path \ {Top} : Parent[q] \in Path
    BY KeyAssumption
<1>1. job \in [Path -> JobState] /\ IsKeys(keys) /\ IsKeys(keyDisk)
    BY DEF KeyInv, TypeInv
<1>2. /\ job'[p].at = Replied(p) /\ job'[p].meta = job[p].meta /\ job'[p].data = job[p].data
      /\ \A q \in Path \ {p} : job'[q] = job[q]
      /\ job' \in [Path -> JobState]
      /\ Replied(p) \in {"readdir", "done"}
      /\ Replied(p) = "readdir" <=> job[p].meta.kind = "dir"
    BY <1>1 DEF Goto, Replied, JobState, Position
<1>3. TypeInv'
    <2>1. \A q \in Path : job'[q].meta \in Versions[q] \cup {None}
        BY <1>2 DEF KeyInv, TypeInv
    <2>2. IsKeys(keyDisk')
        BY <1>1
    <2> QED  BY <1>2, <2>1, <2>2 DEF KeyInv, TypeInv, IsKeys, IsTable
<1>4. FsInv' /\ OpenInv' /\ KeptInv' /\ ExactInv' /\ CleanInv'
    BY DEF KeyInv, FsInv, OpenInv, KeptInv, ExactInv, CleanInv, Ending
<1>5. WalkTop /\ \A q \in Path : WalkUp(q) /\ WalkRow(q)
    BY DEF KeyInv, WalkInv
<1>6. job[p].meta # None
    BY DEF KeyInv, JobsInv, JobInv
<1>7. target \in Path /\ p # Top /\ \A q \in Lineage(target) : q \in Path /\ fs[q] # None
    BY <1>5, WayIsThere DEF KeyInv, TypeInv, WalkTop
<1>8. RowsInv'
    <2>1. CASE keyDisk' = keys'
        BY <2>1 DEF RowsInv, RowsFit, Fits
    <2>2. CASE keyDisk' = keyDisk
        <3>1. RowsFit(keyDisk.new)' /\ RowsFit(keyDisk.old)'
            BY <2>2 DEF KeyInv, RowsInv, RowsFit, Fits
        <3> QED  BY <3>1 DEF RowsInv
    <2> QED  BY <2>1, <2>2
<1>9. ReferentialIntegrity'
    BY DEF KeyInv, ReferentialIntegrity, Reachable
<1>10. JobsInv'
    BY <1>2, <1>6 DEF KeyInv, JobsInv, JobInv, Fits
<1>11. WalkTop'
    <2>1. job'[Top].at \in {"readdir", "done"}
        BY <1>0, <1>2, <1>5, <1>7 DEF WalkTop
    <2>2. ASSUME NEW q \in Lineage(target)
          PROVE  /\ job'[q].at = "done" => job'[q].meta # None
                 /\ job'[q].meta # None => job'[q].meta.kind = fs[q].kind
                 /\ q # Top /\ job'[Parent[q]].at = "done" => job'[q].at # "none"
        <3>1. /\ job[q].at = "done" => job[q].meta # None
              /\ job[q].meta # None => job[q].meta.kind = fs[q].kind
              /\ q # Top /\ job[Parent[q]].at = "done" => job[q].at # "none"
            BY <1>5 DEF WalkTop
        <3>2. /\ job'[q].at = "done" => job'[q].meta # None
              /\ job'[q].meta # None => job'[q].meta.kind = fs[q].kind
            BY <1>2, <1>6, <1>7, <3>1
        <3>3. ASSUME q # Top, job'[Parent[q]].at = "done" PROVE job'[q].at # "none"
            <4>1. Parent[q] \in Path /\ Parent[q] \in Lineage(target)
                BY <1>0, <1>7, <3>3, TargetFacts
            <4>2. fs[Parent[q]].kind = "dir"
                BY <1>7, <3>3 DEF KeyInv, FsInv
            <4>3. Parent[q] = p => job[p].meta.kind = "dir"
                BY <1>5, <1>6, <4>1, <4>2 DEF WalkTop
            <4>4. Parent[q] # p
                BY <1>2, <3>3, <4>3
            <4>5. job[Parent[q]].at = "done"
                BY <1>2, <3>3, <4>1, <4>4
            <4> QED  BY <1>2, <1>7, <3>1, <3>3, <4>5
        <3> QED  BY <3>2, <3>3
    <2> QED  BY <1>5, <2>1, <2>2 DEF WalkTop
<1>12. ASSUME NEW q \in Path PROVE WalkUp(q)'
    <2>1. job[q].at # "none" <=> job'[q].at # "none"
        BY <1>2
    <2>2. q # Top /\ job[q].at # "none" => Parent[q] # p
        BY <1>5 DEF WalkUp
    <2> QED  BY <1>0, <1>2, <1>5, <2>1, <2>2 DEF WalkUp
<1>13. ASSUME NEW q \in Path PROVE WalkRow(q)'
    <2>1. CASE q = p
        BY <1>2, <1>6, <1>7, <2>1 DEF WalkRow, Processed
    <2>2. CASE q # p
        <3>1. /\ Live(q)' <=> Live(q)
              /\ Live(q) => Lookup(q)' = Lookup(q)
            BY <2>2 DEF Live, Lookup, Nodes
        <3>2. Processed(q)' <=> Processed(q)
            BY <1>2, <2>2 DEF Processed
        <3>3. /\ q \in DOMAIN keys'.old <=> q \in DOMAIN keys.old
              /\ q \in DOMAIN keys.old => keys'.old[q] = keys.old[q]
            BY <2>2
        <3>4. WalkRow(q) /\ job'[q] = job[q]
            BY <1>2, <1>5, <2>2
        <3> QED  BY <3>1, <3>2, <3>3, <3>4 DEF WalkRow
    <2> QED  BY <2>1, <2>2
<1>14. WalkInv'
    BY <1>11, <1>12, <1>13 DEF WalkInv
<1>15. SteadyInv'
    <2> SUFFICES ASSUME ~moved, NEW q \in Path PROVE Steady(q)'
        BY DEF SteadyInv
    <2>1. \A r \in Path : Steady(r)
        BY DEF KeyInv, SteadyInv
    <2>2. job'[q].meta # None => job'[q].meta = fs[q]
        BY <1>2, <2>1 DEF Steady
    <2>3. job'[q].at = "done" /\ job'[q].meta = None => fs[q] = None
        BY <1>2, <1>6, <2>1 DEF Steady
    <2>4. ASSUME q \in Below(target) \ {target}, fs[q] # None, job'[Parent[q]].at = "done"
          PROVE  job'[q].at # "none"
        <3>0. q # Top /\ Parent[q] \in Path
            BY <1>0, <1>7, <2>4, TargetFacts
        <3>1. fs[Parent[q]].kind = "dir"
            BY <2>4, <3>0 DEF KeyInv, FsInv
        <3>2. Parent[q] # p
            BY <1>2, <1>6, <2>1, <2>4, <3>1 DEF Steady
        <3>3. job[Parent[q]].at = "done"
            BY <1>2, <2>4, <3>0, <3>2
        <3> QED  BY <1>2, <2>1, <2>4, <3>3 DEF Steady
    <2> QED  BY <2>2, <2>3, <2>4 DEF Steady
<1> QED  BY <1>3, <1>4, <1>8, <1>9, <1>10, <1>14, <1>15 DEF KeyInv

\* A row that looks unchanged, and whose hash is known, is only reserved.
LEMMA SkipKeepsInv ==
    ASSUME KeyInv, NEW p \in Path, SkipEntry(p)
    PROVE  KeyInv'
<1>1. /\ scan = "walk" /\ job[p].at = "lookup"
      /\ p \in Nodes(keys) /\ Lookup(p).mtime = job[p].meta.mtime
      /\ job[p].meta.kind = "file" => Lookup(p).data \in known
      /\ MarkReserved(p) /\ Goto(p, Replied(p))
      /\ UNCHANGED <<fs, moved, torn, keyDisk, known, durable, scan, target, unflushed>>
    BY DEF SkipEntry, MaySkip, LooksUnchanged, HasData
<1>2. PICK n, o : n = keys.new /\ o = keys.old
    OBVIOUS
<1>3. PICK m, u : m = Tagged(n, {p}, "Reserved") /\ u = Tagged(o, {p}, "Reserved")
    OBVIOUS
<1>4. IsTable(n) /\ IsTable(o) /\ RowsFit(n) /\ RowsFit(o)
    BY <1>2 DEF KeyInv, TypeInv, IsKeys, RowsInv
<1>5. keys' = [new |-> m, old |-> u] /\ keys'.new = m /\ keys'.old = u
    BY <1>1, <1>2, <1>3 DEF MarkReserved
<1>6. /\ IsTable(m) /\ DOMAIN m = DOMAIN n
      /\ \A q \in DOMAIN n : m[q].mtime = n[q].mtime /\ m[q].data = n[q].data
      /\ \A q \in DOMAIN n \ {p} : m[q] = n[q]
      /\ p \in DOMAIN n => m[p].tag = "Reserved"
    BY <1>3, <1>4, TaggedFacts
<1>7. /\ IsTable(u) /\ DOMAIN u = DOMAIN o
      /\ \A q \in DOMAIN o : u[q].mtime = o[q].mtime /\ u[q].data = o[q].data
      /\ \A q \in DOMAIN o \ {p} : u[q] = o[q]
      /\ p \in DOMAIN o => u[p].tag = "Reserved"
    BY <1>3, <1>4, TaggedFacts
<1>8. IsKeys(keys')
    BY <1>5, <1>6, <1>7 DEF IsKeys
<1>9. RowsFit(keys.new)' /\ RowsFit(keys.old)'
    BY <1>1, <1>4, <1>5, <1>6, <1>7 DEF RowsFit, Fits
<1>10. Live(p)' /\ Lookup(p)'.mtime = Lookup(p).mtime /\ Lookup(p)'.data = Lookup(p).data
    BY <1>1, <1>2, <1>5, <1>6, <1>7 DEF Live, Lookup, Nodes
<1>11. Lookup(p).data \in Hash => Lookup(p).data \in known
    <2>1. PICK v \in Versions[p] : v.mtime = Lookup(p).mtime /\ Fits(p, v, Lookup(p).data)
        BY <1>1, <1>2, <1>4 DEF RowsFit, Lookup, Nodes
    <2>2. job[p].meta \in Versions[p]
        BY <1>1 DEF KeyInv, TypeInv, JobsInv, JobInv
    <2>3. v = job[p].meta
        BY <1>1, <2>1, <2>2, VersionFacts
    <2>4. v.kind # "file" => Lookup(p).data \notin Hash
        BY <2>1, VersionFacts DEF Fits
    <2> QED  BY <1>1, <2>3, <2>4
<1>12. \A q \in Path \ {p} :
         /\ q \in DOMAIN keys'.new <=> q \in DOMAIN keys.new
         /\ q \in DOMAIN keys.new => keys'.new[q] = keys.new[q]
         /\ q \in DOMAIN keys.old => keys'.old[q] = keys.old[q]
    BY <1>2, <1>5, <1>6, <1>7
<1>13. DOMAIN keys'.old = DOMAIN keys.old
    BY <1>2, <1>5, <1>7
<1> QED  BY <1>1, <1>8, <1>9, <1>10, <1>11, <1>12, <1>13, ReplyKeepsInv

\* A row is inserted, and saved if the timer says so.
LEMMA InsertKeepsInv ==
    ASSUME KeyInv, NEW p \in Path, NEW fired \in BOOLEAN, InsertEntry(p, fired)
    PROVE  KeyInv'
<1>1. PICK r : r = [mtime |-> job[p].meta.mtime, data |-> job[p].data, tag |-> "Reserved"]
    OBVIOUS
<1>2. PICK n, o : n = keys.new /\ o = keys.old
    OBVIOUS
<1>3. /\ scan = "walk" /\ job[p].at = "insert"
      /\ keys' = [keys EXCEPT !.new = Put(n, p, r)]
      /\ keyDisk' \in {keyDisk, keys'}
      /\ Goto(p, Replied(p))
      /\ UNCHANGED <<fs, moved, torn, known, durable, scan, target, unflushed>>
    BY <1>1, <1>2 DEF InsertEntry, InsertRow
<1>4. PICK m : m = Put(n, p, r)
    OBVIOUS
<1>5. /\ keys = [new |-> n, old |-> o] /\ IsTable(n) /\ IsTable(o) /\ RowsFit(n) /\ RowsFit(o)
    BY <1>2 DEF KeyInv, TypeInv, IsKeys, RowsInv
<1>6. keys' = [new |-> m, old |-> o] /\ keys'.new = m /\ keys'.old = o
    BY <1>3, <1>4, <1>5
<1>7. /\ job[p].meta \in Versions[p] /\ Fits(p, job[p].meta, job[p].data)
      /\ job[p].data \in Hash => job[p].data \in known
      /\ job[p].data \in Hash \cup {Link, NoData}
    BY <1>3 DEF KeyInv, TypeInv, JobsInv, JobInv, WalkInv, WalkRow, JobState
<1>8. r \in Row /\ r.mtime = job[p].meta.mtime /\ r.data = job[p].data /\ r.tag = "Reserved"
    BY <1>1, <1>7, VersionFacts DEF Row
<1>8a. p \in Path \ {Top}
    BY <1>3 DEF KeyInv, WalkInv, WalkTop
<1>9. /\ IsTable(m) /\ DOMAIN m = DOMAIN n \cup {p} /\ m[p] = r
      /\ \A q \in DOMAIN n \ {p} : m[q] = n[q]
    <2>1. IsTable(n) /\ r \in Row
        BY <1>5, <1>8
    <2>2. /\ IsTable(Put(n, p, r)) /\ DOMAIN Put(n, p, r) = DOMAIN n \cup {p}
          /\ Put(n, p, r)[p] = r
          /\ \A q \in DOMAIN n \ {p} : Put(n, p, r)[q] = n[q]
        BY <1>8a, <2>1, PutFacts
    <2> QED  BY <1>4, <2>2
<1>10. IsKeys(keys')
    BY <1>5, <1>6, <1>9 DEF IsKeys
<1>11. RowsFit(m) /\ RowsFit(o)
    BY <1>5, <1>7, <1>8, <1>9 DEF RowsFit
<1>12. RowsFit(keys.new)' /\ RowsFit(keys.old)'
    BY <1>3, <1>6, <1>11 DEF RowsFit, Fits
<1>13. Live(p)' /\ Lookup(p)'.mtime = job[p].meta.mtime /\ Lookup(p)'.data = job[p].data
    BY <1>6, <1>8, <1>9 DEF Live, Lookup, Nodes
<1>14. \A q \in Path \ {p} :
         /\ q \in DOMAIN keys'.new <=> q \in DOMAIN keys.new
         /\ q \in DOMAIN keys.new => keys'.new[q] = keys.new[q]
         /\ q \in DOMAIN keys.old => keys'.old[q] = keys.old[q]
    BY <1>2, <1>6, <1>9
<1>15. DOMAIN keys'.old = DOMAIN keys.old
    BY <1>2, <1>6
<1> QED  BY <1>3, <1>7, <1>10, <1>12, <1>13, <1>14, <1>15, ReplyKeepsInv

\* A directory is read: its entries are listed.
LEMMA ReadDirKeepsInv ==
    ASSUME KeyInv, NEW p \in Path, ReadDir(p)
    PROVE  KeyInv'
<1>0. Top \in Path /\ \A q \in Path \ {Top} : Parent[q] \in Path
    BY KeyAssumption
<1>1. /\ scan = "walk" /\ job[p].at = "readdir"
      /\ UNCHANGED <<fs, moved, torn, keys, keyDisk, known, durable, scan, target, unflushed>>
    BY DEF ReadDir
<1>2. /\ job \in [Path -> JobState] /\ JobInv(p)
      /\ WalkTop /\ \A q \in Path : WalkUp(q) /\ WalkRow(q)
    BY <1>1 DEF KeyInv, TypeInv, JobsInv, WalkInv
<1>3. PICK c, l : /\ c = {q \in Path \ {p} : q \in Entries(p)}
                  /\ l = [Idle EXCEPT !.at = "listed"]
    OBVIOUS
<1>4. l \in JobState /\ l.at = "listed" /\ l.meta = None
    BY <1>3 DEF Idle, JobState, Position
<1>5. PICK e : e = [job[p] EXCEPT !.at = "done"]
    OBVIOUS
<1>6. e \in JobState /\ e.at = "done" /\ e.meta = job[p].meta /\ e.meta # None /\ e.meta.kind = "dir"
    BY <1>1, <1>2, <1>5 DEF JobState, Position, JobInv
<1>7. job' = [q \in Path |-> IF q = p THEN e ELSE IF q \in c THEN l ELSE job[q]]
    BY <1>3, <1>5 DEF ReadDir
<1>8. /\ job' \in [Path -> JobState] /\ job'[p] = e
      /\ \A q \in c : job'[q] = l
      /\ \A q \in Path \ {p} : q \notin c => job'[q] = job[q]
    BY <1>2, <1>3, <1>4, <1>6, <1>7
<1>9. \A q \in c : job[q].at = "none" /\ q # Top /\ Parent[q] = p /\ q \in Path \ {p}
    BY <1>1, <1>2, <1>3 DEF WalkUp, Entries, Children
<1>10. target \in Path /\ Lineage(target) \subseteq Path
    BY TargetFacts DEF KeyInv, TypeInv
<1>10a. \A q \in c : q \in Lineage(target) \cup Below(target)
    <2>1. p \in Lineage(target) \cup Below(target)
        BY <1>1, <1>2, <1>10, TargetFacts DEF WalkUp
    <2>2. CASE OnTheWay(p)
        BY <1>3, <2>2 DEF Entries
    <2>3. CASE ~OnTheWay(p)
        <3>1. p \in Below(target)
            BY <1>10, <2>1, <2>3, TargetFacts DEF OnTheWay
        <3> QED  BY <1>9, <1>10, <3>1, TargetFacts
    <2> QED  BY <2>2, <2>3
<1>11. TypeInv'
    <2>1. \A q \in Path : job'[q].meta \in Versions[q] \cup {None}
        BY <1>4, <1>6, <1>8 DEF KeyInv, TypeInv
    <2> QED  BY <1>1, <1>8, <2>1 DEF KeyInv, TypeInv, IsKeys, IsTable
<1>12. JobsInv'
    <2> SUFFICES ASSUME NEW q \in Path PROVE JobInv(q)'
        BY DEF JobsInv
    <2>1. CASE q = p
        BY <1>6, <1>8, <2>1 DEF JobInv
    <2>2. CASE q \in c
        BY <1>4, <1>8, <2>2 DEF JobInv
    <2>3. CASE q # p /\ q \notin c
        BY <1>1, <1>8, <2>3 DEF KeyInv, JobsInv, JobInv, Fits
    <2> QED  BY <2>1, <2>2, <2>3
<1>13. RowsInv'
    BY <1>1, RowsKept DEF KeyInv, TypeInv
<1>14. FsInv' /\ ReferentialIntegrity' /\ OpenInv' /\ KeptInv' /\ ExactInv' /\ CleanInv'
    BY <1>1 DEF KeyInv, FsInv, ReferentialIntegrity, Reachable, OpenInv, AllDone, KeptInv,
                ExactInv, CleanInv, Ending
<1>15. WalkTop'
    <2>1. job'[Top].at \in {"readdir", "done"}
        BY <1>0, <1>2, <1>6, <1>8, <1>9 DEF WalkTop
    <2>2. ASSUME NEW q \in Lineage(target)
          PROVE  /\ job'[q].at = "done" => job'[q].meta # None
                 /\ job'[q].meta # None => job'[q].meta.kind = fs[q].kind
                 /\ q # Top /\ job'[Parent[q]].at = "done" => job'[q].at # "none"
        <3>1. /\ job[q].at = "done" => job[q].meta # None
              /\ job[q].meta # None => job[q].meta.kind = fs[q].kind
              /\ q # Top /\ job[Parent[q]].at = "done" => job[q].at # "none"
              /\ q \in Path
            BY <1>2, <1>10 DEF WalkTop
        <3>2. /\ job'[q].at = "done" => job'[q].meta # None
              /\ job'[q].meta # None => job'[q].meta.kind = fs[q].kind
            BY <1>4, <1>6, <1>8, <3>1
        <3>3. ASSUME q # Top, job'[Parent[q]].at = "done" PROVE job'[q].at # "none"
            <4>1. Parent[q] \in Path /\ Parent[q] \in Lineage(target) \ {target}
                BY <1>0, <1>10, <3>1, <3>3, TargetFacts
            <4>2. CASE Parent[q] = p
                <5>1. q \in Entries(p)
                    BY <3>1, <3>3, <4>1, <4>2 DEF Entries, OnTheWay, Children
                <5> QED  BY <1>3, <1>4, <1>6, <1>8, <3>1, <5>1
            <4>3. CASE Parent[q] # p
                <5>1. job[Parent[q]].at = "done"
                    BY <1>4, <1>8, <3>3, <4>1, <4>3
                <5> QED  BY <1>4, <1>6, <1>8, <3>1, <3>3, <5>1
            <4> QED  BY <4>2, <4>3
        <3> QED  BY <3>2, <3>3
    <2> QED  BY <1>1, <1>2, <2>1, <2>2 DEF WalkTop
<1>16. ASSUME NEW q \in Path PROVE WalkUp(q)'
    <2> SUFFICES ASSUME q # Top, job'[q].at # "none"
                 PROVE  /\ job'[Parent[q]].at = "done" /\ job'[Parent[q]].meta # None
                        /\ q \in Lineage(target) \cup Below(target)
        BY <1>1 DEF WalkUp
    <2>1. CASE q \in c
        BY <1>6, <1>8, <1>9, <1>10a, <2>1
    <2>2. CASE q \notin c
        <3>1. job[q].at # "none"
            BY <1>1, <1>8, <2>2
        <3>2. /\ job[Parent[q]].at = "done" /\ job[Parent[q]].meta # None
              /\ q \in Lineage(target) \cup Below(target)
            BY <1>2, <3>1 DEF WalkUp
        <3>3. Parent[q] # p /\ Parent[q] \notin c
            BY <1>1, <1>9, <3>2
        <3> QED  BY <1>0, <1>8, <3>2, <3>3
    <2> QED  BY <2>1, <2>2
<1>17. ASSUME NEW q \in Path PROVE WalkRow(q)'
    <2>1. Processed(q)' <=> Processed(q)
        BY <1>1, <1>4, <1>6, <1>8, <1>9 DEF Processed
    <2>2. (Live(q)' <=> Live(q)) /\ Lookup(q)' = Lookup(q)
        BY <1>1, IndexKept
    <2>3. Live(q) => job'[q].meta = job[q].meta
        <3>1. Live(q) => q \notin c
            BY <1>2, <1>9 DEF WalkRow, Processed
        <3> QED  BY <1>6, <1>8, <3>1
    <2>4. job'[q].at = "insert" => job'[q] = job[q]
        BY <1>4, <1>6, <1>8
    <2>5. WalkRow(q)
        BY <1>2
    <2> QED  BY <1>1, <2>1, <2>2, <2>3, <2>4, <2>5 DEF WalkRow
<1>18. WalkInv'
    BY <1>15, <1>16, <1>17 DEF WalkInv
<1>19. SteadyInv'
    <2> SUFFICES ASSUME ~moved, NEW q \in Path PROVE Steady(q)'
        BY <1>1 DEF SteadyInv
    <2>1. \A r \in Path : Steady(r)
        BY <1>1 DEF KeyInv, SteadyInv
    <2>2. job'[q].meta # None => job'[q].meta = fs[q]
        BY <1>4, <1>6, <1>8, <2>1 DEF Steady
    <2>3. job'[q].at = "done" /\ job'[q].meta = None => fs[q] = None
        BY <1>4, <1>6, <1>8, <2>1 DEF Steady
    <2>4. ASSUME q \in Below(target) \ {target}, fs[q] # None, job'[Parent[q]].at = "done"
          PROVE  job'[q].at # "none"
        <3>0. q # Top /\ Parent[q] \in Path /\ Parent[q] \in Below(target)
            BY <1>0, <1>10, <2>4, TargetFacts
        <3>1. CASE Parent[q] = p
            <4>1. ~OnTheWay(p)
                BY <1>10, <3>0, <3>1, TargetFacts DEF OnTheWay
            <4>2. q \in Entries(p)
                BY <2>4, <3>0, <3>1, <4>1 DEF Entries, Children
            <4> QED  BY <1>3, <1>4, <1>6, <1>8, <4>2
        <3>2. CASE Parent[q] # p
            <4>1. job[Parent[q]].at = "done"
                BY <1>4, <1>8, <2>4, <3>0, <3>2
            <4>2. job[q].at # "none"
                BY <2>1, <2>4, <4>1 DEF Steady
            <4> QED  BY <1>4, <1>6, <1>8, <4>2
        <3> QED  BY <3>1, <3>2
    <2> QED  BY <1>1, <2>2, <2>3, <2>4 DEF Steady
<1> QED  BY <1>11, <1>12, <1>13, <1>14, <1>18, <1>19 DEF KeyInv

\* A scan begins, and no row is reserved.
LEMMA ScanStartKeepsInv ==
    ASSUME KeyInv, NEW t \in Path, ScanStart(t)
    PROVE  KeyInv'
<1>0. Top \in Path /\ (\A q \in Path \ {Top} : Parent[q] \in Path) /\ \A v \in Versions[Top] : v.kind = "dir"
    BY KeyAssumption
<1>1. /\ scan = "open" /\ scan' = "walk" /\ moved' = FALSE /\ target' = t /\ fs[t] # None
      /\ UNCHANGED <<fs, torn, keys, keyDisk, known, durable, unflushed>>
    BY DEF ScanStart
<1>2. fs[Top] \in Versions[Top] /\ fs[Top] \in AllVersions /\ fs[Top] # None /\ fs[Top].kind = "dir"
    BY <1>0 DEF KeyInv, TypeInv, FsInv
<1>3. PICK r : r = [at |-> "readdir", meta |-> fs[Top], data |-> NoData]
    OBVIOUS
<1>4. /\ Idle \in JobState /\ Idle.at = "none" /\ Idle.meta = None
      /\ r \in JobState /\ r.at = "readdir" /\ r.meta = fs[Top]
    BY <1>2, <1>3 DEF Idle, JobState, Position
<1>5. job' = [q \in Path |-> IF q = Top THEN r ELSE Idle]
    BY <1>3 DEF ScanStart
<1>6. /\ job' \in [Path -> JobState] /\ job'[Top] = r
      /\ \A q \in Path \ {Top} : job'[q] = Idle
    BY <1>0, <1>4, <1>5
<1>7. TypeInv'
    <2>1. \A q \in Path : job'[q].meta \in Versions[q] \cup {None}
        BY <1>2, <1>4, <1>6
    <2> QED  BY <1>1, <1>6, <2>1 DEF KeyInv, TypeInv, IsKeys, IsTable
<1>8. RowsInv'
    BY <1>1, RowsKept DEF KeyInv, TypeInv
<1>9. FsInv' /\ ReferentialIntegrity' /\ OpenInv' /\ KeptInv' /\ ExactInv' /\ CleanInv'
    BY <1>1 DEF KeyInv, FsInv, ReferentialIntegrity, Reachable, OpenInv, KeptInv,
                ExactInv, CleanInv, Ending
<1>10. JobsInv'
    <2> SUFFICES ASSUME NEW q \in Path PROVE JobInv(q)'
        BY DEF JobsInv
    <2>1. CASE q = Top
        BY <1>2, <1>4, <1>6, <2>1 DEF JobInv
    <2>2. CASE q # Top
        BY <1>4, <1>6, <2>2 DEF JobInv
    <2> QED  BY <2>1, <2>2
<1>11. WalkInv'
    <2>1. WalkTop'
        <3> SUFFICES ASSUME NEW q \in Lineage(t)
                     PROVE  /\ job'[q].at = "done" => job'[q].meta # None
                            /\ job'[q].meta # None => job'[q].meta.kind = fs[q].kind
                            /\ q # Top /\ job'[Parent[q]].at = "done" => job'[q].at # "none"
            BY <1>1, <1>4, <1>6 DEF WalkTop
        <3>1. q \in Path
            BY LineageFacts DEF IsUpward
        <3>2. \A x \in Path : job'[x].at # "done"
            BY <1>4, <1>6
        <3>3. job'[q].meta # None => q = Top
            BY <1>4, <1>6, <3>1
        <3> QED  BY <1>0, <1>4, <1>6, <3>1, <3>2, <3>3
    <2>2. \A q \in Path : WalkUp(q)'
        BY <1>4, <1>6 DEF WalkUp
    <2>3. ASSUME NEW q \in Path PROVE WalkRow(q)'
        <3>1. ~Live(q)' /\ ~(q \in DOMAIN keys'.old /\ keys'.old[q].tag = "Reserved")
            BY <1>1 DEF KeyInv, OpenInv, AllDone, Live, Lookup, Nodes
        <3>2. ~Processed(q)' /\ job'[q].at # "insert"
            BY <1>4, <1>6 DEF Processed
        <3> QED  BY <3>1, <3>2 DEF WalkRow
    <2> QED  BY <2>1, <2>2, <2>3 DEF WalkInv
<1>12. SteadyInv'
    <2> SUFFICES ASSUME NEW q \in Path PROVE Steady(q)'
        BY DEF SteadyInv
    <2>1. job'[q].meta # None => job'[q].meta = fs[q]
        BY <1>4, <1>6
    <2>2. job'[q].at # "done"
        BY <1>4, <1>6
    <2>3. q \in Below(t) \ {t} => q # Top /\ Parent[q] \in Path
        BY <1>0, TopLineage DEF Below
    <2>4. q \in Below(t) \ {t} => job'[Parent[q]].at # "done"
        BY <1>4, <1>6, <2>3
    <2> QED  BY <1>1, <2>1, <2>2, <2>4 DEF Steady
<1> QED  BY <1>7, <1>8, <1>9, <1>10, <1>11, <1>12 DEF KeyInv

-----------------------------------------------------------------------------
\* The end of a scan.

\* What the rows that a scan reserved become.
LEMMA PromotedFacts ==
    ASSUME IsKeys(keys), NEW k, k = Promoted(ReservedNew)
    PROVE  /\ IsKeys(k)
           /\ DOMAIN k.new = DOMAIN keys.new \ ReservedNew
           /\ DOMAIN k.old = DOMAIN keys.old \cup ReservedNew
           /\ \A p \in DOMAIN k.new : k.new[p] = keys.new[p] /\ k.new[p].tag = "Done"
           /\ \A p \in ReservedNew : k.old[p] = keys.new[p]
           /\ \A p \in DOMAIN keys.old \ ReservedNew : k.old[p] = keys.old[p]
<1>1. IsTable(keys.new) /\ IsTable(keys.old)
    BY DEF IsKeys
<1>1a. PICK a : a = Drop(keys.new, ReservedNew)
    OBVIOUS
<1>2. PICK b : b = [p \in DOMAIN keys.old \cup ReservedNew |->
                        IF p \in ReservedNew THEN keys.new[p] ELSE keys.old[p]]
    OBVIOUS
<1>3. k = [new |-> a, old |-> b] /\ k.new = a /\ k.old = b
    BY <1>1a, <1>2 DEF Promoted
<1>4. /\ IsTable(a) /\ DOMAIN a = DOMAIN keys.new \ ReservedNew
      /\ \A p \in DOMAIN a : a[p] = keys.new[p]
    BY <1>1, <1>1a, DropFacts
<1>5. \A p \in DOMAIN a : a[p].tag = "Done"
    BY <1>1, <1>4 DEF IsTable, Row, ReservedNew
<1>6. ReservedNew \subseteq DOMAIN keys.new /\ DOMAIN keys.new \subseteq Path \ {Top}
    BY <1>1 DEF ReservedNew, IsTable
<1>7. IsTable(b) /\ DOMAIN b = DOMAIN keys.old \cup ReservedNew
    BY <1>1, <1>2, <1>6 DEF IsTable
<1>8. /\ \A p \in ReservedNew : b[p] = keys.new[p]
      /\ \A p \in DOMAIN keys.old \ ReservedNew : b[p] = keys.old[p]
    BY <1>2
<1> QED  BY <1>3, <1>4, <1>5, <1>7, <1>8 DEF IsKeys

\* The scan is over: its rows replace the committed ones at once.
LEMMA CommitKeepsInv ==
    ASSUME KeyInv, CommitReservedNodes
    PROVE  KeyInv'
<1>0. Top \in Path /\ \A q \in Path \ {Top} : Parent[q] \in Path
    BY KeyAssumption
<1>1. /\ scan = "walk" /\ WalkDone /\ keys' = Promoted(ReservedNew)
      /\ UNCHANGED <<fs, moved, torn, keyDisk, known, durable, target, job>>
    BY DEF CommitReservedNodes
<1>2. \/ /\ scan' = "cleanup"
         /\ unflushed' = {p \in Below(target) : Between(p) \subseteq
                                                   Nodes(keys') \ Unreserved(keys')}
      \/ scan' = "scanned_file" /\ job[target].meta.kind # "dir"
    BY DEF CommitReservedNodes
<1>3. IsKeys(keys) /\ WalkTop /\ \A q \in Path : WalkUp(q) /\ WalkRow(q)
    BY <1>1 DEF KeyInv, TypeInv, WalkInv
<1>4. /\ IsTable(keys.new) /\ IsTable(keys.old)
      /\ DOMAIN keys.new \subseteq Path /\ DOMAIN keys.old \subseteq Path
    BY <1>3 DEF IsKeys, IsTable
<1>5. /\ IsKeys(keys')
      /\ DOMAIN keys'.new = DOMAIN keys.new \ ReservedNew
      /\ DOMAIN keys'.old = DOMAIN keys.old \cup ReservedNew
      /\ \A p \in DOMAIN keys'.new : keys'.new[p] = keys.new[p] /\ keys'.new[p].tag = "Done"
      /\ \A p \in ReservedNew : keys'.old[p] = keys.new[p]
      /\ \A p \in DOMAIN keys.old \ ReservedNew : keys'.old[p] = keys.old[p]
    BY <1>1, <1>3, PromotedFacts
<1>6. \A p : p \in ReservedNew <=> p \in DOMAIN keys.new /\ keys.new[p].tag = "Reserved"
    BY DEF ReservedNew
<1>7. \A p \in Path : Live(p) => p \in ReservedNew \/ (p \in DOMAIN keys.old /\ p \notin DOMAIN keys.new)
    BY <1>6 DEF Live, Lookup, Nodes
<1>8. \A p \in Path : Live(p) => /\ p \in DOMAIN keys'.old /\ keys'.old[p] = Lookup(p)
                                 /\ p \notin DOMAIN keys'.new
    BY <1>5, <1>6, <1>7 DEF Lookup
<1>9. Kept' = {p \in Path : Live(p)}
    <2>1. ASSUME NEW p \in Kept' PROVE p \in Path /\ Live(p)
        <3>1. p \in DOMAIN keys'.old /\ keys'.old[p].tag = "Reserved" /\ p \in Path
            BY <1>4, <1>5, <1>6 DEF Kept
        <3>2. CASE p \in ReservedNew
            BY <1>6, <3>1, <3>2 DEF Live, Lookup, Nodes
        <3>3. CASE p \notin ReservedNew
            BY <1>3, <1>5, <3>1, <3>3 DEF WalkRow
        <3> QED  BY <3>1, <3>2, <3>3
    <2>2. ASSUME NEW p \in Path, Live(p) PROVE p \in Kept'
        BY <1>8, <2>2 DEF Kept, Live
    <2> QED  BY <2>1, <2>2
<1>10. target \in Path /\ \A p \in Lineage(target) : job[p].at = "done" /\ job[p].meta # None
    <2>1. target \in Path /\ Lineage(target) \subseteq Path
        BY TargetFacts DEF KeyInv, TypeInv
    <2>2. PICK S : S = {q \in Lineage(target) : job[q].at = "none"}
        OBVIOUS
    <2>3. ASSUME NEW q \in S \ {Top} PROVE Parent[q] \in S
        <3>1. q \in Lineage(target) /\ job[q].at = "none" /\ Parent[q] \in Lineage(target)
            BY <2>1, <2>2, TargetFacts
        <3>2. job[Parent[q]].at # "done"
            BY <1>3, <3>1 DEF WalkTop
        <3>3. job[Parent[q]].at = "none"
            BY <1>1, <2>1, <3>1, <3>2 DEF WalkDone
        <3> QED  BY <2>2, <3>1, <3>3
    <2>4. IsUpward(S)
        BY <2>1, <2>2, <2>3 DEF IsUpward
    <2>5. Top \notin S
        BY <1>3, <2>2 DEF WalkTop
    <2>6. \A p \in Lineage(target) : job[p].at = "done"
        BY <1>1, <2>1, <2>2, <2>4, <2>5, UpwardHasLineage DEF WalkDone
    <2> QED  BY <1>3, <2>1, <2>6 DEF WalkTop
<1>11. TypeInv'
    BY <1>1, <1>2, <1>5 DEF KeyInv, TypeInv, IsKeys, IsTable
<1>12. RowsInv'
    <2>1. RowsFit(keys.new)' /\ RowsFit(keys.old)'
        BY <1>1, <1>5, <1>6 DEF KeyInv, RowsInv, RowsFit, Fits
    <2>2. RowsFit(keyDisk.new)' /\ RowsFit(keyDisk.old)'
        BY <1>1 DEF KeyInv, RowsInv, RowsFit, Fits
    <2> QED  BY <2>1, <2>2 DEF RowsInv
<1>13. ReferentialIntegrity'
    <2>1. ASSUME NEW p \in DOMAIN keys'.old, Parent[p] # Top PROVE Parent[p] \in DOMAIN keys'.old
        <3>1. CASE p \in DOMAIN keys.old
            BY <1>5, <2>1, <3>1 DEF KeyInv, ReferentialIntegrity, Reachable
        <3>2. CASE p \in ReservedNew
            <4>1. p \in Path \ {Top} /\ Live(p)
                BY <1>4, <1>6, <3>2 DEF Live, Lookup, Nodes, IsTable
            <4>2. job[p].at # "none"
                BY <1>3, <4>1 DEF WalkRow, Processed
            <4>3. Processed(Parent[p])
                BY <1>3, <2>1, <4>1, <4>2 DEF WalkUp, Processed
            <4>4. Live(Parent[p])
                BY <1>0, <1>3, <4>1, <4>3 DEF WalkRow
            <4> QED  BY <1>0, <1>8, <4>1, <4>4
        <3> QED  BY <1>5, <3>1, <3>2
    <2> QED  BY <1>1, <2>1 DEF KeyInv, ReferentialIntegrity, Reachable
<1>14. FsInv' /\ JobsInv' /\ OpenInv' /\ WalkInv' /\ SteadyInv'
    BY <1>1, <1>2 DEF KeyInv, FsInv, JobsInv, JobInv, Fits, OpenInv, WalkInv, SteadyInv
<1>15. KeptInv'
    <2>1. AllDone(keys.new)'
        BY <1>5 DEF AllDone
    <2>2. Lineage(target') \ {Top} \subseteq Kept'
        BY <1>1, <1>3, <1>9, <1>10, TargetFacts DEF WalkRow, Processed
    <2>3. Kept' \cap DOMAIN keys'.new = {}
        BY <1>8, <1>9
    <2>4. \A p \in Kept' : keys'.old[p].data \in Hash => keys'.old[p].data \in known'
        BY <1>1, <1>3, <1>8, <1>9 DEF WalkRow
    <2> QED  BY <2>1, <2>2, <2>3, <2>4 DEF KeptInv
<1>16. ExactInv'
    <2> SUFFICES ASSUME ~moved
                 PROVE  /\ Kept' = {p \in Visited' : fs[p] # None}
                        /\ \A p \in Kept' : keys'.old[p].mtime = fs[p].mtime
        BY <1>1 DEF ExactInv
    <2>1. \A p \in Path : Steady(p)
        BY <1>1 DEF KeyInv, SteadyInv
    <2>2. \A p \in Kept' : p \in Path /\ Processed(p) /\ job[p].meta = fs[p] /\ fs[p] # None
        BY <1>3, <1>9, <2>1 DEF WalkRow, Processed, Steady
    <2>3. \A p \in Kept' : keys'.old[p].mtime = fs[p].mtime
        BY <1>3, <1>8, <1>9, <2>2 DEF WalkRow
    <2>4. scan' = "scanned_file" => fs[target].kind # "dir"
        BY <1>2, <1>3, <1>10, TargetFacts DEF WalkTop
    <2>5. ASSUME NEW p \in Kept' PROVE p \in Visited'
        <3>1. p # Top /\ p \in Lineage(target) \cup Below(target)
            BY <1>3, <2>2 DEF WalkUp, Processed
        <3>2. p \in Below(target) \ {target} => fs[target].kind = "dir"
            BY <2>2, WayIsThere DEF KeyInv, Below
        <3> QED  BY <1>1, <1>10, <2>4, <3>1, <3>2, TargetFacts DEF Visited
    <2>6. ASSUME NEW p \in Visited', fs[p] # None PROVE p \in Kept'
        <3>1. p \in (Lineage(target) \cup Below(target)) \ {Top} /\ p \in Path
            BY <1>1, <1>10, <2>6, TargetFacts DEF Visited
        <3>2. PICK S : S = {q \in Path : q \in Below(target) /\ fs[q] # None /\ ~Processed(q) /\ q # Top}
                               \cup (Path \ Below(target))
            OBVIOUS
        <3>3. ASSUME NEW q \in S \ {Top} PROVE Parent[q] \in S
            <4>1. Parent[q] \in Path /\ q \in Path
                BY <1>0, <3>2, <3>3
            <4>2. CASE q \notin Below(target)
                BY <1>10, <3>2, <3>3, <4>1, <4>2, TargetFacts
            <4>3. CASE q \in Below(target)
                <5>1. fs[q] # None /\ ~Processed(q) /\ q # Top
                    BY <3>2, <4>3
                <5>2. q # target
                    BY <1>10, <5>1, TargetFacts DEF Processed
                <5>3. Parent[q] \in Below(target) /\ fs[Parent[q]] # None
                    BY <1>10, <4>1, <4>3, <5>1, <5>2, TargetFacts DEF KeyInv, FsInv
                <5>4. ASSUME job[Parent[q]].at = "done" PROVE FALSE
                    <6>1. job[q].at # "none"
                        BY <2>1, <4>1, <4>3, <5>1, <5>2, <5>4 DEF Steady
                    <6>2. job[q].at = "done"
                        BY <1>1, <4>1, <6>1 DEF WalkDone
                    <6>3. job[q].meta # None
                        BY <2>1, <4>1, <5>1, <6>2 DEF Steady
                    <6> QED  BY <5>1, <6>2, <6>3 DEF Processed
                <5>5. job[Parent[q]].at = "none"
                    BY <1>1, <4>1, <5>4 DEF WalkDone
                <5>6. ~Processed(Parent[q]) /\ Parent[q] # Top
                    BY <1>3, <5>5 DEF Processed, WalkTop
                <5> QED  BY <3>2, <4>1, <5>3, <5>6
            <4> QED  BY <4>2, <4>3
        <3>4. IsUpward(S)
            BY <3>2, <3>3 DEF IsUpward
        <3>5. target \notin S
            BY <1>10, <3>2, TargetFacts DEF Processed
        <3>6. Processed(p)
            <4>1. CASE p \in Lineage(target)
                BY <1>10, <3>1, <4>1 DEF Processed
            <4>2. CASE p \in Below(target)
                <5>1. target \in Lineage(p)
                    BY <4>2 DEF Below
                <5>2. p \notin S
                    BY <3>4, <3>5, <5>1, UpwardHasLineage
                <5> QED  BY <2>6, <3>1, <3>2, <4>2, <5>2
            <4> QED  BY <3>1, <4>1, <4>2
        <3> QED  BY <1>3, <1>9, <3>1, <3>6 DEF WalkRow
    <2>7. \A p \in Kept' : fs[p] # None
        BY <2>2
    <2> QED  BY <2>3, <2>5, <2>6, <2>7
<1>17. CleanInv'
    <2>1. \A p \in Kept' : p \in Nodes(keys') /\ p \notin Unreserved(keys')
        BY <1>8, <1>9 DEF Nodes, Unreserved, Live
    <2>2. ASSUME scan' = "cleanup", NEW p \in Below(target), Between(p) \subseteq Kept'
          PROVE  p \in unflushed'
        BY <1>2, <2>1, <2>2
    <2>3. scan' = "cleanup" => unflushed' \subseteq Below(target)
        BY <1>2
    <2> QED  BY <1>1, <1>2, <2>2, <2>3 DEF CleanInv, Between
<1> QED  BY <1>11, <1>12, <1>13, <1>14, <1>15, <1>16, <1>17 DEF KeyInv

\* A node that is not wanted goes, with all below it.
LEMMA DeleteKeepsInv ==
    ASSUME KeyInv, NEW p \in Path, DeleteNode(p)
    PROVE  KeyInv'
<1>0. Top \in Path /\ \A q \in Path \ {Top} : Parent[q] \in Path
    BY KeyAssumption
<1>1. /\ scan = "cleanup" /\ p \in Unreserved(keys) /\ p # Top /\ Parent[p] \in unflushed
      /\ keys' = [new |-> Drop(keys.new, Below(p)), old |-> Drop(keys.old, Below(p))]
      /\ UNCHANGED <<fs, moved, torn, keyDisk, known, durable, scan, target, job, unflushed>>
    BY DEF DeleteNode
<1>2. /\ IsTable(keys.new) /\ IsTable(keys.old) /\ DOMAIN keys.old \subseteq Path
    BY DEF KeyInv, TypeInv, IsKeys, IsTable
<1>3. /\ IsTable(keys'.new) /\ DOMAIN keys'.new = DOMAIN keys.new \ Below(p)
      /\ \A q \in DOMAIN keys'.new : keys'.new[q] = keys.new[q]
    <2>1. PICK t, B : t = keys.new /\ B = Below(p)
        OBVIOUS
    <2>2. IsTable(t)
        BY <1>2, <2>1
    <2>3. /\ IsTable(Drop(t, B)) /\ DOMAIN Drop(t, B) = DOMAIN t \ B
          /\ \A q \in DOMAIN t \ B : Drop(t, B)[q] = t[q]
        BY <2>2, DropFacts
    <2>4. keys'.new = Drop(t, B)
        BY <1>1, <2>1
    <2> QED  BY <2>1, <2>3, <2>4
<1>4. /\ IsTable(keys'.old) /\ DOMAIN keys'.old = DOMAIN keys.old \ Below(p)
      /\ \A q \in DOMAIN keys'.old : keys'.old[q] = keys.old[q]
    <2>1. PICK t, B : t = keys.old /\ B = Below(p)
        OBVIOUS
    <2>2. IsTable(t)
        BY <1>2, <2>1
    <2>3. /\ IsTable(Drop(t, B)) /\ DOMAIN Drop(t, B) = DOMAIN t \ B
          /\ \A q \in DOMAIN t \ B : Drop(t, B)[q] = t[q]
        BY <2>2, DropFacts
    <2>4. keys'.old = Drop(t, B)
        BY <1>1, <2>1
    <2> QED  BY <2>1, <2>3, <2>4
<1>5. IsKeys(keys')
    BY <1>1, <1>3, <1>4 DEF IsKeys
<1>6. TypeInv'
    BY <1>1, <1>5 DEF KeyInv, TypeInv, IsKeys, IsTable
<1>7. RowsInv'
    <2>1. RowsFit(keys.new)' /\ RowsFit(keys.old)'
        BY <1>1, <1>3, <1>4 DEF KeyInv, RowsInv, RowsFit, Fits
    <2>2. RowsFit(keyDisk.new)' /\ RowsFit(keyDisk.old)'
        BY <1>1 DEF KeyInv, RowsInv, RowsFit, Fits
    <2> QED  BY <2>1, <2>2 DEF RowsInv
<1>8. ReferentialIntegrity'
    <2>1. ASSUME NEW q \in DOMAIN keys'.old, Parent[q] # Top PROVE Parent[q] \in DOMAIN keys'.old
        <3>1. q \in Path \ {Top} /\ q \notin Below(p) /\ Parent[q] \in DOMAIN keys.old
            BY <1>2, <1>4, <2>1 DEF KeyInv, ReferentialIntegrity, Reachable, IsTable
        <3>2. Parent[q] \notin Below(p)
            BY <3>1, BelowFacts
        <3> QED  BY <1>4, <3>1, <3>2
    <2> QED  BY <1>1, <2>1 DEF KeyInv, ReferentialIntegrity, Reachable
<1>9. FsInv' /\ JobsInv' /\ OpenInv' /\ WalkInv' /\ SteadyInv'
    BY <1>1 DEF KeyInv, FsInv, JobsInv, JobInv, Fits, OpenInv, WalkInv, SteadyInv
<1>10. /\ AllDone(keys.new) /\ Lineage(target) \ {Top} \subseteq Kept /\ Kept \cap DOMAIN keys.new = {}
       /\ \A q \in Kept : keys.old[q].data \in Hash => keys.old[q].data \in known
    BY <1>1 DEF KeyInv, KeptInv, Ending
<1>11. Kept' = Kept \ Below(p)
    BY <1>4 DEF Kept
<1>12. KeptInv'
    <2>1. Lineage(target') \ {Top} \subseteq Kept'
        <3>1. target \in Path /\ p \in Below(target) \ {target}
            BY <1>1, TargetFacts DEF KeyInv, TypeInv, CleanInv
        <3>2. \A q \in Lineage(target) : q \notin Below(p)
            <4> SUFFICES ASSUME NEW q \in Lineage(target), q \in Below(p) PROVE FALSE
                OBVIOUS
            <4>1. p \in Lineage(q)
                BY DEF Below
            <4>2. p \in Lineage(target)
                BY <3>1, <4>1, LineageFacts, UpwardHasLineage
            <4> QED  BY <3>1, <4>2, TargetFacts
        <3> QED  BY <1>1, <1>10, <1>11, <3>2
    <2>2. AllDone(keys.new)' /\ Kept' \cap DOMAIN keys'.new = {}
        BY <1>3, <1>10, <1>11 DEF AllDone
    <2>3. \A q \in Kept' : keys'.old[q].data \in Hash => keys'.old[q].data \in known'
        BY <1>1, <1>4, <1>10, <1>11 DEF Kept
    <2> QED  BY <1>1, <2>1, <2>2, <2>3 DEF KeptInv
<1>13. p \notin Kept
    BY <1>1, <1>10 DEF Unreserved, Kept
<1>14. ExactInv'
    <2> SUFFICES ASSUME ~moved
                 PROVE  /\ Kept' = {q \in Visited : fs[q] # None}
                        /\ \A q \in Kept' : keys'.old[q].mtime = fs[q].mtime
        BY <1>1 DEF ExactInv, Visited
    <2>1. Kept = {q \in Visited : fs[q] # None} /\ \A q \in Kept : keys.old[q].mtime = fs[q].mtime
        BY <1>1 DEF KeyInv, ExactInv, Ending
    <2>2. IsUpward(Visited \cup {Top}) /\ Visited \subseteq Path \ {Top}
        BY VisitedFacts DEF KeyInv, TypeInv
    <2>2a. IsUpward(Kept \cup {Top})
        <3> SUFFICES ASSUME NEW q \in Kept PROVE Parent[q] \in Kept \cup {Top}
            BY <1>0, <2>1, <2>2 DEF IsUpward
        <3>1. q \in Visited /\ q \in Path \ {Top} /\ fs[q] # None
            BY <2>1, <2>2
        <3>2. fs[Parent[q]] # None /\ Parent[q] \in Visited \cup {Top}
            BY <2>2, <3>1 DEF KeyInv, FsInv, IsUpward
        <3> QED  BY <2>1, <3>2
    <2>3. \A q \in Kept : q \notin Below(p)
        BY <1>1, <1>13, <2>2a, UpwardHasLineage DEF Below
    <2>4. Kept' = Kept
        BY <1>11, <2>3
    <2> QED  BY <1>4, <2>1, <2>4 DEF Kept
<1>15. CleanInv'
    <2>1. Unreserved(keys') \subseteq Unreserved(keys)
        BY <1>3, <1>4 DEF Unreserved
    <2>2. Kept' \subseteq Kept
        BY <1>11
    <2> QED  BY <1>1, <2>1, <2>2 DEF KeyInv, CleanInv, Between
<1> QED  BY <1>6, <1>7, <1>8, <1>9, <1>12, <1>14, <1>15 DEF KeyInv

\* A level is flushed, and at the end the family.
LEMMA FlushKeepsInv ==
    ASSUME KeyInv, (\E p \in Path : CleanupLevel(p)) \/ FamilyFlush
    PROVE  KeyInv'
<1>1. /\ Ending /\ Ending' /\ keyDisk' = keys
      /\ UNCHANGED <<fs, moved, torn, keys, known, target, job>>
      /\ durable' \in {durable, known}
    BY DEF CleanupLevel, FamilyFlush, Ending
<1>2. TypeInv'
    BY <1>1 DEF KeyInv, TypeInv, IsKeys, IsTable, Ending
<1>3. FsInv' /\ JobsInv' /\ ReferentialIntegrity'
    BY <1>1 DEF KeyInv, FsInv, JobsInv, JobInv, Fits, ReferentialIntegrity, Reachable
<1>4. RowsInv'
    BY <1>1 DEF KeyInv, RowsInv, RowsFit, Fits
<1>5. OpenInv' /\ WalkInv' /\ SteadyInv'
    BY <1>1 DEF OpenInv, WalkInv, SteadyInv, Ending
<1>6. scan' = "scanned_file" <=> scan = "scanned_file"
    BY DEF CleanupLevel, FamilyFlush
<1>7. KeptInv' /\ ExactInv'
    BY <1>1, <1>6, IndexKept DEF KeyInv, KeptInv, ExactInv, Visited
<1>8. CleanInv'
    <2>1. CASE FamilyFlush
        <3>1. UNCHANGED <<scan, unflushed>>
            BY <2>1 DEF FamilyFlush
        <3> QED  BY <1>1, <3>1, IndexKept DEF KeyInv, CleanInv, Between
    <2>2. ASSUME NEW p \in Path, CleanupLevel(p) PROVE CleanInv'
        <3>1. /\ scan = "cleanup" /\ unflushed' = unflushed \ {p}
              /\ Children(p) \cap (unflushed \cup Unreserved(keys)) = {}
              /\ scan' = IF p = target THEN "scanned" ELSE scan
            BY <2>2 DEF CleanupLevel
        <3>2. Kept' = Kept /\ Unreserved(keys)' = Unreserved(keys)
            BY <1>1, IndexKept
        <3>3. ASSUME NEW q \in Below(target), Between(q) \subseteq Kept, q \notin unflushed'
              PROVE  Children(q) \cap (unflushed' \cup Unreserved(keys)) = {}
            <4>1. CASE q = p
                BY <3>1, <4>1
            <4>2. CASE q # p
                BY <3>1, <3>3, <4>2 DEF KeyInv, CleanInv
            <4> QED  BY <4>1, <4>2
        <3>4. /\ scan' = "scanned" => target \notin unflushed'
              /\ unflushed' \subseteq Below(target)
            BY <3>1 DEF KeyInv, CleanInv
        <3> QED  BY <1>1, <3>2, <3>3, <3>4 DEF CleanInv, Between
    <2> QED  BY <2>1, <2>2
<1> QED  BY <1>2, <1>3, <1>4, <1>5, <1>7, <1>8 DEF KeyInv

\* The process stops anywhere, and the index that another one opens has no
\* tags.
LEMMA RestartKeepsInv ==
    ASSUME KeyInv, Restart
    PROVE  KeyInv'
<1>1. /\ Open /\ known' = durable /\ scan' = "open" /\ target' = Top /\ job' = [p \in Path |-> Idle]
      /\ UNCHANGED <<fs, moved, torn, keyDisk, durable>>
    BY DEF Restart
<1>2. PICK n, o : n = keyDisk.new /\ o = keyDisk.old
    OBVIOUS
<1>3. PICK m, u : m = Tagged(n, DOMAIN n, "Done") /\ u = Tagged(o, DOMAIN o, "Done")
    OBVIOUS
<1>4. keys' = [new |-> m, old |-> u] /\ keys'.new = m /\ keys'.old = u
    BY <1>1, <1>2, <1>3 DEF Open
<1>5. IsTable(n) /\ IsTable(o) /\ RowsFit(n) /\ RowsFit(o)
    BY <1>2 DEF KeyInv, TypeInv, IsKeys, RowsInv
<1>6. /\ IsTable(m) /\ DOMAIN m = DOMAIN n
      /\ \A q \in DOMAIN n : m[q].mtime = n[q].mtime /\ m[q].data = n[q].data /\ m[q].tag = "Done"
    BY <1>3, <1>5, TaggedFacts
<1>7. /\ IsTable(u) /\ DOMAIN u = DOMAIN o
      /\ \A q \in DOMAIN o : u[q].mtime = o[q].mtime /\ u[q].data = o[q].data /\ u[q].tag = "Done"
    BY <1>3, <1>5, TaggedFacts
<1>8. Idle \in JobState /\ Idle.at = "none" /\ Idle.meta = None
    BY DEF Idle, JobState, Position
<1>9. TypeInv'
    <2>1. IsKeys(keys')
        BY <1>4, <1>6, <1>7 DEF IsKeys
    <2> QED  BY <1>1, <1>8, <2>1, KeyAssumption DEF KeyInv, TypeInv, IsKeys, IsTable
<1>10. RowsInv'
    <2>1. RowsFit(keys.new)' /\ RowsFit(keys.old)'
        BY <1>1, <1>4, <1>5, <1>6, <1>7 DEF RowsFit, Fits
    <2>2. RowsFit(keyDisk.new)' /\ RowsFit(keyDisk.old)'
        BY <1>1 DEF KeyInv, RowsInv, RowsFit, Fits
    <2> QED  BY <2>1, <2>2 DEF RowsInv
<1>11. ReferentialIntegrity'
    BY <1>1, <1>2, <1>4, <1>7 DEF KeyInv, ReferentialIntegrity, Reachable
<1>12. FsInv' /\ JobsInv'
    BY <1>1, <1>8 DEF KeyInv, FsInv, JobsInv, JobInv
<1>13. OpenInv'
    BY <1>4, <1>6, <1>7 DEF OpenInv, AllDone
<1>14. WalkInv' /\ SteadyInv' /\ KeptInv' /\ ExactInv' /\ CleanInv'
    BY <1>1 DEF WalkInv, SteadyInv, KeptInv, ExactInv, CleanInv, Ending
<1> QED  BY <1>9, <1>10, <1>11, <1>12, <1>13, <1>14 DEF KeyInv

-----------------------------------------------------------------------------
\* The invariant.

\* An empty index has it.
LEMMA KeyInitHasInv ==
    ASSUME KeyInit
    PROVE  KeyInv
<1>0. Top \in Path
    BY KeyAssumption
<1>1. keys = [new |-> NoRows, old |-> NoRows] /\ keyDisk = keys /\ DOMAIN NoRows = {}
    BY DEF KeyInit, NoRows
<1>2. IsTable(NoRows)
    BY DEF IsTable, NoRows
<1>3. Idle \in JobState /\ Idle.at = "none" /\ Idle.meta = None
    BY DEF Idle, JobState, Position
<1>4. /\ scan = "open" /\ target = Top /\ moved = FALSE /\ torn = [p \in Path |-> {}]
      /\ known = {} /\ durable = {} /\ job = [p \in Path |-> Idle]
      /\ fs \in [Path -> AllVersions \cup {None}]
      /\ \A p \in Path : fs[p] \in Versions[p] \cup {None}
    BY DEF KeyInit, AllVersions
<1>5. TypeInv
    BY <1>0, <1>1, <1>2, <1>3, <1>4 DEF TypeInv, IsKeys
<1>6. FsInv
    BY <1>4 DEF KeyInit, FsInv
<1>7. RowsInv /\ ReferentialIntegrity /\ OpenInv
    BY <1>1 DEF RowsInv, RowsFit, ReferentialIntegrity, Reachable, OpenInv, AllDone
<1>8. JobsInv
    BY <1>3, <1>4 DEF JobsInv, JobInv
<1>9. WalkInv /\ SteadyInv /\ KeptInv /\ ExactInv /\ CleanInv
    BY <1>4 DEF WalkInv, SteadyInv, KeptInv, ExactInv, CleanInv, Ending
<1> QED  BY <1>5, <1>6, <1>7, <1>8, <1>9 DEF KeyInv

\* Nothing happens.
LEMMA StutterKeepsKeyInv ==
    ASSUME KeyInv, UNCHANGED vars
    PROVE  KeyInv'
<1>1. UNCHANGED <<fs, moved, torn, keys, keyDisk, known, durable, scan, target, job, unflushed>>
    BY DEF vars
<1>2. TypeInv' /\ FsInv' /\ JobsInv' /\ ReferentialIntegrity'
    BY <1>1 DEF KeyInv, TypeInv, IsKeys, IsTable, FsInv, JobsInv, JobInv, Fits,
                ReferentialIntegrity, Reachable
<1>3. RowsInv'
    BY <1>1, RowsKept DEF KeyInv, TypeInv
<1>4. OpenInv' /\ KeptInv' /\ ExactInv' /\ CleanInv'
    BY <1>1, IndexKept DEF KeyInv, OpenInv, KeptInv, ExactInv, CleanInv, Ending, Visited, Between
<1>5. WalkInv'
    BY <1>1 DEF KeyInv, WalkInv, WalkTop, WalkUp, WalkRow, Live, Processed, Lookup, Nodes
<1>6. SteadyInv'
    BY <1>1 DEF KeyInv, SteadyInv, Steady
<1> QED  BY <1>2, <1>3, <1>4, <1>5, <1>6 DEF KeyInv

\* The index, the local disk and the scan are as the parts of KeyInv say.
THEOREM KeyInvariant == KeySpec => []KeyInv
<1>1. KeyInv /\ [KeyNext]_vars => KeyInv'
    <2> SUFFICES ASSUME KeyInv, [KeyNext]_vars PROVE KeyInv'
        OBVIOUS
    <2>1. CASE \E p \in Path : Change(p)
        BY <2>1, ChangeKeepsInv
    <2>2. CASE (\E h \in Hash : SaveHash(h)) \/ (\E h \in Hash : Collect(h))
        BY <2>2, HashesKeepInv
    <2>3. CASE \E t \in Path : ScanStart(t)
        BY <2>3, ScanStartKeepsInv
    <2>4. ASSUME NEW p \in Path, Worker(p) PROVE KeyInv'
        <3>1. CASE Stat(p) \/ TakeStore(p) \/ MissEntry(p)
            BY <3>1, StatKeepsInv
        <3>2. CASE SkipEntry(p)
            BY <3>2, SkipKeepsInv
        <3>3. CASE ReadFile(p)
            BY <3>3, ReadFileKeepsInv
        <3>4. CASE \E fired \in BOOLEAN : InsertEntry(p, fired)
            BY <3>4, InsertKeepsInv
        <3>5. CASE ReadDir(p)
            BY <3>5, ReadDirKeepsInv
        <3> QED  BY <2>4, <3>1, <3>2, <3>3, <3>4, <3>5 DEF Worker
    <2>5. CASE CommitReservedNodes
        BY <2>5, CommitKeepsInv
    <2>6. CASE \E p \in Path : DeleteNode(p)
        BY <2>6, DeleteKeepsInv
    <2>7. CASE (\E p \in Path : CleanupLevel(p)) \/ FamilyFlush
        BY <2>7, FlushKeepsInv
    <2>8. CASE Restart
        BY <2>8, RestartKeepsInv
    <2>9. CASE UNCHANGED vars
        BY <2>9, StutterKeepsKeyInv
    <2> QED  BY <2>1, <2>2, <2>3, <2>4, <2>5, <2>6, <2>7, <2>8, <2>9 DEF KeyNext, ScanStep
<1> QED  BY <1>1, KeyInitHasInv, PTL DEF KeySpec

\* However scans are cut off, and whatever the timer had saved of them, no
\* committed row is out of the reach of list_dir (commit_reserved_nodes).
THEOREM RowsHaveParents == KeySpec => []ReferentialIntegrity
<1>1. KeyInv => ReferentialIntegrity
    BY DEF KeyInv
<1> QED  BY <1>1, KeyInvariant, PTL

\* What a scan has visited and lists at its end is reserved: cleanup_unused has
\* taken everything else out of the tree below the path that was scanned.
LEMMA ListedIsKept ==
    ASSUME KeyInv, scan \in {"scanned", "scanned_file"}, NEW p \in Listed(keys) \cap Visited
    PROVE  p \in Kept
<1>0. target \in Path /\ Top \in Path /\ p \in Path \ {Top}
    BY VisitedFacts, KeyAssumption DEF KeyInv, TypeInv
<1>1. Lineage(target) \ {Top} \subseteq Kept
    BY DEF KeyInv, KeptInv, Ending
<1>2. \A q \in DOMAIN keys.old : keys.old[q] \in Row
    BY DEF KeyInv, TypeInv, IsKeys, IsTable
<1>3. \A q \in Lineage(p) \ {Top} : q \in DOMAIN keys.old
    BY DEF Listed, IsDir
<1>4. CASE p \in Lineage(target)
    BY <1>0, <1>1, <1>4
<1>5. CASE p \notin Lineage(target)
    <2>1. scan = "scanned" /\ p \in Below(target) /\ p # target
        BY <1>0, <1>5, TargetFacts DEF Visited
    <2>2. PICK S : S = {q \in Path : /\ q \in Below(target) /\ q \in Lineage(p)
                                     /\ ~(Between(q) \subseteq Kept /\ q \notin unflushed)}
        OBVIOUS
    <2>3. target \notin S
        <3>1. Between(target) = {} /\ target \notin unflushed
            BY <1>0, <2>1, BetweenFacts DEF KeyInv, CleanInv
        <3> QED  BY <2>2, <3>1
    <2>4. ASSUME NEW q \in S PROVE Parent[q] \in S
        <3>1. q \in Path /\ q \in Below(target) \ {target} /\ q \in Lineage(p)
            BY <2>2, <2>3
        <3>2. q # Top /\ Parent[q] \in Below(target) /\ Parent[q] \in Path /\ Parent[q] \in Lineage(p)
            BY <1>0, <3>1, TargetFacts, LineageFacts DEF IsUpward
        <3>3. ASSUME Between(Parent[q]) \subseteq Kept, Parent[q] \notin unflushed PROVE FALSE
            <4>1. q \in Children(Parent[q])
                BY <3>1, <3>2 DEF Children
            <4>2. q \notin unflushed /\ q \notin Unreserved(keys)
                BY <2>1, <3>2, <3>3, <4>1 DEF KeyInv, CleanInv
            <4>3. q \in Kept
                BY <1>2, <1>3, <3>1, <3>2, <4>2 DEF Unreserved, Kept, Row
            <4>4. Between(q) \subseteq Kept
                BY <1>0, <3>1, <3>3, <4>3, BetweenFacts
            <4> QED  BY <2>2, <4>2, <4>4
        <3> QED  BY <2>2, <3>2, <3>3
    <2>5. PICK W : W = S \cup (Path \ Below(target))
        OBVIOUS
    <2>6. IsUpward(W)
        <3>1. ASSUME NEW q \in W \ {Top}, q \notin S PROVE Parent[q] \in W
            BY <1>0, <2>5, <3>1, TargetFacts, KeyAssumption
        <3> QED  BY <2>2, <2>4, <2>5, <3>1 DEF IsUpward
    <2>7. target \notin W /\ target \in Lineage(p)
        BY <1>0, <2>1, <2>3, <2>5, TargetFacts DEF Below
    <2>8. p \notin S
        BY <2>5, <2>6, <2>7, UpwardHasLineage
    <2>9. p \in Between(p) /\ p \in Lineage(p)
        BY <1>0, <2>1, LineageFacts DEF Between
    <2> QED  BY <1>0, <2>1, <2>2, <2>8, <2>9
<1> QED  BY <1>4, <1>5

\* Hat::commit finds the hash of every file that the scan visited, whatever the
\* collector and crashes took out of the hash index before the scan, and
\* whatever changed while it ran (Msg::Insert).  It need not find those of other
\* paths, which it lists as well.
THEOREM ListedHashesAreKnown == KeySpec => []ListedHashIsKnown
<1>1. KeyInv => ListedHashIsKnown
    <2> SUFFICES ASSUME KeyInv, scan \in {"scanned", "scanned_file"},
                        NEW p \in Listed(keys) \cap Visited, keys.old[p].data \in Hash
                 PROVE  keys.old[p].data \in known
        BY DEF ListedHashIsKnown
    <2>1. p \in Kept
        BY ListedIsKept
    <2> QED  BY <2>1 DEF KeyInv, KeptInv, Ending
<1> QED  BY <1>1, KeyInvariant, PTL

\* A scan that nothing disturbed leaves what it visited in the index as it is,
\* whatever earlier scans left there, if every file can be opened.
THEOREM ScansAreExact ==
    ASSUME Unreadable = {}
    PROVE  KeySpec => []ScanIsExact
<1>1. KeyInv => ScanIsExact
    <2> SUFFICES ASSUME KeyInv, scan \in {"scanned", "scanned_file"}, ~moved
                 PROVE  /\ Listed(keys) \cap Visited = {p \in Visited : fs[p] # None}
                        /\ \A p \in Listed(keys) \cap Visited : Shows(keys, p)
        BY DEF ScanIsExact
    <2>0. IsUpward(Visited \cup {Top}) /\ Visited \subseteq Path \ {Top}
        BY VisitedFacts DEF KeyInv, TypeInv
    <2>1. Kept = {p \in Visited : fs[p] # None} /\ \A p \in Kept : keys.old[p].mtime = fs[p].mtime
        BY DEF KeyInv, ExactInv, Ending
    <2>2. ASSUME NEW p \in Kept
          PROVE  keys.old[p].data = fs[p].data /\ fs[p] \in Versions[p]
        <3>1. p \in DOMAIN keys.old /\ p \in Path /\ fs[p] \in Versions[p]
            BY <2>0, <2>1 DEF Kept, KeyInv, TypeInv
        <3>2. PICK v \in Versions[p] : v.mtime = keys.old[p].mtime /\ Fits(p, v, keys.old[p].data)
            BY <3>1 DEF KeyInv, RowsInv, RowsFit
        <3>3. v = fs[p]
            BY <2>1, <3>1, <3>2, VersionFacts
        <3>4. fs[p] \notin torn[p]
            BY <3>1 DEF KeyInv, FsInv
        <3> QED  BY <3>1, <3>2, <3>3, <3>4 DEF Fits
    <2>3. ASSUME NEW p \in Kept PROVE Shows(keys, p)
        <3>1. p \in Path /\ fs[p] \in Versions[p]
            BY <2>0, <2>1, <2>2
        <3>2. KindOf(fs[p].data) = fs[p].kind
            BY <3>1, VersionFacts, KeyAssumption DEF KindOf
        <3> QED  BY <2>2, <3>2 DEF Shows
    <2>4. ASSUME NEW p \in Kept, NEW q \in Lineage(p) \ {p}
          PROVE  q \in Path /\ q \in Kept \cup {Top} /\ fs[q].kind = "dir"
        <3>1. p \in Path /\ fs[p] # None /\ p \in Visited
            BY <2>0, <2>1
        <3>2. q \in Path /\ fs[q] # None /\ fs[q].kind = "dir"
            BY <3>1, WayIsThere DEF KeyInv
        <3>3. q \in Visited \cup {Top}
            BY <2>0, <3>1, UpwardHasLineage
        <3> QED  BY <2>1, <3>2, <3>3
    <2>5. ASSUME NEW p \in Kept PROVE p \in Listed(keys)
        <3>1. \A q \in Lineage(p) \ {p} : IsDir(keys, q)
            <4> SUFFICES ASSUME NEW q \in Lineage(p) \ {p}, q # Top PROVE IsDir(keys, q)
                BY DEF IsDir
            <4>1. q \in Kept /\ fs[q].kind = "dir" /\ q \in Path
                BY <2>4
            <4>2. keys.old[q].data = NoData
                BY <2>2, <4>1, VersionFacts
            <4> QED  BY <4>1, <4>2 DEF IsDir, Kept
        <3> QED  BY <3>1 DEF Listed, Kept
    <2>6. \A p \in Listed(keys) \cap Visited : p \in Kept
        BY ListedIsKept
    <2> QED  BY <2>1, <2>3, <2>5, <2>6
<1> QED  BY <1>1, KeyInvariant, PTL

\* A scan leaves the committed rows of the paths that it does not visit as they
\* are, whatever scans of those paths were cut off before (commit_reserved_nodes,
\* cleanup_unused).
THEOREM ScansKeepToTheirPath == KeySpec => OtherPathsStay
<1>1. ASSUME KeyInv, [KeyNext]_vars
      PROVE  scan' = "open" \/ Committed(keys', Path \ Visited) = Committed(keys, Path \ Visited)
    <2>1. /\ target \in Path /\ IsTable(keys.new) /\ IsTable(keys.old) /\ IsKeys(keys)
        BY <1>1 DEF KeyInv, TypeInv, IsKeys
    <2>2. ASSUME DOMAIN keys'.old \ Visited = DOMAIN keys.old \ Visited,
                 \A q \in DOMAIN keys.old \ Visited : keys'.old[q] = keys.old[q]
          PROVE  Committed(keys', Path \ Visited) = Committed(keys, Path \ Visited)
        <3>1. DOMAIN keys'.old \cap (Path \ Visited) = DOMAIN keys.old \cap (Path \ Visited)
            BY <2>2
        <3>2. \A q \in DOMAIN keys.old \cap (Path \ Visited) : keys'.old[q] = keys.old[q]
            BY <2>2
        <3> QED  BY <3>1, <3>2 DEF Committed
    <2>3. ASSUME NEW p \in Path, scan = "walk", job[p].at # "none", p # Top PROVE p \in Visited
        BY <1>1, <2>3 DEF KeyInv, WalkInv, WalkUp, Visited
    <2>4. CASE keys'.old = keys.old
        BY <2>2, <2>4
    <2>5. ASSUME NEW p \in Path, SkipEntry(p)
          PROVE  Committed(keys', Path \ Visited) = Committed(keys, Path \ Visited)
        <3>1. p \in Visited
            BY <1>1, <2>3, <2>5 DEF SkipEntry, KeyInv, WalkInv, WalkTop
        <3>2. keys'.old = Tagged(keys.old, {p}, "Reserved")
            BY <2>5 DEF SkipEntry, MarkReserved
        <3>3. DOMAIN keys'.old = DOMAIN keys.old /\ \A q \in DOMAIN keys.old \ {p} : keys'.old[q] = keys.old[q]
            BY <3>2 DEF Tagged
        <3> QED  BY <2>2, <3>1, <3>3
    <2>6. ASSUME CommitReservedNodes
          PROVE  Committed(keys', Path \ Visited) = Committed(keys, Path \ Visited)
        <3>1. scan = "walk" /\ keys' = Promoted(ReservedNew)
            BY <2>6 DEF CommitReservedNodes
        <3>2. /\ DOMAIN keys'.old = DOMAIN keys.old \cup ReservedNew
              /\ \A p \in DOMAIN keys.old \ ReservedNew : keys'.old[p] = keys.old[p]
            BY <2>1, <3>1, PromotedFacts
        <3>3. ASSUME NEW p \in ReservedNew PROVE p \in Visited
            <4>1. p \in Path \ {Top} /\ Live(p)
                BY <2>1 DEF ReservedNew, IsTable, Live, Lookup, Nodes
            <4>2. job[p].at # "none"
                BY <1>1, <3>1, <4>1 DEF KeyInv, WalkInv, WalkRow, Processed
            <4> QED  BY <2>3, <3>1, <4>1, <4>2
        <3> QED  BY <2>2, <3>2, <3>3
    <2>7. ASSUME NEW p \in Path, DeleteNode(p)
          PROVE  Committed(keys', Path \ Visited) = Committed(keys, Path \ Visited)
        <3>1. /\ scan = "cleanup" /\ p # Top /\ Parent[p] \in Below(target)
              /\ keys'.old = Drop(keys.old, Below(p))
            BY <1>1, <2>7 DEF DeleteNode, KeyInv, CleanInv
        <3>2. p \in Below(target) \ {target}
            BY <2>1, <3>1, TargetFacts
        <3>3. ASSUME NEW q \in Below(p) PROVE q \in Visited
            <4>1. q \in Path /\ p \in Lineage(q)
                BY DEF Below
            <4>2. Lineage(p) \subseteq Lineage(q)
                BY <4>1, LineageFacts, UpwardHasLineage
            <4>3. q \in Below(target)
                BY <3>2, <4>1, <4>2 DEF Below
            <4>4. q # Top
                BY <3>1, BelowFacts
            <4> QED  BY <3>1, <4>3, <4>4 DEF Visited
        <3>4. DOMAIN keys'.old = DOMAIN keys.old \ Below(p)
            BY <3>1 DEF Drop
        <3>5. \A q \in DOMAIN keys.old \ Below(p) : keys'.old[q] = keys.old[q]
            BY <3>1 DEF Drop
        <3> QED  BY <2>2, <3>3, <3>4, <3>5
    <2>8. CASE Restart
        BY <2>8 DEF Restart
    <2>9. ASSUME NEW p \in Path, NEW fired \in BOOLEAN, InsertEntry(p, fired) PROVE keys'.old = keys.old
        BY <2>1, <2>9 DEF InsertEntry, InsertRow, IsKeys
    <2>10. ASSUME NEW p \in Path, Worker(p), ~SkipEntry(p) PROVE keys'.old = keys.old
        <3>1. CASE \E fired \in BOOLEAN : InsertEntry(p, fired)
            BY <2>9, <3>1
        <3>2. CASE ~\E fired \in BOOLEAN : InsertEntry(p, fired)
            <4>1. UNCHANGED keys
                BY <2>10, <3>2 DEF Worker, Stat, TakeStore, MissEntry, ReadFile, ReadDir
            <4> QED  BY <4>1
        <3> QED  BY <3>1, <3>2
    <2>11. CASE (\E p \in Path : Change(p)) \/ (\E h \in Hash : SaveHash(h) \/ Collect(h))
        BY <2>4, <2>11 DEF Change, SaveHash, Collect
    <2>12. CASE (\E t \in Path : ScanStart(t)) \/ (\E p \in Path : CleanupLevel(p)) \/ FamilyFlush
        BY <2>4, <2>12 DEF ScanStart, CleanupLevel, FamilyFlush
    <2>13. CASE UNCHANGED vars
        BY <2>4, <2>13 DEF vars
    <2> QED  BY <1>1, <2>4, <2>5, <2>6, <2>7, <2>8, <2>10, <2>11, <2>12, <2>13 DEF KeyNext, ScanStep
<1>2. KeySpec => []KeyInv
    BY KeyInvariant
<1> QED  BY <1>1, <1>2, PTL DEF KeySpec, OtherPathsStay

-----------------------------------------------------------------------------
\* The pool of key stores.

Holders == {p \in Path : HoldsStore(p)}
PoolInv == Cardinality(Holders) <= KeyStores

\* A worker that waits for a key store takes one that is free, and every other
\* step only gives them back.
LEMMA StepKeepsPool ==
    ASSUME KeyInv, PoolInv, [KeyNext]_vars
    PROVE  PoolInv'
<1>1. IsFiniteSet(Path) /\ KeyStores \in Nat
    BY KeyAssumption
<1>2. IsFiniteSet(Holders) /\ Cardinality(Holders) \in Nat
    BY <1>1, FS_Subset, FS_CardinalityType DEF Holders
<1>3. job \in [Path -> JobState]
    BY DEF KeyInv, TypeInv
<1>4. ASSUME NEW p \in Path, TakeStore(p) PROVE PoolInv'
    <2>1. Cardinality(Holders) < KeyStores
        BY <1>4 DEF TakeStore, Holders
    <2>2. Holders' = Holders \cup {p}
        <3>1. job' = [job EXCEPT ![p].at = "lookup"]
            BY <1>4 DEF TakeStore, Goto
        <3>2. job'[p].at = "lookup" /\ \A q \in Path \ {p} : job'[q] = job[q]
            BY <1>3, <3>1 DEF JobState
        <3> QED  BY <3>2 DEF Holders, HoldsStore
    <2>3. PICK H, c, n : H = Holders /\ c = Cardinality(H) /\ n = Cardinality(H \cup {p})
        OBVIOUS
    <2>4. IsFiniteSet(H) /\ IsFiniteSet(H \cup {p})
        BY <1>2, <2>3, FS_AddElement
    <2>5. n = c \/ n = c + 1
        BY <2>3, <2>4, FS_AddElement
    <2>6. c \in Nat /\ c < KeyStores
        BY <1>2, <2>1, <2>3
    <2>7. n <= KeyStores
        BY <1>1, <2>5, <2>6
    <2> QED  BY <2>2, <2>3, <2>7 DEF PoolInv
<1>5. ASSUME Holders' \subseteq Holders PROVE PoolInv'
    <2>1. PICK H : H = Holders'
        OBVIOUS
    <2>2. IsFiniteSet(H) /\ Cardinality(H) \in Nat /\ Cardinality(H) <= Cardinality(Holders)
        BY <1>2, <1>5, <2>1, FS_Subset, FS_CardinalityType
    <2> QED  BY <1>1, <1>2, <2>1, <2>2 DEF PoolInv
<1>6. ASSUME NEW p \in Path, Worker(p), ~TakeStore(p) PROVE Holders' \subseteq Holders
    <2>1. CASE Stat(p)
        <3>1. job'[p].at \in {"done", "stat"} /\ \A q \in Path \ {p} : job'[q] = job[q]
            BY <1>3, <2>1 DEF Stat, JobState
        <3> QED  BY <3>1 DEF Holders, HoldsStore
    <2>2. CASE MissEntry(p)
        <3>1. job[p].at = "lookup" /\ \A q \in Path \ {p} : job'[q] = job[q]
            BY <1>3, <2>2 DEF MissEntry
        <3> QED  BY <3>1 DEF Holders, HoldsStore
    <2>3. CASE ReadFile(p)
        <3>1. job[p].at = "read" /\ \A q \in Path \ {p} : job'[q] = job[q]
            BY <1>3, <2>3 DEF ReadFile
        <3> QED  BY <3>1 DEF Holders, HoldsStore
    <2>4. CASE SkipEntry(p) \/ \E fired \in BOOLEAN : InsertEntry(p, fired)
        <3>1. job[p].at \in {"lookup", "insert"} /\ Goto(p, Replied(p))
            BY <2>4 DEF SkipEntry, InsertEntry
        <3>2. \A q \in Path \ {p} : job'[q] = job[q]
            BY <1>3, <3>1 DEF Goto
        <3> QED  BY <3>1, <3>2 DEF Holders, HoldsStore
    <2>5. CASE ReadDir(p)
        <3>1. \A q \in Path : job'[q].at \in {"done", "listed"} \/ job'[q] = job[q]
            BY <1>3, <2>5 DEF ReadDir, Idle, JobState
        <3> QED  BY <3>1 DEF Holders, HoldsStore
    <2> QED  BY <1>6, <2>1, <2>2, <2>3, <2>4, <2>5 DEF Worker
<1>7. CASE (\E t \in Path : ScanStart(t)) \/ Restart
    <2>1. \A q \in Path : job'[q].at \in {"none", "readdir"}
        BY <1>7 DEF ScanStart, Restart, Idle
    <2>2. Holders' \subseteq Holders
        BY <2>1 DEF Holders, HoldsStore
    <2> QED  BY <1>5, <2>2
<1>8. CASE UNCHANGED job
    <2>1. Holders' \subseteq Holders
        BY <1>8 DEF Holders, HoldsStore
    <2> QED  BY <1>5, <2>1
<1>9. \/ \E p \in Path : Worker(p)
      \/ (\E t \in Path : ScanStart(t)) \/ Restart
      \/ UNCHANGED job
    <2>1. ASSUME NEW p, Change(p) \/ SaveHash(p) \/ Collect(p) PROVE UNCHANGED job
        BY <2>1 DEF Change, SaveHash, Collect
    <2>2. ASSUME NEW p, DeleteNode(p) \/ CleanupLevel(p) PROVE UNCHANGED job
        BY <2>2 DEF DeleteNode, CleanupLevel
    <2>3. CommitReservedNodes \/ FamilyFlush \/ UNCHANGED vars => UNCHANGED job
        BY DEF CommitReservedNodes, FamilyFlush, vars
    <2> QED  BY <2>1, <2>2, <2>3 DEF KeyNext, ScanStep
<1> QED  BY <1>4, <1>5, <1>6, <1>7, <1>8, <1>9

\* The tables hold rows, what is ready on disk is known, and no more workers
\* hold a key store than there are (SyncPool::lock).
THEOREM KeyTypeCorrect == KeySpec => []KeyTypeOK
<1>1. KeyInit => PoolInv
    <2> SUFFICES ASSUME KeyInit PROVE PoolInv
        OBVIOUS
    <2>1. Holders = {}
        BY DEF KeyInit, Holders, HoldsStore, Idle
    <2> QED  BY <2>1, FS_EmptySet, KeyAssumption DEF PoolInv
<1>2. KeySpec => []PoolInv
    BY <1>1, StepKeepsPool, KeyInvariant, PTL DEF KeySpec
<1>3. KeyInv /\ PoolInv => KeyTypeOK
    BY DEF KeyInv, TypeInv, IsKeys, PoolInv, Holders, KeyTypeOK
<1> QED  BY <1>2, <1>3, KeyInvariant, PTL

=============================================================================
