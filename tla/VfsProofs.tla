----------------------------- MODULE VfsProofs -----------------------------
(***************************************************************************)
(* Proofs about Vfs for any snapshots, directories and files, any number   *)
(* of descriptors and any sequence of requests: what a descriptor that has *)
(* its handle to itself and reads forward gets is what its file holds,     *)
(* and what a process lists of a mounted directory, of any depth, is what  *)
(* Filesystem::ls lists of its path.                                       *)
(***************************************************************************)
EXTENDS Vfs, FiniteSetTheorems, SequenceTheorems, WellFoundedInduction, TLAPS

-----------------------------------------------------------------------------
\* The invariant.

\* Inodes have what can be fetched.
IsTable(tab) ==
    /\ tab \in Seq(ToSet(tab))
    /\ \A i \in 1 .. Len(tab) :
          /\ tab[i].kind = "dir" => tab[i].ref \in DOMAIN Listing
          /\ tab[i].kind = "file" => tab[i].ref \in DOMAIN Chunks

\* Where the first n chunks of a file end.
EndOf(ref, n) == IF n = 0 THEN 0 ELSE Chunks[ref][n]

\* A reader holds its n-th chunk, or nothing after the last one.
Reading == [ref : DOMAIN Chunks, n : Nat, offset : Nat, len : Nat, eof : BOOLEAN]

IsReader(rd) ==
    /\ rd \in Reading
    /\ rd.n <= Len(Chunks[rd.ref])
    /\ rd.offset + rd.len = EndOf(rd.ref, rd.n)
    /\ rd.eof => rd.n = Len(Chunks[rd.ref]) /\ rd.len = 0

ReadersInv ==
    /\ IsFiniteSet(DOMAIN readers)
    /\ readers = [h \in DOMAIN readers |-> readers[h]]
    /\ \A h \in DOMAIN readers : IsReader(readers[h])

\* A descriptor is of a file.
Descriptor == [ino : Nat, fh : Nat, at : Nat, own : BOOLEAN, rewound : BOOLEAN]

FdsInv ==
    /\ fds \in [DOMAIN fds -> Descriptor] /\ DOMAIN fds \subseteq Desc
    /\ \A e \in DOMAIN fds : fds[e].ino \in 1 .. Len(inodes) /\ inodes[fds[e].ino].kind = "file"

\* A handle that a descriptor has to itself has a reader of its file.
Alone(e) ==
    /\ fds[e].fh \in DOMAIN readers
    /\ readers[fds[e].fh].ref = inodes[fds[e].ino].ref
    /\ \A o \in DOMAIN fds : fds[o].fh = fds[e].fh => o = e

OwnInv == \A e \in DOMAIN fds : fds[e].own => Alone(e)

\* Such a descriptor, when it reads forward, is not behind its reader.
Forward(e) == fds[e].own /\ ~fds[e].rewound

Position(e) == IF pc = "serving" /\ req.d = e THEN Offset ELSE fds[e].at

AheadInv == \A e \in DOMAIN fds : Forward(e) => readers[fds[e].fh].offset <= Position(e)

\* What a read has got: the bytes of ref from where it begins.
Bytes(ref, from, n) == [k \in 1 .. n |-> <<ref, from + k>>]

Request == [d : Desc, from : Nat, size : Nat \ {0}, got : Seq((DOMAIN Chunks) \X Nat)]

ServingInv ==
    pc = "serving" =>
        /\ req \in Request
        /\ req.d \in DOMAIN fds /\ fds[req.d].fh \in DOMAIN readers
        /\ Len(req.got) < req.size
        /\ req.got = Bytes(Reader.ref, req.from, Len(req.got))
        /\ Forward(req.d) => Offset <= Size(Reader.ref)

PcInv ==
    /\ pc \in {"populate", "idle", "serving", "panic"}
    /\ pc = "populate" => req = NoRequest
    /\ req # NoRequest => req.d \in DOMAIN fds

\* The lister's directory is there.
ListerInv ==
    /\ lister = [ino |-> lister.ino, offset |-> lister.offset, seen |-> lister.seen, end |-> lister.end]
    /\ lister.ino \in 0 .. Len(inodes)

\* Inodes, readers, descriptors and the read under way fit together.
VfsInvariant ==
    /\ IsTable(inodes)
    /\ ReadersInv
    /\ FdsInv
    /\ OwnInv
    /\ AheadInv
    /\ ServingInv
    /\ PcInv
    /\ ReadsItsFile

-----------------------------------------------------------------------------
\* The snapshots that are shown.

\* A set of numbers that is not empty has a least one.
LEMMA Least ==
    ASSUME NEW S, S \subseteq Nat, S # {}
    PROVE  \E m \in S : \A k \in S : m <= k
<1>1. PICK m \in S : \A u \in S : ~(<<u, m>> \in OpToRel(<, Nat))
    BY NatLessThanWellFounded, WFMin
<1>2. ASSUME NEW k \in S PROVE m <= k
    <2>1. m \in Nat /\ k \in Nat
        OBVIOUS
    <2>2. ~(k < m)
        BY <1>1, <2>1 DEF OpToRel
    <2> QED  BY <2>1, <2>2
<1> QED  BY <1>2

\* One step of the recursion of Only, and f follows it over the first N elements.
Kept(s, S, n, before) == IF s[n] \in S THEN Append(before, s[n]) ELSE before

Keeps(s, S, f, N) ==
    f = [n \in 0 .. N |-> IF n = 0 THEN <<>> ELSE Kept(s, S, n, f[n - 1])]

\* There is a function that the recursion defines.
LEMMA KeepsExist ==
    ASSUME NEW s, NEW S, NEW N \in Nat
    PROVE  \E f : Keeps(s, S, f, N)
<1> DEFINE Bad == {n \in Nat : ~ \E f : Keeps(s, S, f, n)}
<1>1. SUFFICES ASSUME Bad # {} PROVE FALSE
    OBVIOUS
<1>2. PICK m \in Bad : \A k \in Bad : m <= k
    BY <1>1, Least
<1>3. m # 0
    <2>1. Keeps(s, S, [n \in 0 .. 0 |-> <<>>], 0)
        BY DEF Keeps
    <2> QED  BY <2>1
<1>4. PICK f : Keeps(s, S, f, m - 1)
    <2>1. m - 1 \in Nat /\ ~(m <= m - 1)
        BY <1>3
    <2> QED  BY <1>2, <2>1
<1> DEFINE g == [n \in 0 .. m |-> IF n = m THEN Kept(s, S, n, f[n - 1]) ELSE f[n]]
<1>5. ASSUME NEW n \in 0 .. m, n # 0 PROVE g[n] = Kept(s, S, n, g[n - 1])
    <2>1. n - 1 \in 0 .. m /\ n - 1 # m
        BY <1>2, <1>5
    <2>4. g[n - 1] = f[n - 1]
        BY <2>1
    <2>2. CASE n = m
        BY <2>2, <2>4
    <2>3. CASE n # m
        <3>1. n \in 0 .. m - 1 /\ g[n] = f[n]
            BY <2>3
        <3>2. f[n] = Kept(s, S, n, f[n - 1])
            BY <1>4, <3>1, <1>5 DEF Keeps
        <3> QED  BY <3>1, <3>2, <2>4
    <2> QED  BY <2>2, <2>3
<1>6. g[0] = <<>>
    BY <1>3, <1>4 DEF Keeps
<1>7. Keeps(s, S, g, m)
    <2>1. g = [n \in 0 .. m |-> g[n]]
        OBVIOUS
    <2> HIDE DEF g
    <2>2. g = [n \in 0 .. m |-> IF n = 0 THEN <<>> ELSE Kept(s, S, n, g[n - 1])]
        BY <2>1, <1>5, <1>6
    <2> QED  BY <2>2 DEF Keeps
<1> QED  BY <1>7

\* What it returns is in S.
LEMMA KeepsOnly ==
    ASSUME NEW S, NEW T, NEW s \in Seq(T), NEW f, Keeps(s, S, f, Len(s))
    PROVE  f[Len(s)] \in Seq(S \cap T)
<1> DEFINE L == Len(s)
           R == S \cap T
<1>1. L \in Nat
    OBVIOUS
<1> DEFINE Bad == {n \in 0 .. L : f[n] \notin Seq(R)}
<1>2. SUFFICES ASSUME Bad # {} PROVE FALSE
    BY <1>1
<1>3. PICK m \in Bad : \A k \in Bad : m <= k
    <2>1. Bad \subseteq Nat
        BY <1>1
    <2> QED  BY <1>2, <2>1, Least
<1>4. f[m] = IF m = 0 THEN <<>> ELSE Kept(s, S, m, f[m - 1])
    BY <1>3 DEF Keeps
<1>5. m # 0
    <2>1. <<>> \in Seq(R)
        OBVIOUS
    <2> QED  BY <1>3, <1>4, <2>1
<1>6. f[m - 1] \in Seq(R)
    <2>1. m - 1 \in 0 .. L /\ ~(m <= m - 1)
        BY <1>1, <1>3, <1>5
    <2> QED  BY <1>3, <2>1
<1>7. s[m] \in T
    BY <1>1, <1>3, <1>5
<1>8. s[m] \in S => s[m] \in R
    BY <1>7
<1> HIDE DEF R
<1>9. f[m] \in Seq(R)
    BY <1>4, <1>5, <1>6, <1>8 DEF Kept
<1> QED  BY <1>3, <1>9

\* Only returns elements of S.
LEMMA OnlyIs ==
    ASSUME NEW S, NEW T, NEW s \in Seq(T)
    PROVE  Only(s, S) \in Seq(S \cap T)
<1>1. Len(s) \in Nat
    OBVIOUS
<1>2. PICK g : Keeps(s, S, g, Len(s))
    BY <1>1, KeepsExist
<1> DEFINE f == CHOOSE f : f = [n \in 0 .. Len(s) |->
                    IF n = 0 THEN <<>>
                    ELSE IF s[n] \in S THEN Append(f[n - 1], s[n]) ELSE f[n - 1]]
<1>3. Keeps(s, S, f, Len(s))
    BY <1>2, Zenon DEF Keeps, Kept
<1>4. Only(s, S) = f[Len(s)]
    BY Zenon DEF Only
<1> HIDE DEF f
<1> QED  BY <1>3, <1>4, KeepsOnly

\* The snapshots that a family shows are its own and have a reference.
ShownOf(fam) == {s \in WithRef : s.family = fam}

LEMMA ShownIs ==
    ASSUME NEW fam PROVE Shown(fam) \in Seq(ShownOf(fam))
<1> DEFINE T == ToSet(Snapshots)
           S == {s \in T : s.family = fam}
<1>1. Family(fam) \in Seq(S \cap T)
    BY OnlyIs, VfsAssumption DEF Family, VfsAssumption
<1>2. S \cap T = S
    OBVIOUS
<1>3. Family(fam) \in Seq(S)
    BY <1>1, <1>2
<1>4. Shown(fam) \in Seq(WithRef \cap S)
    BY <1>3, OnlyIs DEF Shown
<1>5. WithRef \cap S = ShownOf(fam)
    BY DEF WithRef, ShownOf
<1> QED  BY <1>4, <1>5

-----------------------------------------------------------------------------
\* The table of inodes only grows.

Extended(old, new) == Len(old) <= Len(new) /\ \A i \in 1 .. Len(old) : new[i] = old[i]

\* An inode that can be fetched.
IsInode(f) ==
    /\ f.kind = "dir" => f.ref \in DOMAIN Listing
    /\ f.kind = "file" => f.ref \in DOMAIN Chunks

\* What add_file appends leaves the inodes before it alone.
LEMMA AppendedInodes ==
    ASSUME NEW tab, IsTable(tab), NEW n \in Nat, NEW new,
           new = [k \in 1 .. n |-> new[k]], \A k \in 1 .. n : IsInode(new[k])
    PROVE  IsTable(tab \o new) /\ Extended(tab, tab \o new)
<1> DEFINE S == ToSet(tab) \cup {new[k] : k \in 1 .. n}
<1>1. tab \in Seq(S) /\ new \in Seq(S) /\ Len(new) = n /\ Len(tab) \in Nat
    <2>1. tab \in Seq(ToSet(tab)) /\ Len(tab) \in Nat
        BY DEF IsTable
    <2>2. \A k \in 1 .. Len(tab) : tab[k] \in S
        BY <2>1 DEF ToSet
    <2>3. tab \in Seq(S)
        BY <2>1, <2>2
    <2>4. \A k \in 1 .. n : new[k] \in S
        OBVIOUS
    <2>5. new \in [1 .. n -> S]
        BY <2>4
    <2> QED  BY <2>1, <2>3, <2>5
<1> DEFINE all == tab \o new
<1>2. all \in Seq(S) /\ Len(all) = Len(tab) + n
    BY <1>1
<1>7. \A i \in 1 .. Len(tab) : all[i] = tab[i]
    BY <1>1
<1>8. \A i \in Len(tab) + 1 .. Len(tab) + n : all[i] = new[i - Len(tab)]
    BY <1>1
<1> HIDE DEF all, S
<1>3. all \in Seq(ToSet(all))
    <2>1. \A i \in 1 .. Len(all) : all[i] \in ToSet(all)
        BY <1>2 DEF ToSet
    <2> QED  BY <1>2, <2>1
<1>4. ASSUME NEW i \in 1 .. Len(all) PROVE IsInode(all[i])
    <2>1. CASE i <= Len(tab)
        <3>1. i \in 1 .. Len(tab)
            BY <1>1, <2>1
        <3> QED  BY <1>7, <3>1 DEF IsTable, IsInode
    <2>2. CASE i > Len(tab)
        <3>1. i \in Len(tab) + 1 .. Len(tab) + n /\ i - Len(tab) \in 1 .. n
            BY <1>1, <1>2, <2>2
        <3> QED  BY <1>8, <3>1
    <2> QED  BY <1>1, <1>2, <2>1, <2>2
<1>5. IsTable(all)
    BY <1>3, <1>4 DEF IsTable, IsInode
<1>6. Extended(tab, all)
    BY <1>1, <1>2, <1>7 DEF Extended
<1> QED  BY <1>5, <1>6 DEF all

\* Growing twice.
LEMMA ExtendedTwice ==
    ASSUME NEW a, NEW b, NEW c, Len(a) \in Nat, Len(b) \in Nat, Len(c) \in Nat,
           Extended(a, b), Extended(b, c)
    PROVE  Extended(a, c)
BY DEF Extended

\* The inodes after one family was added.
LEMMA AddFamilyTable ==
    ASSUME IsTable(inodes), NEW fam, AddFamily(fam)
    PROVE  IsTable(inodes') /\ Extended(inodes, inodes')
<1> DEFINE one == <<File(fam, "parent", NoRef, RootIno)>>
           ino == Len(inodes) + 1
           snaps == Shown(fam)
           new == [k \in 1 .. Len(snaps) |-> File(snaps[k].id, "dir", snaps[k].ref, ino)]
           with == inodes \o one
<1>1. inodes' = with \o new
    BY Zenon DEF AddFamily, AddFiles
<1>2. IsTable(with) /\ Extended(inodes, with)
    <2>1. one = [k \in 1 .. 1 |-> one[k]] /\ \A k \in 1 .. 1 : IsInode(one[k])
        BY DEF IsInode, File
    <2> HIDE DEF one
    <2> QED  BY <2>1, AppendedInodes
<1>3. Len(snaps) \in Nat /\ \A k \in 1 .. Len(snaps) : snaps[k] \in WithRef
    <2>1. snaps \in Seq(ShownOf(fam))
        BY ShownIs
    <2> HIDE DEF snaps
    <2> QED  BY <2>1 DEF ShownOf
<1>4. ASSUME NEW k \in 1 .. Len(snaps) PROVE IsInode(new[k])
    <2>1. snaps[k].ref \in DOMAIN Listing
        BY <1>3, VfsAssumption DEF WithRef, VfsAssumption
    <2> HIDE DEF snaps
    <2> QED  BY <2>1 DEF IsInode, File
<1>5. IsTable(with \o new) /\ Extended(with, with \o new)
    <2> HIDE DEF with, snaps
    <2>1. new = [k \in 1 .. Len(snaps) |-> new[k]]
        OBVIOUS
    <2> HIDE DEF new
    <2> QED  BY <1>2, <1>3, <1>4, <2>1, AppendedInodes
<1> HIDE DEF with, new
<1>6. Len(inodes) \in Nat /\ Len(with) \in Nat /\ Len(with \o new) \in Nat
    BY <1>2, <1>5 DEF IsTable
<1> QED  BY <1>1, <1>2, <1>5, <1>6, ExtendedTwice

\* The inodes after a directory was looked at.
LEMMA ChildsTable ==
    ASSUME IsTable(inodes), NEW ino \in DOMAIN inodes
    PROVE  IsTable(Childs(ino).inodes) /\ Extended(inodes, Childs(ino).inodes)
<1>1. CASE ~NeedsFetch(ino)
    <2>1. Childs(ino).inodes = inodes
        BY <1>1 DEF Childs
    <2> QED  BY <2>1 DEF Extended, IsTable
<1>2. CASE NeedsFetch(ino)
    <2> DEFINE entries == Listing[inodes[ino].ref]
               new == [k \in 1 .. Len(entries) |->
                         File(entries[k].name, entries[k].kind, entries[k].ref, ino)]
    <2>1. Childs(ino).inodes = inodes \o new
        BY <1>2 DEF Childs, FetchDir, AddFiles
    <2>2. inodes[ino].ref \in DOMAIN Listing
        BY <1>2 DEF NeedsFetch, IsTable
    <2>3. entries \in Seq(ToSet(entries)) /\ \A e \in ToSet(entries) : IsInode(e)
        BY <2>2, VfsAssumption DEF VfsAssumption, IsInode
    <2> HIDE DEF entries
    <2>4. Len(entries) \in Nat
        BY <2>3
    <2>5. ASSUME NEW k \in 1 .. Len(entries) PROVE IsInode(new[k])
        <3>1. IsInode(entries[k])
            BY <2>3
        <3> QED  BY <3>1 DEF IsInode, File
    <2>6. new = [k \in 1 .. Len(entries) |-> new[k]]
        OBVIOUS
    <2> HIDE DEF new
    <2> QED  BY <2>1, <2>4, <2>5, <2>6, AppendedInodes
<1> QED  BY <1>1, <1>2

-----------------------------------------------------------------------------
\* Readers.

\* The ends of chunks grow up to the size of the file.
LEMMA Ends ==
    ASSUME NEW ref \in DOMAIN Chunks
    PROVE  /\ Len(Chunks[ref]) \in Nat /\ Size(ref) \in Nat
           /\ Size(ref) = EndOf(ref, Len(Chunks[ref]))
           /\ \A n \in 0 .. Len(Chunks[ref]) :
                EndOf(ref, n) \in Nat /\ EndOf(ref, n) <= Size(ref)
           /\ \A n \in 0 .. Len(Chunks[ref]) :
                n < Len(Chunks[ref]) => EndOf(ref, n) <= EndOf(ref, n + 1)
<1> DEFINE c == Chunks[ref]
<1>1. c \in Seq(Nat) /\ \A i, j \in 1 .. Len(c) : i <= j => c[i] <= c[j]
    BY VfsAssumption DEF VfsAssumption
<1>2. Size(ref) = IF Len(c) = 0 THEN 0 ELSE c[Len(c)]
    BY <1>1 DEF Size, Last
<1>3. \A n : EndOf(ref, n) = IF n = 0 THEN 0 ELSE c[n]
    BY DEF EndOf
<1> HIDE DEF c
<1>4. Len(c) \in Nat /\ \A n \in 1 .. Len(c) : c[n] \in Nat
    BY <1>1
<1>5. Len(c) \in Nat /\ Size(ref) \in Nat
    BY <1>2, <1>4
<1>6. Size(ref) = EndOf(ref, Len(c))
    BY <1>2, <1>3
<1>7. ASSUME NEW n \in 0 .. Len(c) PROVE EndOf(ref, n) \in Nat /\ EndOf(ref, n) <= Size(ref)
    BY <1>1, <1>2, <1>3, <1>4
<1>8. ASSUME NEW n \in 0 .. Len(c), n < Len(c) PROVE EndOf(ref, n) <= EndOf(ref, n + 1)
    BY <1>1, <1>3, <1>4, <1>8, SMTT(20)
<1> QED  BY <1>5, <1>6, <1>7, <1>8 DEF c

\* A reader that was just opened.
LEMMA NewReaderOK ==
    ASSUME NEW ref \in DOMAIN Chunks
    PROVE  IsReader(NewReader(ref)) /\ NewReader(ref).ref = ref /\ NewReader(ref).offset = 0
BY Ends DEF NewReader, IsReader, Reading, EndOf

\* FileReader::next moves to where the chunk at hand ends.
LEMMA NextChunkOK ==
    ASSUME NEW rd, IsReader(rd), ~rd.eof
    PROVE  /\ IsReader(NextChunk(rd))
           /\ NextChunk(rd).ref = rd.ref
           /\ NextChunk(rd).offset = rd.offset + rd.len
<1> DEFINE ref == rd.ref
           L == Len(Chunks[rd.ref])
<1>1. /\ rd \in Reading /\ ref \in DOMAIN Chunks /\ rd.n \in 0 .. L
      /\ rd.offset + rd.len = EndOf(ref, rd.n)
    BY Ends DEF IsReader, Reading
<1>2. L \in Nat /\ EndOf(ref, rd.n) \in Nat
    BY <1>1, Ends
<1>3. CASE rd.n < L
    <2>1. /\ EndOf(ref, rd.n + 1) \in Nat /\ EndOf(ref, rd.n) <= EndOf(ref, rd.n + 1)
          /\ EndOf(ref, rd.n + 1) = Chunks[ref][rd.n + 1]
        <3>1. rd.n + 1 \in 0 .. L /\ rd.n + 1 # 0
            BY <1>1, <1>2, <1>3
        <3> QED  BY <1>1, <1>3, <3>1, Ends DEF EndOf
    <2> DEFINE new == [ref |-> ref, n |-> rd.n + 1, offset |-> rd.offset + rd.len,
                       len |-> EndOf(ref, rd.n + 1) - EndOf(ref, rd.n), eof |-> FALSE]
    <2>2. NextChunk(rd) = new
        BY <1>1, <1>3, <2>1 DEF NextChunk, Reading
    <2>3. IsReader(new)
        <3>1. new \in Reading
            BY <1>1, <1>2, <2>1 DEF Reading
        <3>2. new.n <= Len(Chunks[new.ref]) /\ new.offset + new.len = EndOf(new.ref, new.n)
            BY <1>1, <1>2, <1>3, <2>1
        <3> QED  BY <3>1, <3>2 DEF IsReader
    <2> QED  BY <2>2, <2>3
<1>4. CASE ~(rd.n < L)
    <2> DEFINE new == [ref |-> ref, n |-> rd.n, offset |-> rd.offset + rd.len,
                       len |-> 0, eof |-> TRUE]
    <2>1. NextChunk(rd) = new
        BY <1>1, <1>4 DEF NextChunk, Reading
    <2>2. IsReader(new)
        BY <1>1, <1>2, <1>4 DEF IsReader, Reading
    <2> QED  BY <2>1, <2>2
<1> QED  BY <1>3, <1>4

-----------------------------------------------------------------------------
\* Steps that do not touch descriptors and readers.

\* No request is answered, and none is being served.
Quiet == pc' \in {"populate", "idle"} /\ req' = NoRequest

\* Only inodes are added.
LEMMA GrowStep ==
    ASSUME VfsInvariant, pc # "serving", Quiet, readers' = readers, fds' = fds,
           IsTable(inodes'), Extended(inodes, inodes')
    PROVE  VfsInvariant'
<1>1. FdsInv'
    <2>1. ASSUME NEW e \in DOMAIN fds
          PROVE  fds[e].ino \in 1 .. Len(inodes') /\ inodes'[fds[e].ino].kind = "file"
        <3>1. fds[e].ino \in 1 .. Len(inodes) /\ inodes[fds[e].ino].kind = "file"
            BY DEF VfsInvariant, FdsInv
        <3>2. Len(inodes) \in Nat /\ Len(inodes') \in Nat
            BY DEF VfsInvariant, IsTable
        <3> QED  BY <3>1, <3>2 DEF Extended
    <2> QED  BY <2>1 DEF VfsInvariant, FdsInv
<1>2. ASSUME NEW e \in DOMAIN fds PROVE inodes'[fds[e].ino] = inodes[fds[e].ino]
    BY DEF VfsInvariant, FdsInv, Extended
<1>3. OwnInv'
    BY <1>2 DEF VfsInvariant, OwnInv, Alone
<1>4. AheadInv'
    BY DEF VfsInvariant, AheadInv, Forward, Position, Quiet
<1>5. ReadersInv' /\ ServingInv' /\ PcInv' /\ ReadsItsFile'
    BY DEF VfsInvariant, ReadersInv, ServingInv, PcInv, ReadsItsFile, Quiet
<1> QED  BY <1>1, <1>3, <1>4, <1>5 DEF VfsInvariant

-----------------------------------------------------------------------------
\* Descriptors are opened and closed.

\* Fuse::open: a new reader, and who shared the handle does not have it alone.
LEMMA OpenStep ==
    ASSUME VfsInvariant, NEW d \in Desc, NEW ino \in DOMAIN inodes, Open(d, ino)
    PROVE  VfsInvariant'
<1> DEFINE h == NextHandle
           rd == NewReader(inodes[ino].ref)
           shared == {e \in DOMAIN fds : fds[e].fh = h}
           fd == [ino |-> ino, fh |-> h, at |-> 0, own |-> shared = {}, rewound |-> FALSE]
<1>1. /\ readers' = [g \in DOMAIN readers \cup {h} |-> IF g = h THEN rd ELSE readers[g]]
      /\ fds' = [e \in DOMAIN fds \cup {d} |->
                   IF e = d THEN fd ELSE [fds[e] EXCEPT !.own = @ /\ e \notin shared]]
      /\ d \notin DOMAIN fds /\ inodes[ino].kind = "file"
      /\ pc = "idle" /\ pc' = "idle" /\ req' = NoRequest /\ inodes' = inodes
    BY DEF Open
<1>2. h \in Nat
    BY FS_CardinalityType DEF NextHandle, VfsInvariant, ReadersInv
<1>3. ino \in 1 .. Len(inodes) /\ ino \in Nat /\ inodes[ino].ref \in DOMAIN Chunks
    BY <1>1 DEF VfsInvariant, IsTable
<1>4. IsReader(rd) /\ rd.ref = inodes[ino].ref /\ rd.offset = 0
    BY <1>3, NewReaderOK
<1> HIDE DEF h, rd
<1>5. ReadersInv'
    <2>1. /\ DOMAIN readers' = DOMAIN readers \cup {h}
          /\ readers' = [g \in DOMAIN readers' |-> readers'[g]]
        BY <1>1
    <2>2. IsFiniteSet(DOMAIN readers')
        BY <2>1, FS_AddElement DEF VfsInvariant, ReadersInv
    <2>3. \A g \in DOMAIN readers' : IsReader(readers'[g])
        BY <1>1, <1>4 DEF VfsInvariant, ReadersInv
    <2> QED  BY <2>1, <2>2, <2>3 DEF ReadersInv
<1>6. fd \in Descriptor
    BY <1>2, <1>3 DEF Descriptor
<1>7. ASSUME NEW e \in DOMAIN fds
      PROVE  /\ fds'[e] = [fds[e] EXCEPT !.own = @ /\ e \notin shared]
             /\ fds'[e] \in Descriptor
             /\ fds'[e].ino = fds[e].ino /\ fds'[e].fh = fds[e].fh /\ fds'[e].at = fds[e].at
             /\ fds'[e].rewound = fds[e].rewound
             /\ fds'[e].own => fds[e].own /\ fds[e].fh # h
    <2>1. fds[e] \in Descriptor /\ fds'[e] = [fds[e] EXCEPT !.own = @ /\ e \notin shared]
        BY <1>1 DEF VfsInvariant, FdsInv
    <2>2. fds'[e].own = (fds[e].own /\ e \notin shared)
        BY <2>1 DEF Descriptor
    <2> QED  BY <2>1, <2>2 DEF Descriptor
<1>8. fds'[d] = fd /\ DOMAIN fds' = DOMAIN fds \cup {d}
    BY <1>1
<1>9. FdsInv'
    <2>1. \A e \in DOMAIN fds' : fds'[e] \in Descriptor
        BY <1>6, <1>7, <1>8
    <2>2. fds' = [e \in DOMAIN fds' |-> fds'[e]]
        BY <1>1
    <2>3. \A e \in DOMAIN fds' : fds'[e].ino \in 1 .. Len(inodes) /\ inodes[fds'[e].ino].kind = "file"
        BY <1>1, <1>3, <1>7, <1>8 DEF VfsInvariant, FdsInv
    <2>4. DOMAIN fds' \subseteq Desc
        BY <1>8 DEF VfsInvariant, FdsInv
    <2> QED  BY <1>1, <2>1, <2>2, <2>3, <2>4 DEF FdsInv
<1>10. ASSUME NEW e \in DOMAIN fds', fds'[e].own PROVE Alone(e)'
    <2>1. CASE e = d
        <3>1. shared = {}
            <4>1. fd.own <=> shared = {}
                OBVIOUS
            <4> QED  BY <1>8, <1>10, <2>1, <4>1
        <3>2. \A o \in DOMAIN fds' : fds'[o].fh = h => o = d
            BY <1>7, <1>8, <3>1
        <3> QED  BY <1>1, <1>4, <1>8, <2>1, <3>2 DEF Alone
    <2>2. CASE e # d
        <3>1. /\ e \in DOMAIN fds /\ fds[e].own /\ fds[e].fh # h
              /\ fds'[e].fh = fds[e].fh /\ fds'[e].ino = fds[e].ino
            BY <1>7, <1>8, <1>10, <2>2
        <3>2. Alone(e)
            BY <3>1 DEF VfsInvariant, OwnInv
        <3>3. readers'[fds[e].fh] = readers[fds[e].fh] /\ fds[e].fh \in DOMAIN readers'
            BY <1>1, <3>1, <3>2 DEF Alone
        <3>4. \A o \in DOMAIN fds' : fds'[o].fh = fds[e].fh => o = e
            BY <1>7, <1>8, <3>1, <3>2 DEF Alone
        <3> QED  BY <1>1, <3>1, <3>2, <3>3, <3>4 DEF Alone
    <2> QED  BY <2>1, <2>2
<1>11. ASSUME NEW e \in DOMAIN fds', Forward(e)' PROVE readers'[fds'[e].fh].offset <= fds'[e].at
    <2>1. CASE e = d
        BY <1>1, <1>4, <1>8, <2>1
    <2>2. CASE e # d
        <3>1. /\ e \in DOMAIN fds /\ fds[e].fh # h /\ fds'[e].fh = fds[e].fh /\ fds'[e].at = fds[e].at
              /\ Forward(e)
            BY <1>7, <1>8, <1>11, <2>2 DEF Forward
        <3>2. fds[e].fh \in DOMAIN readers
            BY <3>1 DEF VfsInvariant, OwnInv, Alone, Forward
        <3>3. readers'[fds[e].fh] = readers[fds[e].fh]
            BY <1>1, <3>1, <3>2
        <3>4. readers[fds[e].fh].offset <= fds[e].at
            BY <1>1, <3>1 DEF VfsInvariant, AheadInv, Position
        <3> QED  BY <3>1, <3>3, <3>4
    <2> QED  BY <2>1, <2>2
<1>12. AheadInv'
    <2>1. pc' # "serving"
        BY <1>1
    <2> QED  BY <1>11, <2>1 DEF AheadInv, Position
<1>13. OwnInv'
    BY <1>10 DEF OwnInv
<1>14. IsTable(inodes') /\ ServingInv' /\ PcInv' /\ ReadsItsFile'
    BY <1>1 DEF VfsInvariant, ServingInv, PcInv, ReadsItsFile
<1> QED  BY <1>5, <1>9, <1>12, <1>13, <1>14 DEF VfsInvariant

\* Fuse::release takes the reader of a handle away, from all who share it.
LEMMA ReleaseStep ==
    ASSUME VfsInvariant, NEW d \in Desc, Release(d)
    PROVE  VfsInvariant'
<1> DEFINE h == fds[d].fh
<1>1. /\ readers' = [g \in DOMAIN readers \ {h} |-> readers[g]]
      /\ fds' = [e \in DOMAIN fds \ {d} |-> fds[e]]
      /\ d \in DOMAIN fds
      /\ pc = "idle" /\ pc' = "idle" /\ req' = NoRequest /\ inodes' = inodes
    BY DEF Release
<1>2. ReadersInv'
    <2>1. IsFiniteSet(DOMAIN readers')
        BY <1>1, FS_RemoveElement DEF VfsInvariant, ReadersInv
    <2> QED  BY <1>1, <2>1 DEF VfsInvariant, ReadersInv
<1>3. FdsInv'
    BY <1>1 DEF VfsInvariant, FdsInv
<1>4. ASSUME NEW e \in DOMAIN fds', fds'[e].own
      PROVE  /\ e \in DOMAIN fds /\ fds'[e] = fds[e] /\ Alone(e) /\ fds[e].fh # h
             /\ fds[e].fh \in DOMAIN readers' /\ readers'[fds[e].fh] = readers[fds[e].fh]
    <2>1. e \in DOMAIN fds /\ e # d /\ fds'[e] = fds[e]
        BY <1>1
    <2>2. Alone(e)
        BY <1>4, <2>1 DEF VfsInvariant, OwnInv
    <2>3. fds[e].fh # h
        BY <1>1, <2>1, <2>2 DEF Alone
    <2> QED  BY <1>1, <2>1, <2>2, <2>3 DEF Alone
<1>5. OwnInv'
    <2>1. ASSUME NEW e \in DOMAIN fds', fds'[e].own PROVE Alone(e)'
        BY <1>1, <1>4, <2>1 DEF Alone
    <2> QED  BY <2>1 DEF OwnInv
<1>6. AheadInv'
    <2>1. ASSUME NEW e \in DOMAIN fds', Forward(e)' PROVE readers'[fds'[e].fh].offset <= fds'[e].at
        <3>1. /\ e \in DOMAIN fds /\ fds'[e] = fds[e] /\ Forward(e)
              /\ readers'[fds[e].fh] = readers[fds[e].fh]
            BY <1>4, <2>1 DEF Forward
        <3>2. readers[fds[e].fh].offset <= fds[e].at
            BY <1>1, <3>1 DEF VfsInvariant, AheadInv, Position
        <3> QED  BY <3>1, <3>2
    <2> QED  BY <1>1, <2>1 DEF AheadInv, Position
<1>7. IsTable(inodes') /\ ServingInv' /\ PcInv' /\ ReadsItsFile'
    BY <1>1 DEF VfsInvariant, ServingInv, PcInv, ReadsItsFile
<1> QED  BY <1>2, <1>3, <1>5, <1>6, <1>7 DEF VfsInvariant

-----------------------------------------------------------------------------
\* A read is served.

\* The file of a descriptor can be fetched.
LEMMA FileOf ==
    ASSUME VfsInvariant, NEW d \in DOMAIN fds
    PROVE  /\ fds[d] \in Descriptor
           /\ inodes[fds[d].ino].ref \in DOMAIN Chunks
           /\ Size(inodes[fds[d].ino].ref) \in Nat
<1>1. fds[d] \in Descriptor /\ inodes[fds[d].ino].ref \in DOMAIN Chunks
    BY DEF VfsInvariant, FdsInv, IsTable
<1> QED  BY <1>1, Ends

\* A read arrives.
LEMMA ReadStep ==
    ASSUME VfsInvariant, NEW d \in DOMAIN fds, NEW size \in ReadSize,
           NEW from \in 0 .. Size(inodes[fds[d].ino].ref), Read(d, from, size)
    PROVE  VfsInvariant'
<1>1. /\ pc = "idle" /\ readers' = readers /\ inodes' = inodes
      /\ req' = [d |-> d, from |-> from, size |-> size, got |-> <<>>]
      /\ fds' = [fds EXCEPT ![d].rewound = @ \/ from < fds[d].at]
      /\ pc' = IF fds[d].fh \in DOMAIN readers THEN "serving" ELSE "idle"
    BY DEF Read
<1>2. /\ fds[d] \in Descriptor /\ from \in Nat /\ size \in Nat \ {0}
      /\ inodes[fds[d].ino].ref \in DOMAIN Chunks
      /\ from <= Size(inodes[fds[d].ino].ref) /\ Size(inodes[fds[d].ino].ref) \in Nat
    <2>1. size \in Nat \ {0}
        BY VfsAssumption DEF VfsAssumption
    <2> QED  BY <2>1, FileOf
<1>3. /\ DOMAIN fds' = DOMAIN fds
      /\ fds'[d] = [fds[d] EXCEPT !.rewound = @ \/ from < fds[d].at]
      /\ \A e \in DOMAIN fds : e # d => fds'[e] = fds[e]
      /\ fds' = [e \in DOMAIN fds |-> fds'[e]]
    BY <1>1 DEF VfsInvariant, FdsInv
<1>4. /\ fds'[d] \in Descriptor /\ fds'[d].own = fds[d].own /\ fds'[d].at = fds[d].at
      /\ fds'[d].ino = fds[d].ino /\ fds'[d].fh = fds[d].fh
    BY <1>2, <1>3 DEF Descriptor
<1>5. fds'[d].rewound <=> fds[d].rewound \/ from < fds[d].at
    BY <1>2, <1>3 DEF Descriptor
<1>6. ASSUME NEW e \in DOMAIN fds
      PROVE  /\ fds'[e] \in Descriptor /\ fds'[e].own = fds[e].own /\ fds'[e].at = fds[e].at
             /\ fds'[e].ino = fds[e].ino /\ fds'[e].fh = fds[e].fh
    BY <1>3, <1>4 DEF VfsInvariant, FdsInv
<1>7. FdsInv'
    <2>1. fds' \in [DOMAIN fds' -> Descriptor]
        BY <1>3, <1>6
    <2> QED  BY <1>1, <1>3, <1>6, <2>1 DEF VfsInvariant, FdsInv
<1>8. OwnInv'
    <2>1. ASSUME NEW e \in DOMAIN fds', fds'[e].own PROVE Alone(e)'
        <3>1. e \in DOMAIN fds /\ fds[e].own
            BY <1>3, <1>6, <2>1
        <3>2. Alone(e)
            BY <3>1 DEF VfsInvariant, OwnInv
        <3> QED  BY <1>1, <1>3, <1>6, <3>1, <3>2 DEF Alone
    <2> QED  BY <2>1 DEF OwnInv
<1>9. Offset' = from /\ Len(req'.got) = 0 /\ req' \in Request /\ req'.d = d
    <2>1. d \in Desc
        BY DEF VfsInvariant, FdsInv
    <2>2. <<>> \in Seq((DOMAIN Chunks) \X Nat) /\ Len(<<>>) = 0
        OBVIOUS
    <2> QED  BY <1>1, <1>2, <2>1, <2>2 DEF Offset, Request
<1>10. ASSUME NEW e \in DOMAIN fds', Forward(e)'
       PROVE  /\ readers'[fds'[e].fh].offset <= Position(e)'
              /\ e = d => pc' = "serving" /\ Reader'.ref = inodes[fds[d].ino].ref
    <2>1. e \in DOMAIN fds /\ fds[e].own /\ ~fds[e].rewound /\ (e = d => ~(from < fds[d].at))
        BY <1>3, <1>5, <1>6, <1>10 DEF Forward
    <2>2. Alone(e)
        BY <2>1 DEF VfsInvariant, OwnInv
    <2>3. readers[fds[e].fh].offset <= fds[e].at
        BY <1>1, <2>1 DEF VfsInvariant, AheadInv, Forward, Position
    <2>4. readers[fds[e].fh].offset \in Nat /\ fds[e].at \in Nat
        BY <2>1, <2>2 DEF VfsInvariant, ReadersInv, IsReader, Reading, Alone, FdsInv, Descriptor
    <2>5. CASE e = d
        <3>1. pc' = "serving" /\ Position(e)' = from
            BY <1>1, <1>9, <2>2, <2>5 DEF Alone, Position
        <3>2. from >= fds[e].at
            BY <1>2, <2>1, <2>4, <2>5
        <3>3. Reader'.ref = inodes[fds[d].ino].ref
            BY <1>1, <1>4, <1>9, <2>2, <2>5 DEF Alone, Reader
        <3> QED  BY <1>1, <1>2, <1>4, <2>3, <2>4, <2>5, <3>1, <3>2, <3>3
    <2>6. CASE e # d
        <3>1. Position(e)' = fds[e].at
            BY <1>6, <1>9, <2>1, <2>6 DEF Position
        <3> QED  BY <1>1, <1>6, <2>1, <2>3, <2>6, <3>1
    <2> QED  BY <2>5, <2>6
<1>11. AheadInv'
    BY <1>10 DEF AheadInv
<1>12. ServingInv'
    <2>1. SUFFICES ASSUME pc' = "serving"
                   PROVE  /\ req' \in Request
                          /\ req'.d \in DOMAIN fds' /\ fds'[req'.d].fh \in DOMAIN readers'
                          /\ Len(req'.got) < req'.size
                          /\ req'.got = Bytes(Reader'.ref, req'.from, Len(req'.got))
                          /\ Forward(req.d)' => Offset' <= Size(Reader'.ref)
        BY DEF ServingInv
    <2>2. fds'[d].fh \in DOMAIN readers'
        BY <1>1, <1>4, <2>1
    <2>3. req'.size = size /\ req'.got = <<>>
        BY <1>1
    <2>4. <<>> = Bytes(Reader'.ref, req'.from, 0)
        BY DEF Bytes
    <2>5. Forward(d)' => Offset' <= Size(Reader'.ref)
        BY <1>2, <1>3, <1>9, <1>10
    <2>6. Forward(req.d)' => Forward(d)'
        BY <1>9 DEF Forward
    <2>7. Len(req'.got) < req'.size
        BY <1>2, <1>9, <2>3
    <2>8. req'.got = Bytes(Reader'.ref, req'.from, Len(req'.got))
        BY <1>9, <2>3, <2>4
    <2> QED  BY <1>3, <1>9, <2>2, <2>5, <2>6, <2>7, <2>8
<1>13. PcInv'
    BY <1>1, <1>3, <1>9 DEF PcInv
<1>14. ReadsItsFile'
    <2>1. CASE pc' = "serving"
        BY <2>1 DEF ReadsItsFile
    <2>2. CASE pc' # "serving"
        <3>1. ~fds'[d].own
            BY <1>1, <1>4, <2>2 DEF VfsInvariant, OwnInv, Alone
        <3> QED  BY <1>9, <3>1 DEF ReadsItsFile
    <2> QED  BY <2>1, <2>2
<1>15. IsTable(inodes') /\ ReadersInv'
    BY <1>1 DEF VfsInvariant, ReadersInv
<1> QED  BY <1>7, <1>8, <1>11, <1>12, <1>13, <1>14, <1>15 DEF VfsInvariant

\* What is known while a read is served.
LEMMA Serving ==
    ASSUME VfsInvariant, pc = "serving"
    PROVE  /\ req \in Request /\ req.d \in DOMAIN fds /\ fds[req.d] \in Descriptor
           /\ fds[req.d].fh \in DOMAIN readers /\ IsReader(Reader)
           /\ Len(req.got) \in Nat /\ Offset = req.from + Len(req.got) /\ Offset \in Nat
           /\ Len(req.got) < req.size /\ req.got = Bytes(Reader.ref, req.from, Len(req.got))
           /\ Forward(req.d) =>
                /\ Reader.offset <= Offset /\ Offset <= Size(Reader.ref)
                /\ Reader.ref = inodes[fds[req.d].ino].ref
<1>1. /\ req \in Request /\ req.d \in DOMAIN fds /\ fds[req.d].fh \in DOMAIN readers
      /\ Len(req.got) < req.size /\ req.got = Bytes(Reader.ref, req.from, Len(req.got))
      /\ Forward(req.d) => Offset <= Size(Reader.ref)
    BY DEF VfsInvariant, ServingInv
<1>2. fds[req.d] \in Descriptor /\ IsReader(Reader)
    BY <1>1 DEF VfsInvariant, FdsInv, ReadersInv, Reader
<1>3. Len(req.got) \in Nat /\ req.from \in Nat
    BY <1>1 DEF Request
<1>4. Offset = req.from + Len(req.got) /\ Offset \in Nat
    BY <1>3 DEF Offset
<1>5. ASSUME Forward(req.d)
      PROVE  Reader.offset <= Offset /\ Reader.ref = inodes[fds[req.d].ino].ref
    <2>1. Alone(req.d)
        BY <1>1, <1>5 DEF VfsInvariant, OwnInv, Forward
    <2> QED  BY <1>1, <1>5, <2>1 DEF VfsInvariant, AheadInv, Position, Alone, Reader
<1> QED  BY <1>1, <1>2, <1>3, <1>4, <1>5

\* Reads that have got n bytes.
LEMMA BytesLen ==
    ASSUME NEW ref, NEW from \in Nat, NEW n \in Nat
    PROVE  Len(Bytes(ref, from, n)) = n
<1>1. Bytes(ref, from, n) \in Seq({ref} \X Nat)
    BY DEF Bytes
<1> QED  BY <1>1 DEF Bytes

\* A read is answered with the next n bytes of what its reader reads.
LEMMA ReplyStep ==
    ASSUME VfsInvariant, pc = "serving", readers' = readers, inodes' = inodes,
           NEW n \in Nat, Len(req.got) <= n, Reply(Bytes(Reader.ref, req.from, n)),
           Forward(req.d) => n = (IF Size(Reader.ref) < req.from + req.size THEN Size(Reader.ref)
                                  ELSE req.from + req.size) - req.from
    PROVE  VfsInvariant'
<1> DEFINE d == req.d
           got == Bytes(Reader.ref, req.from, n)
<1>1. /\ req \in Request /\ d \in DOMAIN fds /\ fds[d] \in Descriptor
      /\ fds[d].fh \in DOMAIN readers /\ req.from \in Nat
      /\ Len(req.got) \in Nat /\ Offset = req.from + Len(req.got)
      /\ Forward(d) => Reader.offset <= Offset /\ Reader.ref = inodes[fds[d].ino].ref
      /\ IsReader(Reader) /\ Reader.offset \in Nat
    BY Serving DEF Request, IsReader, Reading
<1>2. Len(got) = n
    BY <1>1, BytesLen
<1>3. /\ req' = [req EXCEPT !.got = got] /\ pc' = "idle"
      /\ fds' = [fds EXCEPT ![d].at = req.from + n]
    BY <1>2, Zenon DEF Reply
<1> HIDE DEF got
<1>4. req'.d = d /\ req'.from = req.from /\ req'.size = req.size /\ req'.got = got
    BY <1>1, <1>3 DEF Request
<1> HIDE DEF d
<1>5. /\ DOMAIN fds' = DOMAIN fds
      /\ fds'[d] = [fds[d] EXCEPT !.at = req.from + n]
      /\ \A e \in DOMAIN fds : e # d => fds'[e] = fds[e]
      /\ fds' = [e \in DOMAIN fds |-> fds'[e]]
    BY <1>1, <1>3 DEF VfsInvariant, FdsInv
<1>6. /\ fds'[d] \in Descriptor /\ fds'[d].own = fds[d].own /\ fds'[d].at = req.from + n
      /\ fds'[d].ino = fds[d].ino /\ fds'[d].fh = fds[d].fh /\ fds'[d].rewound = fds[d].rewound
    BY <1>1, <1>5 DEF Descriptor
<1>7. ASSUME NEW e \in DOMAIN fds
      PROVE  /\ fds'[e] \in Descriptor /\ fds'[e].own = fds[e].own
             /\ fds'[e].ino = fds[e].ino /\ fds'[e].fh = fds[e].fh
             /\ fds'[e].rewound = fds[e].rewound
    BY <1>5, <1>6 DEF VfsInvariant, FdsInv
<1>8. FdsInv'
    <2>1. fds' \in [DOMAIN fds' -> Descriptor]
        BY <1>5, <1>7
    <2> QED  BY <1>5, <1>7, <2>1 DEF VfsInvariant, FdsInv
<1>9. OwnInv'
    <2>1. ASSUME NEW e \in DOMAIN fds', fds'[e].own PROVE Alone(e)'
        <3>1. e \in DOMAIN fds /\ fds[e].own
            BY <1>5, <1>7, <2>1
        <3>2. Alone(e)
            BY <3>1 DEF VfsInvariant, OwnInv
        <3> QED  BY <1>5, <1>7, <3>1, <3>2 DEF Alone
    <2> QED  BY <2>1 DEF OwnInv
<1>10. AheadInv'
    <2>1. ASSUME NEW e \in DOMAIN fds', Forward(e)' PROVE readers'[fds'[e].fh].offset <= fds'[e].at
        <3>1. e \in DOMAIN fds /\ Forward(e) /\ fds'[e].fh = fds[e].fh
            BY <1>5, <1>7, <2>1 DEF Forward
        <3>2. CASE e = d
            <4>1. Reader.offset <= req.from + n
                BY <1>1, <3>1, <3>2
            <4>2. Reader = readers[fds[d].fh]
                BY DEF Reader, d
            <4> QED  BY <1>6, <3>1, <3>2, <4>1, <4>2
        <3>3. CASE e # d
            <4>1. readers[fds[e].fh].offset <= fds[e].at
                BY <3>1, <3>3 DEF VfsInvariant, AheadInv, Position, d
            <4> QED  BY <1>5, <3>1, <3>3, <4>1
        <3> QED  BY <3>2, <3>3
    <2>2. pc' # "serving"
        BY <1>3
    <2> QED  BY <2>1, <2>2 DEF AheadInv, Position
<1>11. ReadsItsFile'
    <2> DEFINE ref == inodes[fds[d].ino].ref
               last == IF Size(ref) < req.from + req.size THEN Size(ref) ELSE req.from + req.size
    <2>1. ASSUME Forward(d) PROVE got = [k \in 1 .. last - req.from |-> <<ref, req.from + k>>]
        <3>1. n = last - req.from /\ Reader.ref = ref
            BY <1>1, <2>1 DEF d
        <3> QED  BY <3>1 DEF got, Bytes
    <2>2. fds'[d].own /\ ~fds'[d].rewound => Forward(d)
        BY <1>6 DEF Forward
    <2> QED  BY <1>3, <1>4, <1>6, <2>1, <2>2 DEF ReadsItsFile
<1>12. IsTable(inodes') /\ ReadersInv' /\ ServingInv' /\ PcInv'
    BY <1>1, <1>3, <1>4, <1>5 DEF VfsInvariant, ReadersInv, ServingInv, PcInv
<1> QED  BY <1>8, <1>9, <1>10, <1>11, <1>12 DEF VfsInvariant

\* At the end of the file a read is answered with what it has got.
LEMMA AnswerAtEofStep ==
    ASSUME VfsInvariant, AnswerAtEof
    PROVE  VfsInvariant'
<1> DEFINE n == Len(req.got)
<1>1. pc = "serving" /\ Reader.eof /\ Reply(req.got) /\ readers' = readers /\ inodes' = inodes
    BY DEF AnswerAtEof
<1>2. /\ n \in Nat /\ req.from \in Nat /\ req.size \in Nat /\ n < req.size /\ Offset = req.from + n
      /\ req.got = Bytes(Reader.ref, req.from, n) /\ IsReader(Reader)
      /\ Forward(req.d) => Reader.offset <= Offset /\ Offset <= Size(Reader.ref)
    BY <1>1, Serving DEF Request
<1>3. Reader.offset = Size(Reader.ref) /\ Size(Reader.ref) \in Nat
    BY <1>1, <1>2, Ends DEF IsReader, Reading
<1>4. Forward(req.d) => n = (IF Size(Reader.ref) < req.from + req.size THEN Size(Reader.ref)
                             ELSE req.from + req.size) - req.from
    BY <1>2, <1>3
<1>5. Reply(Bytes(Reader.ref, req.from, n))
    BY <1>1, <1>2
<1> QED  BY <1>1, <1>2, <1>4, <1>5, ReplyStep

\* The reader of another descriptor's handle is another one.
LEMMA OtherReader ==
    ASSUME VfsInvariant, pc = "serving", NEW e \in DOMAIN fds, fds[e].own, e # req.d
    PROVE  fds[e].fh # fds[req.d].fh
BY Serving DEF VfsInvariant, OwnInv, Alone

\* FileReader::advance does not go past what is asked for.
LEMMA AdvanceStep ==
    ASSUME VfsInvariant, Advance
    PROVE  VfsInvariant'
<1> DEFINE d == req.d
           h == fds[req.d].fh
<1>1. /\ pc = "serving" /\ ~Reader.eof /\ Behind(Reader, Offset)
      /\ readers' = [readers EXCEPT ![h] = NextChunk(Reader)]
      /\ inodes' = inodes /\ fds' = fds /\ req' = req /\ pc' = pc
    BY DEF Advance
<1>2. /\ req \in Request /\ d \in DOMAIN fds /\ h \in DOMAIN readers /\ IsReader(Reader)
      /\ Offset \in Nat /\ Len(req.got) < req.size
      /\ req.got = Bytes(Reader.ref, req.from, Len(req.got))
      /\ Forward(d) => Reader.offset <= Offset /\ Offset <= Size(Reader.ref)
      /\ Reader.offset \in Nat /\ Reader.len \in Nat
    BY <1>1, Serving DEF IsReader, Reading
<1>3. /\ IsReader(NextChunk(Reader)) /\ NextChunk(Reader).ref = Reader.ref
      /\ NextChunk(Reader).offset = Reader.offset + Reader.len
    BY <1>1, <1>2, NextChunkOK
<1>4. /\ DOMAIN readers' = DOMAIN readers /\ readers'[h] = NextChunk(Reader)
      /\ \A g \in DOMAIN readers : g # h => readers'[g] = readers[g]
      /\ readers' = [g \in DOMAIN readers |-> readers'[g]]
    BY <1>1, <1>2 DEF VfsInvariant, ReadersInv
<1>5. Reader' = NextChunk(Reader) /\ Reader = readers[h] /\ Offset' = Offset
    BY <1>1, <1>4 DEF Reader, Offset
<1>6. ReadersInv'
    BY <1>3, <1>4 DEF VfsInvariant, ReadersInv
<1>7. \A g \in DOMAIN readers : readers'[g].ref = readers[g].ref
    BY <1>3, <1>4, <1>5
<1>8. OwnInv'
    BY <1>1, <1>4, <1>7 DEF VfsInvariant, OwnInv, Alone
<1>9. AheadInv'
    <2>1. ASSUME NEW e \in DOMAIN fds, Forward(e) PROVE readers'[fds[e].fh].offset <= Position(e)
        <3>1. CASE e = d
            <4>1. Reader.offset + Reader.len <= Offset
                BY <1>1, <1>2, <2>1, <3>1 DEF Behind
            <4>2. Position(e) = Offset
                BY <1>1, <3>1 DEF Position
            <4> QED  BY <1>3, <1>4, <3>1, <4>1, <4>2
        <3>2. CASE e # d
            <4>1. fds[e].fh # h /\ fds[e].fh \in DOMAIN readers
                BY <1>1, <2>1, <3>2, OtherReader DEF Forward, VfsInvariant, OwnInv, Alone
            <4> QED  BY <1>4, <2>1, <4>1 DEF VfsInvariant, AheadInv
        <3> QED  BY <3>1, <3>2
    <2>2. \A e : Position(e)' = Position(e) /\ (Forward(e)' <=> Forward(e))
        BY <1>1 DEF Position, Forward, Offset
    <2> QED  BY <1>1, <2>1, <2>2 DEF AheadInv
<1>10. ServingInv'
    <2>1. Forward(req.d)' <=> Forward(d)
        BY <1>1 DEF Forward
    <2>2. Reader'.ref = Reader.ref
        BY <1>3, <1>5
    <2> HIDE DEF d, h
    <2>3. fds[d].fh \in DOMAIN readers /\ req.d = d
        BY <1>2 DEF d, h
    <2> QED  BY <1>1, <1>2, <1>4, <1>5, <2>1, <2>2, <2>3 DEF ServingInv
<1>11. FdsInv' /\ PcInv' /\ IsTable(inodes')
    BY <1>1 DEF VfsInvariant, FdsInv, PcInv
<1>12. ReadsItsFile'
    BY <1>1 DEF ReadsItsFile
<1> QED  BY <1>6, <1>8, <1>9, <1>10, <1>11, <1>12 DEF VfsInvariant

\* The assertion fails for a handle that is shared or read backwards only.
LEMMA AssertionFailsStep ==
    ASSUME VfsInvariant, AssertionFails
    PROVE  VfsInvariant'
<1>1. /\ pc = "serving" /\ Reader.offset > Offset /\ pc' = "panic"
      /\ inodes' = inodes /\ readers' = readers /\ fds' = fds /\ req' = req
    BY DEF AssertionFails
<1>2. ~Forward(req.d) /\ req.d \in DOMAIN fds
    BY <1>1, Serving DEF IsReader, Reading
<1>3. AheadInv'
    <2>1. ASSUME NEW e \in DOMAIN fds, Forward(e)
          PROVE  readers[fds[e].fh].offset <= fds[e].at
        BY <1>2, <2>1 DEF VfsInvariant, AheadInv, Position
    <2> QED  BY <1>1, <2>1 DEF AheadInv, Position, Forward
<1>4. ReadsItsFile'
    BY <1>1, <1>2 DEF ReadsItsFile, Forward
<1>5. IsTable(inodes') /\ ReadersInv' /\ FdsInv' /\ OwnInv' /\ ServingInv' /\ PcInv'
    BY <1>1, <1>2 DEF VfsInvariant, ReadersInv, FdsInv, OwnInv, Alone, ServingInv, PcInv
<1> QED  BY <1>3, <1>4, <1>5 DEF VfsInvariant

\* Bytes of one reader that follow on each other.
LEMMA BytesOn ==
    ASSUME NEW ref, NEW from \in Nat, NEW n \in Nat, NEW m \in Nat
    PROVE  Bytes(ref, from, n) \o Bytes(ref, from + n, m) = Bytes(ref, from, n + m)
<1> DEFINE a == Bytes(ref, from, n)
           b == Bytes(ref, from + n, m)
           c == Bytes(ref, from, n + m)
           S == {ref} \X Nat
<1>1. a \in Seq(S) /\ b \in Seq(S) /\ c \in Seq(S)
    BY DEF Bytes
<1>2. Len(a) = n /\ Len(b) = m /\ Len(c) = n + m
    BY BytesLen
<1>3. ASSUME NEW k \in 1 .. n + m PROVE (a \o b)[k] = c[k]
    <2>1. c[k] = <<ref, from + k>>
        BY DEF Bytes
    <2>2. CASE k <= n
        <3>1. a[k] = <<ref, from + k>>
            BY <2>2 DEF Bytes
        <3> HIDE DEF a, b, c, S
        <3> QED  BY <1>1, <1>2, <2>1, <2>2, <3>1
    <2>3. CASE k > n
        <3>1. k - n \in 1 .. m /\ (from + n) + (k - n) = from + k
            BY <2>3
        <3>2. b[k - n] = <<ref, from + k>>
            BY <3>1 DEF Bytes
        <3> HIDE DEF a, b, c, S
        <3> QED  BY <1>1, <1>2, <2>1, <2>3, <3>2
    <2>4. k <= n \/ k > n
        OBVIOUS
    <2> QED  BY <2>2, <2>3, <2>4
<1> HIDE DEF a, b, c, S
<1>4. a \o b \in Seq(S) /\ Len(a \o b) = n + m
    BY <1>1, <1>2
<1>5. a \o b = c
    BY <1>1, <1>2, <1>3, <1>4, SMTT(20)
<1> QED  BY <1>5 DEF a, b, c

\* A chunk answers a read, or a part of it.
LEMMA AnswerStep ==
    ASSUME VfsInvariant, Answer
    PROVE  VfsInvariant'
<1> DEFINE n == Len(req.got)
           avail == Reader.offset + Reader.len - Offset
           m == IF req.size - n <= avail THEN req.size - n ELSE avail
           got == req.got \o Take(Reader, Offset, req.size - n)
<1>1. /\ pc = "serving" /\ ~Behind(Reader, Offset) /\ inodes' = inodes /\ readers' = readers
      /\ \/ Reply(got) /\ (Len(got) = req.size \/ got = req.got)
         \/ /\ Len(got) # req.size
            /\ req' = [req EXCEPT !.got = got] /\ fds' = fds /\ pc' = pc
    BY Zenon DEF Answer
<1>2. /\ req \in Request /\ req.d \in DOMAIN fds /\ fds[req.d].fh \in DOMAIN readers
      /\ IsReader(Reader) /\ Reader.offset \in Nat /\ Reader.len \in Nat
      /\ n \in Nat /\ req.from \in Nat /\ req.size \in Nat /\ n < req.size
      /\ Offset = req.from + n /\ Offset \in Nat
      /\ req.got = Bytes(Reader.ref, req.from, n)
      /\ Forward(req.d) => /\ Reader.offset <= Offset /\ Offset <= Size(Reader.ref)
                           /\ Reader.ref = inodes[fds[req.d].ino].ref
    BY <1>1, Serving DEF IsReader, Reading, Request
<1>3. avail \in Nat /\ avail # 0
    <2>1. PICK x \in Nat, o \in Nat, l \in Nat : x = Offset /\ o = Reader.offset /\ l = Reader.len
        BY <1>2
    <2>2. ~(o + l <= x)
        BY <1>1, <2>1 DEF Behind
    <2>3. o + l - x \in Nat /\ o + l - x # 0
        BY <2>2
    <2> QED  BY <2>1, <2>3
<1>4. m \in Nat /\ m # 0 /\ n + m <= req.size /\ m <= avail
    <2>1. PICK size \in Nat : size = req.size /\ n < size
        BY <1>2
    <2>2. n \in Nat
        BY <1>2
    <2> HIDE DEF avail, n
    <2> QED  BY <1>3, <2>1, <2>2
<1>5. Take(Reader, Offset, req.size - n) = Bytes(Reader.ref, Offset, m)
    BY DEF Take, Bytes
<1>6. got = Bytes(Reader.ref, req.from, n + m) /\ Len(got) = n + m
    <2>1. got = Bytes(Reader.ref, req.from, n) \o Bytes(Reader.ref, req.from + n, m)
        BY <1>2, <1>5
    <2> HIDE DEF m, n, got
    <2>2. got = Bytes(Reader.ref, req.from, n + m)
        <3>1. req.from \in Nat /\ n \in Nat /\ m \in Nat
            BY <1>2, <1>4
        <3>2. Bytes(Reader.ref, req.from, n) \o Bytes(Reader.ref, req.from + n, m)
              = Bytes(Reader.ref, req.from, n + m)
            BY <3>1, BytesOn, Zenon
        <3> QED  BY <2>1, <3>2
    <2>3. n + m \in Nat
        BY <1>2, <1>4
    <2> QED  BY <1>2, <2>2, <2>3, BytesLen
<1>7. Size(Reader.ref) \in Nat /\ Reader.offset + Reader.len <= Size(Reader.ref)
    BY <1>2, Ends DEF IsReader, Reading
<1>8. req.from + (n + m) <= Size(Reader.ref)
    <2> HIDE DEF m
    <2>1. PICK from \in Nat, o \in Nat, l \in Nat, size \in Nat :
              /\ from = req.from /\ o = Reader.offset /\ l = Reader.len /\ size = Size(Reader.ref)
        BY <1>2, <1>7
    <2>2. m <= o + l - (from + n) /\ o + l <= size /\ m \in Nat /\ n \in Nat
        BY <1>2, <1>4, <1>7, <2>1
    <2> HIDE DEF n
    <2>3. from + (n + m) <= size
        BY <2>2
    <2> QED  BY <2>1, <2>3
<1>9. CASE Reply(got) /\ n + m = req.size
    <2>1. n + m = (IF Size(Reader.ref) < req.from + req.size THEN Size(Reader.ref)
                   ELSE req.from + req.size) - req.from
        <3>1. PICK from \in Nat, u \in Nat, size \in Nat :
                  from = req.from /\ u = req.size /\ size = Size(Reader.ref)
            BY <1>2, <1>7
        <3>2. n + m = u /\ from + u <= size
            BY <1>8, <1>9, <3>1
        <3>3. ~(size < from + u) /\ (from + u) - from = u
            BY <3>2
        <3> HIDE DEF n, m
        <3> QED  BY <3>1, <3>2, <3>3
    <2>2. n + m \in Nat /\ n <= n + m /\ Reply(Bytes(Reader.ref, req.from, n + m))
        <3> HIDE DEF m, got
        <3>1. n + m \in Nat /\ n <= n + m
            BY <1>2, <1>4, SMTT(20)
        <3> QED  BY <1>6, <1>9, <3>1
    <2> HIDE DEF m
    <2> QED  BY <1>1, <2>1, <2>2, ReplyStep
<1>10. CASE req' = [req EXCEPT !.got = got] /\ fds' = fds /\ pc' = pc /\ n + m # req.size
    <2> HIDE DEF m
    <2>1. Bytes(Reader.ref, req.from, n + m) \in Seq((DOMAIN Chunks) \X Nat)
        <3>1. PICK ref \in DOMAIN Chunks, from \in Nat : ref = Reader.ref /\ from = req.from
            BY <1>2 DEF IsReader, Reading
        <3>2. PICK l \in Nat : l = n + m
            BY <1>2, <1>4
        <3>3. \A k \in 1 .. l : <<ref, from + k>> \in (DOMAIN Chunks) \X Nat
            OBVIOUS
        <3>4. Bytes(ref, from, l) \in Seq((DOMAIN Chunks) \X Nat)
            BY <3>3 DEF Bytes
        <3> QED  BY <3>1, <3>2, <3>4
    <2>2. got \in Seq((DOMAIN Chunks) \X Nat)
        BY <1>6, <2>1
    <2> HIDE DEF got
    <2>3. /\ req' \in Request /\ req'.d = req.d /\ req'.from = req.from /\ req'.size = req.size
          /\ req'.got = got
        BY <1>2, <1>10, <2>2 DEF Request
    <2>4. Reader' = Reader /\ Offset' = req.from + (n + m)
        BY <1>1, <1>6, <1>10, <2>3 DEF Reader, Offset
    <2>5. \A e : Forward(e)' <=> Forward(e)
        BY <1>10 DEF Forward
    <2>6. Forward(req.d)' <=> Forward(req.d)
        BY <1>10, <2>3 DEF Forward
    <2>7. ServingInv'
        <3>1. req'.got = Bytes(Reader'.ref, req'.from, Len(req'.got)) /\ Len(req'.got) < req'.size
            BY <1>2, <1>4, <1>6, <1>10, <2>3, <2>4
        <3>2. Offset' <= Size(Reader'.ref)
            BY <1>8, <2>4
        <3> QED  BY <1>1, <1>2, <1>10, <2>3, <3>1, <3>2 DEF ServingInv
    <2>8. AheadInv'
        <3>1. ASSUME NEW e \in DOMAIN fds, Forward(e) PROVE readers[fds[e].fh].offset <= Position(e)'
            <4>1. readers[fds[e].fh].offset <= Position(e)
                BY <3>1 DEF VfsInvariant, AheadInv
            <4>2. CASE e = req.d
                <5>1. Position(e) = Offset /\ Position(e)' = Offset' /\ readers[fds[e].fh] = Reader
                    BY <1>1, <1>10, <2>3, <4>2 DEF Position, Reader
                <5> QED  BY <1>2, <1>4, <2>4, <4>1, <5>1
            <4>3. CASE e # req.d
                BY <1>1, <1>10, <2>3, <4>1, <4>3 DEF Position
            <4> QED  BY <4>2, <4>3
        <3> QED  BY <1>1, <1>10, <2>5, <3>1 DEF AheadInv
    <2>9. ReadsItsFile'
        BY <1>1, <1>10 DEF ReadsItsFile
    <2>10. IsTable(inodes') /\ ReadersInv' /\ FdsInv' /\ OwnInv' /\ PcInv'
        BY <1>1, <1>2, <1>10, <2>3 DEF VfsInvariant, ReadersInv, FdsInv, OwnInv, Alone, PcInv
    <2> QED  BY <2>7, <2>8, <2>9, <2>10 DEF VfsInvariant
<1>11. got # req.got
    <2> HIDE DEF m, got
    <2> QED  BY <1>2, <1>4, <1>6
<1> HIDE DEF m, got
<1> QED  BY <1>1, <1>6, <1>9, <1>10, <1>11

-----------------------------------------------------------------------------
\* The theorems.

\* One step of any kind keeps the invariant.
LEMMA VfsStep ==
    ASSUME VfsInvariant, ListerInv, [VfsNext]_vars
    PROVE  VfsInvariant'
<1>1. ASSUME NEW fam, AddFamily(fam) PROVE VfsInvariant'
    <2>1. pc = "populate" /\ pc' = pc /\ req' = req /\ readers' = readers /\ fds' = fds
        BY <1>1 DEF AddFamily
    <2>2. Quiet
        BY <2>1 DEF Quiet, VfsInvariant, PcInv
    <2>3. IsTable(inodes') /\ Extended(inodes, inodes')
        BY <1>1, AddFamilyTable DEF VfsInvariant
    <2> QED  BY <2>1, <2>2, <2>3, GrowStep
<1>2. ASSUME NEW ino \in DOMAIN inodes,
             inodes' = Childs(ino).inodes, pc = "idle", pc' = "idle", req' = NoRequest,
             readers' = readers, fds' = fds
      PROVE  VfsInvariant'
    <2>1. IsTable(inodes') /\ Extended(inodes, inodes')
        BY <1>2, ChildsTable DEF VfsInvariant
    <2> QED  BY <1>2, <2>1, GrowStep DEF Quiet
<1>3. ASSUME inodes' = inodes, pc # "serving", Quiet, readers' = readers, fds' = fds
      PROVE  VfsInvariant'
    <2>1. IsTable(inodes') /\ Extended(inodes, inodes')
        BY <1>3 DEF VfsInvariant, IsTable, Extended
    <2> QED  BY <1>3, <2>1, GrowStep
<1>4. CASE Mount
    BY <1>3, <1>4 DEF Mount, Quiet, VfsInvariant, PcInv
<1>5. ASSUME NEW ino \in DOMAIN inodes, Lookup(ino) PROVE VfsInvariant'
    BY <1>2, <1>5 DEF Lookup
<1>6. ASSUME NEW ino, OpenDir(ino) PROVE VfsInvariant'
    BY <1>3, <1>6 DEF OpenDir, Quiet
<1>7. CASE ReadDir
    <2>1. lister.ino \in DOMAIN inodes
        BY <1>7 DEF ReadDir, ListerInv, VfsInvariant, IsTable
    <2> QED  BY <1>2, <1>7, <2>1 DEF ReadDir
<1>8. CASE ReleaseDir
    BY <1>3, <1>8 DEF ReleaseDir, Quiet
<1>9. CASE UNCHANGED vars
    BY <1>9 DEF vars, VfsInvariant, IsTable, ReadersInv, FdsInv, OwnInv, Alone, AheadInv, Forward,
                Position, Offset, ServingInv, Reader, PcInv, ReadsItsFile
<1> QED
    BY <1>1, <1>4, <1>5, <1>6, <1>7, <1>8, <1>9, OpenStep, ReadStep, ReleaseStep, AdvanceStep,
       AnswerAtEofStep, AssertionFailsStep, AnswerStep DEF VfsNext

\* The lister's directory stays.
LEMMA ListerStep ==
    ASSUME VfsInvariant, ListerInv, [VfsNext]_vars
    PROVE  ListerInv'
<1>1. ASSUME Len(inodes) <= Len(inodes'), Len(inodes') \in Nat, lister' = lister PROVE ListerInv'
    <2>1. Len(inodes) \in Nat
        BY DEF VfsInvariant, IsTable
    <2> QED  BY <1>1, <2>1 DEF ListerInv
<1>2. ASSUME inodes' = inodes, lister' = lister PROVE ListerInv'
    BY <1>2 DEF ListerInv
<1>3. ASSUME NEW fam, AddFamily(fam) PROVE ListerInv'
    <2>1. IsTable(inodes') /\ Extended(inodes, inodes') /\ lister' = lister
        BY <1>3, AddFamilyTable DEF VfsInvariant, AddFamily
    <2> QED  BY <1>1, <2>1 DEF IsTable, Extended
<1>4. ASSUME NEW ino \in DOMAIN inodes, Lookup(ino) PROVE ListerInv'
    <2>1. IsTable(inodes') /\ Extended(inodes, inodes') /\ lister' = lister
        BY <1>4, ChildsTable DEF VfsInvariant, Lookup
    <2> QED  BY <1>1, <2>1 DEF IsTable, Extended
<1>5. ASSUME NEW ino \in DOMAIN inodes, OpenDir(ino) PROVE ListerInv'
    <2>1. lister' = [NoLister EXCEPT !.ino = ino] /\ inodes' = inodes /\ ino \in 0 .. Len(inodes)
        BY <1>5 DEF OpenDir, VfsInvariant, IsTable
    <2> QED  BY <2>1 DEF ListerInv, NoLister
<1>6. CASE ReadDir
    <2>1. lister.ino \in DOMAIN inodes
        BY <1>6 DEF ReadDir, ListerInv, VfsInvariant, IsTable
    <2>2. IsTable(inodes') /\ Extended(inodes, inodes')
        BY <1>6, <2>1, ChildsTable DEF ReadDir, VfsInvariant
    <2>3. PICK offset, seen, end :
              lister' = [lister EXCEPT !.offset = offset, !.seen = seen, !.end = end]
        BY <1>6, Zenon DEF ReadDir
    <2>4. lister' = [ino |-> lister.ino, offset |-> offset, seen |-> seen, end |-> end]
        BY <2>3 DEF ListerInv
    <2>5. lister.ino \in 0 .. Len(inodes')
        BY <2>2 DEF ListerInv, IsTable, Extended, VfsInvariant
    <2> QED  BY <2>4, <2>5 DEF ListerInv
<1>7. CASE ReleaseDir
    <2>1. Len(inodes) \in Nat
        BY DEF VfsInvariant, IsTable
    <2> QED  BY <1>7, <2>1 DEF ReleaseDir, ListerInv, NoLister
<1>8. CASE \/ Mount \/ Advance \/ AnswerAtEof \/ AssertionFails \/ Answer \/ UNCHANGED vars
    BY <1>2, <1>8 DEF Mount, Advance, AnswerAtEof, AssertionFails, Answer, vars
<1>9. ASSUME NEW d, NEW ino, Open(d, ino) PROVE ListerInv'
    BY <1>2, <1>9 DEF Open
<1>10. ASSUME NEW d, Release(d) PROVE ListerInv'
    BY <1>2, <1>10 DEF Release
<1>11. ASSUME NEW d, NEW from, NEW size, Read(d, from, size) PROVE ListerInv'
    BY <1>2, <1>11 DEF Read
<1> QED
    BY <1>3, <1>4, <1>5, <1>6, <1>7, <1>8, <1>9, <1>10, <1>11 DEF VfsNext

\* A file system without families.
LEMMA VfsInitial ==
    ASSUME VfsInit PROVE VfsInvariant /\ ListerInv
<1> DEFINE root == File("root", "parent", NoRef, 0)
<1>1. /\ inodes = <<root>> /\ readers = <<>> /\ fds = <<>> /\ req = NoRequest
      /\ pc = "populate" /\ lister = NoLister
    BY DEF VfsInit
<1>2. IsTable(inodes) /\ Len(inodes) = 1
    <2>1. root \in ToSet(<<root>>) /\ root.kind = "parent"
        BY DEF ToSet, File
    <2> HIDE DEF root
    <2> QED  BY <1>1, <2>1 DEF IsTable
<1>3. DOMAIN readers = {} /\ DOMAIN fds = {}
    BY <1>1
<1>4. ReadersInv
    BY <1>1, <1>3, FS_EmptySet DEF ReadersInv
<1>5. FdsInv /\ OwnInv /\ AheadInv /\ ServingInv
    BY <1>1, <1>3 DEF FdsInv, OwnInv, AheadInv, ServingInv
<1>6. PcInv /\ ReadsItsFile
    BY <1>1 DEF PcInv, ReadsItsFile
<1>7. ListerInv
    BY <1>1, <1>2 DEF ListerInv, NoLister
<1> QED  BY <1>2, <1>4, <1>5, <1>6, <1>7 DEF VfsInvariant

\* Inodes name what can be fetched, a reader holds a chunk of its file, and a
\* descriptor that has its handle to itself is not behind its reader, whatever
\* other descriptors and listers do (Fuse::open, read, release; FileReader).
THEOREM VfsInvariantHolds == VfsSpec => [](VfsInvariant /\ ListerInv)
<1>1. VfsInit => VfsInvariant /\ ListerInv
    BY VfsInitial
<1>2. (VfsInvariant /\ ListerInv) /\ [VfsNext]_vars => (VfsInvariant /\ ListerInv)'
    BY VfsStep, ListerStep
<1> QED  BY <1>1, <1>2, PTL DEF VfsSpec

\* A descriptor that has its handle to itself and reads forward gets exactly the
\* bytes of its file that it asked for, for files of any chunks, reads of any
\* size and any interleaving of requests, and FileReader::from does not panic.
THEOREM ForwardReadsAreExact == VfsSpec => []ReadsItsFile
<1>1. VfsInvariant /\ ListerInv => ReadsItsFile
    BY DEF VfsInvariant
<1> QED  BY <1>1, VfsInvariantHolds, PTL

-----------------------------------------------------------------------------
\* The lookup of a path.

\* The first of some numbers is one of them.
LEMMA FirstIn ==
    ASSUME NEW S, S \subseteq Nat, S # {} PROVE First(S) \in S
<1>1. \E m \in S : \A k \in S : m <= k
    BY Least
<1> QED  BY <1>1 DEF First

\* A snapshot that is shown is found.
LEMMA SnapshotFound ==
    ASSUME NEW fam, NEW s \in ShownOf(fam)
    PROVE  LsSnapshot(fam, s.id) = DirAt(s.ref)
<1> DEFINE hits == {k \in DOMAIN Snapshots : Snapshots[k].family = fam /\ Snapshots[k].id = s.id}
<1>1. s.family = fam /\ s.ref # NoRef /\ s \in ToSet(Snapshots)
    BY DEF ShownOf, WithRef
<1>2. PICK i \in DOMAIN Snapshots : Snapshots[i] = s
    BY <1>1 DEF ToSet
<1>3. i \in hits /\ hits \subseteq Nat
    <2>1. DOMAIN Snapshots \subseteq Nat
        BY VfsAssumption DEF VfsAssumption
    <2> QED  BY <1>1, <1>2, <2>1
<1>4. First(hits) \in hits
    BY <1>3, FirstIn
<1>5. First(hits) = i
    BY <1>3, <1>4, VfsAssumption DEF VfsAssumption
<1>6. hits # {} /\ Snapshots[First(hits)] = s
    BY <1>2, <1>3, <1>5
<1> QED  BY <1>1, <1>6 DEF LsSnapshot

\* An entry of a directory is found.
LEMMA EntryFound ==
    ASSUME NEW ref \in DOMAIN Listing, NEW k \in DOMAIN Listing[ref], NEW e, e = Listing[ref][k]
    PROVE  LsStep(DirAt(ref), e.name) = IF e.kind = "dir" THEN DirAt(e.ref) ELSE FileAt(e)
<1> DEFINE at == DirAt(ref)
           hits == {j \in DOMAIN at.list : at.list[j].name = e.name}
<1>1. at.ref = ref /\ at.list = Listing[ref] /\ ref # NoRef
    BY VfsAssumption DEF DirAt, VfsAssumption
<1>2. DOMAIN Listing[ref] \subseteq Nat
    BY VfsAssumption DEF VfsAssumption
<1> HIDE DEF at
<1>3. k \in hits /\ hits \subseteq Nat
    BY <1>1, <1>2
<1>4. First(hits) \in hits
    BY <1>3, FirstIn
<1>5. First(hits) = k
    BY <1>1, <1>3, <1>4, VfsAssumption DEF VfsAssumption
<1>6. hits # {} /\ at.list[First(hits)] = e
    BY <1>1, <1>3, <1>5
<1>7. LsStep(at, e.name) = IF e.kind = "dir" THEN DirAt(e.ref) ELSE FileAt(e)
    BY <1>1, <1>6 DEF LsStep
<1> QED  BY <1>7 DEF at

\* f follows the recursion of LsPath over the first N components.
Looked(path, n, before) ==
    IF n = 2 THEN LsSnapshot(path[1], path[2]) ELSE LsStep(before, path[n])

Looks(path, f, N) == f = [n \in 2 .. N |-> Looked(path, n, f[n - 1])]

\* There is a function that the recursion defines.
LEMMA LooksExist ==
    ASSUME NEW path, NEW N \in Nat
    PROVE  \E f : Looks(path, f, N)
<1> DEFINE Bad == {n \in Nat : ~ \E f : Looks(path, f, n)}
<1>1. SUFFICES ASSUME Bad # {} PROVE FALSE
    OBVIOUS
<1>2. PICK m \in Bad : \A k \in Bad : m <= k
    BY <1>1, Least
<1>3. m # 0
    <2>1. Looks(path, [n \in 2 .. 0 |-> <<>>], 0)
        BY DEF Looks
    <2> QED  BY <2>1
<1>4. PICK f : Looks(path, f, m - 1)
    <2>1. m - 1 \in Nat /\ ~(m <= m - 1)
        BY <1>3
    <2> QED  BY <1>2, <2>1
<1> DEFINE g == [n \in 2 .. m |-> IF n = m THEN Looked(path, n, f[n - 1]) ELSE f[n]]
<1>5. ASSUME NEW n \in 2 .. m PROVE g[n] = Looked(path, n, g[n - 1])
    <2>1. CASE n = 2
        <3>1. g[n] = LsSnapshot(path[1], path[2])
            <4>1. CASE m = 2
                BY <2>1, <4>1 DEF Looked
            <4>2. CASE m # 2
                <5>1. 2 \in 2 .. m - 1 /\ g[n] = f[n]
                    BY <1>2, <2>1, <4>2
                <5> QED  BY <1>4, <2>1, <5>1 DEF Looks, Looked
            <4> QED  BY <4>1, <4>2
        <3> HIDE DEF g
        <3> QED  BY <2>1, <3>1 DEF Looked
    <2>2. CASE n # 2
        <3>1. n - 1 \in 2 .. m /\ n - 1 # m
            BY <1>2, <2>2
        <3>2. g[n - 1] = f[n - 1]
            BY <3>1
        <3>3. CASE n = m
            BY <3>2, <3>3
        <3>4. CASE n # m
            <4>1. n \in 2 .. m - 1 /\ g[n] = f[n]
                BY <1>2, <3>4
            <4>2. f[n] = Looked(path, n, f[n - 1])
                BY <1>4, <4>1 DEF Looks
            <4> QED  BY <3>2, <4>1, <4>2
        <3> QED  BY <3>3, <3>4
    <2> QED  BY <2>1, <2>2
<1>6. Looks(path, g, m)
    <2>1. g = [n \in 2 .. m |-> g[n]]
        OBVIOUS
    <2> HIDE DEF g
    <2>2. g = [n \in 2 .. m |-> Looked(path, n, g[n - 1])]
        BY <2>1, <1>5
    <2> QED  BY <2>2 DEF Looks
<1> QED  BY <1>6

\* Paths that begin alike are looked up alike so far.
LEMMA LooksAgree ==
    ASSUME NEW p, NEW q, NEW f, NEW g, NEW N \in Nat, NEW M \in Nat, N <= M,
           Looks(p, f, N), Looks(q, g, M), 2 <= N, \A k \in 1 .. N : p[k] = q[k]
    PROVE  f[N] = g[N]
<1> DEFINE Bad == {n \in 2 .. N : f[n] # g[n]}
<1>1. SUFFICES ASSUME Bad # {} PROVE FALSE
    OBVIOUS
<1>2. PICK m \in Bad : \A k \in Bad : m <= k
    <2>1. Bad \subseteq Nat
        OBVIOUS
    <2> QED  BY <1>1, <2>1, Least
<1>3. m \in 2 .. N /\ m \in 2 .. M /\ f[m] # g[m]
    OBVIOUS
<1>4. f[m] = Looked(p, m, f[m - 1]) /\ g[m] = Looked(q, m, g[m - 1])
    BY <1>3 DEF Looks
<1>5. p[m] = q[m] /\ p[1] = q[1] /\ p[2] = q[2]
    <2>1. m \in 1 .. N /\ 1 \in 1 .. N /\ 2 \in 1 .. N
        BY <1>3
    <2> QED  BY <2>1
<1>6. m # 2
    BY <1>3, <1>4, <1>5 DEF Looked
<1>7. f[m - 1] = g[m - 1]
    <2>1. m - 1 \in 2 .. N /\ ~(m <= m - 1)
        BY <1>3, <1>6
    <2> QED  BY <1>2, <2>1
<1> QED  BY <1>3, <1>4, <1>5, <1>7 DEF Looked

\* LsPath is where the recursion ends.
LEMMA LsPathIs ==
    ASSUME NEW path, Len(path) \in Nat
    PROVE  \E f : Looks(path, f, Len(path)) /\ LsPath(path) = f[Len(path)]
<1>1. PICK g : Looks(path, g, Len(path))
    BY LooksExist
<1> DEFINE f == CHOOSE f : f = [n \in 2 .. Len(path) |->
                    IF n = 2 THEN LsSnapshot(path[1], path[2]) ELSE LsStep(f[n - 1], path[n])]
<1>2. Looks(path, f, Len(path))
    BY <1>1, Zenon DEF Looks, Looked
<1>3. LsPath(path) = f[Len(path)]
    BY Zenon DEF LsPath
<1> HIDE DEF f
<1> QED  BY <1>2, <1>3

\* A path of two components is a snapshot.
LEMMA LsPathTop ==
    ASSUME NEW path, Len(path) = 2
    PROVE  LsPath(path) = LsSnapshot(path[1], path[2])
<1>1. PICK f : Looks(path, f, 2) /\ LsPath(path) = f[2]
    BY LsPathIs
<1>2. 2 \in 2 .. 2
    OBVIOUS
<1> QED  BY <1>1, <1>2 DEF Looks, Looked

\* One component more is one step more.
LEMMA LsPathOn ==
    ASSUME NEW T, NEW p \in Seq(T), NEW x \in T, 2 <= Len(p)
    PROVE  LsPath(Append(p, x)) = LsStep(LsPath(p), x)
<1>1. PICK N \in Nat : N = Len(p) /\ 2 <= N
    OBVIOUS
<1>2. PICK q : q = Append(p, x)
    OBVIOUS
<1>3. Len(q) = N + 1 /\ q[N + 1] = x /\ \A k \in 1 .. N : q[k] = p[k]
    BY <1>1, <1>2
<1>4. PICK f : Looks(p, f, N) /\ LsPath(p) = f[N]
    BY <1>1, LsPathIs
<1>5. PICK g : Looks(q, g, N + 1) /\ LsPath(q) = g[N + 1]
    BY <1>3, LsPathIs
<1>6. f[N] = g[N]
    <2>1. PICK M \in Nat : M = N + 1 /\ N <= M
        OBVIOUS
    <2>2. Looks(p, f, N) /\ Looks(q, g, M)
        BY <1>4, <1>5, <2>1
    <2>3. \A k \in 1 .. N : p[k] = q[k]
        BY <1>3
    <2>4. N <= M /\ 2 <= N
        BY <1>1, <2>1
    <2> QED  BY <2>2, <2>3, <2>4, LooksAgree
<1>7. N + 1 \in 2 .. N + 1 /\ N + 1 # 2 /\ (N + 1) - 1 = N
    BY <1>1
<1>8. g[N + 1] = LsStep(g[N], x)
    BY <1>3, <1>5, <1>7 DEF Looks, Looked
<1> QED  BY <1>2, <1>4, <1>5, <1>6, <1>8

-----------------------------------------------------------------------------
\* Where inodes are.

\* A snapshot of the family p, and an entry of the directory p.
InFamily(n, p) ==
    /\ p.kind = "parent" /\ p.parent = RootIno /\ n.kind = "dir"
    /\ \E s \in ShownOf(p.name) : s.id = n.name /\ s.ref = n.ref

InDir(n, p) ==
    /\ p.kind = "dir" /\ p.parent # RootIno
    /\ \E k \in DOMAIN Listing[p.ref] :
          LET e == Listing[p.ref][k] IN n.name = e.name /\ n.kind = e.kind /\ n.ref = e.ref

\* An inode is the root, a family, or in what its parent lists.
Placed(tab, i) ==
    \/ i = RootIno /\ tab[i].parent = 0 /\ tab[i].kind = "parent"
    \/ /\ i # RootIno /\ tab[i].parent = RootIno
       /\ tab[i].kind = "parent" /\ tab[i].name \in Families \ {HiddenFamily}
    \/ /\ i # RootIno /\ tab[i].parent \in 2 .. i - 1
       /\ InFamily(tab[i], tab[tab[i].parent]) \/ InDir(tab[i], tab[tab[i].parent])

IsForest(tab) == \A i \in 1 .. Len(tab) : Placed(tab, i)

\* f follows the recursion of PathOf over the first N inodes.
PathFrom(tab, f, i) ==
    IF tab[i].parent = 0 THEN <<>> ELSE Append(f[tab[i].parent], tab[i].name)

Paths(tab, f, N) == f = [i \in 1 .. N |-> PathFrom(tab, f, i)]

\* Parents come first.
LEMMA ParentsFirst ==
    ASSUME NEW tab, NEW i \in Nat \ {0}, Placed(tab, i)
    PROVE  tab[i].parent \in 0 .. i - 1 /\ (tab[i].parent = 0 => i = 1)
BY DEF Placed, RootIno

\* There is a function that the recursion of PathOf defines.
LEMMA PathsExist ==
    ASSUME NEW tab, Len(tab) \in Nat, IsForest(tab)
    PROVE  \E f : Paths(tab, f, Len(tab))
<1> DEFINE L == Len(tab)
           Bad == {n \in 0 .. L : ~ \E f : Paths(tab, f, n)}
<1>1. SUFFICES ASSUME Bad # {} PROVE FALSE
    OBVIOUS
<1>2. PICK m \in Bad : \A k \in Bad : m <= k
    <2>1. Bad \subseteq Nat
        OBVIOUS
    <2> QED  BY <1>1, <2>1, Least
<1>0. m \in 0 .. L /\ ~ \E f : Paths(tab, f, m)
    OBVIOUS
<1>3. m # 0
    <2>1. Paths(tab, [n \in 1 .. 0 |-> <<>>], 0)
        BY DEF Paths
    <2> QED  BY <1>0, <2>1
<1>4. PICK f : Paths(tab, f, m - 1)
    <2>1. m - 1 \in 0 .. L /\ ~(m <= m - 1)
        BY <1>0, <1>3
    <2> QED  BY <1>2, <2>1
<1> HIDE DEF Bad
<1> DEFINE g == [n \in 1 .. m |-> IF n = m THEN PathFrom(tab, f, n) ELSE f[n]]
<1>5. ASSUME NEW n \in 1 .. m PROVE g[n] = PathFrom(tab, g, n)
    <2>1. n \in Nat \ {0} /\ n \in 1 .. L
        BY <1>0
    <2>2. tab[n].parent \in 0 .. n - 1
        BY <2>1, ParentsFirst DEF IsForest
    <2>3. tab[n].parent # 0 => g[tab[n].parent] = f[tab[n].parent]
        BY <1>0, <2>2
    <2>4. PathFrom(tab, g, n) = PathFrom(tab, f, n)
        BY <2>3 DEF PathFrom
    <2>5. CASE n = m
        BY <2>4, <2>5
    <2>6. CASE n # m
        <3>1. n \in 1 .. m - 1 /\ g[n] = f[n]
            BY <1>0, <2>6
        <3>2. f[n] = PathFrom(tab, f, n)
            BY <1>4, <3>1 DEF Paths
        <3> QED  BY <2>4, <3>1, <3>2
    <2> QED  BY <2>5, <2>6
<1>6. Paths(tab, g, m)
    <2>1. g = [n \in 1 .. m |-> g[n]]
        OBVIOUS
    <2> HIDE DEF g
    <2>2. g = [n \in 1 .. m |-> PathFrom(tab, g, n)]
        BY <2>1, <1>5
    <2> QED  BY <2>2 DEF Paths
<1> QED  BY <1>0, <1>6

\* PathOf is such a function.
LEMMA PathOfIs ==
    ASSUME IsTable(inodes), IsForest(inodes)
    PROVE  Paths(inodes, PathOf, Len(inodes))
<1>1. Len(inodes) \in Nat /\ DOMAIN inodes = 1 .. Len(inodes)
    BY DEF IsTable
<1>2. PICK g : Paths(inodes, g, Len(inodes))
    BY <1>1, PathsExist
<1> DEFINE D == DOMAIN inodes
<1> DEFINE f == CHOOSE f : f = [ino \in D |->
                    IF inodes[ino].parent = 0 THEN <<>>
                    ELSE Append(f[inodes[ino].parent], inodes[ino].name)]
<1>3. g = [ino \in D |-> IF inodes[ino].parent = 0 THEN <<>>
                          ELSE Append(g[inodes[ino].parent], inodes[ino].name)]
    BY <1>1, <1>2 DEF Paths, PathFrom
<1>4. f = [ino \in D |-> IF inodes[ino].parent = 0 THEN <<>>
                          ELSE Append(f[inodes[ino].parent], inodes[ino].name)]
    BY <1>3, Zenon
<1>5. PathOf = f
    BY Zenon DEF PathOf
<1> HIDE DEF f, D
<1>6. D = 1 .. Len(inodes)
    BY <1>1 DEF D
<1> QED  BY <1>4, <1>5, <1>6 DEF Paths, PathFrom

\* What ls does with the path of an inode.
Found(tab, f, i) ==
    /\ f[i] \in Seq({tab[j].name : j \in 1 .. Len(tab)})
    /\ tab[i].parent = 0 => f[i] = <<>>
    /\ tab[i].parent = RootIno => Len(f[i]) = 1 /\ f[i][1] = tab[i].name
    /\ tab[i].parent > RootIno =>
          /\ Len(f[i]) >= 2
          /\ LsPath(f[i]).found
          /\ tab[i].kind = "dir" => LsPath(f[i]) = DirAt(tab[i].ref)

\* ls finds what a family or a directory has.
LEMMA FindsOne ==
    ASSUME NEW tab, Len(tab) \in Nat, NEW f, Paths(tab, f, Len(tab)), IsTable(tab),
           NEW i \in 1 .. Len(tab), tab[i].parent \in 2 .. i - 1,
           Found(tab, f, tab[i].parent), Placed(tab, i), Placed(tab, tab[i].parent)
    PROVE  Found(tab, f, i)
<1> DEFINE N == {tab[j].name : j \in 1 .. Len(tab)}
<1>1. PICK h \in Nat : h = tab[i].parent /\ h \in 2 .. i - 1
    OBVIOUS
<1>2. PICK n, p, q, x : n = tab[i] /\ p = tab[h] /\ q = f[h] /\ x = n.name
    OBVIOUS
<1>3. f[i] = Append(q, x) /\ q \in Seq(N) /\ x \in N
    <2>1. f[i] = PathFrom(tab, f, i) /\ h # 0
        BY <1>1 DEF Paths
    <2>2. f[i] = Append(q, x)
        BY <1>1, <1>2, <2>1 DEF PathFrom
    <2> QED  BY <1>1, <1>2, <2>2 DEF Found
<1> HIDE DEF N
<1>4. Append(q, x) \in Seq(N) /\ Len(Append(q, x)) = Len(q) + 1 /\ Len(q) \in Nat
    BY <1>3
<1>5. InFamily(n, p) \/ InDir(n, p)
    BY <1>1, <1>2 DEF Placed, RootIno
<1>6. CASE InFamily(n, p)
    <2>1. Len(q) = 1 /\ q[1] = p.name
        BY <1>1, <1>2, <1>6 DEF InFamily, Found
    <2>2. PICK s \in ShownOf(p.name) : s.id = x /\ s.ref = n.ref
        BY <1>2, <1>6 DEF InFamily
    <2>3. PICK a : a = Append(q, x) /\ Len(a) = 2 /\ a[1] = p.name /\ a[2] = x
        <3>0. \A k \in 1 .. Len(q) : Append(q, x)[k] = q[k]
            BY <1>3
        <3>1. Append(q, x)[1] = q[1] /\ Append(q, x)[Len(q) + 1] = x
            <4>1. 1 \in 1 .. Len(q)
                BY <2>1
            <4>2. Append(q, x)[Len(q) + 1] = x
                BY <1>3
            <4> QED  BY <3>0, <4>1, <4>2
        <3>2. Len(q) + 1 = 2
            BY <2>1
        <3> QED  BY <1>4, <2>1, <3>1, <3>2
    <2>4. LsPath(f[i]) = DirAt(n.ref)
        <3>1. LsPath(Append(q, x)) = LsSnapshot(p.name, x)
            BY <2>3, LsPathTop
        <3>2. LsSnapshot(p.name, x) = DirAt(n.ref)
            BY <2>2, SnapshotFound
        <3> QED  BY <1>3, <3>1, <3>2
    <2>5. LsPath(f[i]).found
        BY <2>4 DEF DirAt
    <2> QED  BY <1>1, <1>2, <1>3, <1>4, <2>1, <2>4, <2>5 DEF Found, N, RootIno
<1>7. CASE InDir(n, p)
    <2>1. p.parent > RootIno /\ p.kind = "dir" /\ p.ref \in DOMAIN Listing
        <3>1. h \in Nat \ {0} /\ h \in 1 .. Len(tab)
            BY <1>1
        <3>2. p.parent \in 0 .. h - 1 /\ (p.parent = 0 => h = 1)
            BY <1>1, <1>2, <3>1, ParentsFirst
        <3>3. p.kind = "dir" /\ p.parent # RootIno
            BY <1>7 DEF InDir
        <3>4. p.ref \in DOMAIN Listing
            BY <1>2, <3>1, <3>3 DEF IsTable
        <3> QED  BY <1>1, <3>2, <3>3, <3>4 DEF RootIno
    <2>2. Len(q) >= 2 /\ LsPath(q) = DirAt(p.ref)
        BY <1>1, <1>2, <2>1 DEF Found
    <2>3. PICK k, e : /\ k \in DOMAIN Listing[p.ref] /\ e = Listing[p.ref][k]
                      /\ x = e.name /\ n.kind = e.kind /\ n.ref = e.ref
        BY <1>2, <1>7 DEF InDir
    <2>4. LsPath(f[i]) = IF e.kind = "dir" THEN DirAt(e.ref) ELSE FileAt(e)
        <3>1. LsPath(Append(q, x)) = LsStep(LsPath(q), x)
            BY <1>3, <2>2, LsPathOn
        <3>2. LsStep(DirAt(p.ref), e.name) = IF e.kind = "dir" THEN DirAt(e.ref) ELSE FileAt(e)
            BY <2>1, <2>3, EntryFound
        <3> QED  BY <1>3, <2>2, <2>3, <3>1, <3>2
    <2>5. LsPath(f[i]).found /\ (n.kind = "dir" => LsPath(f[i]) = DirAt(n.ref))
        BY <2>3, <2>4 DEF DirAt, FileAt
    <2>6. Len(f[i]) >= 2
        BY <1>3, <1>4, <2>2
    <2>7. n.parent = h /\ h # 0 /\ h # RootIno
        BY <1>1, <1>2 DEF RootIno
    <2>8. f[i] \in Seq(N)
        BY <1>3, <1>4
    <2> QED  BY <1>2, <2>5, <2>6, <2>7, <2>8 DEF Found, N
<1> QED  BY <1>5, <1>6, <1>7

\* ls finds the path of every inode.
LEMMA LsFinds ==
    ASSUME NEW tab, NEW f, Len(tab) \in Nat, IsTable(tab), IsForest(tab), Paths(tab, f, Len(tab))
    PROVE  \A i \in 1 .. Len(tab) : Found(tab, f, i)
<1> DEFINE Bad == {i \in 1 .. Len(tab) : ~Found(tab, f, i)}
<1>1. SUFFICES ASSUME Bad # {} PROVE FALSE
    OBVIOUS
<1>2. PICK m \in Bad : \A k \in Bad : m <= k
    <2>1. Bad \subseteq Nat
        OBVIOUS
    <2> QED  BY <1>1, <2>1, Least
<1>3. m \in 1 .. Len(tab) /\ m \in Nat \ {0} /\ ~Found(tab, f, m) /\ Placed(tab, m)
    BY DEF IsForest
<1>4. PICK h \in 0 .. m - 1 : h = tab[m].parent /\ (h = 0 => m = 1)
    BY <1>3, ParentsFirst
<1>5. f[m] = IF h = 0 THEN <<>> ELSE Append(f[h], tab[m].name)
    BY <1>3, <1>4 DEF Paths, PathFrom
<1>6. h # 0 => h \in 1 .. Len(tab) /\ Found(tab, f, h) /\ Placed(tab, h)
    <2> SUFFICES ASSUME h # 0 PROVE h \in 1 .. Len(tab) /\ Found(tab, f, h) /\ Placed(tab, h)
        OBVIOUS
    <2>1. h \in 1 .. Len(tab) /\ ~(m <= h)
        BY <1>3, <1>4
    <2>2. Found(tab, f, h)
        BY <1>2, <2>1
    <2> QED  BY <2>1, <2>2 DEF IsForest
<1> HIDE DEF Bad
<1> DEFINE N == {tab[j].name : j \in 1 .. Len(tab)}
<1>7. tab[m].name \in N
    BY <1>3
<1>8. CASE h = 0
    <2>1. f[m] = <<>> /\ <<>> \in Seq(N)
        BY <1>5, <1>8
    <2>2. Found(tab, f, m)
        BY <1>4, <1>8, <2>1 DEF Found, RootIno
    <2> QED  BY <1>3, <2>2
<1>9. CASE h = 1
    <2>1. f[1] = <<>>
        <3>1. tab[1].parent = 0
            BY <1>6, <1>9 DEF Placed, RootIno
        <3> QED  BY <1>6, <1>9, <3>1 DEF Found
    <2>2. f[m] = <<tab[m].name>> /\ <<tab[m].name>> \in Seq(N)
        BY <1>5, <1>7, <1>9, <2>1
    <2>3. Len(f[m]) = 1 /\ f[m][1] = tab[m].name
        BY <2>2
    <2>4. Found(tab, f, m)
        BY <1>4, <1>9, <2>2, <2>3 DEF Found, RootIno
    <2> QED  BY <1>3, <2>4
<1>10. CASE h \in 2 .. m - 1
    <2>1. Found(tab, f, m)
        BY <1>3, <1>4, <1>6, <1>10, FindsOne
    <2> QED  BY <1>3, <2>1
<1> QED  BY <1>3, <1>4, <1>8, <1>9, <1>10

-----------------------------------------------------------------------------
\* What the directories have.

\* The names in an inode other than the root.
Entries(n) == IF n.kind = "dir" THEN Names(Listing[n.ref]) ELSE Ids(Shown(n.name))

KidNames(tab, kd, p) == [k \in DOMAIN kd[p] |-> tab[kd[p][k]].name]

\* Directories that were fetched have their entries, in their order.
IsKids(tab, kd) ==
    /\ DOMAIN kd \subseteq 1 .. Len(tab)
    /\ \A p \in DOMAIN kd : kd[p] \in Seq(1 .. Len(tab))
    /\ \A p \in DOMAIN kd : p # RootIno => KidNames(tab, kd, p) = Entries(tab[p])

\* The root has each family once.
IsRoot(tab, kd) ==
    /\ \A i \in 1 .. Len(tab) : tab[i].parent = RootIno =>
          RootIno \in DOMAIN kd /\ \E k \in DOMAIN kd[RootIno] : kd[RootIno][k] = i
    /\ RootIno \in DOMAIN kd =>
          /\ \A k \in DOMAIN kd[RootIno] : tab[kd[RootIno][k]].parent = RootIno
          /\ \A j, k \in DOMAIN kd[RootIno] :
                tab[kd[RootIno][j]].name = tab[kd[RootIno][k]].name => j = k

\* A family without entries has no snapshots to show.
HasSnapshots(tab, kd, p) == tab[p].kind = "parent" /\ p \notin DOMAIN kd => Entries(tab[p]) = <<>>

\* The new inodes of a directory.
NewKids(tab, n) == [k \in 1 .. n |-> Len(tab) + k]

\* n new inodes are what p has, and their names.
AddedKids(tab, kd, p, n) ==
    [q \in DOMAIN kd \cup {p} |-> IF q = p THEN NewKids(tab, n) ELSE kd[q]]

GetsKids(tab, all, p, n) ==
    \A k \in 1 .. n : /\ all[Len(tab) + k].parent = p
                      /\ \/ InFamily(all[Len(tab) + k], tab[p])
                         \/ InDir(all[Len(tab) + k], tab[p])

NewNames(tab, all, n) == [k \in 1 .. n |-> all[Len(tab) + k].name]

\* The root has one inode more, and does not have the family yet.
RootKids(tab, kd, old) ==
    [q \in DOMAIN kd \cup {RootIno} |->
        IF q = RootIno THEN old \o <<Len(tab) + 1>> ELSE kd[q]]

HasNot(tab, fam) == \A k \in 1 .. Len(tab) : tab[k].parent = RootIno => tab[k].name # fam

IsRow(new, n) == new = [k \in 1 .. n |-> new[k]]

\* The tables t after the n inodes in new were added to what p has, and the same
\* where that is nothing yet.
AddedTo(tab, kd, old, p, new, n, t) ==
    /\ t.inodes = tab \o new
    /\ n = 0 => t.kids = kd
    /\ n # 0 => t.kids = [q \in DOMAIN kd \cup {p} |->
                            IF q = p THEN old \o NewKids(tab, n) ELSE kd[q]]

AddedFirst(tab, kd, p, new, n, t) ==
    /\ t.inodes = tab \o new
    /\ n = 0 => t.kids = kd
    /\ n # 0 => t.kids = AddedKids(tab, kd, p, n)

\* all is tab with the n inodes in new after it.
Grown(tab, new, n, all) ==
    /\ IsTable(all) /\ Extended(tab, all)
    /\ Len(tab) \in Nat /\ Len(all) = Len(tab) + n
    /\ \A k \in 1 .. n : all[Len(tab) + k] = new[k]

\* A longer table has the same forest in it.
LEMMA ForestKept ==
    ASSUME NEW tab, NEW all, Len(tab) \in Nat, Len(all) \in Nat, IsForest(tab), Extended(tab, all),
           NEW i \in 1 .. Len(tab)
    PROVE  Placed(all, i)
<1>1. Placed(tab, i) /\ all[i] = tab[i]
    BY DEF IsForest, Extended
<1>2. i \in Nat \ {0}
    OBVIOUS
<1>3. tab[i].parent \in 0 .. i - 1
    BY <1>1, <1>2, ParentsFirst
<1>4. tab[i].parent # 0 => all[tab[i].parent] = tab[tab[i].parent]
    <2> SUFFICES ASSUME tab[i].parent # 0 PROVE all[tab[i].parent] = tab[tab[i].parent]
        OBVIOUS
    <2>1. tab[i].parent \in 1 .. Len(tab)
        BY <1>3
    <2> QED  BY <2>1 DEF Extended
<1> QED  BY <1>1, <1>3, <1>4 DEF Placed

\* p has in all what it has in tab.
SameKids(tab, kd, all, p) ==
    /\ p \in 1 .. Len(all) /\ kd[p] \in Seq(1 .. Len(all)) /\ all[p] = tab[p]
    /\ \A k \in DOMAIN kd[p] : all[kd[p][k]] = tab[kd[p][k]]
    /\ KidNames(all, kd, p) = KidNames(tab, kd, p)

\* What directories have is not touched by new inodes.
LEMMA KidsKept ==
    ASSUME NEW tab, NEW kd, NEW all, Len(tab) \in Nat, Len(all) \in Nat, IsKids(tab, kd),
           Extended(tab, all), NEW p \in DOMAIN kd
    PROVE  SameKids(tab, kd, all, p)
<1>1. p \in 1 .. Len(tab) /\ kd[p] \in Seq(1 .. Len(tab)) /\ Len(tab) <= Len(all)
    BY DEF IsKids, Extended
<1>2. p \in 1 .. Len(all) /\ all[p] = tab[p]
    BY <1>1 DEF Extended
<1>3. kd[p] \in Seq(1 .. Len(all))
    <2>1. 1 .. Len(tab) \subseteq 1 .. Len(all)
        BY <1>1
    <2> QED  BY <1>1, <2>1
<1>4. \A k \in DOMAIN kd[p] : all[kd[p][k]] = tab[kd[p][k]]
    <2>1. \A k \in DOMAIN kd[p] : kd[p][k] \in 1 .. Len(tab)
        BY <1>1
    <2> QED  BY <2>1 DEF Extended
<1>5. KidNames(all, kd, p) = KidNames(tab, kd, p)
    BY <1>4 DEF KidNames
<1> QED  BY <1>2, <1>3, <1>4, <1>5 DEF SameKids

\* A directory or family p gets its entries.
LEMMA KidsAdded ==
    ASSUME NEW tab, NEW kd, NEW all, Len(tab) \in Nat, NEW n \in Nat,
           IsForest(tab), IsKids(tab, kd), IsRoot(tab, kd),
           NEW p \in 2 .. Len(tab), p \notin DOMAIN kd,
           Extended(tab, all), Len(all) = Len(tab) + n,
           GetsKids(tab, all, p, n), NewNames(tab, all, n) = Entries(tab[p]),
           NEW kd2, kd2 = AddedKids(tab, kd, p, n)
    PROVE  IsForest(all) /\ IsKids(all, kd2) /\ IsRoot(all, kd2)
<1>0. PICK L \in Nat : L = Len(tab) /\ Len(all) = L + n
    OBVIOUS
<1>1. /\ \A i \in 1 .. L : all[i] = tab[i]
      /\ \A k \in 1 .. n : /\ all[L + k].parent = p
                            /\ \/ InFamily(all[L + k], tab[p])
                               \/ InDir(all[L + k], tab[p])
    BY <1>0 DEF Extended, GetsKids
<1>2. ASSUME NEW i \in 1 .. L + n, i \notin 1 .. L
      PROVE  \E k \in 1 .. n : i = L + k
    <2>1. i - L \in 1 .. n /\ i = L + (i - L)
        BY <1>2
    <2> QED  BY <2>1
<1>3. p \in 2 .. L /\ p \in 1 .. L /\ all[p] = tab[p]
    BY <1>0, <1>1
<1>4. ASSUME NEW i \in 1 .. L + n PROVE Placed(all, i)
    <2>1. CASE i \in 1 .. L
        BY <1>0, <2>1, ForestKept
    <2>2. CASE i \notin 1 .. L
        <3>1. PICK k \in 1 .. n : i = L + k
            BY <1>2, <2>2
        <3>2. all[i].parent = p /\ (InFamily(all[i], all[p]) \/ InDir(all[i], all[p]))
            BY <1>1, <1>3, <3>1
        <3>3. p \in 2 .. i - 1 /\ i # RootIno
            BY <1>3, <3>1 DEF RootIno
        <3> QED  BY <3>2, <3>3 DEF Placed
    <2> QED  BY <2>1, <2>2
<1>5. IsForest(all)
    BY <1>0, <1>4 DEF IsForest
<1>6. DOMAIN kd2 = DOMAIN kd \cup {p} /\ kd2[p] = NewKids(tab, n)
    BY DEF AddedKids
<1>7. ASSUME NEW q \in DOMAIN kd PROVE kd2[q] = kd[q]
    BY DEF AddedKids
<1>8. /\ kd2[p] \in Seq(1 .. Len(all)) /\ KidNames(all, kd2, p) = Entries(all[p])
      /\ DOMAIN kd2[p] = 1 .. n
    <2>1. PICK new : new = NewKids(tab, n) /\ new = [k \in 1 .. n |-> L + k]
        BY <1>0 DEF NewKids
    <2>2. \A k \in 1 .. n : L + k \in 1 .. Len(all)
        BY <1>0
    <2>3. new \in Seq(1 .. Len(all)) /\ DOMAIN new = 1 .. n
        BY <2>1, <2>2
    <2>4. KidNames(all, kd2, p) = [k \in 1 .. n |-> all[L + k].name]
        BY <1>6, <2>1, <2>3 DEF KidNames
    <2>5. NewNames(tab, all, n) = [k \in 1 .. n |-> all[L + k].name]
        BY <1>0 DEF NewNames
    <2> QED  BY <1>0, <1>3, <1>6, <2>1, <2>3, <2>4, <2>5
<1>9. ASSUME NEW q \in DOMAIN kd
      PROVE  /\ q \in 1 .. Len(all) /\ kd2[q] \in Seq(1 .. Len(all))
             /\ q # RootIno => KidNames(all, kd2, q) = Entries(all[q])
    <2>1. /\ q \in 1 .. Len(all) /\ kd[q] \in Seq(1 .. Len(all)) /\ all[q] = tab[q]
          /\ KidNames(all, kd, q) = KidNames(tab, kd, q)
        <3>1. Len(all) \in Nat
            BY <1>0
        <3>2. SameKids(tab, kd, all, q)
            BY <3>1, KidsKept
        <3> QED  BY <3>2 DEF SameKids
    <2>2. q # RootIno => KidNames(tab, kd, q) = Entries(tab[q])
        BY DEF IsKids
    <2>3. KidNames(all, kd2, q) = KidNames(all, kd, q) /\ kd2[q] = kd[q]
        BY <1>7 DEF KidNames
    <2> QED  BY <2>1, <2>2, <2>3
<1>10. IsKids(all, kd2)
    <2>1. p \in 1 .. Len(all)
        BY <1>0, <1>3
    <2> QED  BY <1>6, <1>8, <1>9, <2>1 DEF IsKids
<1>11. IsRoot(all, kd2)
    <2>1. p # RootIno
        BY <1>3 DEF RootIno
    <2>2. ASSUME NEW i \in 1 .. Len(all), all[i].parent = RootIno
          PROVE  /\ RootIno \in DOMAIN kd2
                 /\ \E k \in DOMAIN kd2[RootIno] : kd2[RootIno][k] = i
        <3>1. i \in 1 .. L
            <4> SUFFICES ASSUME i \notin 1 .. L PROVE FALSE
                OBVIOUS
            <4>1. PICK k \in 1 .. n : i = L + k
                BY <1>0, <1>2
            <4> QED  BY <1>1, <2>1, <2>2, <4>1
        <3>2. tab[i].parent = RootIno
            BY <1>1, <2>2, <3>1
        <3>3. RootIno \in DOMAIN kd /\ \E k \in DOMAIN kd[RootIno] : kd[RootIno][k] = i
            BY <1>0, <3>1, <3>2 DEF IsRoot
        <3> QED  BY <1>6, <1>7, <3>3
    <2>3. ASSUME RootIno \in DOMAIN kd2
          PROVE  /\ \A k \in DOMAIN kd2[RootIno] : all[kd2[RootIno][k]].parent = RootIno
                 /\ \A j, k \in DOMAIN kd2[RootIno] :
                       all[kd2[RootIno][j]].name = all[kd2[RootIno][k]].name => j = k
        <3>1. RootIno \in DOMAIN kd /\ kd2[RootIno] = kd[RootIno]
            BY <1>6, <1>7, <2>1, <2>3
        <3>2. \A k \in DOMAIN kd[RootIno] : all[kd[RootIno][k]] = tab[kd[RootIno][k]]
            <4>1. Len(all) \in Nat
                BY <1>0
            <4>2. SameKids(tab, kd, all, RootIno)
                BY <3>1, <4>1, KidsKept
            <4> QED  BY <4>2 DEF SameKids
        <3>3. /\ \A k \in DOMAIN kd[RootIno] : tab[kd[RootIno][k]].parent = RootIno
              /\ \A j, k \in DOMAIN kd[RootIno] :
                    tab[kd[RootIno][j]].name = tab[kd[RootIno][k]].name => j = k
            BY <3>1 DEF IsRoot
        <3> QED  BY <3>1, <3>2, <3>3
    <2> QED  BY <2>2, <2>3 DEF IsRoot
<1> QED  BY <1>5, <1>10, <1>11

\* The root gets a family.
LEMMA FamilyAdded ==
    ASSUME NEW tab, NEW kd, NEW all, Len(tab) \in Nat \ {0},
           IsForest(tab), IsKids(tab, kd), IsRoot(tab, kd),
           Extended(tab, all), Len(all) = Len(tab) + 1,
           NEW fam \in Families \ {HiddenFamily},
           all[Len(tab) + 1] = File(fam, "parent", NoRef, RootIno),
           HasNot(tab, fam),
           NEW old, old = IF RootIno \in DOMAIN kd THEN kd[RootIno] ELSE <<>>,
           NEW kd2, kd2 = RootKids(tab, kd, old)
    PROVE  IsForest(all) /\ IsKids(all, kd2) /\ IsRoot(all, kd2)
<1>0. PICK L \in Nat \ {0} : L = Len(tab) /\ Len(all) = L + 1 /\ Len(all) \in Nat
    OBVIOUS
<1>1. /\ \A i \in 1 .. L : all[i] = tab[i]
      /\ all[L + 1] = File(fam, "parent", NoRef, RootIno)
    BY <1>0 DEF Extended
<1>2. all[L + 1].parent = RootIno /\ all[L + 1].kind = "parent" /\ all[L + 1].name = fam
    BY <1>1 DEF File
<1>3. IsForest(all)
    <2>1. ASSUME NEW i \in 1 .. L + 1 PROVE Placed(all, i)
        <3>1. CASE i \in 1 .. L
            BY <1>0, <3>1, ForestKept
        <3>2. CASE i = L + 1
            <4>1. i # RootIno
                BY <3>2 DEF RootIno
            <4> QED  BY <1>2, <3>2, <4>1 DEF Placed
        <3> QED  BY <3>1, <3>2
    <2> QED  BY <1>0, <2>1 DEF IsForest
<1>4. /\ old \in Seq(1 .. L)
      /\ \A k \in DOMAIN old : tab[old[k]].parent = RootIno
      /\ \A j, k \in DOMAIN old : tab[old[j]].name = tab[old[k]].name => j = k
    <2>1. CASE RootIno \in DOMAIN kd
        BY <1>0, <2>1 DEF IsKids, IsRoot
    <2>2. CASE RootIno \notin DOMAIN kd
        <3>1. old = <<>> /\ DOMAIN <<>> = {} /\ <<>> \in Seq(1 .. L)
            BY <2>2
        <3>2. old \in Seq(1 .. L) /\ DOMAIN old = {}
            BY <3>1, Zenon
        <3> QED  BY <3>2, Zenon
    <2> QED  BY <2>1, <2>2
<1>5. PICK m \in Nat : m = Len(old) /\ DOMAIN old = 1 .. m
    BY <1>4
<1>6. PICK new : new = old \o <<L + 1>>
    OBVIOUS
<1>7. /\ new \in Seq(1 .. L + 1) /\ DOMAIN new = 1 .. m + 1
      /\ \A k \in 1 .. m : new[k] = old[k] /\ new[k] \in 1 .. L
      /\ new[m + 1] = L + 1
    <2>1. old \in Seq(1 .. L + 1) /\ <<L + 1>> \in Seq(1 .. L + 1) /\ Len(<<L + 1>>) = 1
        <3>1. 1 .. L \subseteq 1 .. L + 1 /\ L + 1 \in 1 .. L + 1
            OBVIOUS
        <3> QED  BY <1>4, <3>1
    <2>2. new \in Seq(1 .. L + 1) /\ Len(new) = m + 1
        BY <1>5, <1>6, <2>1
    <2>3. \A k \in 1 .. m : new[k] = old[k]
        BY <1>5, <1>6, <2>1
    <2>4. new[m + 1] = L + 1
        BY <1>5, <1>6, <2>1
    <2>5. \A k \in 1 .. m : old[k] \in 1 .. L
        BY <1>4, <1>5
    <2>6. DOMAIN new = 1 .. m + 1
        BY <2>2
    <2> QED  BY <2>2, <2>3, <2>4, <2>5, <2>6
<1>8. /\ DOMAIN kd2 = DOMAIN kd \cup {RootIno} /\ kd2[RootIno] = new
      /\ \A q \in DOMAIN kd : q # RootIno => kd2[q] = kd[q]
    BY <1>0, <1>6 DEF RootKids
<1>9. IsKids(all, kd2)
    <2>1. RootIno \in 1 .. Len(all)
        BY <1>0 DEF RootIno
    <2>2. ASSUME NEW q \in DOMAIN kd2, q # RootIno
          PROVE  /\ q \in 1 .. Len(all) /\ kd2[q] \in Seq(1 .. Len(all))
                 /\ KidNames(all, kd2, q) = Entries(all[q])
        <3>1. q \in DOMAIN kd /\ kd2[q] = kd[q]
            BY <1>8, <2>2
        <3>2. SameKids(tab, kd, all, q)
            BY <1>0, <3>1, KidsKept
        <3>3. /\ q \in 1 .. Len(all) /\ kd[q] \in Seq(1 .. Len(all)) /\ all[q] = tab[q]
              /\ KidNames(all, kd, q) = KidNames(tab, kd, q)
            BY <3>2 DEF SameKids
        <3>4. KidNames(tab, kd, q) = Entries(tab[q])
            BY <2>2, <3>1 DEF IsKids
        <3>5. KidNames(all, kd2, q) = KidNames(all, kd, q)
            BY <3>1 DEF KidNames
        <3> QED  BY <3>1, <3>3, <3>4, <3>5
    <2>3. kd2[RootIno] \in Seq(1 .. Len(all))
        BY <1>0, <1>7, <1>8
    <2> QED  BY <2>1, <2>2, <2>3 DEF IsKids
<1>10. \A k \in 1 .. m : all[new[k]] = tab[old[k]]
    BY <1>1, <1>7
<1>11. ASSUME NEW i \in 1 .. Len(all), all[i].parent = RootIno
       PROVE  \E k \in 1 .. m + 1 : new[k] = i
    <2>1. CASE i = L + 1
        <3>1. m + 1 \in 1 .. m + 1
            OBVIOUS
        <3> QED  BY <1>7, <2>1, <3>1
    <2>2. CASE i \in 1 .. L
        <3>1. tab[i].parent = RootIno
            BY <1>1, <1>11, <2>2
        <3>2. RootIno \in DOMAIN kd /\ \E k \in DOMAIN kd[RootIno] : kd[RootIno][k] = i
            BY <1>0, <2>2, <3>1 DEF IsRoot
        <3>3. PICK k \in 1 .. m : old[k] = i
            BY <1>5, <3>2
        <3>4. k \in 1 .. m + 1 /\ new[k] = i
            BY <1>7, <3>3
        <3> QED  BY <3>4
    <2> QED  BY <1>0, <2>1, <2>2
<1>12. ASSUME NEW k \in 1 .. m + 1 PROVE all[new[k]].parent = RootIno
    <2>1. CASE k \in 1 .. m
        BY <1>4, <1>5, <1>10, <2>1
    <2>2. CASE k = m + 1
        BY <1>2, <1>7, <2>2
    <2> QED  BY <2>1, <2>2
<1>13. ASSUME NEW k \in 1 .. m PROVE all[new[k]].name # fam
    <2>1. tab[old[k]].parent = RootIno /\ old[k] \in 1 .. L
        BY <1>4, <1>5, <1>7
    <2> QED  BY <1>0, <1>10, <2>1 DEF HasNot
<1>14. ASSUME NEW j \in 1 .. m + 1, NEW k \in 1 .. m + 1, all[new[j]].name = all[new[k]].name
       PROVE  j = k
    <2>1. CASE j \in 1 .. m /\ k \in 1 .. m
        <3>1. tab[old[j]].name = tab[old[k]].name
            BY <1>10, <1>14, <2>1
        <3>2. j \in DOMAIN old /\ k \in DOMAIN old
            BY <1>5, <2>1
        <3> QED  BY <1>4, <3>1, <3>2, Zenon
    <2>2. CASE j = m + 1 /\ k \in 1 .. m
        <3>1. all[new[j]].name = fam
            BY <1>2, <1>7, <2>2
        <3> QED  BY <1>13, <1>14, <2>2, <3>1
    <2>3. CASE k = m + 1 /\ j \in 1 .. m
        <3>1. all[new[k]].name = fam
            BY <1>2, <1>7, <2>3
        <3> QED  BY <1>13, <1>14, <2>3, <3>1
    <2>4. CASE j = m + 1 /\ k = m + 1
        BY <2>4
    <2>5. (j \in 1 .. m \/ j = m + 1) /\ (k \in 1 .. m \/ k = m + 1)
        OBVIOUS
    <2> QED  BY <2>1, <2>2, <2>3, <2>4, <2>5
<1>15. IsRoot(all, kd2)
    <2>1. RootIno \in DOMAIN kd2 /\ kd2[RootIno] = new /\ DOMAIN kd2[RootIno] = 1 .. m + 1
        BY <1>7, <1>8
    <2>2. ASSUME NEW i \in 1 .. Len(all), all[i].parent = RootIno
          PROVE  RootIno \in DOMAIN kd2 /\ \E k \in DOMAIN kd2[RootIno] : kd2[RootIno][k] = i
        BY <1>11, <2>1, <2>2
    <2>3. \A k \in DOMAIN kd2[RootIno] : all[kd2[RootIno][k]].parent = RootIno
        BY <1>12, <2>1
    <2>4. \A j, k \in DOMAIN kd2[RootIno] :
             all[kd2[RootIno][j]].name = all[kd2[RootIno][k]].name => j = k
        BY <1>14, <2>1
    <2> QED  BY <2>1, <2>2, <2>3, <2>4, Zenon DEF IsRoot
<1> QED  BY <1>3, <1>9, <1>15

\* The two tables fit together.
Trees(tab, kd) ==
    /\ Len(tab) \in Nat \ {0}
    /\ IsForest(tab) /\ IsKids(tab, kd) /\ IsRoot(tab, kd)
    /\ \A p \in 2 .. Len(tab) : HasSnapshots(tab, kd, p)

\* What add_file makes of the tables, for the entries of one directory.
LEMMA AddFilesIs ==
    ASSUME NEW tab, NEW kd, NEW p, NEW n \in Nat, NEW new, IsRow(new, n),
           NEW t, t = AddFiles([inodes |-> tab, kids |-> kd], p, new),
           NEW old, old = IF p \in DOMAIN kd THEN kd[p] ELSE <<>>
    PROVE  AddedTo(tab, kd, old, p, new, n, t)
<1>0. new = [k \in 1 .. n |-> new[k]]
    BY DEF IsRow
<1>1. Len(new) = n /\ (new = <<>> <=> n = 0)
    <2>1. new \in Seq({new[k] : k \in 1 .. n})
        <3>1. \A k \in 1 .. n : new[k] \in {new[j] : j \in 1 .. n}
            OBVIOUS
        <3> QED  BY <1>0, <3>1
    <2>2. Len(new) = n
        BY <1>0, <2>1
    <2> QED  BY <2>1, <2>2
<1>2. t.inodes = tab \o new
    BY DEF AddFiles
<1>3. NewKids(tab, Len(new)) = [k \in 1 .. Len(new) |-> Len(tab) + k]
    BY DEF NewKids
<1>4. t.kids = IF new = <<>> THEN kd
               ELSE [q \in DOMAIN kd \cup {p} |->
                       IF q = p THEN KidsOf([inodes |-> tab, kids |-> kd], q) \o NewKids(tab, Len(new))
                       ELSE kd[q]]
    BY <1>3 DEF AddFiles
<1>5. KidsOf([inodes |-> tab, kids |-> kd], p) = old
    BY DEF KidsOf
<1> QED  BY <1>1, <1>2, <1>4, <1>5 DEF AddedTo

\* Nothing before a sequence.
LEMMA NothingBefore ==
    ASSUME NEW tab, Len(tab) \in Nat, NEW n \in Nat
    PROVE  <<>> \o NewKids(tab, n) = NewKids(tab, n)
<1>1. NewKids(tab, n) \in Seq(Nat)
    BY DEF NewKids
<1> QED  BY <1>1

\* The tables after new inodes.
LEMMA AppendedAre ==
    ASSUME NEW tab, IsTable(tab), NEW n \in Nat, NEW new,
           IsRow(new, n), \A k \in 1 .. n : IsInode(new[k]),
           NEW all, all = tab \o new
    PROVE  Grown(tab, new, n, all)
<1>0. new = [k \in 1 .. n |-> new[k]]
    BY DEF IsRow
<1>1. IsTable(all) /\ Extended(tab, all)
    BY <1>0, AppendedInodes
<1>2. PICK S : tab \in Seq(S) /\ new \in Seq(S)
    <2> DEFINE R == ToSet(tab) \cup {new[k] : k \in 1 .. n}
    <2>1. tab \in Seq(ToSet(tab)) /\ ToSet(tab) \subseteq R
        BY DEF IsTable
    <2>2. \A k \in 1 .. n : new[k] \in R
        OBVIOUS
    <2> HIDE DEF R
    <2>3. tab \in Seq(R)
        BY <2>1
    <2>4. new \in Seq(R)
        BY <1>0, <2>2
    <2> QED  BY <2>3, <2>4
<1>3. Len(new) = n /\ Len(tab) \in Nat
    BY <1>0, <1>2
<1>4. Len(all) = Len(tab) + n
    <2>1. Len(tab \o new) = Len(tab) + Len(new)
        BY <1>2
    <2> QED  BY <1>3, <2>1
<1>5. ASSUME NEW k \in 1 .. n PROVE all[Len(tab) + k] = new[k]
    BY <1>2, <1>3
<1> QED  BY <1>1, <1>3, <1>4, <1>5 DEF Grown

\* What add_file makes of the tables, for a directory that has nothing yet.
LEMMA AddFilesFirst ==
    ASSUME NEW tab, NEW kd, Len(tab) \in Nat, NEW p, p \notin DOMAIN kd, NEW n \in Nat,
           NEW new, IsRow(new, n),
           NEW t, t = AddFiles([inodes |-> tab, kids |-> kd], p, new)
    PROVE  AddedFirst(tab, kd, p, new, n, t)
<1>1. PICK old : old = <<>> /\ old = IF p \in DOMAIN kd THEN kd[p] ELSE <<>>
    OBVIOUS
<1>2. AddedTo(tab, kd, old, p, new, n, t)
    BY <1>1, AddFilesIs
<1>3. old \o NewKids(tab, n) = NewKids(tab, n)
    BY <1>1, NothingBefore
<1> QED  BY <1>2, <1>3 DEF AddedTo, AddedFirst, AddedKids

\* Families or directories that were complete stay so.
LEMMA SnapshotsKept ==
    ASSUME NEW tab, NEW kd, NEW all, NEW kd2, Extended(tab, all),
           NEW q \in 1 .. Len(tab), HasSnapshots(tab, kd, q), DOMAIN kd \subseteq DOMAIN kd2
    PROVE  HasSnapshots(all, kd2, q)
<1>1. all[q] = tab[q]
    BY DEF Extended
<1>2. q \notin DOMAIN kd2 => q \notin DOMAIN kd
    OBVIOUS
<1> QED  BY <1>1, <1>2 DEF HasSnapshots

\* What a directory, once looked at, has.
Shows(t, ino) ==
    [k \in DOMAIN KidsOf(t, ino) |-> t.inodes[KidsOf(t, ino)[k]].name]

\* A directory is fetched.
LEMMA FetchTrees ==
    ASSUME IsTable(inodes), Trees(inodes, kids), NEW ino \in DOMAIN inodes, NeedsFetch(ino),
           NEW t, t = FetchDir(ino)
    PROVE  /\ Trees(t.inodes, t.kids)
           /\ ino \notin DOMAIN t.kids => Entries(inodes[ino]) = <<>>
<1>0. PICK L \in Nat \ {0} : L = Len(inodes) /\ DOMAIN inodes = 1 .. L
    BY DEF Trees, IsTable
<1>1. /\ inodes[ino].kind = "dir" /\ ino \notin DOMAIN kids /\ ino \in 1 .. L
      /\ inodes[ino].ref \in DOMAIN Listing
    BY <1>0 DEF NeedsFetch, IsTable
<1>2. ino \in 2 .. L /\ inodes[ino].parent # RootIno
    <2>1. Placed(inodes, ino)
        BY <1>0, <1>1 DEF Trees, IsForest
    <2>2. ino # RootIno /\ inodes[ino].parent \in 2 .. ino - 1
        BY <1>1, <2>1 DEF Placed
    <2> QED  BY <1>1, <2>2 DEF RootIno
<1>3. PICK entries : entries = Listing[inodes[ino].ref]
    OBVIOUS
<1>4. entries \in Seq(ToSet(entries)) /\ \A e \in ToSet(entries) : IsInode(e)
    BY <1>1, <1>3, VfsAssumption DEF VfsAssumption, IsInode
<1>5. PICK n \in Nat : n = Len(entries) /\ DOMAIN entries = 1 .. n
    BY <1>4
<1>6. PICK new : new = [k \in 1 .. n |-> File(entries[k].name, entries[k].kind, entries[k].ref, ino)]
    OBVIOUS
<1>7. /\ new = [k \in 1 .. n |-> new[k]]
      /\ \A k \in 1 .. n : /\ new[k].name = entries[k].name /\ new[k].kind = entries[k].kind
                            /\ new[k].ref = entries[k].ref /\ new[k].parent = ino
    BY <1>6 DEF File
<1>8. t = AddFiles([inodes |-> inodes, kids |-> kids], ino, new)
    BY <1>3, <1>5, <1>6 DEF FetchDir
<1>9. /\ t.inodes = inodes \o new
      /\ n = 0 => t.kids = kids
      /\ n # 0 => t.kids = AddedKids(inodes, kids, ino, n)
    <2>1. IsRow(new, n) /\ ino \notin DOMAIN kids /\ Len(inodes) \in Nat
        BY <1>0, <1>1, <1>7 DEF IsRow
    <2>2. AddedFirst(inodes, kids, ino, new, n, t)
        BY <1>8, <2>1, AddFilesFirst
    <2> QED  BY <2>2 DEF AddedFirst
<1>10. PICK all : all = inodes \o new
    OBVIOUS
<1>11. \A k \in 1 .. n : IsInode(new[k])
    <2>1. ASSUME NEW k \in 1 .. n PROVE IsInode(new[k])
        <3>1. IsInode(entries[k])
            BY <1>4, <1>5
        <3> QED  BY <1>7, <3>1 DEF IsInode
    <2> QED  BY <2>1
<1>12. /\ IsTable(all) /\ Extended(inodes, all) /\ Len(all) = L + n
       /\ \A k \in 1 .. n : all[L + k] = new[k]
    <2>1. IsRow(new, n)
        BY <1>7 DEF IsRow
    <2>2. Grown(inodes, new, n, all)
        BY <1>10, <1>11, <2>1, AppendedAre
    <2> QED  BY <1>0, <2>2 DEF Grown
<1>13. Entries(inodes[ino]) = [k \in 1 .. n |-> entries[k].name]
    BY <1>1, <1>3, <1>5 DEF Entries, Names
<1>14. CASE n = 0
    <2>1. new = <<>>
        BY <1>7, <1>14
    <2>2. t.inodes = inodes
        BY <1>9, <2>1 DEF IsTable
    <2>3. Entries(inodes[ino]) = <<>>
        BY <1>13, <1>14
    <2> QED  BY <1>9, <1>14, <2>2, <2>3
<1>15. CASE n # 0
    <2>1. PICK kd2 : kd2 = AddedKids(inodes, kids, ino, n)
        OBVIOUS
    <2>2. t.kids = kd2
        BY <1>9, <1>15, <2>1
    <2>3. GetsKids(inodes, all, ino, n)
        <3>1. ASSUME NEW k \in 1 .. n
              PROVE  all[L + k].parent = ino /\ InDir(all[L + k], inodes[ino])
            <4>1. PICK x : x = all[L + k] /\ x = new[k]
                BY <1>12
            <4>2. PICK e : e = entries[k]
                OBVIOUS
            <4>3. x.name = e.name /\ x.kind = e.kind /\ x.ref = e.ref /\ x.parent = ino
                BY <1>7, <4>1, <4>2
            <4>4. k \in DOMAIN Listing[inodes[ino].ref] /\ e = Listing[inodes[ino].ref][k]
                BY <1>3, <1>5, <4>2
            <4>5. InDir(x, inodes[ino])
                BY <1>1, <1>2, <4>3, <4>4 DEF InDir
            <4> QED  BY <4>1, <4>3, <4>5
        <3> QED  BY <1>0, <3>1 DEF GetsKids
    <2>4. NewNames(inodes, all, n) = Entries(inodes[ino])
        BY <1>0, <1>7, <1>12, <1>13 DEF NewNames
    <2>5. IsForest(inodes) /\ IsKids(inodes, kids) /\ IsRoot(inodes, kids)
        BY DEF Trees
    <2>6. IsForest(all) /\ IsKids(all, kd2) /\ IsRoot(all, kd2)
        <3>1. /\ Len(inodes) \in Nat /\ ino \in 2 .. Len(inodes) /\ ino \notin DOMAIN kids
              /\ Extended(inodes, all) /\ Len(all) = Len(inodes) + n
            BY <1>0, <1>1, <1>2, <1>12
        <3> QED  BY <2>1, <2>3, <2>4, <2>5, <3>1, KidsAdded
    <2>7. DOMAIN kd2 = DOMAIN kids \cup {ino}
        BY <2>1 DEF AddedKids
    <2>8. ASSUME NEW q \in 2 .. L + n PROVE HasSnapshots(all, kd2, q)
        <3>1. CASE q \in 1 .. L
            <4>1. q \in 2 .. Len(inodes) /\ q \in 1 .. Len(inodes)
                BY <1>0, <3>1
            <4>2. HasSnapshots(inodes, kids, q)
                BY <4>1 DEF Trees
            <4> QED  BY <1>12, <2>7, <4>1, <4>2, SnapshotsKept
        <3>2. CASE q \notin 1 .. L
            <4>1. PICK k \in 1 .. n : q = L + k
                <5>1. q - L \in 1 .. n /\ q = L + (q - L)
                    BY <3>2
                <5> QED  BY <5>1
            <4>2. all[q].kind = entries[k].kind
                BY <1>7, <1>12, <4>1
            <4>3. entries[k].kind \in {"dir", "file", "link"}
                BY <1>1, <1>3, <1>4, <1>5, VfsAssumption DEF VfsAssumption, ToSet
            <4> QED  BY <4>2, <4>3 DEF HasSnapshots
        <3> QED  BY <3>1, <3>2
    <2>9. Trees(all, kd2)
        BY <1>12, <2>6, <2>8 DEF Trees
    <2> QED  BY <1>9, <1>10, <2>2, <2>7, <2>9
<1> QED  BY <1>14, <1>15

\* The tables after a directory was looked at, and what it has.
LEMMA ChildsTrees ==
    ASSUME IsTable(inodes), Trees(inodes, kids), NEW ino \in DOMAIN inodes, IsDir(ino),
           NEW t, t = Childs(ino)
    PROVE  /\ Trees(t.inodes, t.kids)
           /\ ino # RootIno => Shows(t, ino) = Entries(inodes[ino])
           /\ KidsOf(t, ino) \in Seq(1 .. Len(t.inodes))
           /\ ino = RootIno => t = [inodes |-> inodes, kids |-> kids]
<1>1. Trees(t.inodes, t.kids) /\ (ino # RootIno /\ ino \notin DOMAIN t.kids => Entries(inodes[ino]) = <<>>)
    <2>1. CASE NeedsFetch(ino)
        BY <2>1, FetchTrees DEF Childs
    <2>2. CASE ~NeedsFetch(ino)
        <3>1. t.inodes = inodes /\ t.kids = kids
            BY <2>2 DEF Childs
        <3>2. ASSUME ino # RootIno, ino \notin DOMAIN kids PROVE Entries(inodes[ino]) = <<>>
            <4>1. ino \in 2 .. Len(inodes)
                BY <3>2 DEF IsTable, RootIno
            <4>2. HasSnapshots(inodes, kids, ino)
                BY <4>1 DEF Trees
            <4>3. inodes[ino].kind = "parent"
                BY <2>2, <3>2 DEF NeedsFetch, IsDir
            <4> QED  BY <3>2, <4>2, <4>3 DEF HasSnapshots
        <3> QED  BY <3>1, <3>2
    <2> QED  BY <2>1, <2>2
<1>2. IsTable(t.inodes) /\ Extended(inodes, t.inodes)
    BY ChildsTable
<1>3. t.inodes[ino] = inodes[ino]
    BY <1>2 DEF Extended, IsTable
<1>4. ino = RootIno => t = [inodes |-> inodes, kids |-> kids]
    <2>1. ASSUME ino = RootIno PROVE inodes[ino].kind = "parent"
        <3>1. Placed(inodes, ino) /\ ino \in Nat
            BY DEF Trees, IsForest, IsTable
        <3> QED  BY <2>1, <3>1 DEF Placed
    <2> QED  BY <2>1 DEF Childs, NeedsFetch
<1>5. CASE ino \in DOMAIN t.kids
    <2>1. KidsOf(t, ino) = t.kids[ino]
        BY <1>5 DEF KidsOf
    <2>2. KidsOf(t, ino) \in Seq(1 .. Len(t.inodes))
        BY <1>1, <1>5, <2>1 DEF Trees, IsKids
    <2>3. ino # RootIno => KidNames(t.inodes, t.kids, ino) = Entries(t.inodes[ino])
        BY <1>1, <1>5 DEF Trees, IsKids
    <2> QED  BY <1>1, <1>3, <1>4, <2>1, <2>2, <2>3 DEF Shows, KidNames
<1>6. CASE ino \notin DOMAIN t.kids
    <2>1. KidsOf(t, ino) = <<>> /\ <<>> \in Seq(1 .. Len(t.inodes))
        BY <1>6 DEF KidsOf
    <2>2. Shows(t, ino) = <<>>
        BY <2>1 DEF Shows
    <2> QED  BY <1>1, <1>4, <1>6, <2>1, <2>2
<1> QED  BY <1>5, <1>6

\* What one family adds to the tables, before its snapshots.
LEMMA FamilyTrees ==
    ASSUME IsTable(inodes), Trees(inodes, kids), NEW fam \in Families \ {HiddenFamily},
           HasNot(inodes, fam),
           NEW w, w = AddFiles([inodes |-> inodes, kids |-> kids], RootIno,
                               <<File(fam, "parent", NoRef, RootIno)>>)
    PROVE  /\ IsTable(w.inodes) /\ Extended(inodes, w.inodes) /\ Len(w.inodes) = Len(inodes) + 1
           /\ w.inodes[Len(inodes) + 1] = File(fam, "parent", NoRef, RootIno)
           /\ IsForest(w.inodes) /\ IsKids(w.inodes, w.kids) /\ IsRoot(w.inodes, w.kids)
           /\ DOMAIN w.kids = DOMAIN kids \cup {RootIno}
<1>0. PICK L \in Nat \ {0} : L = Len(inodes)
    BY DEF Trees
<1>1. PICK one : one = <<File(fam, "parent", NoRef, RootIno)>>
    OBVIOUS
<1>2. IsRow(one, 1) /\ one[1] = File(fam, "parent", NoRef, RootIno)
    BY <1>1 DEF IsRow
<1>3. \A k \in 1 .. 1 : IsInode(one[k])
    BY <1>2 DEF IsInode, File
<1>4. PICK old : old = IF RootIno \in DOMAIN kids THEN kids[RootIno] ELSE <<>>
    OBVIOUS
<1>5. AddedTo(inodes, kids, old, RootIno, one, 1, w)
    BY <1>1, <1>2, <1>4, AddFilesIs
<1>6. PICK tab, kd : tab = w.inodes /\ kd = w.kids
    OBVIOUS
<1>7. tab = inodes \o one
    BY <1>5, <1>6 DEF AddedTo
<1>8. Grown(inodes, one, 1, tab)
    BY <1>2, <1>3, <1>7, AppendedAre
<1>9. kd = RootKids(inodes, kids, old)
    <2>1. NewKids(inodes, 1) = <<Len(inodes) + 1>>
        BY DEF NewKids
    <2>2. kd = [q \in DOMAIN kids \cup {RootIno} |->
                  IF q = RootIno THEN old \o NewKids(inodes, 1) ELSE kids[q]]
        BY <1>5, <1>6 DEF AddedTo
    <2> QED  BY <2>1, <2>2, Zenon DEF RootKids
<1>10. /\ IsTable(tab) /\ Extended(inodes, tab) /\ Len(tab) = Len(inodes) + 1
       /\ tab[Len(inodes) + 1] = File(fam, "parent", NoRef, RootIno)
    BY <1>2, <1>8 DEF Grown
<1>11. IsForest(tab) /\ IsKids(tab, kd) /\ IsRoot(tab, kd)
    <2>1. Len(inodes) \in Nat \ {0} /\ IsForest(inodes) /\ IsKids(inodes, kids) /\ IsRoot(inodes, kids)
        BY DEF Trees
    <2> QED  BY <1>4, <1>9, <1>10, <2>1, FamilyAdded
<1>12. DOMAIN kd = DOMAIN kids \cup {RootIno}
    BY <1>9 DEF RootKids
<1> QED  BY <1>6, <1>10, <1>11, <1>12

\* A family is added, with its snapshots.
LEMMA AddFamilyTrees ==
    ASSUME IsTable(inodes), Trees(inodes, kids), NEW fam, AddFamily(fam)
    PROVE  Trees(inodes', kids')
<1>0. PICK L \in Nat \ {0} : L = Len(inodes) /\ DOMAIN inodes = 1 .. L
    BY DEF Trees, IsTable
<1>1. PICK w : w = AddFiles([inodes |-> inodes, kids |-> kids], RootIno,
                            <<File(fam, "parent", NoRef, RootIno)>>)
    OBVIOUS
<1>2. PICK tab, kd : tab = w.inodes /\ kd = w.kids
    OBVIOUS
<1>3. w = [inodes |-> tab, kids |-> kd]
    BY <1>1, <1>2 DEF AddFiles
<1>4. /\ IsTable(tab) /\ Extended(inodes, tab) /\ Len(tab) = L + 1
      /\ tab[L + 1] = File(fam, "parent", NoRef, RootIno)
      /\ IsForest(tab) /\ IsKids(tab, kd) /\ IsRoot(tab, kd)
      /\ DOMAIN kd = DOMAIN kids \cup {RootIno}
    <2>1. /\ fam \in Families \ {HiddenFamily}
          /\ HasNot(inodes, fam)
        BY <1>0 DEF AddFamily, HasNot
    <2> QED  BY <1>0, <1>1, <1>2, <2>1, FamilyTrees
<1>5. tab[L + 1].kind = "parent" /\ tab[L + 1].name = fam /\ tab[L + 1].parent = RootIno
    BY <1>4 DEF File
<1>6. PICK snaps : snaps = Shown(fam) /\ snaps \in Seq(ShownOf(fam))
    BY ShownIs
<1>7. PICK n \in Nat : n = Len(snaps) /\ DOMAIN snaps = 1 .. n
    BY <1>6
<1>8. PICK new : new = [k \in 1 .. n |-> File(snaps[k].id, "dir", snaps[k].ref, L + 1)]
    OBVIOUS
<1>9. /\ IsRow(new, n)
      /\ \A k \in 1 .. n : /\ new[k].name = snaps[k].id /\ new[k].kind = "dir"
                            /\ new[k].ref = snaps[k].ref /\ new[k].parent = L + 1
    BY <1>8 DEF File, IsRow
<1>10. PICK t : t = AddFiles(w, L + 1, new) /\ inodes' = t.inodes /\ kids' = t.kids
    BY <1>0, <1>1, <1>6, <1>7, <1>8 DEF AddFamily
<1>11. L + 1 \notin DOMAIN kd
    <2>1. DOMAIN kids \subseteq 1 .. L
        BY <1>0 DEF Trees, IsKids
    <2> QED  BY <1>4, <2>1 DEF RootIno
<1>12. AddedFirst(tab, kd, L + 1, new, n, t)
    <2>1. Len(tab) \in Nat
        BY <1>4
    <2> QED  BY <1>3, <1>9, <1>10, <1>11, <2>1, AddFilesFirst
<1>13. Entries(tab[L + 1]) = [k \in 1 .. n |-> snaps[k].id]
    BY <1>5, <1>6, <1>7 DEF Entries, Ids
<1>14. ASSUME NEW q \in 2 .. L PROVE HasSnapshots(tab, kd, q)
    <2>1. q \in 2 .. Len(inodes) /\ q \in 1 .. Len(inodes) /\ DOMAIN kids \subseteq DOMAIN kd
        BY <1>0, <1>4
    <2>2. HasSnapshots(inodes, kids, q)
        BY <2>1 DEF Trees
    <2> QED  BY <1>4, <2>1, <2>2, SnapshotsKept
<1>15. CASE n = 0
    <2>1. new = <<>>
        BY <1>8, <1>15
    <2>2. inodes' = tab /\ kids' = kd
        <3>1. t.inodes = tab \o new /\ t.kids = kd
            BY <1>12, <1>15 DEF AddedFirst
        <3>2. tab \o <<>> = tab
            BY <1>4 DEF IsTable
        <3> QED  BY <1>10, <2>1, <3>1, <3>2
    <2>3. Entries(tab[L + 1]) = <<>>
        BY <1>13, <1>15
    <2>4. ASSUME NEW q \in 2 .. L + 1 PROVE HasSnapshots(tab, kd, q)
        <3>1. CASE q = L + 1
            BY <2>3, <3>1 DEF HasSnapshots
        <3>2. CASE q # L + 1
            <4>1. q \in 2 .. L
                BY <3>2
            <4> QED  BY <1>14, <4>1
        <3> QED  BY <3>1, <3>2
    <2>5. Len(tab) \in Nat \ {0}
        BY <1>4
    <2>6. Trees(tab, kd)
        BY <1>4, <2>4, <2>5 DEF Trees
    <2> QED  BY <2>2, <2>6
<1>16. CASE n # 0
    <2>1. PICK all, kd2 : all = tab \o new /\ kd2 = AddedKids(tab, kd, L + 1, n)
        OBVIOUS
    <2>2. inodes' = all /\ kids' = kd2
        BY <1>10, <1>12, <1>16, <2>1 DEF AddedFirst
    <2>3. ASSUME NEW k \in 1 .. n PROVE snaps[k] \in ShownOf(fam)
        BY <1>6, <1>7
    <2>4. ASSUME NEW k \in 1 .. n PROVE IsInode(new[k])
        <3>1. snaps[k].ref \in DOMAIN Listing
            BY <2>3, VfsAssumption DEF ShownOf, WithRef, VfsAssumption
        <3> QED  BY <1>9, <3>1 DEF IsInode
    <2>5. Grown(tab, new, n, all)
        BY <1>4, <1>9, <2>1, <2>4, AppendedAre
    <2>6. /\ Extended(tab, all) /\ Len(all) = L + 1 + n
          /\ \A k \in 1 .. n : all[L + 1 + k] = new[k]
        BY <1>4, <2>5 DEF Grown
    <2>7. GetsKids(tab, all, L + 1, n)
        <3>1. ASSUME NEW k \in 1 .. n
              PROVE  all[L + 1 + k].parent = L + 1 /\ InFamily(all[L + 1 + k], tab[L + 1])
            <4>1. PICK x : x = all[L + 1 + k] /\ x = new[k]
                BY <2>6
            <4>2. PICK s \in ShownOf(fam) : s = snaps[k]
                BY <2>3
            <4>3. x.name = s.id /\ x.kind = "dir" /\ x.ref = s.ref /\ x.parent = L + 1
                BY <1>9, <4>1, <4>2
            <4>4. InFamily(x, tab[L + 1])
                BY <1>5, <4>2, <4>3 DEF InFamily
            <4> QED  BY <4>1, <4>3, <4>4
        <3> QED  BY <1>4, <3>1 DEF GetsKids
    <2>8. NewNames(tab, all, n) = Entries(tab[L + 1])
        BY <1>4, <1>9, <1>13, <2>6 DEF NewNames
    <2>9. IsForest(all) /\ IsKids(all, kd2) /\ IsRoot(all, kd2)
        <3>1. /\ Len(tab) \in Nat /\ L + 1 \in 2 .. Len(tab)
              /\ Len(all) = Len(tab) + n
            BY <1>4, <2>6
        <3> QED  BY <1>4, <1>11, <2>1, <2>6, <2>7, <2>8, <3>1, KidsAdded
    <2>10. DOMAIN kd2 = DOMAIN kd \cup {L + 1}
        BY <2>1 DEF AddedKids
    <2>11. ASSUME NEW q \in 2 .. L + 1 + n PROVE HasSnapshots(all, kd2, q)
        <3>1. CASE q \in 1 .. L
            <4>1. q \in 2 .. L /\ q \in 1 .. Len(tab) /\ DOMAIN kd \subseteq DOMAIN kd2
                BY <1>4, <2>10, <3>1
            <4> QED  BY <1>14, <2>6, <4>1, SnapshotsKept
        <3>2. CASE q = L + 1
            BY <2>10, <3>2 DEF HasSnapshots
        <3>3. CASE q \notin 1 .. L + 1
            <4>1. PICK k \in 1 .. n : q = L + 1 + k
                <5>1. q - (L + 1) \in 1 .. n /\ q = L + 1 + (q - (L + 1))
                    BY <3>3
                <5> QED  BY <5>1
            <4>2. all[q].kind = "dir"
                BY <1>9, <2>6, <4>1
            <4> QED  BY <4>2 DEF HasSnapshots
        <3> QED  BY <3>1, <3>2, <3>3
    <2>12. Len(all) \in Nat \ {0}
        BY <2>6
    <2>13. Trees(all, kd2)
        BY <2>6, <2>9, <2>11, <2>12 DEF Trees
    <2> QED  BY <2>2, <2>13
<1> QED  BY <1>15, <1>16

\* What the root has does not change when a directory is looked at.
LEMMA RootKept ==
    ASSUME IsTable(inodes), Trees(inodes, kids), NEW ino \in DOMAIN inodes,
           NEW t, t = Childs(ino)
    PROVE  KidsOf(t, RootIno) = KidsOf([inodes |-> inodes, kids |-> kids], RootIno)
<1>1. CASE ~NeedsFetch(ino)
    BY <1>1 DEF Childs
<1>2. CASE NeedsFetch(ino)
    <2>1. ino # RootIno
        <3>1. Placed(inodes, ino) /\ inodes[ino].kind = "dir"
            BY <1>2 DEF Trees, IsForest, IsTable, NeedsFetch
        <3> QED  BY <3>1 DEF Placed
    <2>2. PICK new : t = AddFiles([inodes |-> inodes, kids |-> kids], ino, new)
        BY <1>2 DEF Childs, FetchDir
    <2>3. \/ t.kids = kids
          \/ \E old : t.kids = [p \in DOMAIN kids \cup {ino} |-> IF p = ino THEN old[p] ELSE kids[p]]
        <3>1. PICK old : old = [p \in {ino} |-> KidsOf([inodes |-> inodes, kids |-> kids], p) \o
                                        [k \in 1 .. Len(new) |-> Len(inodes) + k]]
            OBVIOUS
        <3>2. new # <<>> => t.kids = [p \in DOMAIN kids \cup {ino} |-> IF p = ino THEN old[p] ELSE kids[p]]
            BY <2>2, <3>1 DEF AddFiles
        <3>3. new = <<>> => t.kids = kids
            BY <2>2 DEF AddFiles
        <3> QED  BY <3>2, <3>3
    <2>4. (RootIno \in DOMAIN t.kids <=> RootIno \in DOMAIN kids)
          /\ (RootIno \in DOMAIN kids => t.kids[RootIno] = kids[RootIno])
        BY <2>1, <2>3
    <2> QED  BY <2>4 DEF KidsOf
<1> QED  BY <1>1, <1>2

-----------------------------------------------------------------------------
\* The lister.

\* The names that a directory has in the end, below "." and "..", and how many
\* of these it has.
Listed(tab, kd, ino) ==
    IF ino = RootIno THEN Shows([inodes |-> tab, kids |-> kd], RootIno) ELSE Entries(tab[ino])

DotLen(tab, ino) == IF tab[ino].parent = 0 THEN 1 ELSE 2

\* The lister l has seen the first of these names, at the end all.
Lists(tab, kd, l) ==
    LET dots == DotLen(tab, l.ino)
        names == Listed(tab, kd, l.ino)
    IN  /\ l.ino \in 1 .. Len(tab) /\ tab[l.ino].kind \in {"parent", "dir"}
        /\ l.seen \in Seq(1 .. Len(tab)) /\ l.offset = Len(l.seen)
        /\ l.offset <= dots + Len(names)
        /\ \A k \in 1 .. Len(l.seen) : k > dots => tab[l.seen[k]].name = names[k - dots]
        /\ l.end => l.offset = dots + Len(names)

ListingInv == lister.ino # 0 => pc # "populate" /\ Lists(inodes, kids, lister)

\* Once mounted, every family is there.
HasFamilies(tab) ==
    \A fam \in Families \ {HiddenFamily} :
        \E k \in 1 .. Len(tab) : tab[k].parent = RootIno /\ tab[k].name = fam

FamiliesInv == pc # "populate" => HasFamilies(inodes)

TreesInv == Trees(inodes, kids) /\ FamiliesInv

\* What the root has is a sequence of inodes.
LEMMA RootIs ==
    ASSUME NEW tab, NEW kd, Trees(tab, kd)
    PROVE  KidsOf([inodes |-> tab, kids |-> kd], RootIno) \in Seq(1 .. Len(tab))
<1>1. CASE RootIno \in DOMAIN kd
    <2>1. KidsOf([inodes |-> tab, kids |-> kd], RootIno) = kd[RootIno]
        BY <1>1 DEF KidsOf
    <2> QED  BY <1>1, <2>1 DEF Trees, IsKids
<1>2. CASE RootIno \notin DOMAIN kd
    <2>1. KidsOf([inodes |-> tab, kids |-> kd], RootIno) = <<>> /\ <<>> \in Seq(1 .. Len(tab))
        BY <1>2 DEF KidsOf
    <2> QED  BY <2>1, Zenon
<1> QED  BY <1>1, <1>2

\* The names are a sequence.
LEMMA ListedIs ==
    ASSUME NEW tab, NEW kd, IsTable(tab), Trees(tab, kd), NEW ino \in 1 .. Len(tab),
           tab[ino].kind \in {"parent", "dir"}
    PROVE  IsRow(Listed(tab, kd, ino), Len(Listed(tab, kd, ino))) /\ Len(Listed(tab, kd, ino)) \in Nat
<1> DEFINE names == Listed(tab, kd, ino)
<1>0. ASSUME NEW n \in Nat, names = [k \in 1 .. n |-> names[k]]
      PROVE  IsRow(names, Len(names)) /\ Len(names) \in Nat
    <2>1. PICK s : s = names /\ s = [k \in 1 .. n |-> s[k]]
        BY <1>0
    <2> HIDE DEF names
    <2>2. PICK R : \A k \in 1 .. n : s[k] \in R
        <3>1. \A k \in 1 .. n : s[k] \in {s[j] : j \in 1 .. n}
            OBVIOUS
        <3> QED  BY <3>1
    <2>3. s \in Seq(R) /\ Len(s) = n
        BY <2>1, <2>2
    <2> QED  BY <2>1, <2>3 DEF IsRow
<1>1. CASE ino = RootIno
    <2>1. PICK t : t = [inodes |-> tab, kids |-> kd]
        OBVIOUS
    <2>2. PICK ks : ks = KidsOf(t, RootIno)
        OBVIOUS
    <2>3. PICK n \in Nat : DOMAIN ks = 1 .. n
        <3>1. ks \in Seq(1 .. Len(tab))
            BY <2>1, <2>2, RootIs
        <3> QED  BY <3>1
    <2>4. names = [k \in 1 .. n |-> t.inodes[ks[k]].name]
        BY <1>1, <2>1, <2>2, <2>3 DEF Listed, Shows
    <2>5. names = [k \in 1 .. n |-> names[k]]
        BY <2>4
    <2> QED  BY <1>0, <2>5
<1>2. CASE ino # RootIno
    <2>1. CASE tab[ino].kind = "dir"
        <3>1. tab[ino].ref \in DOMAIN Listing
            BY <2>1 DEF IsTable
        <3>2. PICK list : list = Listing[tab[ino].ref] /\ list \in Seq(ToSet(list))
            BY <3>1, VfsAssumption DEF VfsAssumption
        <3>3. names = [k \in 1 .. Len(list) |-> list[k].name] /\ Len(list) \in Nat
            BY <1>2, <2>1, <3>2 DEF Listed, Entries, Names
        <3>4. names = [k \in 1 .. Len(list) |-> names[k]]
            BY <3>3
        <3> QED  BY <1>0, <3>3, <3>4
    <2>2. CASE tab[ino].kind # "dir"
        <3>1. PICK list : list = Shown(tab[ino].name) /\ list \in Seq(ShownOf(tab[ino].name))
            BY ShownIs
        <3>2. names = [k \in 1 .. Len(list) |-> list[k].id] /\ Len(list) \in Nat
            BY <1>2, <2>2, <3>1 DEF Listed, Entries, Ids
        <3>3. names = [k \in 1 .. Len(list) |-> names[k]]
            BY <3>2
        <3> QED  BY <1>0, <3>2, <3>3
    <2> QED  BY <2>1, <2>2
<1> QED  BY <1>1, <1>2

\* The names stay the same while the tables grow.
LEMMA ListedKept ==
    ASSUME NEW tab, NEW kd, NEW all, NEW kd2, Trees(tab, kd), Extended(tab, all),
           KidsOf([inodes |-> all, kids |-> kd2], RootIno) = KidsOf([inodes |-> tab, kids |-> kd], RootIno),
           NEW ino \in 1 .. Len(tab)
    PROVE  Listed(all, kd2, ino) = Listed(tab, kd, ino)
<1>1. all[ino] = tab[ino]
    BY DEF Extended
<1>2. CASE ino # RootIno
    BY <1>1, <1>2 DEF Listed
<1>3. CASE ino = RootIno
    <2>1. PICK ks : /\ ks = KidsOf([inodes |-> tab, kids |-> kd], RootIno)
                    /\ ks = KidsOf([inodes |-> all, kids |-> kd2], RootIno)
        OBVIOUS
    <2>2. ks \in Seq(1 .. Len(tab))
        BY <2>1, RootIs
    <2>3. \A k \in DOMAIN ks : all[ks[k]] = tab[ks[k]]
        <3>1. \A k \in DOMAIN ks : ks[k] \in 1 .. Len(tab)
            BY <2>2
        <3> QED  BY <3>1 DEF Extended
    <2>4. [k \in DOMAIN ks |-> all[ks[k]].name] = [k \in DOMAIN ks |-> tab[ks[k]].name]
        BY <2>3
    <2> QED  BY <1>3, <2>1, <2>4 DEF Listed, Shows
<1> QED  BY <1>2, <1>3

\* A sequence over more.
LEMMA Wider ==
    ASSUME NEW A, NEW B, A \subseteq B, NEW s \in Seq(A) PROVE s \in Seq(B)
OBVIOUS

\* What was listed stays so.
LEMMA ListsKept ==
    ASSUME NEW tab, NEW kd, NEW all, NEW kd2, NEW l, Trees(tab, kd), Extended(tab, all),
           Len(all) \in Nat,
           KidsOf([inodes |-> all, kids |-> kd2], RootIno) = KidsOf([inodes |-> tab, kids |-> kd], RootIno),
           Lists(tab, kd, l)
    PROVE  Lists(all, kd2, l)
<1>1. l.ino \in 1 .. Len(tab) /\ Len(tab) \in Nat /\ Len(tab) <= Len(all)
    BY DEF Lists, Trees, Extended
<1>2. all[l.ino] = tab[l.ino] /\ l.ino \in 1 .. Len(all)
    BY <1>1 DEF Extended
<1>3. PICK dots, names : /\ dots = DotLen(tab, l.ino) /\ names = Listed(tab, kd, l.ino)
                         /\ dots = DotLen(all, l.ino) /\ names = Listed(all, kd2, l.ino)
    BY <1>1, <1>2, ListedKept DEF DotLen
<1>4. l.seen \in Seq(1 .. Len(tab)) /\ l.seen \in Seq(1 .. Len(all))
    <2>1. 1 .. Len(tab) \subseteq 1 .. Len(all)
        BY <1>1
    <2>2. PICK s : s = l.seen /\ s \in Seq(1 .. Len(tab))
        BY DEF Lists
    <2>3. s \in Seq(1 .. Len(all))
        BY <2>1, <2>2, Wider
    <2> QED  BY <2>2, <2>3
<1>5. \A k \in 1 .. Len(l.seen) : all[l.seen[k]] = tab[l.seen[k]]
    <2>1. \A k \in 1 .. Len(l.seen) : l.seen[k] \in 1 .. Len(tab)
        BY <1>4
    <2> QED  BY <2>1 DEF Extended
<1>6. /\ tab[l.ino].kind \in {"parent", "dir"}
      /\ l.offset = Len(l.seen) /\ l.offset <= dots + Len(names)
      /\ \A k \in 1 .. Len(l.seen) : k > dots => tab[l.seen[k]].name = names[k - dots]
      /\ l.end => l.offset = dots + Len(names)
    BY <1>3 DEF Lists
<1> QED  BY <1>2, <1>3, <1>4, <1>5, <1>6 DEF Lists

\* A part of a sequence.
LEMMA Part ==
    ASSUME NEW S, NEW s \in Seq(S), NEW a \in Nat, NEW b \in Nat, a <= b, b <= Len(s)
    PROVE  /\ SubSeq(s, a + 1, b) \in Seq(S) /\ Len(SubSeq(s, a + 1, b)) = b - a
           /\ \A i \in 1 .. b - a : SubSeq(s, a + 1, b)[i] = s[a + i]
<1>1. \A i \in a + 1 .. b : s[i] \in S
    OBVIOUS
<1>2. PICK c \in Int, d \in Int : c = a + 1 /\ d = b
    OBVIOUS
<1>3. \A i \in c .. d : s[i] \in S
    BY <1>1, <1>2
<1>4. /\ SubSeq(s, c, d) \in Seq(S)
      /\ Len(SubSeq(s, c, d)) = IF c <= d THEN d - c + 1 ELSE 0
      /\ \A i \in 1 .. d - c + 1 : SubSeq(s, c, d)[i] = s[c + i - 1]
    BY <1>3, SubSeqProperties
<1>5. d - c + 1 = b - a /\ (~(c <= d) => b - a = 0) /\ \A i \in 1 .. b - a : c + i - 1 = a + i
    BY <1>2
<1>6. PICK p : p = SubSeq(s, c, d) /\ p = SubSeq(s, a + 1, b)
    BY <1>2
<1>7. p \in Seq(S) /\ Len(p) = b - a
    BY <1>4, <1>5, <1>6
<1>8. \A i \in 1 .. b - a : p[i] = s[a + i]
    <2>1. \A i \in 1 .. b - a : p[i] = s[c + i - 1]
        BY <1>4, <1>5, <1>6
    <2> QED  BY <1>5, <2>1
<1> QED  BY <1>6, <1>7, <1>8

IsPart(S, s, a, b, p) ==
    p \in Seq(S) /\ Len(p) = b - a /\ \A i \in 1 .. b - a : p[i] = s[a + i]

\* Part, for a named sequence.
LEMMA PartIs ==
    ASSUME NEW S, NEW s \in Seq(S), NEW a \in Nat, NEW b \in Nat, a <= b, b <= Len(s),
           NEW p, p = SubSeq(s, a + 1, b)
    PROVE  IsPart(S, s, a, b, p)
BY Part DEF IsPart

\* A sequence after a sequence.
LEMMA Joined ==
    ASSUME NEW S, NEW s \in Seq(S), NEW t \in Seq(S)
    PROVE  /\ s \o t \in Seq(S) /\ Len(s \o t) = Len(s) + Len(t)
           /\ \A k \in 1 .. Len(s) : (s \o t)[k] = s[k]
           /\ \A k \in 1 .. Len(t) : (s \o t)[Len(s) + k] = t[k]
OBVIOUS

\* The first o that were seen, then those of files up to last.
Continues(S, seen, files, o, last, all) ==
    /\ all \in Seq(S) /\ Len(all) = last
    /\ \A k \in 1 .. o : all[k] = seen[k]
    /\ \A k \in 1 .. last : k > o => all[k] = files[k]

\* What was seen and one more reply.
LEMMA Continued ==
    ASSUME NEW S, NEW seen \in Seq(S), NEW files \in Seq(S), NEW o \in Nat, o = Len(seen),
           NEW last \in Nat, o <= last, last <= Len(files),
           NEW all, all = seen \o SubSeq(files, o + 1, last)
    PROVE  Continues(S, seen, files, o, last, all)
<1>1. PICK more : more = SubSeq(files, o + 1, last)
    OBVIOUS
<1>2. more \in Seq(S) /\ Len(more) = last - o /\ \A i \in 1 .. last - o : more[i] = files[o + i]
    BY <1>1, Part
<1>3. /\ all \in Seq(S) /\ Len(all) = Len(seen) + Len(more)
      /\ \A k \in 1 .. Len(seen) : all[k] = seen[k]
      /\ \A k \in 1 .. Len(more) : all[Len(seen) + k] = more[k]
    BY <1>1, <1>2, Joined
<1>4. ASSUME NEW k \in 1 .. last, k > o PROVE all[k] = files[k]
    <2>1. PICK i \in 1 .. last - o : o + i = k
        <3>1. k - o \in 1 .. last - o /\ o + (k - o) = k
            BY <1>4
        <3> QED  BY <3>1
    <2>2. all[o + i] = more[i] /\ more[i] = files[o + i]
        BY <1>2, <1>3
    <2> QED  BY <2>1, <2>2
<1>5. Len(all) = last
    BY <1>2, <1>3
<1> QED  BY <1>3, <1>4, <1>5 DEF Continues

\* After dots others, files are named names; and the next reply to l.
Fills(tab, files, dots, names, m) == \A k \in 1 .. m : tab[files[dots + k]].name = names[k]

Upto(o, n) == IF n < o + ReplySize THEN n ELSE o + ReplySize

NextReply(l, files, l2) ==
    LET last == Upto(l.offset, Len(files))
    IN  /\ l2.ino = l.ino /\ l2.offset = last
        /\ l2.seen = l.seen \o SubSeq(files, l.offset + 1, last)
        /\ l2.end = (last = l.offset)

\* A reply ends after where it begins, or at the end.
LEMMA UptoIs ==
    ASSUME NEW o \in Nat, NEW n \in Nat, o <= n
    PROVE  Upto(o, n) \in Nat /\ o <= Upto(o, n) /\ Upto(o, n) <= n /\ (Upto(o, n) = o => o = n)
<1>1. ReplySize \in Nat \ {0}
    BY VfsAssumption DEF VfsAssumption
<1> QED  BY <1>1 DEF Upto

\* One more reply.
LEMMA ListsMore ==
    ASSUME NEW tab, NEW kd, NEW l, Lists(tab, kd, l), NEW T \in Nat, T = Len(tab),
           NEW dots \in Nat, dots = DotLen(tab, l.ino),
           NEW names, names = Listed(tab, kd, l.ino), NEW m \in Nat, m = Len(names),
           NEW files \in Seq(1 .. T), Len(files) = dots + m, Fills(tab, files, dots, names, m),
           NEW l2, NextReply(l, files, l2)
    PROVE  Lists(tab, kd, l2)
<1>1. PICK seen : /\ seen = l.seen /\ seen \in Seq(1 .. T)
                  /\ \A k \in 1 .. Len(seen) : k > dots => tab[seen[k]].name = names[k - dots]
    BY DEF Lists
<1>2. PICK o \in Nat : o = Len(seen) /\ o = l.offset /\ o <= dots + m
    BY <1>1 DEF Lists
<1>3. PICK n \in Nat : n = Len(files) /\ n = dots + m
    OBVIOUS
<1>4. PICK last \in Nat : last = Upto(o, n) /\ o <= last /\ last <= n /\ (last = o => o = n)
    <2>1. o <= n
        BY <1>2, <1>3
    <2>2. Upto(o, n) \in Nat /\ o <= Upto(o, n) /\ Upto(o, n) <= n /\ (Upto(o, n) = o => o = n)
        BY <2>1, UptoIs
    <2> QED  BY <2>2
<1>5. PICK all : all = l2.seen /\ all = seen \o SubSeq(files, o + 1, last)
    BY <1>1, <1>2, <1>3, <1>4 DEF NextReply
<1>6. /\ all \in Seq(1 .. T) /\ Len(all) = last
      /\ \A k \in 1 .. o : all[k] = seen[k]
      /\ \A k \in 1 .. last : k > o => all[k] = files[k]
    <2>1. seen \in Seq(1 .. T) /\ o = Len(seen) /\ o <= last /\ last <= Len(files)
        BY <1>1, <1>2, <1>3, <1>4
    <2>2. PICK S : S = 1 .. T
        OBVIOUS
    <2>3. seen \in Seq(S) /\ files \in Seq(S)
        BY <2>1, <2>2
    <2>4. Continues(S, seen, files, o, last, all)
        BY <1>5, <2>1, <2>3, Continued
    <2> QED  BY <2>2, <2>4 DEF Continues
<1>7. ASSUME NEW k \in 1 .. last, k > dots PROVE tab[all[k]].name = names[k - dots]
    <2>1. CASE k <= o
        <3>1. k \in 1 .. o /\ k \in 1 .. Len(seen)
            BY <1>2, <2>1
        <3> QED  BY <1>1, <1>6, <1>7, <3>1
    <2>2. CASE k > o
        <3>1. PICK j \in 1 .. m : j = k - dots /\ dots + j = k
            <4>1. k <= last /\ k \in Nat
                OBVIOUS
            <4>2. last <= dots + m
                BY <1>3, <1>4
            <4>3. k <= dots + m
                BY <4>1, <4>2
            <4>4. k - dots \in 1 .. m /\ dots + (k - dots) = k
                BY <1>7, <4>1, <4>3
            <4> QED  BY <4>4
        <3>2. all[k] = files[dots + j]
            BY <1>6, <2>2, <3>1
        <3> QED  BY <3>1, <3>2 DEF Fills
    <2> QED  BY <1>2, <2>1, <2>2
<1>8. l.ino \in 1 .. Len(tab) /\ tab[l.ino].kind \in {"parent", "dir"}
    BY DEF Lists
<1>9. l2.ino = l.ino /\ l2.offset = last /\ (l2.end => last = n)
    BY <1>2, <1>3, <1>4 DEF NextReply
<1> QED  BY <1>3, <1>4, <1>5, <1>6, <1>7, <1>8, <1>9 DEF Lists

\* The tables and the names that they have, after a directory was looked at.
LooksInto(t, ino) ==
    /\ IsTable(t.inodes) /\ Extended(inodes, t.inodes) /\ Len(t.inodes) \in Nat
    /\ Trees(t.inodes, t.kids)
    /\ Listed(t.inodes, t.kids, ino) = Shows(t, ino)
    /\ KidsOf(t, ino) \in Seq(1 .. Len(t.inodes))
    /\ KidsOf([inodes |-> t.inodes, kids |-> t.kids], RootIno)
          = KidsOf([inodes |-> inodes, kids |-> kids], RootIno)

\* Childs looks into a directory.
LEMMA LookedAt ==
    ASSUME IsTable(inodes), Trees(inodes, kids), NEW ino \in DOMAIN inodes, IsDir(ino),
           NEW t, t = Childs(ino)
    PROVE  LooksInto(t, ino)
<1>1. t = [inodes |-> t.inodes, kids |-> t.kids]
    BY DEF Childs, FetchDir, AddFiles
<1>2. IsTable(t.inodes) /\ Extended(inodes, t.inodes)
    BY ChildsTable
<1>3. /\ Trees(t.inodes, t.kids)
      /\ ino # RootIno => Shows(t, ino) = Entries(inodes[ino])
      /\ KidsOf(t, ino) \in Seq(1 .. Len(t.inodes))
    BY ChildsTrees
<1>4. t.inodes[ino] = inodes[ino]
    BY <1>2 DEF Extended, IsTable
<1>5. Listed(t.inodes, t.kids, ino) = Shows(t, ino)
    BY <1>1, <1>3, <1>4 DEF Listed
<1>6. KidsOf(t, RootIno) = KidsOf([inodes |-> inodes, kids |-> kids], RootIno)
    BY RootKept
<1>7. Len(t.inodes) \in Nat
    BY <1>2 DEF IsTable
<1> QED  BY <1>1, <1>2, <1>3, <1>5, <1>6, <1>7 DEF LooksInto

\* The next reply to the lister.
LEMMA ReadDirLists ==
    ASSUME VfsInvariant, ListerInv, TreesInv, ListingInv, ReadDir
    PROVE  ListingInv'
<1>1. PICK ino : ino = lister.ino /\ ino # 0
    BY DEF ReadDir
<1>2. Lists(inodes, kids, lister) /\ IsTable(inodes) /\ Trees(inodes, kids)
    BY <1>1 DEF ListingInv, VfsInvariant, TreesInv
<1>3. ino \in 1 .. Len(inodes) /\ ino \in DOMAIN inodes /\ IsDir(ino)
    BY <1>1, <1>2 DEF Lists, IsDir, IsTable
<1>4. PICK t : t = Childs(ino)
    OBVIOUS
<1>5. inodes' = t.inodes /\ kids' = t.kids /\ pc' = "idle"
    BY <1>1, <1>4 DEF ReadDir
<1>6. LooksInto(t, ino)
    BY <1>2, <1>3, <1>4, LookedAt
<1>7. PICK tab, kd : tab = t.inodes /\ kd = t.kids
    OBVIOUS
<1>8. PICK T \in Nat : T = Len(tab) /\ Len(inodes) <= T
    BY <1>6, <1>7 DEF LooksInto, Extended
<1>9. Lists(tab, kd, lister)
    <2>1. /\ Extended(inodes, tab) /\ Len(tab) \in Nat
          /\ KidsOf([inodes |-> tab, kids |-> kd], RootIno)
                = KidsOf([inodes |-> inodes, kids |-> kids], RootIno)
        BY <1>6, <1>7 DEF LooksInto
    <2> QED  BY <1>2, <2>1, ListsKept
<1>10. PICK ks \in Seq(1 .. T) : ks = KidsOf(t, ino)
    BY <1>6, <1>7, <1>8 DEF LooksInto
<1>11. PICK m \in Nat : m = Len(ks) /\ DOMAIN ks = 1 .. m
    OBVIOUS
<1>12. PICK names : names = Listed(tab, kd, ino) /\ names = [k \in 1 .. m |-> tab[ks[k]].name]
    BY <1>6, <1>7, <1>10, <1>11 DEF LooksInto, Shows
<1>13. m = Len(names)
    <2>1. PICK R : \A k \in 1 .. m : tab[ks[k]].name \in R
        <3>1. \A k \in 1 .. m : tab[ks[k]].name \in {tab[ks[j]].name : j \in 1 .. m}
            OBVIOUS
        <3> QED  BY <3>1
    <2>2. names \in Seq(R)
        BY <1>12, <2>1
    <2> QED  BY <1>12, <2>2
<1>14. PICK ds : ds = Dots(ino)
    OBVIOUS
<1>15. tab[ino] = inodes[ino]
    BY <1>3, <1>6, <1>7 DEF LooksInto, Extended
<1>16. PICK dots \in Nat : dots = DotLen(tab, ino) /\ ds \in Seq(1 .. T) /\ Len(ds) = dots
    <2>1. ino \in 1 .. T /\ ino \in Nat \ {0}
        BY <1>3, <1>8
    <2>2. inodes[ino].parent = 0 \/ inodes[ino].parent \in 1 .. T
        <3>1. Placed(inodes, ino)
            BY <1>2, <1>3 DEF Trees, IsForest
        <3>2. inodes[ino].parent \in 0 .. ino - 1
            BY <2>1, <3>1, ParentsFirst
        <3> QED  BY <2>1, <3>2
    <2>3. CASE inodes[ino].parent = 0
        <3>1. ds = <<ino>> /\ DotLen(tab, ino) = 1
            BY <1>14, <1>15, <2>3 DEF Dots, DotLen
        <3> QED  BY <2>1, <3>1
    <2>4. CASE inodes[ino].parent # 0
        <3>1. ds = <<ino, inodes[ino].parent>> /\ DotLen(tab, ino) = 2
            BY <1>14, <1>15, <2>4 DEF Dots, DotLen
        <3>2. ds \in Seq(1 .. T) /\ Len(ds) = 2
            BY <2>1, <2>2, <2>4, <3>1
        <3> QED  BY <3>1, <3>2
    <2> QED  BY <2>3, <2>4
<1>17. PICK files : files = ds \o ks
    OBVIOUS
<1>18. /\ files \in Seq(1 .. T) /\ Len(files) = dots + m
       /\ \A k \in 1 .. m : files[dots + k] = ks[k]
    <2>1. /\ ds \o ks \in Seq(1 .. T) /\ Len(ds \o ks) = Len(ds) + Len(ks)
          /\ \A k \in 1 .. Len(ks) : (ds \o ks)[Len(ds) + k] = ks[k]
        <3>1. PICK S : S = 1 .. T
            OBVIOUS
        <3>2. ds \in Seq(S) /\ ks \in Seq(S)
            BY <1>10, <1>16, <3>1
        <3>3. /\ ds \o ks \in Seq(S) /\ Len(ds \o ks) = Len(ds) + Len(ks)
              /\ \A k \in 1 .. Len(ks) : (ds \o ks)[Len(ds) + k] = ks[k]
            BY <3>2, Joined
        <3> QED  BY <3>1, <3>3
    <2> QED  BY <1>11, <1>16, <1>17, <2>1
<1>19. Fills(tab, files, dots, names, m)
    BY <1>12, <1>18 DEF Fills
<1>20. NextReply(lister, files, lister')
    <2>1. PICK last : last = Upto(lister.offset, Len(files))
        OBVIOUS
    <2>2. lister' = [lister EXCEPT !.offset = last,
                                   !.seen = @ \o SubSeq(files, lister.offset + 1, last),
                                   !.end = last = lister.offset]
        BY <1>1, <1>4, <1>10, <1>14, <1>17, <2>1 DEF ReadDir, Upto
    <2>3. /\ lister'.ino = lister.ino /\ lister'.offset = last
          /\ lister'.seen = lister.seen \o SubSeq(files, lister.offset + 1, last)
          /\ lister'.end = (last = lister.offset)
        BY <2>2 DEF ListerInv
    <2> QED  BY <2>1, <2>3 DEF NextReply
<1>21. Lists(tab, kd, lister')
    <2>1. dots = DotLen(tab, lister.ino) /\ names = Listed(tab, kd, lister.ino)
        BY <1>1, <1>12, <1>16
    <2> QED  BY <1>8, <1>9, <1>13, <1>18, <1>19, <1>20, <2>1, ListsMore
<1> QED  BY <1>5, <1>7, <1>21 DEF ListingInv

\* What the lister has seen stays what its directory has.
LEMMA ListingStep ==
    ASSUME VfsInvariant, ListerInv, TreesInv, ListingInv, [VfsNext]_vars
    PROVE  ListingInv'
<1>1. ASSUME inodes' = inodes, kids' = kids, lister' = lister, pc # "populate" => pc' # "populate"
      PROVE  ListingInv'
    BY <1>1 DEF ListingInv
<1>2. ASSUME NEW fam, AddFamily(fam) PROVE ListingInv'
    BY <1>2 DEF ListingInv, AddFamily
<1>3. ASSUME NEW ino \in DOMAIN inodes, Lookup(ino) PROVE ListingInv'
    <2>1. PICK t : t = Childs(ino) /\ inodes' = t.inodes /\ kids' = t.kids
        BY <1>3 DEF Lookup
    <2>2. LooksInto(t, ino)
        BY <1>3, <2>1, LookedAt DEF Lookup, VfsInvariant, TreesInv
    <2>3. /\ Extended(inodes, inodes') /\ Len(inodes') \in Nat
          /\ KidsOf([inodes |-> inodes', kids |-> kids'], RootIno)
                = KidsOf([inodes |-> inodes, kids |-> kids], RootIno)
        BY <2>1, <2>2 DEF LooksInto
    <2>4. Lists(inodes, kids, lister) => Lists(inodes', kids', lister)
        BY <2>3, ListsKept DEF TreesInv
    <2> QED  BY <1>3, <2>4 DEF ListingInv, Lookup
<1>4. ASSUME NEW ino \in DOMAIN inodes, OpenDir(ino) PROVE ListingInv'
    <2>1. /\ lister' = [ino |-> ino, offset |-> 0, seen |-> <<>>, end |-> FALSE]
          /\ inodes' = inodes /\ kids' = kids /\ pc' = "idle"
        BY <1>4 DEF OpenDir, NoLister
    <2>2. ino \in 1 .. Len(inodes) /\ inodes[ino].kind \in {"parent", "dir"}
        BY <1>4 DEF OpenDir, IsDir, VfsInvariant, IsTable
    <2>3. PICK names : names = Listed(inodes, kids, ino) /\ Len(names) \in Nat
        BY <2>2, ListedIs DEF VfsInvariant, TreesInv
    <2>4. PICK dots \in Nat : dots = DotLen(inodes, ino)
        BY DEF DotLen
    <2>5. PICK l : l = lister' /\ l.ino = ino /\ l.offset = 0 /\ l.seen = <<>> /\ l.end = FALSE
        BY <2>1
    <2>6. l.seen \in Seq(1 .. Len(inodes)) /\ Len(l.seen) = 0 /\ 0 <= dots + Len(names)
        BY <2>3, <2>4, <2>5
    <2>7. Lists(inodes, kids, l)
        BY <2>2, <2>3, <2>4, <2>5, <2>6 DEF Lists
    <2> QED  BY <2>1, <2>5, <2>7 DEF ListingInv
<1>5. CASE ReadDir
    BY <1>5, ReadDirLists
<1>6. CASE ReleaseDir
    BY <1>6 DEF ReleaseDir, ListingInv, NoLister
<1>7. CASE Mount \/ Advance \/ AnswerAtEof \/ AssertionFails \/ Answer \/ UNCHANGED vars
    BY <1>1, <1>7 DEF Mount, Advance, AnswerAtEof, AssertionFails, Answer, Reply, vars
<1>8. ASSUME NEW d, NEW ino, Open(d, ino) PROVE ListingInv'
    BY <1>1, <1>8 DEF Open
<1>9. ASSUME NEW d, Release(d) PROVE ListingInv'
    BY <1>1, <1>9 DEF Release
<1>10. ASSUME NEW d, NEW from, NEW size, Read(d, from, size) PROVE ListingInv'
    BY <1>1, <1>10 DEF Read
<1> QED
    BY <1>2, <1>3, <1>4, <1>5, <1>6, <1>7, <1>8, <1>9, <1>10 DEF VfsNext

\* The tables keep fitting together, and the families stay.
LEMMA TreesStep ==
    ASSUME VfsInvariant, ListerInv, TreesInv, ListingInv, [VfsNext]_vars
    PROVE  TreesInv'
<1>0. IsTable(inodes) /\ Trees(inodes, kids) /\ DOMAIN inodes = 1 .. Len(inodes)
    BY DEF VfsInvariant, TreesInv, IsTable
<1>1. ASSUME inodes' = inodes, kids' = kids, pc = "populate" => pc' = "populate"
      PROVE  TreesInv'
    <2>1. Trees(inodes', kids')
        BY <1>0, <1>1
    <2>2. FamiliesInv'
        BY <1>1 DEF TreesInv, FamiliesInv
    <2> QED  BY <2>1, <2>2 DEF TreesInv
<1>2. ASSUME NEW fam, AddFamily(fam) PROVE TreesInv'
    <2>1. Trees(inodes', kids')
        BY <1>0, <1>2, AddFamilyTrees
    <2> QED  BY <1>2, <2>1 DEF AddFamily, TreesInv, FamiliesInv
<1>3. ASSUME NEW ino \in DOMAIN inodes, IsDir(ino), inodes' = Childs(ino).inodes,
             kids' = Childs(ino).kids, pc = "idle"
      PROVE  TreesInv'
    <2>1. LooksInto(Childs(ino), ino)
        BY <1>0, <1>3, LookedAt
    <2>2. Trees(inodes', kids') /\ Extended(inodes, inodes') /\ Len(inodes') \in Nat
        BY <1>3, <2>1 DEF LooksInto
    <2>3. Len(inodes) \in Nat
        BY <1>0 DEF IsTable
    <2>4. ASSUME NEW fam \in Families \ {HiddenFamily}
          PROVE  \E k \in 1 .. Len(inodes') : inodes'[k].parent = RootIno /\ inodes'[k].name = fam
        <3>1. PICK k \in 1 .. Len(inodes) : inodes[k].parent = RootIno /\ inodes[k].name = fam
            BY <1>3 DEF TreesInv, FamiliesInv, HasFamilies
        <3>2. k \in 1 .. Len(inodes') /\ inodes'[k] = inodes[k]
            BY <2>2, <2>3 DEF Extended
        <3> QED  BY <3>1, <3>2
    <2>5. HasFamilies(inodes')
        BY <2>4 DEF HasFamilies
    <2> QED  BY <2>2, <2>5 DEF TreesInv, FamiliesInv
<1>4. ASSUME NEW ino \in DOMAIN inodes, Lookup(ino) PROVE TreesInv'
    BY <1>3, <1>4 DEF Lookup
<1>5. CASE ReadDir
    <2>1. lister.ino \in DOMAIN inodes /\ IsDir(lister.ino)
        BY <1>0, <1>5 DEF ReadDir, ListingInv, Lists, IsDir
    <2> QED  BY <1>3, <1>5, <2>1 DEF ReadDir
<1>6. CASE Mount
    BY <1>0, <1>6 DEF Mount, TreesInv, FamiliesInv, HasFamilies
<1>7. CASE Advance \/ AnswerAtEof \/ AssertionFails \/ Answer \/ ReleaseDir \/ UNCHANGED vars
    BY <1>1, <1>7 DEF Advance, AnswerAtEof, AssertionFails, Answer, Reply, ReleaseDir, vars
<1>8. ASSUME NEW ino, OpenDir(ino) PROVE TreesInv'
    BY <1>1, <1>8 DEF OpenDir
<1>9. ASSUME NEW d, NEW ino, Open(d, ino) PROVE TreesInv'
    BY <1>1, <1>9 DEF Open
<1>10. ASSUME NEW d, Release(d) PROVE TreesInv'
    BY <1>1, <1>10 DEF Release
<1>11. ASSUME NEW d, NEW from, NEW size, Read(d, from, size) PROVE TreesInv'
    BY <1>1, <1>11 DEF Read
<1> QED
    BY <1>2, <1>4, <1>5, <1>6, <1>7, <1>8, <1>9, <1>10, <1>11 DEF VfsNext

\* A root without families.
LEMMA TreesInitial ==
    ASSUME VfsInit PROVE TreesInv /\ ListingInv
<1>1. PICK root : inodes = <<root>> /\ root = File("root", "parent", NoRef, 0)
    BY DEF VfsInit
<1>2. root.parent = 0 /\ root.kind = "parent"
    BY <1>1 DEF File
<1>3. Len(inodes) = 1 /\ inodes[1] = root
    BY <1>1
<1>4. kids = <<>> /\ DOMAIN kids = {}
    BY DEF VfsInit
<1>5. IsForest(inodes)
    <2>1. Placed(inodes, 1)
        BY <1>2, <1>3 DEF Placed, RootIno
    <2> QED  BY <1>3, <2>1 DEF IsForest
<1>6. IsKids(inodes, kids)
    BY <1>4 DEF IsKids
<1>7. IsRoot(inodes, kids)
    BY <1>2, <1>3, <1>4 DEF IsRoot, RootIno
<1>8. Trees(inodes, kids)
    BY <1>3, <1>5, <1>6, <1>7 DEF Trees
<1> QED  BY <1>8 DEF VfsInit, TreesInv, FamiliesInv, ListingInv, NoLister

-----------------------------------------------------------------------------
\* What ls lists.

\* ls lists a mounted directory, less what Fuse leaves out.
LEMMA VisibleIs ==
    ASSUME IsTable(inodes), Trees(inodes, kids), NEW ino \in 2 .. Len(inodes), IsDir(ino),
           Found(inodes, PathOf, ino)
    PROVE  Visible(PathOf[ino]) = Entries(inodes[ino])
<1>1. PICK n, path : n = inodes[ino] /\ path = PathOf[ino]
    OBVIOUS
<1>2. Placed(inodes, ino) /\ ino # RootIno /\ Len(inodes) \in Nat
    BY DEF Trees, IsForest, RootIno
<1>3. n.kind \in {"parent", "dir"}
    BY <1>1 DEF IsDir
<1>4. CASE n.parent = RootIno
    <2>1. n.kind = "parent"
        BY <1>1, <1>2, <1>4 DEF Placed, RootIno
    <2>2. Len(path) = 1 /\ path[1] = n.name /\ path # <<>>
        BY <1>1, <1>4 DEF Found
    <2>3. Ls(path).list = Family(n.name)
        BY <2>2 DEF Ls
    <2>4. Visible(path) = Ids(Shown(n.name))
        BY <2>2, <2>3 DEF Visible, Shown
    <2> QED  BY <1>1, <2>1, <2>4 DEF Entries
<1>5. CASE n.parent # RootIno
    <2>1. n.parent \in 2 .. ino - 1
        BY <1>1, <1>2, <1>5 DEF Placed
    <2>2. PICK p : p = inodes[n.parent] /\ (InFamily(n, p) \/ InDir(n, p))
        BY <1>1, <1>2, <1>5 DEF Placed
    <2>3. n.kind = "dir"
        <3>1. CASE InFamily(n, p)
            BY <3>1 DEF InFamily
        <3>2. CASE InDir(n, p)
            <4>1. p.kind = "dir" /\ n.parent \in 1 .. Len(inodes)
                BY <1>2, <2>1, <3>2 DEF InDir
            <4>2. p.ref \in DOMAIN Listing
                BY <2>2, <4>1 DEF IsTable
            <4>3. PICK k, e : /\ k \in DOMAIN Listing[p.ref] /\ e = Listing[p.ref][k]
                              /\ n.kind = e.kind
                BY <3>2 DEF InDir
            <4>4. e.kind \in {"dir", "file", "link"}
                BY <4>2, <4>3, VfsAssumption DEF VfsAssumption, ToSet
            <4> QED  BY <1>3, <4>3, <4>4
        <3> QED  BY <2>2, <3>1, <3>2
    <2>4. /\ Len(path) >= 2 /\ path # <<>> /\ Len(path) # 1
          /\ LsPath(path) = DirAt(n.ref)
        <3>1. n.parent > RootIno
            BY <2>1 DEF RootIno
        <3>2. path \in Seq({inodes[j].name : j \in 1 .. Len(inodes)})
            BY <1>1 DEF Found
        <3>3. Len(path) >= 2 /\ LsPath(path) = DirAt(n.ref)
            BY <1>1, <2>3, <3>1 DEF Found
        <3>4. Len(path) \in Nat /\ Len(<<>>) = 0
            BY <3>2
        <3>5. Len(path) # 1 /\ Len(path) # 0
            <4>1. PICK q \in Nat : q = Len(path)
                BY <3>4
            <4>2. q >= 2
                BY <3>3, <4>1
            <4>3. q # 1 /\ q # 0
                BY <4>2
            <4> QED  BY <4>1, <4>3
        <3> QED  BY <3>3, <3>4, <3>5
    <2>5. Ls(path).list = Listing[n.ref]
        BY <2>4 DEF Ls, DirAt
    <2>6. Visible(path) = Names(Listing[n.ref])
        BY <2>4, <2>5 DEF Visible
    <2> QED  BY <1>1, <2>3, <2>6 DEF Entries
<1> QED  BY <1>4, <1>5

\* ls finds an inode.
LEMMA LsFound ==
    ASSUME IsTable(inodes), Trees(inodes, kids), NEW ino \in 1 .. Len(inodes),
           Found(inodes, PathOf, ino)
    PROVE  Ls(PathOf[ino]).found
<1>1. PICK n, path : n = inodes[ino] /\ path = PathOf[ino]
    OBVIOUS
<1>2. n.parent \in Nat
    <2>1. Placed(inodes, ino) /\ ino \in Nat \ {0}
        BY DEF Trees, IsForest
    <2> QED  BY <1>1, <2>1, ParentsFirst
<1>3. CASE n.parent = 0
    BY <1>1, <1>3 DEF Found, Ls
<1>4. CASE n.parent = RootIno
    <2>1. Len(path) = 1 /\ path # <<>>
        BY <1>1, <1>4 DEF Found
    <2> QED  BY <1>1, <2>1 DEF Ls
<1>5. CASE n.parent > RootIno
    <2>1. Len(path) >= 2 /\ LsPath(path).found
        BY <1>1, <1>5 DEF Found
    <2>2. path \in Seq({inodes[j].name : j \in 1 .. Len(inodes)})
        BY <1>1 DEF Found
    <2>3. path # <<>> /\ Len(path) # 1
        <3>1. Len(path) \in Nat /\ Len(<<>>) = 0
            BY <2>2
        <3>2. Len(path) # 1 /\ Len(path) # 0
            <4>1. PICK q \in Nat : q = Len(path)
                BY <3>1
            <4>2. q >= 2
                BY <2>1, <4>1
            <4>3. q # 1 /\ q # 0
                BY <4>2
            <4> QED  BY <4>1, <4>3
        <3> QED  BY <3>1, <3>2
    <2> QED  BY <1>1, <2>1, <2>3 DEF Ls
<1> QED  BY <1>2, <1>3, <1>4, <1>5 DEF RootIno

\* A row is a sequence.
LEMMA RowIs ==
    ASSUME NEW n \in Nat, NEW s, IsRow(s, n) PROVE (\E R : s \in Seq(R)) /\ Len(s) = n
<1>1. \A k \in 1 .. n : s[k] \in {s[j] : j \in 1 .. n}
    OBVIOUS
<1>2. PICK R : \A k \in 1 .. n : s[k] \in R
    BY <1>1
<1>3. s \in Seq(R) /\ Len(s) = n
    BY <1>2 DEF IsRow
<1> QED  BY <1>3

\* A sequence is a row.
LEMMA IsARow ==
    ASSUME NEW R, NEW s \in Seq(R) PROVE IsRow(s, Len(s))
BY DEF IsRow

\* All of a sequence.
LEMMA Whole ==
    ASSUME NEW R, NEW s \in Seq(R) PROVE SubSeq(s, 1, Len(s)) = s
OBVIOUS

\* The first g of a row.
LEMMA FirstOf ==
    ASSUME NEW n \in Nat, NEW s, IsRow(s, n), NEW g \in Nat, g <= n
    PROVE  SubSeq(s, 1, g) = [k \in 1 .. g |-> s[k]]
<1>1. PICK R : s \in Seq(R) /\ Len(s) = n
    BY RowIs
<1> QED  BY <1>1

\* What is listed so far, after the dots, begins the names.
Got(tab, l, dots) ==
    SubSeq([k \in DOMAIN l.seen |-> tab[l.seen[k]].name], dots + 1, Len(l.seen))

Begins(got, names, end) ==
    /\ IsPrefix(got, names) /\ (end => got = names)
    /\ Len(got) \in Nat /\ got = [k \in 1 .. Len(got) |-> names[k]] /\ Len(got) <= Len(names)

\* A lister has seen the first of the names.
LEMMA SoFar ==
    ASSUME NEW tab, NEW kd, NEW l, Len(tab) \in Nat, Lists(tab, kd, l),
           NEW dots \in Nat, dots = DotLen(tab, l.ino),
           NEW names, names = Listed(tab, kd, l.ino), Len(names) \in Nat, IsRow(names, Len(names)),
           NEW got, got = Got(tab, l, dots)
    PROVE  Begins(got, names, l.end)
<1>1. PICK seen : seen = l.seen /\ seen \in Seq(1 .. Len(tab))
    BY DEF Lists
<1>2. PICK o \in Nat : o = Len(seen) /\ DOMAIN seen = 1 .. o
    BY <1>1
<1>3. PICK m \in Nat : m = Len(names) /\ names = [k \in 1 .. m |-> names[k]]
    BY DEF IsRow
<1>4. /\ o <= dots + m /\ (l.end => o = dots + m)
      /\ \A k \in 1 .. o : k > dots => tab[seen[k]].name = names[k - dots]
    BY <1>1, <1>2, <1>3 DEF Lists
<1>5. PICK ns : ns = [k \in 1 .. o |-> tab[seen[k]].name] /\ got = SubSeq(ns, dots + 1, o)
    BY <1>1, <1>2 DEF Got
<1>6. PICK R : ns \in Seq(R) /\ Len(ns) = o
    <2>1. IsRow(ns, o)
        BY <1>5 DEF IsRow
    <2> QED  BY <2>1, RowIs
<1>7. PICK g \in Nat : g = (IF dots <= o THEN o - dots ELSE 0) /\ g <= m
    <2>1. (IF dots <= o THEN o - dots ELSE 0) \in Nat /\ (IF dots <= o THEN o - dots ELSE 0) <= m
        BY <1>4
    <2> QED  BY <2>1
<1>8. got \in Seq(R) /\ Len(got) = g /\ \A k \in 1 .. g : got[k] = names[k]
    <2>1. CASE dots <= o
        <3>1. /\ got \in Seq(R) /\ Len(got) = o - dots
              /\ \A k \in 1 .. o - dots : got[k] = ns[dots + k]
            <4>1. ns \in Seq(R) /\ dots <= o /\ o <= Len(ns)
                BY <1>6, <2>1
            <4>2. PICK p : p = SubSeq(ns, dots + 1, o)
                OBVIOUS
            <4>3. IsPart(R, ns, dots, o, p)
                BY <4>1, <4>2, PartIs
            <4> QED  BY <1>5, <4>2, <4>3 DEF IsPart
        <3>2. g = o - dots
            BY <1>7, <2>1
        <3>3. ASSUME NEW k \in 1 .. g PROVE got[k] = names[k]
            <4>1. PICK j \in 1 .. o : j = dots + k /\ j > dots /\ j - dots = k
                <5>1. dots + k \in 1 .. o /\ dots + k > dots /\ (dots + k) - dots = k
                    BY <2>1, <3>2
                <5> QED  BY <5>1
            <4>2. got[k] = ns[j] /\ ns[j] = tab[seen[j]].name
                BY <1>5, <3>1, <3>2, <4>1
            <4>3. tab[seen[j]].name = names[k]
                BY <1>4, <4>1
            <4> QED  BY <4>2, <4>3
        <3> QED  BY <3>1, <3>2, <3>3
    <2>2. CASE ~(dots <= o)
        <3>1. o < dots + 1 /\ o \in Int /\ dots + 1 \in Int /\ g = 0
            BY <1>7, <2>2
        <3>2. got = <<>>
            BY <1>5, <3>1, SubSeqEmpty
        <3>3. <<>> \in Seq(R) /\ Len(<<>>) = 0 /\ 1 .. 0 = {}
            OBVIOUS
        <3>4. got \in Seq(R) /\ Len(got) = g
            BY <3>1, <3>2, <3>3
        <3>5. \A k \in 1 .. g : got[k] = names[k]
            BY <3>1, <3>3
        <3> QED  BY <3>4, <3>5
    <2> QED  BY <2>1, <2>2
<1>9. got = [k \in 1 .. g |-> names[k]]
    <2>1. IsRow(got, g)
        BY <1>8, IsARow
    <2>2. got = [k \in 1 .. g |-> got[k]]
        BY <2>1 DEF IsRow
    <2> QED  BY <1>8, <2>2
<1>10. l.end => got = names
    <2> SUFFICES ASSUME l.end PROVE got = names
        OBVIOUS
    <2>1. g = m
        BY <1>4, <1>7
    <2> QED  BY <1>3, <1>9, <2>1
<1>11. IsPrefix(got, names)
    <2>1. SubSeq(got, 1, Len(got)) = got
        BY <1>8, Whole
    <2>2. SubSeq(names, 1, g) = [k \in 1 .. g |-> names[k]]
        <3>1. IsRow(names, m)
            BY <1>3 DEF IsRow
        <3> QED  BY <1>7, <3>1, FirstOf
    <2>3. SubSeq(names, 1, Len(got)) = got /\ Len(got) <= Len(names)
        BY <1>3, <1>7, <1>8, <1>9, <2>2
    <2> QED  BY <2>1, <2>3 DEF IsPrefix
<1> QED  BY <1>3, <1>7, <1>8, <1>9, <1>10, <1>11 DEF Begins

\* The root lists each family once, and in the end all of them.
LEMMA RootLists ==
    ASSUME IsTable(inodes), Trees(inodes, kids), HasFamilies(inodes),
           NEW names, names = Listed(inodes, kids, RootIno)
    PROVE  /\ IsInjective(names)
           /\ ToSet(names) = Families \ {HiddenFamily}
<1>1. PICK ks : ks = KidsOf([inodes |-> inodes, kids |-> kids], RootIno)
    OBVIOUS
<1>2. ks \in Seq(1 .. Len(inodes)) /\ Len(inodes) \in Nat
    BY <1>1, RootIs DEF Trees
<1>3. names = [k \in DOMAIN ks |-> inodes[ks[k]].name]
    BY <1>1 DEF Listed, Shows
<1>4. ASSUME NEW k \in DOMAIN ks
      PROVE  RootIno \in DOMAIN kids /\ ks = kids[RootIno]
    <2>1. CASE RootIno \in DOMAIN kids
        BY <1>1, <2>1 DEF KidsOf
    <2>2. CASE RootIno \notin DOMAIN kids
        <3>1. ks = <<>> /\ DOMAIN <<>> = {}
            BY <1>1, <2>2 DEF KidsOf
        <3>2. DOMAIN ks = {}
            BY <3>1, Zenon
        <3> QED  BY <3>2
    <2> QED  BY <2>1, <2>2
<1>5. IsInjective(names)
    <2> SUFFICES ASSUME NEW j \in DOMAIN ks, NEW k \in DOMAIN ks, names[j] = names[k] PROVE j = k
        BY <1>3 DEF IsInjective
    <2>1. inodes[ks[j]].name = inodes[ks[k]].name
        BY <1>3
    <2>2. RootIno \in DOMAIN kids /\ ks = kids[RootIno]
        BY <1>4
    <2> QED  BY <2>1, <2>2 DEF Trees, IsRoot
<1>6. ASSUME NEW k \in DOMAIN ks PROVE names[k] \in Families \ {HiddenFamily}
    <2>1. PICK i \in 1 .. Len(inodes) : i = ks[k]
        BY <1>2
    <2>2. RootIno \in DOMAIN kids /\ ks = kids[RootIno]
        BY <1>4
    <2>3. inodes[i].parent = RootIno
        BY <2>1, <2>2 DEF Trees, IsRoot
    <2>4. Placed(inodes, i)
        BY DEF Trees, IsForest
    <2>5. inodes[i].name \in Families \ {HiddenFamily}
        BY <1>2, <2>3, <2>4 DEF Placed, RootIno
    <2> QED  BY <1>3, <2>1, <2>5
<1>7. ASSUME NEW fam \in Families \ {HiddenFamily} PROVE \E k \in DOMAIN ks : names[k] = fam
    <2>1. PICK i \in 1 .. Len(inodes) : inodes[i].parent = RootIno /\ inodes[i].name = fam
        BY DEF HasFamilies
    <2>2. RootIno \in DOMAIN kids /\ \E k \in DOMAIN kids[RootIno] : kids[RootIno][k] = i
        BY <2>1 DEF Trees, IsRoot
    <2>3. ks = kids[RootIno]
        BY <1>1, <2>2 DEF KidsOf
    <2> QED  BY <1>3, <2>1, <2>2, <2>3
<1>8. ToSet(names) = Families \ {HiddenFamily}
    <2>1. DOMAIN names = DOMAIN ks
        BY <1>3
    <2> QED  BY <1>6, <1>7, <2>1 DEF ToSet
<1> QED  BY <1>5, <1>8

\* The listing of the lister is what ls lists.
LEMMA Agrees ==
    ASSUME VfsInvariant, ListerInv, TreesInv, ListingInv PROVE ListsWhatLsLists
<1>0. IsTable(inodes) /\ Trees(inodes, kids) /\ IsForest(inodes) /\ Len(inodes) \in Nat
    BY DEF VfsInvariant, TreesInv, Trees
<1>1. \A i \in 1 .. Len(inodes) : Found(inodes, PathOf, i)
    <2>1. Paths(inodes, PathOf, Len(inodes))
        BY <1>0, PathOfIs
    <2> QED  BY <1>0, <2>1, LsFinds
<1>2. DOMAIN inodes = 1 .. Len(inodes)
    BY <1>0 DEF IsTable
<1>3. \A ino \in DOMAIN inodes : Ls(PathOf[ino]).found
    BY <1>0, <1>1, <1>2, LsFound
<1>4. PICK ino \in 0 .. Len(inodes) : ino = lister.ino
    BY DEF ListerInv
<1>5. PICK path : path = PathOf[ino]
    OBVIOUS
<1>6. PICK got : got = SubSeq([k \in DOMAIN lister.seen |-> inodes[lister.seen[k]].name],
                              Len(Dots(ino)) + 1,
                              Len([k \in DOMAIN lister.seen |-> inodes[lister.seen[k]].name]))
    OBVIOUS
<1>7. ASSUME ino # 0
      PROVE  \E names : /\ names = Listed(inodes, kids, ino)
                        /\ IsPrefix(got, names) /\ (lister.end => got = names)
                        /\ Len(got) \in Nat /\ Len(got) <= Len(names) /\ Len(names) \in Nat
                        /\ got = [k \in 1 .. Len(got) |-> names[k]]
                        /\ IsRow(names, Len(names))
    <2>1. Lists(inodes, kids, lister)
        BY <1>4, <1>7 DEF ListingInv
    <2>2. PICK dots \in Nat : dots = DotLen(inodes, ino) /\ dots = Len(Dots(ino))
        BY DEF DotLen, Dots
    <2>3. PICK names : names = Listed(inodes, kids, ino)
        OBVIOUS
    <2>4. IsRow(names, Len(names)) /\ Len(names) \in Nat
        <3>1. ino \in 1 .. Len(inodes) /\ inodes[ino].kind \in {"parent", "dir"}
            BY <1>4, <2>1 DEF Lists
        <3> QED  BY <1>0, <2>3, <3>1, ListedIs
    <2>5. Len([k \in DOMAIN lister.seen |-> inodes[lister.seen[k]].name]) = Len(lister.seen)
        <3>1. PICK seen : seen = lister.seen /\ seen \in Seq(1 .. Len(inodes))
            BY <2>1 DEF Lists
        <3>2. PICK n \in Nat : n = Len(seen) /\ DOMAIN seen = 1 .. n
            BY <3>1
        <3>3. PICK s : s = [k \in 1 .. n |-> inodes[seen[k]].name]
            OBVIOUS
        <3>4. IsRow(s, n)
            BY <3>3 DEF IsRow
        <3>5. Len(s) = n
            BY <3>4, RowIs
        <3> QED  BY <3>1, <3>2, <3>3, <3>5
    <2>6. got = Got(inodes, lister, dots)
        BY <1>6, <2>2, <2>5 DEF Got
    <2>7. Begins(got, names, lister.end)
        <3>1. dots = DotLen(inodes, lister.ino) /\ names = Listed(inodes, kids, lister.ino)
            BY <1>4, <2>2, <2>3
        <3> QED  BY <1>0, <2>1, <2>4, <2>6, <3>1, SoFar
    <2> QED  BY <2>3, <2>4, <2>7 DEF Begins
<1>8. ASSUME ino = RootIno
      PROVE  /\ IsInjective(got)
             /\ lister.end => ToSet(got) = {s.family : s \in ToSet(Ls(path).list)} \ {HiddenFamily}
    <2>1. ino # 0
        BY <1>8 DEF RootIno
    <2>2. PICK names : /\ names = Listed(inodes, kids, ino) /\ (lister.end => got = names)
                       /\ Len(got) \in Nat /\ Len(got) <= Len(names) /\ Len(names) \in Nat
                       /\ got = [k \in 1 .. Len(got) |-> names[k]]
                       /\ IsRow(names, Len(names))
        BY <1>7, <2>1
    <2>3. HasFamilies(inodes)
        BY <1>4, <2>1 DEF ListingInv, TreesInv, FamiliesInv
    <2>4. IsInjective(names) /\ ToSet(names) = Families \ {HiddenFamily}
        BY <1>0, <1>8, <2>2, <2>3, RootLists
    <2>5. IsInjective(got)
        <3>1. DOMAIN names = 1 .. Len(names) /\ 1 .. Len(got) \subseteq 1 .. Len(names)
            BY <2>2 DEF IsRow
        <3>2. DOMAIN got = 1 .. Len(got) /\ \A k \in 1 .. Len(got) : got[k] = names[k]
            BY <2>2
        <3> QED  BY <2>4, <3>1, <3>2 DEF IsInjective
    <2>6. Ls(path).list = Snapshots
        <3>1. inodes[1].parent = 0 /\ 1 \in 1 .. Len(inodes)
            <4>1. 1 \in 1 .. Len(inodes)
                BY <1>0 DEF Trees
            <4>2. Placed(inodes, 1)
                BY <1>0, <4>1 DEF IsForest
            <4> QED  BY <4>1, <4>2 DEF Placed, RootIno
        <3>2. path = <<>>
            BY <1>1, <1>5, <1>8, <3>1 DEF Found, RootIno
        <3> QED  BY <3>2 DEF Ls
    <2>7. {s.family : s \in ToSet(Snapshots)} = Families
        BY DEF Families
    <2> QED  BY <2>2, <2>4, <2>5, <2>6, <2>7
<1>9. ASSUME ino > RootIno
      PROVE  IsPrefix(got, Visible(path)) /\ (lister.end => got = Visible(path))
    <2>1. ino # 0 /\ ino # RootIno /\ ino \in 2 .. Len(inodes) /\ ino \in 1 .. Len(inodes)
        BY <1>4, <1>9 DEF RootIno
    <2>2. PICK names : /\ names = Listed(inodes, kids, ino)
                       /\ IsPrefix(got, names) /\ (lister.end => got = names)
        BY <1>7, <2>1
    <2>3. IsDir(ino)
        BY <1>4, <2>1 DEF ListingInv, Lists, IsDir
    <2>4. Visible(path) = Entries(inodes[ino])
        BY <1>0, <1>1, <1>5, <2>1, <2>3, VisibleIs
    <2> QED  BY <2>1, <2>2, <2>4 DEF Listed
<1> QED  BY <1>3, <1>4, <1>5, <1>6, <1>8, <1>9, Zenon DEF ListsWhatLsLists

\* Every mounted directory has its entries once and in their order, and a lister
\* has seen the first of them (Fuse::childs, add_file, readdir).
THEOREM TreesFitTogether == VfsSpec => [](TreesInv /\ ListingInv)
<1>1. VfsInit => TreesInv /\ ListingInv
    BY TreesInitial
<1>2. (VfsInvariant /\ ListerInv) /\ (TreesInv /\ ListingInv) /\ [VfsNext]_vars
          => (TreesInv /\ ListingInv)'
    BY TreesStep, ListingStep
<1> QED  BY <1>1, <1>2, VfsInvariantHolds, PTL DEF VfsSpec

\* What a process lists of a mounted directory, over any number of replies and
\* with any requests in between, is what Filesystem::ls lists of its path, for
\* any snapshots and directories of any depth, and ls finds every inode.
THEOREM ListingsAgree == VfsSpec => []ListsWhatLsLists
<1>1. (VfsInvariant /\ ListerInv) /\ (TreesInv /\ ListingInv) => ListsWhatLsLists
    BY Agrees
<1> QED  BY <1>1, VfsInvariantHolds, TreesFitTogether, PTL
=============================================================================
