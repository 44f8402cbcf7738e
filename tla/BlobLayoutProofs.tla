-------------------------- MODULE BlobLayoutProofs --------------------------
(***************************************************************************)
(* Proofs about BlobLayout for every size of blobs, chunks, references and *)
(* keys under which one chunk fits into a blob.                            *)
(***************************************************************************)
EXTENDS BlobLayout, TLAPS

-----------------------------------------------------------------------------
\* The two bytes of a length give it back: try_append asserts that it is small
\* enough for them.
LEMMA DigitsGiveLength ==
    ASSUME NEW h \in HrefLen
    PROVE  /\ h % Radix \in Nat /\ (h \div Radix) % Radix \in Nat
           /\ (h % Radix) + Radix * ((h \div Radix) % Radix) = h
<1>1. h \in Nat /\ Radix \in Nat /\ Radix > 1 /\ h < Radix * Radix
    BY LayoutAssumption
<1> DEFINE q == h \div Radix
<1>2. q \in Nat /\ h % Radix \in Nat /\ h = Radix * q + (h % Radix)
    BY <1>1
<1>3. q < Radix
    <2> HIDE DEF q
    <2> SUFFICES ASSUME q >= Radix PROVE FALSE
        BY <1>1, <1>2
    <2>1. PICK d \in Nat : q = Radix + d
        BY <1>1, <1>2
    <2>2. Radix * q = Radix * Radix + Radix * d /\ Radix * d >= 0
        BY <2>1, <1>1
    <2> QED  BY <2>2, <1>1, <1>2
<1>4. q % Radix = q
    BY <1>1, <1>2, <1>3
<1>5. (h % Radix) + Radix * q = h
    <2> HIDE DEF q
    <2> QED  BY <1>1, <1>2
<1> QED  BY <1>2, <1>4, <1>5

-----------------------------------------------------------------------------
\* Appending an entry at the end of the chunks and of the footer keeps the
\* chain.
LEMMA AppendKeepsChain ==
    ASSUME NEW es \in Seq(EntryType), NEW c \in Nat, NEW f \in Nat, NEW k \in Nat,
           Chained(es, c, f, k),
           NEW e \in EntryType,
           e.offset = c, e.at = f, e.key = k,
           e.lo + Radix * e.hi = e.size
    PROVE  Chained(Append(es, e), c + e.length, f + 2 + e.size, k)
<1> DEFINE new == Append(es, e)
           n == Len(es)
<1>1. /\ n \in Nat /\ Len(new) = n + 1 /\ new # <<>>
      /\ new[n + 1] = e
      /\ \A i \in 1 .. n : new[i] = es[i] /\ es[i] \in EntryType
    OBVIOUS
<1>2. /\ e.length \in Nat /\ e.size \in Nat /\ e.at \in Nat /\ e.offset \in Nat
      /\ \A i \in 1 .. n : /\ es[i].at \in Nat /\ es[i].size \in Nat
                           /\ es[i].offset \in Nat /\ es[i].length \in Nat
    BY <1>1 DEF EntryType
<1>3. new[1].at = 0
    <2>1. CASE n = 0
        BY <2>1, <1>1 DEF Chained
    <2>2. CASE n > 0
        BY <2>2, <1>1 DEF Chained
    <2> QED  BY <2>1, <2>2, <1>1
<1>4. Apart(new)
    <2> SUFFICES ASSUME NEW i \in 1 .. n + 1, NEW j \in 1 .. n + 1, i < j
                 PROVE  new[i].offset + new[i].length <= new[j].offset
        BY <1>1 DEF Apart
    <2>1. i \in 1 .. n
        BY <1>1
    <2>2. CASE j = n + 1
        BY <2>1, <2>2, <1>1 DEF Chained
    <2>3. CASE j \in 1 .. n
        BY <2>1, <2>3, <1>1 DEF Chained, Apart
    <2> QED  BY <2>2, <2>3, <1>1
<1>5. ASSUME NEW i \in 1 .. n + 1
      PROVE  /\ new[i].key = k
             /\ new[i].offset + new[i].length <= c + e.length
             /\ new[i].lo + Radix * new[i].hi = new[i].size
             /\ new[i].at + 2 + new[i].size
                  = IF i = n + 1 THEN f + 2 + e.size ELSE new[i + 1].at
             /\ new[i].at < f + 2 + e.size
             /\ \A j \in 1 .. n + 1 : i < j => new[i].at < new[j].at
    <2>1. CASE i = n + 1
        BY <2>1, <1>1, <1>2
    <2>2. CASE i \in 1 .. n
        <3>1. /\ new[i] = es[i] /\ i # n + 1
              /\ es[i].key = k /\ es[i].offset + es[i].length <= c
              /\ es[i].lo + Radix * es[i].hi = es[i].size
              /\ es[i].at + 2 + es[i].size = IF i = n THEN f ELSE es[i + 1].at
              /\ es[i].at < f
              /\ \A j \in 1 .. n : i < j => es[i].at < es[j].at
            BY <2>2, <1>1 DEF Chained
        <3>2. new[i].at + 2 + new[i].size = new[i + 1].at
            <4>1. CASE i = n
                BY <4>1, <3>1, <1>1
            <4>2. CASE i # n
                BY <4>2, <3>1, <1>1, <2>2
            <4> QED  BY <4>1, <4>2
        <3>3. \A j \in 1 .. n + 1 : i < j => new[i].at < new[j].at
            BY <3>1, <1>1
        <3>4. /\ new[i].offset + new[i].length <= c + e.length
              /\ new[i].at < f + 2 + e.size
            <4> HIDE DEF new, n
            <4>1. /\ es[i].at \in Nat /\ es[i].offset \in Nat /\ es[i].length \in Nat
                  /\ e.length \in Nat /\ e.size \in Nat
                BY <1>2, <2>2
            <4>2. es[i].offset + es[i].length <= c /\ es[i].at < f
                BY <3>1
            <4>3. es[i].offset + es[i].length <= c + e.length
                BY <4>1, <4>2
            <4>4. es[i].at < f + 2 + e.size
                BY <4>1, <4>2
            <4> QED  BY <4>3, <4>4, <3>1
        <3> QED  BY <3>1, <3>2, <3>3, <3>4
    <2> QED  BY <2>1, <2>2, <1>1
<1> QED  BY <1>1, <1>3, <1>4, <1>5 DEF Chained

-----------------------------------------------------------------------------
\* The invariant holds at first.
LEMMA LayoutInitInv == LayoutInit => LayoutInv
<1> SUFFICES ASSUME LayoutInit PROVE LayoutInv
    OBVIOUS
<1>1. entries = <<>> /\ blobs = <<>> /\ Len(entries) = 0 /\ Len(blobs) = 0
    BY DEF LayoutInit
<1>2. LayoutTypeOK
    BY <1>1 DEF LayoutInit, LayoutTypeOK, NoReader
<1>3. Chained(entries, chunks, footer, key)
    BY <1>1 DEF LayoutInit, Chained, Apart
<1>4. BlobIsExact /\ FitsWhenSealed /\ RefsInStep
    BY <1>1 DEF LayoutInit, BlobIsExact, FitsWhenSealed, RefsInStep, NoReader
<1> QED  BY <1>1, <1>2, <1>3, <1>4 DEF LayoutInv

\* A chunk that fits by the estimate fits: both tries of StoreInner::store.
LEMMA Append1Keeps ==
    ASSUME LayoutInv, NEW c \in ChunkLen, NEW h \in HrefLen,
           Fits(c, h), Append1(c, h), retry' \in ChunkLen \cup {0},
           UNCHANGED <<key, blobs, reader>>
    PROVE  LayoutInv'
<1> USE DEF LayoutInv
<1>1. /\ c \in Nat /\ c > 0 /\ h \in Nat /\ Mac \in Nat /\ Mac > 0
      /\ MaxLen \in Nat /\ Overhead \in Nat
      /\ c + Mac + h + 2 + Overhead <= MaxLen
    BY LayoutAssumption DEF Overhead, symmetric_seal_bytes
<1>2. /\ chunks \in Nat /\ footer \in Nat /\ key \in Nat /\ entries \in Seq(EntryType)
    BY DEF LayoutTypeOK
<1>3. /\ chunks' = chunks + c + Mac /\ footer' = footer + 2 + h
      /\ entries' = Append(entries, Entry(c, h))
      /\ key' = key /\ blobs' = blobs /\ reader' = reader
    BY DEF Append1
<1>4. /\ Entry(c, h) \in EntryType
      /\ Entry(c, h).offset = chunks /\ Entry(c, h).at = footer /\ Entry(c, h).key = key
      /\ Entry(c, h).length = c + Mac /\ Entry(c, h).size = h
      /\ Entry(c, h).lo + Radix * Entry(c, h).hi = Entry(c, h).size
    BY <1>1, <1>2, DigitsGiveLength DEF Entry, EntryType
<1>5. Chained(entries, chunks, footer, key)'
    <2>1. Chained(Append(entries, Entry(c, h)), chunks + Entry(c, h).length,
                  footer + 2 + Entry(c, h).size, key)
        BY <1>2, <1>4, AppendKeepsChain
    <2>2. chunks' = chunks + (c + Mac)
        BY <1>1, <1>2, <1>3
    <2> QED  BY <2>1, <2>2, <1>3, <1>4
<1>6. FitsWhenSealed'
    <2>1. CASE chunks = 0
        <3>1. footer = 0
            BY <2>1 DEF LayoutTypeOK, Chained
        <3> QED  BY <2>1, <3>1, <1>1, <1>3 DEF FitsWhenSealed, Overhead
    <2>2. CASE chunks > 0
        <3>1. chunks + footer + Overhead + 1 + h + c + Mac < MaxLen
            BY <2>2, <1>2 DEF Fits, upperbound_len
        <3> QED  BY <3>1, <1>1, <1>2, <1>3 DEF FitsWhenSealed, Overhead
    <2> QED  BY <2>1, <2>2, <1>2
<1>7. LayoutTypeOK'
    <2>1. entries' \in Seq(EntryType) /\ entries' # <<>>
        BY <1>2, <1>3, <1>4
    <2>2. chunks' \in Nat /\ footer' \in Nat /\ chunks' # 0
        BY <1>1, <1>2, <1>3
    <2> QED  BY <2>1, <2>2, <1>3 DEF LayoutTypeOK
<1>8. /\ \A n \in 1 .. Len(blobs') :
            /\ Chained(blobs'[n].entries, blobs'[n].chunks, blobs'[n].footer, blobs'[n].key)
            /\ blobs'[n].entries # <<>>
      /\ BlobIsExact' /\ RefsInStep'
    BY <1>3 DEF BlobIsExact, RefsInStep, FooterStart, Rest
<1> QED  BY <1>5, <1>6, <1>7, <1>8

-----------------------------------------------------------------------------
\* Sealing: what fits by FitsWhenSealed fills the blob to the byte, and the
\* sealed blob takes the chain with it.
LEMMA ToCiphertextKeeps ==
    ASSUME LayoutInv, ToCiphertext
    PROVE  LayoutInv'
<1> DEFINE b == [len |-> FooterAt + footer + Overhead, at |-> FooterAt,
                 chunks |-> chunks, footer |-> footer, key |-> key,
                 entries |-> entries]
           n == Len(blobs)
<1>1. /\ MaxLen \in Nat /\ Mac \in Nat /\ Nonce \in Nat /\ Access \in Nat /\ Digest \in Nat
      /\ Overhead \in Nat /\ Overhead = Mac + Nonce + Access + Digest
    BY LayoutAssumption DEF Overhead, symmetric_seal_bytes
<1>2. /\ chunks \in Nat /\ footer \in Nat /\ key \in Nat /\ chunks > 0
      /\ entries \in Seq(EntryType) /\ entries # <<>>
      /\ blobs \in Seq(BlobType) /\ n \in Nat
      /\ chunks + footer + Overhead <= MaxLen
      /\ Chained(entries, chunks, footer, key)
    BY DEF LayoutInv, LayoutTypeOK, FitsWhenSealed, ToCiphertext
<1>3. FooterAt = MaxLen - (footer + Overhead) /\ FooterAt \in Nat /\ chunks <= FooterAt
    BY <1>1, <1>2 DEF FooterAt, Bigger
<1>4. b \in BlobType /\ b.len = MaxLen /\ FooterStart(b) = b.at /\ b.chunks <= b.at
    <2>1. b \in BlobType /\ b.chunks <= b.at
        BY <1>1, <1>2, <1>3 DEF BlobType
    <2>2. b.len = MaxLen /\ b.at = MaxLen - (footer + Overhead) /\ b.footer = footer
        BY <1>1, <1>2, <1>3
    <2>3. FooterStart(b) = b.at
        <3> HIDE DEF b
        <3> QED  BY <1>1, <1>2, <2>2 DEF FooterStart, Rest, symmetric_seal_bytes
    <2> QED  BY <2>1, <2>2, <2>3
<1>5. /\ blobs' = Append(blobs, b) /\ chunks' = 0 /\ footer' = 0 /\ entries' = <<>>
      /\ key' = key + 1 /\ retry' = retry /\ reader' = reader
    BY DEF ToCiphertext
<1> HIDE DEF b
<1>6. /\ blobs' \in Seq(BlobType) /\ Len(blobs') = n + 1
      /\ blobs'[n + 1] = b
      /\ \A i \in 1 .. n : blobs'[i] = blobs[i]
    BY <1>2, <1>4, <1>5
<1>7. reader \in [blob : 0 .. n, pos : Nat, found : Nat]
    BY DEF LayoutInv, LayoutTypeOK
<1>8. LayoutTypeOK'
    <2>1. reader' \in [blob : 0 .. Len(blobs'), pos : Nat, found : Nat]
        BY <1>2, <1>5, <1>6, <1>7
    <2>2. retry' \in ChunkLen \cup {0}
        BY <1>5 DEF LayoutInv, LayoutTypeOK
    <2> QED  BY <2>1, <2>2, <1>2, <1>5, <1>6 DEF LayoutTypeOK
<1>9. FitsWhenSealed' /\ Chained(entries, chunks, footer, key)'
    <2>1. Len(entries') = 0
        BY <1>5
    <2> QED  BY <2>1, <1>5 DEF FitsWhenSealed, Chained, Apart
<1>10. ASSUME NEW i \in 1 .. Len(blobs')
       PROVE  /\ Chained(blobs'[i].entries, blobs'[i].chunks, blobs'[i].footer, blobs'[i].key)
              /\ blobs'[i].entries # <<>>
              /\ blobs'[i].len = MaxLen
              /\ FooterStart(blobs'[i]) = blobs'[i].at
              /\ blobs'[i].chunks <= blobs'[i].at
    <2>1. CASE i = n + 1
        <3>1. /\ b.entries = entries /\ b.chunks = chunks
              /\ b.footer = footer /\ b.key = key
            BY DEF b
        <3> QED  BY <2>1, <3>1, <1>2, <1>4, <1>6
    <2>2. CASE i \in 1 .. n
        BY <2>2, <1>6 DEF LayoutInv, BlobIsExact
    <2> QED  BY <2>1, <2>2, <1>2, <1>6
<1>11. BlobIsExact'
    BY <1>10 DEF BlobIsExact, FooterStart, Rest
<1>12. RefsInStep'
    <2> SUFFICES ASSUME reader.blob # 0 PROVE RefsInStep'
        BY <1>5 DEF RefsInStep
    <2>1. reader.blob \in 1 .. n
        BY <1>2, <1>7
    <2>2. blobs'[reader.blob] = blobs[reader.blob]
        BY <2>1, <1>6
    <2> QED  BY <2>2, <1>5 DEF LayoutInv, RefsInStep
<1> QED  BY <1>8, <1>9, <1>10, <1>11, <1>12 DEF LayoutInv

-----------------------------------------------------------------------------
\* A step of the reader leaves the writer and the blobs alone.
LEMMA ReaderKeeps ==
    ASSUME LayoutInv, UNCHANGED <<chunks, footer, entries, key, retry, blobs>>,
           reader' \in [blob : 0 .. Len(blobs), pos : Nat, found : Nat],
           RefsInStep'
    PROVE  LayoutInv'
<1>1. LayoutTypeOK'
    BY DEF LayoutInv, LayoutTypeOK
<1>2. FitsWhenSealed' /\ BlobIsExact'
    BY DEF LayoutInv, FitsWhenSealed, BlobIsExact, FooterStart, Rest
<1>3. /\ Chained(entries, chunks, footer, key)'
      /\ \A n \in 1 .. Len(blobs') :
            /\ Chained(blobs'[n].entries, blobs'[n].chunks, blobs'[n].footer, blobs'[n].key)
            /\ blobs'[n].entries # <<>>
    BY DEF LayoutInv
<1> QED  BY <1>1, <1>2, <1>3 DEF LayoutInv

\* The reader starts at the first entry.
LEMMA ReadRefsKeeps ==
    ASSUME LayoutInv, NEW n \in 1 .. MaxBlobs, ReadRefs(n)
    PROVE  LayoutInv'
<1>1. /\ n \in 1 .. Len(blobs) /\ reader' = [blob |-> n, pos |-> 0, found |-> 0]
      /\ UNCHANGED <<chunks, footer, entries, key, retry, blobs>>
    BY DEF ReadRefs
<1>2. /\ blobs \in Seq(BlobType) /\ blobs[n] \in BlobType
      /\ Len(blobs[n].entries) \in Nat /\ blobs[n].entries # <<>>
      /\ Chained(blobs[n].entries, blobs[n].chunks, blobs[n].footer, blobs[n].key)
    <2>1. blobs \in Seq(BlobType)
        BY DEF LayoutInv, LayoutTypeOK
    <2>2. blobs[n] \in BlobType
        BY <2>1, <1>1
    <2>3. blobs[n].entries \in Seq(EntryType)
        BY <2>2 DEF BlobType
    <2> QED  BY <2>1, <2>2, <2>3, <1>1 DEF LayoutInv
<1>3. Len(blobs[n].entries) # 0 /\ blobs[n].entries[1].at = 0
    BY <1>2 DEF Chained, BlobType
<1>4. RefsInStep'
    BY <1>1, <1>2, <1>3 DEF RefsInStep
<1>5. reader' \in [blob : 0 .. Len(blobs), pos : Nat, found : Nat]
    BY <1>1
<1> QED  BY <1>1, <1>4, <1>5, ReaderKeeps

\* A round of refs ends at the next entry: no other entry starts where the
\* reader is, and its two digits give its length.
LEMMA ReadRefKeeps ==
    ASSUME LayoutInv, ReadRef
    PROVE  LayoutInv'
<1> DEFINE b == blobs[reader.blob]
           es == b.entries
           m == Len(es)
           found == reader.found
<1>1. /\ reader \in [blob : 0 .. Len(blobs), pos : Nat, found : Nat]
      /\ blobs \in Seq(BlobType) /\ reader.blob # 0 /\ reader.pos < b.footer
    BY DEF LayoutInv, LayoutTypeOK, ReadRef
<1>2. reader.blob \in 1 .. Len(blobs) /\ found \in Nat /\ reader.pos \in Nat
    BY <1>1
<1>3. b \in BlobType /\ es \in Seq(EntryType) /\ m \in Nat
    <2>1. b \in BlobType
        BY <1>1, <1>2
    <2> HIDE DEF b
    <2>2. es \in Seq(EntryType)
        BY <2>1 DEF BlobType
    <2> QED  BY <2>1, <2>2
<1>4. Chained(es, b.chunks, b.footer, b.key)
    BY <1>2 DEF LayoutInv
<1>5. found <= m /\ reader.pos = IF found = m THEN b.footer ELSE es[found + 1].at
    BY <1>1 DEF LayoutInv, RefsInStep
<1>6. found + 1 \in 1 .. m /\ reader.pos = es[found + 1].at
    <2>1. found # m
        BY <1>1, <1>5, <1>3 DEF BlobType
    <2> QED  BY <2>1, <1>2, <1>3, <1>5
<1>7. PICK i \in 1 .. m :
          /\ es[i].at = reader.pos
          /\ reader' = [reader EXCEPT !.pos = @ + 2 + es[i].lo + Radix * es[i].hi,
                                      !.found = @ + 1]
    BY DEF ReadRef
<1>8. /\ es[i] \in EntryType
      /\ es[i].lo \in Nat /\ es[i].hi \in Nat /\ es[i].size \in Nat /\ es[i].at \in Nat
    <2> HIDE DEF es
    <2>1. es[i] \in EntryType
        BY <1>3
    <2> QED  BY <2>1 DEF EntryType
<1>9. i = found + 1
    <2> DEFINE j == found + 1
    <2>1. j \in 1 .. m /\ es[j].at = es[i].at
        BY <1>6, <1>7
    <2>2. /\ i < j => es[i].at < es[j].at
          /\ j < i => es[j].at < es[i].at
        BY <2>1, <1>4 DEF Chained
    <2>3. ~(i < j) /\ ~(j < i)
        BY <2>1, <2>2, <1>8
    <2> QED  BY <2>1, <2>3, <1>3
<1>10. /\ es[i].lo + Radix * es[i].hi = es[i].size
       /\ es[i].at + 2 + es[i].size = IF i = m THEN b.footer ELSE es[i + 1].at
    BY <1>4 DEF Chained
<1>11. /\ reader'.blob = reader.blob /\ reader'.found = i
       /\ reader'.pos = reader.pos + 2 + es[i].lo + Radix * es[i].hi
    BY <1>1, <1>7, <1>9
<1>12. reader'.pos = es[i].at + 2 + es[i].size
    <2> DEFINE p == Radix * es[i].hi
    <2>1. p \in Nat
        BY <1>8, LayoutAssumption
    <2>2. es[i].lo + p = es[i].size /\ reader'.pos = es[i].at + 2 + es[i].lo + p
        BY <1>7, <1>10, <1>11
    <2>3. es[i].lo \in Nat /\ es[i].at \in Nat
        BY <1>8
    <2> HIDE DEF p, es
    <2> QED  BY <2>1, <2>2, <2>3
<1>13. UNCHANGED <<chunks, footer, entries, key, retry, blobs>>
    BY DEF ReadRef
<1>14. RefsInStep'
    <2>1. /\ reader'.found <= m
          /\ reader'.pos = IF reader'.found = m THEN b.footer ELSE es[reader'.found + 1].at
        BY <1>3, <1>10, <1>11, <1>12
    <2>2. blobs'[reader'.blob] = b
        BY <1>11, <1>13
    <2> HIDE DEF b
    <2> QED  BY <2>1, <2>2 DEF RefsInStep
<1>15. reader' \in [blob : 0 .. Len(blobs), pos : Nat, found : Nat]
    <2>1. reader'.pos \in Nat
        <3>1. es[i].at \in Nat /\ es[i].size \in Nat
            BY <1>8
        <3> HIDE DEF es
        <3> QED  BY <3>1, <1>12
    <2> HIDE DEF b
    <2> DEFINE pos == reader.pos + 2 + es[i].lo + Radix * es[i].hi
    <2>2. reader' = [reader EXCEPT !.pos = pos, !.found = found + 1]
        BY <1>7, <1>1
    <2>3. pos \in Nat
        BY <2>1, <1>11
    <2>4. /\ reader \in [blob : 0 .. Len(blobs), pos : Nat, found : Nat]
          /\ found \in Nat /\ found + 1 \in Nat
        BY <1>1, <1>2
    <2> HIDE DEF pos
    <2> QED  BY <2>2, <2>3, <2>4
<1> QED  BY <1>13, <1>14, <1>15, ReaderKeeps

-----------------------------------------------------------------------------
\* Every step keeps the invariant.
LEMMA LayoutNextInv == LayoutInv /\ [LayoutNext]_vars => LayoutInv'
<1> SUFFICES ASSUME LayoutInv, [LayoutNext]_vars PROVE LayoutInv'
    OBVIOUS
<1>1. ASSUME NEW c \in ChunkLen, NEW h \in HrefLen, Store(c, h) PROVE LayoutInv'
    <2>1. retry' \in ChunkLen \cup {0}
        BY <1>1 DEF Store
    <2>2. Fits(c, h) /\ Append1(c, h) /\ UNCHANGED <<key, blobs, reader>>
        BY <1>1 DEF Store
    <2> QED  BY <2>1, <2>2, Append1Keeps
<1>2. ASSUME NEW c \in ChunkLen, NEW h \in HrefLen, StoreFull(c, h) PROVE LayoutInv'
    <2>1. /\ UNCHANGED <<chunks, footer, entries, key, blobs, reader>>
          /\ retry' \in ChunkLen
        BY <1>2 DEF StoreFull
    <2>2. LayoutTypeOK' /\ FitsWhenSealed'
        BY <2>1 DEF LayoutInv, LayoutTypeOK, FitsWhenSealed
    <2>3. BlobIsExact' /\ RefsInStep'
        BY <2>1 DEF LayoutInv, BlobIsExact, RefsInStep, FooterStart, Rest
    <2> QED  BY <2>1, <2>2, <2>3 DEF LayoutInv
<1>3. ASSUME NEW h \in HrefLen, StoreAgain(h) PROVE LayoutInv'
    <2>1. retry \in ChunkLen /\ retry' \in ChunkLen \cup {0}
        BY <1>3 DEF LayoutInv, LayoutTypeOK, StoreAgain
    <2>2. Fits(retry, h) /\ Append1(retry, h) /\ UNCHANGED <<key, blobs, reader>>
        BY <1>3 DEF StoreAgain
    <2> QED  BY <2>1, <2>2, Append1Keeps
<1>4. CASE ToCiphertext
    BY <1>4, ToCiphertextKeeps
<1>5. ASSUME NEW n \in 1 .. MaxBlobs, ReadRefs(n) PROVE LayoutInv'
    BY <1>5, ReadRefsKeeps
<1>6. CASE ReadRef
    BY <1>6, ReadRefKeeps
<1>7. CASE UNCHANGED vars
    <2>1. UNCHANGED <<chunks, footer, entries, key, retry, blobs>> /\ reader' = reader
        BY <1>7 DEF vars
    <2>2. reader' \in [blob : 0 .. Len(blobs), pos : Nat, found : Nat] /\ RefsInStep'
        BY <2>1 DEF LayoutInv, LayoutTypeOK, RefsInStep
    <2> QED  BY <2>1, <2>2, ReaderKeeps
<1> QED  BY <1>1, <1>2, <1>3, <1>4, <1>5, <1>6, <1>7 DEF LayoutNext

\* The slices follow from the chain: the chunks end before the footer, and
\* what is sealed with the footer is at least a mac long.
LEMMA InvMakesSlicesReadable == LayoutInv => SlicesAreReadable
<1> SUFFICES ASSUME LayoutInv, NEW n \in 1 .. Len(blobs)
             PROVE  /\ Apart(blobs[n].entries)
                    /\ \A i \in 1 .. Len(blobs[n].entries) :
                          LET e == blobs[n].entries[i]
                          IN  /\ e.offset + e.length <= blobs[n].chunks
                              /\ e.offset + e.length < Rest(blobs[n])
                              /\ e.key = blobs[n].key
    BY DEF SlicesAreReadable
<1> DEFINE b == blobs[n]
           es == b.entries
<1>1. b \in BlobType
    BY DEF LayoutInv, LayoutTypeOK
<1>2. /\ Chained(es, b.chunks, b.footer, b.key)
      /\ FooterStart(b) = b.at /\ b.chunks <= b.at
    BY DEF LayoutInv, BlobIsExact
<1> HIDE DEF b
<1>3. /\ b.len \in Int /\ b.at \in Int /\ b.chunks \in Nat /\ b.footer \in Nat
      /\ es \in Seq(EntryType)
    BY <1>1 DEF BlobType
<1>4. b.chunks < Rest(b) /\ Rest(b) \in Int
    BY <1>2, <1>3, LayoutAssumption DEF FooterStart, Rest, symmetric_seal_bytes
<1>5. ASSUME NEW i \in 1 .. Len(es)
      PROVE  /\ es[i].offset + es[i].length <= b.chunks
             /\ es[i].offset + es[i].length < Rest(b)
             /\ es[i].key = b.key
    <2>1. es[i].offset + es[i].length <= b.chunks /\ es[i].key = b.key
        BY <1>2 DEF Chained
    <2> HIDE DEF es
    <2>2. es[i] \in EntryType
        BY <1>3
    <2>3. es[i].offset \in Nat /\ es[i].length \in Nat
        BY <2>2 DEF EntryType
    <2> QED  BY <2>1, <2>3, <1>3, <1>4
<1>6. Apart(es)
    BY <1>2 DEF Chained
<1> QED  BY <1>5, <1>6 DEF b

-----------------------------------------------------------------------------
\* Whatever the sizes, the blob that is written and all that were keep the
\* chain of entries, chunks and footer.
THEOREM LayoutInvariant == LayoutSpec => []LayoutInv
<1>1. LayoutInit => LayoutInv
    BY LayoutInitInv
<1>2. LayoutInv /\ [LayoutNext]_vars => LayoutInv'
    BY LayoutNextInv
<1> QED  BY <1>1, <1>2, PTL DEF LayoutSpec

\* to_ciphertext's first assertion: the estimate of try_append suffices.
THEOREM EstimateSuffices == LayoutSpec => []FitsWhenSealed
<1>1. LayoutInv => FitsWhenSealed
    BY DEF LayoutInv
<1> QED  BY <1>1, LayoutInvariant, PTL

\* to_ciphertext fills a blob to the byte, and the footer is found from the
\* end of the blob.
THEOREM BlobsAreExact == LayoutSpec => []BlobIsExact
<1>1. LayoutInv => BlobIsExact
    BY DEF LayoutInv
<1> QED  BY <1>1, LayoutInvariant, PTL

\* Every reference of every blob can be unsealed: its slice is inside the
\* blob, its own, and sealed with the blob's key.
THEOREM SlicesReadable == LayoutSpec => []SlicesAreReadable
<1>1. LayoutInv => SlicesAreReadable
    BY InvMakesSlicesReadable
<1> QED  BY <1>1, LayoutInvariant, PTL

\* BlobReader::refs never loses step with the footer.
THEOREM RefsStayInStep == LayoutSpec => []RefsInStep
<1>1. LayoutInv => RefsInStep
    BY DEF LayoutInv
<1> QED  BY <1>1, LayoutInvariant, PTL

=============================================================================
