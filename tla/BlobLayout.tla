----------------------------- MODULE BlobLayout -----------------------------
(***************************************************************************)
(* The inside of a blob (src/blob/blob.rs, src/crypto/mod.rs): sealed      *)
(* chunks from the left, random padding, and from the right a digest, the  *)
(* sealed access key and the sealed footer with one reference per chunk.   *)
(* Only lengths, positions and which key sealed what are modelled.         *)
(*                                                                         *)
(*    | chunk | chunk | ... padding | footer, mac, nonce | access | digest |  *)
(*                                                                         *)
(* A blob must have exactly MaxLen bytes.  The writer decides with an      *)
(* estimate whether another chunk fits; the reader finds everything from   *)
(* the end of the blob and from the lengths in it.                         *)
(***************************************************************************)
EXTENDS Integers, Sequences

CONSTANTS
    MaxLen,     \* max_len: size of a blob
    ChunkLen,   \* lengths of chunks that are not empty
    HrefLen,    \* lengths of references, serialised
    Mac,        \* authed::desc::MACBYTES
    Nonce,      \* authed::desc::NONCEBYTES
    Access,     \* sealed::desc::access_cipher_bytes
    Digest,     \* authed::hash::DIGESTBYTES
    Radix,      \* values of a byte
    MaxBlobs    \* bound: blobs written

symmetric_seal_bytes == Mac + Nonce

\* Blob::overhead
Overhead == symmetric_seal_bytes + Access + Digest

\* One chunk fits into a blob, reference and all.  (Chunks of files have 128 KB
\* at the most, blobs 4 MB; try_append does not check the first chunk against
\* the overhead, so that with smaller blobs it would not notice.)
ASSUME LayoutAssumption ==
    /\ MaxLen \in Nat /\ MaxBlobs \in Nat
    /\ ChunkLen \subseteq Nat \ {0} /\ HrefLen \subseteq Nat \ {0}
    /\ Mac \in Nat \ {0} /\ Nonce \in Nat /\ Access \in Nat /\ Digest \in Nat
    /\ Radix \in Nat \ {0, 1}
    /\ \A h \in HrefLen : h < Radix * Radix - 1
    /\ \A c \in ChunkLen, h \in HrefLen : c + Mac + h + 2 + Overhead <= MaxLen

VARIABLES
    chunks,   \* self.chunks.len()
    footer,   \* self.footer.len()
    entries,  \* the footer's entries: the references of the chunks
    key,      \* which access key the blob is sealed with
    retry,    \* length of a chunk that did not fit, or 0
    blobs,    \* the blobs that were written
    reader    \* BlobReader::refs: which blob, how far, and what it has found

vars == <<chunks, footer, entries, key, retry, blobs, reader>>

NoReader == [blob |-> 0, pos |-> 0, found |-> 0]

LayoutInit ==
    /\ chunks = 0 /\ footer = 0 /\ entries = <<>>
    /\ key = 1 /\ retry = 0
    /\ blobs = <<>>
    /\ reader = NoReader

-----------------------------------------------------------------------------
\* The writer.

upperbound_len == IF chunks = 0 THEN 0 ELSE chunks + footer + Overhead

\* Mutant of Fits: the estimate may reach the size of the blob.
FitsExactly(c, h) == upperbound_len + 1 + h + c + Mac <= MaxLen

\* try_append's estimate leaves out one of the two bytes of the length.
Fits(c, h) == upperbound_len + 1 + h + c + Mac < MaxLen

\* Mutant of Entry: the high byte of the length is dropped.
EntryShort(c, h) ==
    [offset |-> chunks, length |-> c + Mac, key |-> key, at |-> footer,
     size |-> h, lo |-> h % Radix, hi |-> 0]

\* RefKey::seal and the footer entry; u8 keeps the digits of the length.
Entry(c, h) ==
    [offset |-> chunks, length |-> c + Mac, key |-> key, at |-> footer,
     size |-> h, lo |-> h % Radix, hi |-> (h \div Radix) % Radix]

\* A chunk that fits is appended, sealed with the key of this blob.
Append1(c, h) ==
    /\ chunks' = chunks + c + Mac
    /\ footer' = footer + 2 + h
    /\ entries' = Append(entries, Entry(c, h))

\* BlobStore::store
Store(c, h) ==
    /\ retry = 0
    /\ Fits(c, h)
    /\ Append1(c, h)
    /\ UNCHANGED <<key, retry, blobs, reader>>

\* try_append fails, or panics if the blob is empty: StoreInner::store will
\* flush and try again.
StoreFull(c, h) ==
    /\ retry = 0
    /\ chunks > 0
    /\ ~Fits(c, h)
    /\ retry' = c
    /\ UNCHANGED <<chunks, footer, entries, key, blobs, reader>>

\* Mutant of StoreAgain: the chunk is appended as the first try sealed it.
StoreAgainSealed(h) ==
    /\ retry > 0
    /\ chunks = 0
    /\ Fits(retry, h)
    /\ chunks' = chunks + retry + Mac
    /\ footer' = footer + 2 + h
    /\ entries' = Append(entries, [Entry(retry, h) EXCEPT !.key = key - 1])
    /\ retry' = 0
    /\ UNCHANGED <<key, blobs, reader>>

\* The second try must fit; its reference may have another length.
StoreAgain(h) ==
    /\ retry > 0
    /\ chunks = 0
    /\ Fits(retry, h)
    /\ Append1(retry, h)
    /\ retry' = 0
    /\ UNCHANGED <<key, blobs, reader>>

Bigger(m, n) == IF m > n THEN m ELSE n

\* random_pad_upto: where the sealed footer goes.
FooterAt == Bigger(chunks, MaxLen - (footer + Overhead))

\* to_ciphertext, by a flush of the store: its length is asserted.  It makes "a
\* new access key for the next blob to use".
ToCiphertext ==
    /\ chunks > 0
    /\ Len(blobs) < MaxBlobs
    /\ blobs' = Append(blobs, [len |-> FooterAt + footer + Overhead, at |-> FooterAt,
                               chunks |-> chunks, footer |-> footer, key |-> key,
                               entries |-> entries])
    /\ chunks' = 0 /\ footer' = 0 /\ entries' = <<>>
    /\ key' = key + 1
    /\ UNCHANGED <<retry, reader>>

-----------------------------------------------------------------------------
\* The reader.

\* BlobReader::new: what remains of a blob without the digest and the access key.
Rest(b) == b.len - Digest - Access

\* FixedKey::unseal: the length is in the part that was sealed with the data
\* key, and the footer is that much from the right.
FooterStart(b) == Rest(b) - (b.footer + symmetric_seal_bytes)

ReadRefs(n) ==
    /\ n \in 1 .. Len(blobs)
    /\ reader.blob # n
    /\ reader' = [blob |-> n, pos |-> 0, found |-> 0]
    /\ UNCHANGED <<chunks, footer, entries, key, retry, blobs>>

\* One round of refs: the length at pos, and a reference behind it.
ReadRef ==
    /\ reader.blob # 0
    /\ reader.pos < blobs[reader.blob].footer
    /\ LET es == blobs[reader.blob].entries
       IN  \E i \in 1 .. Len(es) :
              /\ es[i].at = reader.pos
              /\ reader' = [reader EXCEPT !.pos = @ + 2 + es[i].lo + Radix * es[i].hi,
                                          !.found = @ + 1]
    /\ UNCHANGED <<chunks, footer, entries, key, retry, blobs>>

LayoutNext ==
    \/ \E c \in ChunkLen, h \in HrefLen : Store(c, h)
    \/ \E c \in ChunkLen, h \in HrefLen : StoreFull(c, h)
    \/ \E h \in HrefLen : StoreAgain(h)
    \/ ToCiphertext
    \/ \E n \in 1 .. MaxBlobs : ReadRefs(n)
    \/ ReadRef

LayoutSpec == LayoutInit /\ [][LayoutNext]_vars

-----------------------------------------------------------------------------
EntryType == [offset : Nat, length : Nat, key : Nat, at : Nat, size : Nat, lo : Nat, hi : Nat]

BlobType == [len : Int, at : Int, chunks : Nat, footer : Nat, key : Nat,
             entries : Seq(EntryType)]

\* The blob is empty exactly when its footer is.
LayoutTypeOK ==
    /\ chunks \in Nat /\ footer \in Nat /\ key \in Nat
    /\ entries \in Seq(EntryType)
    /\ retry \in ChunkLen \cup {0}
    /\ blobs \in Seq(BlobType)
    /\ reader \in [blob : 0 .. Len(blobs), pos : Nat, found : Nat]
    /\ (chunks = 0) <=> (entries = <<>>)

\* Whatever try_append let in fits when the blob is sealed: the assertion of
\* to_ciphertext holds, although the estimate is one byte short per chunk.
FitsWhenSealed == chunks > 0 => chunks + footer + Overhead <= MaxLen

\* Every blob has the same length (assert_eq!(out.len(), self.max_len)), and
\* the footer is where the reader will look for it: nothing but its own length
\* and the end of the blob lead there.
BlobIsExact ==
    \A n \in 1 .. Len(blobs) :
        /\ blobs[n].len = MaxLen
        /\ FooterStart(blobs[n]) = blobs[n].at
        /\ blobs[n].chunks <= blobs[n].at

Apart(es) ==
    \A i, j \in 1 .. Len(es) : i < j => es[i].offset + es[i].length <= es[j].offset

\* The slice of a reference is inside the chunks, apart from every other one,
\* and strictly inside what the reader keeps of the blob, which RefKey::unseal
\* asserts; and it was sealed with the access key that is in the blob, also if
\* it was sealed twice because it had to wait for the next blob.
SlicesAreReadable ==
    \A n \in 1 .. Len(blobs) :
        /\ Apart(blobs[n].entries)
        /\ \A i \in 1 .. Len(blobs[n].entries) :
              LET e == blobs[n].entries[i]
              IN  /\ e.offset + e.length <= blobs[n].chunks
                  /\ e.offset + e.length < Rest(blobs[n])
                  /\ e.key = blobs[n].key

\* refs reads the footer in step with how it was written: after i references
\* it is at the end of the i-th entry, so it finds all of them and ends at the
\* end of the footer.
RefsInStep ==
    reader.blob # 0 =>
        LET b == blobs[reader.blob]
        IN  /\ reader.found <= Len(b.entries)
            /\ reader.pos = IF reader.found = Len(b.entries) THEN b.footer
                            ELSE b.entries[reader.found + 1].at

\* The entries es of a footer of f bytes describe c bytes of chunks, one after
\* another and without gaps, all sealed with key k.
Chained(es, c, f, k) ==
    /\ es = <<>> => c = 0 /\ f = 0
    /\ es # <<>> => es[1].at = 0
    /\ Apart(es)
    /\ \A i \in 1 .. Len(es) :
          /\ es[i].key = k
          /\ es[i].offset + es[i].length <= c
          /\ es[i].lo + Radix * es[i].hi = es[i].size
          /\ es[i].at + 2 + es[i].size = IF i = Len(es) THEN f ELSE es[i + 1].at
          /\ es[i].at < f
          /\ \A j \in 1 .. Len(es) : i < j => es[i].at < es[j].at

\* The invariant that the properties above follow from: the blob that is being
\* written and every blob that was are chained.
LayoutInv ==
    /\ LayoutTypeOK
    /\ FitsWhenSealed
    /\ Chained(entries, chunks, footer, key)
    /\ \A n \in 1 .. Len(blobs) :
          /\ Chained(blobs[n].entries, blobs[n].chunks, blobs[n].footer, blobs[n].key)
          /\ blobs[n].entries # <<>>
    /\ BlobIsExact
    /\ RefsInStep

=============================================================================
