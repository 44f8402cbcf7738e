----------------------------- MODULE MCKeyStore -----------------------------
(***************************************************************************)
(* In the root, d is a directory or a file and g a file or a link; f in d  *)
(* is a file.  f and g have the same content, and what d has as a file is  *)
(* the content of an empty one.  Any of them may be scanned.               *)
(***************************************************************************)
EXTENDS KeyStore, TLC

CONSTANTS d, f, g, h1, h2

PathDef == {Top, d, f, g}
ParentDef == (d :> Top) @@ (f :> d) @@ (g :> Top)

V(kind, mtime, data) == [kind |-> kind, mtime |-> mtime, data |-> data]

VersionsDef ==
    (Top :> {V("dir", 1, NoData)}) @@
    (d :> {V("dir", 1, NoData), V("file", 2, h2)}) @@
    (f :> {V("file", 1, h1)}) @@
    (g :> {V("file", 1, h1), V("link", 2, Link)})

=============================================================================
