-------------------------- MODULE MCExtendedRestore --------------------------
(* Instances of ExtendedRestore for TLC: one string, one preset slot and the selector switch, *)
(* and a slot that the body does not have.                                                    *)
EXTENDS ExtendedRestore, TLC

CONSTANTS artist, slot, slot2, selector, e, x, z, p, q, u

MCOrder == <<artist, slot, slot2, selector>>
MCItems == {artist, slot, slot2, selector, Ftp}

BodyOf(a, s, w, l) ==
    [val |-> (artist :> a) @@ (slot :> s) @@ (slot2 :> e) @@ (selector :> w), ftp |-> l]
ListOf(l, whole) == [state |-> "read", list |-> l, whole |-> whole]
SourceOf(a, s, s2, w, f) ==
    [val |-> (artist :> a) @@ (slot :> s) @@ (slot2 :> s2) @@ (selector :> w), ftp |-> f]

\* A body with its presets empty, one with a preset, one with an empty list.
MCBodies == {BodyOf(e, e, e, <<p, q>>), BodyOf(z, x, x, <<>>)}

\* A whole snapshot that differs everywhere; one with gaps, a slot the body lacks and part of a
\* list; one whose list has a profile that cannot be sent; one that differs in a too long list.
MCSources == {
    SourceOf(x, x, Lacks, x, ListOf(<<q, p>>, TRUE)),
    SourceOf(z, e, x, Unread, ListOf(<<p>>, FALSE)),
    SourceOf(Lacks, x, Lacks, e, ListOf(<<q, u>>, TRUE)),
    SourceOf(e, e, Lacks, e, ListOf(<<p, q, p>>, TRUE))}
MCScopes == {Categories, {"iptc", "ftp"}}
=============================================================================
