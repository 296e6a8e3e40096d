----------------------------- MODULE MCJobQueue -----------------------------
(* Small instances of JobQueue for TLC. *)
EXTENDS JobQueue, TLC

CONSTANTS a, b, alist, va, vb

Call(urls, force, priority) == [urls |-> urls, force |-> force, priority |-> priority]

\* One video, submitted plainly and by force at a higher priority.
OneVideoOf == a :> va
OneVideoRequests == {Call(<<a>>, FALSE, 100), Call(<<a>>, TRUE, 50)}
\* The same video named twice in one call, and by force in another.
TwiceRequests == {Call(<<a>>, TRUE, 50), Call(<<a, a>>, FALSE, 100)}
\* A playlist of two videos, and one of its videos named beside it.
ListVideoOf == (a :> va) @@ (b :> vb)
ListListing == alist :> {a, b}
ListRequests == {Call(<<alist>>, FALSE, 100), Call(<<a, alist>>, FALSE, 100)}

NoListing == [c \in {} |-> {}]
=============================================================================
