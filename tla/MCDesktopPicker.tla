--------------------------- MODULE MCDesktopPicker ---------------------------
(* A small instance of DesktopPicker for TLC. *)
EXTENDS DesktopPicker, TLC

CONSTANTS near, far, bad

\* Two servers, and a URL that names none.
OriginOf == (near :> near) @@ (far :> far) @@ (bad :> None)

Symmetric == Permutations(Check) \cup Permutations(Link)
                 \cup Permutations(Shortcut \ {DefaultKey})
=============================================================================
