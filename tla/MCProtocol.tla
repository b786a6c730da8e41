----------------------------- MODULE MCProtocol -----------------------------
(* Instances of Protocol. *)
EXTENDS Protocol, TLC

CONSTANTS dir, sub, leaf, link, away, other

\* A directory with a directory, a file in that, and a link; a directory
\* elsewhere, with a file.
MCPaths == {dir, sub, leaf, link, away, other}
MCParent == dir :> dir @@ sub :> dir @@ link :> dir @@ leaf :> sub
            @@ away :> away @@ other :> away
=============================================================================
