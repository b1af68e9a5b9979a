------------------------------- MODULE Mappings -------------------------------
(* Python's dicts, as functions. *)

\* dict.update: what f says, and what g says where f says nothing.  (The @@ of TLC,
\* of which a prover knows no definition.)
Over(f, g) ==
    [x \in DOMAIN f \union DOMAIN g |-> IF x \in DOMAIN f THEN f[x] ELSE g[x]]
===============================================================================
