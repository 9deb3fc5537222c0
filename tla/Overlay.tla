--------------------------------- MODULE Overlay ---------------------------------
(* Functions laid over one another, as a dict is updated with another.         *)

Over(f, g) == [x \in DOMAIN f \union DOMAIN g |-> IF x \in DOMAIN f THEN f[x] ELSE g[x]]
Put(f, x, y) == [z \in DOMAIN f \union {x} |-> IF z = x THEN y ELSE f[z]]
================================================================================
