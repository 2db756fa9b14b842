----------------------------- MODULE MCPugArray -----------------------------
(* What TLC tells apart of two states of PugArray: not the names of the     *)
(* backing arrays, and not the cells that no array shows, because they are  *)
(* written before they are read again.                                      *)
EXTENDS PugArray

Shown(k, i) ==
    \E a \in Live : items[a].blk = k /\ i \in items[a].off + 1 .. items[a].off + items[a].len

SeenOf(h) ==
    <<h.off, h.len, [i \in DOMAIN memory[h.blk] |-> IF Shown(h.blk, i) THEN memory[h.blk][i] ELSE 0]>>

MCView ==
    <<[a \in Ids |-> IF a \in Live THEN SeenOf(items[a]) ELSE Absent],
      {ab \in Live \X Live : items[ab[1]].blk = items[ab[2]].blk}>>
=============================================================================
