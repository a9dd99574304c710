------------------------------- MODULE MCMcp --------------------------------
(***************************************************************************)
(* One target of one entry.  Rename: at one destination, "t" is replaced   *)
(* by "u", with a new value for the entry.  Moves: "t" is declared at one  *)
(* destination, moved to another, and declared at the first again without  *)
(* the entry.                                                              *)
(***************************************************************************)
EXTENDS McpReconcile

OneFileEach == [p \in Places |-> p]

Declared(n, place, value) ==
    [m \in Names |-> IF m = n
        THEN [place |-> place, servers |-> [k \in Keys |-> value],
              adopt |-> {}, retire |-> [k \in Keys |-> {}]]
        ELSE None]
Rename == {Declared("t", "here", "v"), Declared("u", "here", "w")}
Moves == {Declared("t", "here", "v"), Declared("t", "there", "v"),
          Declared("t", "here", None)}
=============================================================================
