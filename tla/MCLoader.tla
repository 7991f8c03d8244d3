------------------------------ MODULE MCLoader ------------------------------
(***************************************************************************)
(* Loader.tla on small cartridges: two transfers per bank, so that the     *)
(* copying loops have a first and a last turn and a bank can be missing.   *)
(* The directory holds a file of each size, one whose header is rejected   *)
(* and one that ends early.                                                *)
(***************************************************************************)
EXTENDS Loader

GameFile(name, banks, chrs, vert, n) ==
    [name |-> name, opens |-> TRUE, header |-> "ok", prg |-> banks,
     chr |-> chrs, vertical |-> vert, transfers |-> n]

Small == GameFile("small", 1, 1, FALSE, 4)
Large == GameFile("large", 2, 0, TRUE, 4)
Cut == GameFile("cut", 2, 1, TRUE, 3)
Huge == GameFile("huge", 3, 0, TRUE, 6)

MCFiles == <<Small, Huge, Large, Cut>>
=============================================================================
