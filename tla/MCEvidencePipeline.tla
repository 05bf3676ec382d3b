------------------------- MODULE MCEvidencePipeline -------------------------
(***************************************************************************)
(* EvidencePipeline for TLC: a photograph and an infected file of the same *)
(* size, and two workers of different releases.                            *)
(***************************************************************************)
EXTENDS EvidencePipeline

CONSTANTS w1, w2

Photo == [sha256 |-> "photo", mime |-> "image/jpeg", size |-> 1,
          clean |-> TRUE, decodes |-> TRUE]
Infected == [sha256 |-> "infected", mime |-> "image/jpeg", size |-> 1,
             clean |-> FALSE, decodes |-> TRUE]
Declared(content) ==
  [sha256 |-> content.sha256, mime |-> content.mime, size |-> content.size]

MCContents == {Photo, Infected}
MCRequests == {Declared(Photo), Declared(Infected)}
MCAllowedMimes == {"image/jpeg"}
MCBuild == [w \in Workers |-> IF w = w1 THEN "old" ELSE "new"]
MCLongerThan == {<<"new", "old">>}

=============================================================================
