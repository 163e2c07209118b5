---------------------------- MODULE MCProjectListing ----------------------------
(***************************************************************************)
(* Instance of ProjectListing for TLC: the default order, and one in which *)
(* three of four projects belong to the same owner.                        *)
(***************************************************************************)
EXTENDS ProjectListing

MCColumns == {"created_at", "owner_id"}
MCKey == [c \in MCColumns |->
            [p \in Projects |-> IF c = "created_at" THEN p ELSE IF p = 2 THEN 2 ELSE 1]]
================================================================================
