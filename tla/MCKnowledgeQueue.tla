--------------------------- MODULE MCKnowledgeQueue ---------------------------
(* Small instances of KnowledgeQueue for TLC. *)
EXTENDS KnowledgeQueue

\* Observations 1 and 2 belong to workspace 1, observation 3 to workspace 2.  The
\* second is the older of the first two, against the order of the ids.
OfThree == <<1, 1, 2>>
CreatedThree == <<1, 0, 0>>

\* Two observations of one workspace, the first the older.
OfTwo == <<1, 1>>
CreatedTwo == <<0, 1>>
=============================================================================
