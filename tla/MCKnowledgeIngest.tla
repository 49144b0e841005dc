------------------------- MODULE MCKnowledgeIngest -------------------------
(***************************************************************************)
(* KnowledgeIngest with two ingests: one of a folder that holds the same   *)
(* text twice, one of a folder with a blank file, that text and a file that *)
(* cannot be read.  The workspace gamma has no row in the store.           *)
(***************************************************************************)
EXTENDS KnowledgeIngest

CONSTANTS i1, i2

ContentDef == {"text", "blank", "binary"}
BlankDef == {"blank"}
UnreadableDef == {"binary"}
FolderDef ==
  [i \in Ingest |->
     IF i = i1 THEN <<"text", "text">> ELSE <<"blank", "text", "binary">>]
=============================================================================
